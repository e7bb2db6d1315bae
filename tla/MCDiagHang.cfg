SPECIFICATION FairSpec
CONSTANTS
  Writers = {s1}
  Fields <- MCFields
  Payloads <- MCPayloads
  MaxAppends = 1
  Devices <- MCDevices
  IpTargets <- MCIpTargets
  Approvals <- MCApprovals
  AnyHost = "*"
  ConfigWriteCap = FALSE
  Requests <- FewRequests
  Runners = {"ssh"}
  MaxRequests = 1
PROPERTY EveryRequestAnswered
CHECK_DEADLOCK FALSE
