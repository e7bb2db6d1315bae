SPECIFICATION Spec
CONSTANTS
  Writers = {s1, s2}
  Fields <- MCFields
  Payloads <- MCPayloads
  MaxAppends = 2
  Devices <- MCDevices
  IpTargets <- MCIpTargets
  Approvals <- MCApprovals
  AnyHost = "*"
  ConfigWriteCap = FALSE
  Requests <- FewRequests
  Runners = {"exec"}
  MaxRequests = 1
INVARIANT AuditComplete
CHECK_DEADLOCK FALSE
