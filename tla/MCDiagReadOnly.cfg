SPECIFICATION Spec
CONSTANTS
  Writers = {s1}
  Fields <- MCFields
  Payloads <- MCPayloads
  MaxAppends = 2
  Devices <- MCDevices
  IpTargets <- MCIpTargets
  Approvals <- MCApprovals
  AnyHost = "*"
  ConfigWriteCap = FALSE
  Requests <- MCRequests
  Runners = {"exec"}
  MaxRequests = 1
INVARIANT DiagnosticReadOnly
CHECK_DEADLOCK FALSE
