SPECIFICATION Spec
CONSTANTS
  Writers = {s1, s2}
  Fields <- PairFields
  Payloads <- PairPayloads
  MaxAppends = 3
  Devices <- MCDevices
  IpTargets <- MCIpTargets
  Approvals <- MCApprovals
  AnyHost = "*"
  ConfigWriteCap = FALSE
  Requests <- PairRequests
  Runners = {"none"}
  MaxRequests = 2
SYMMETRY SessionSymmetry
INVARIANT AuditTypeOK
INVARIANT AuditIdsUnique
INVARIANT UncontendedEntryKept
INVARIANT AuditMatchesAnswer
CHECK_DEADLOCK FALSE
