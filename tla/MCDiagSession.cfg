SPECIFICATION FairSpec
CONSTANTS
  Writers = {s1}
  Fields <- MCFields
  Payloads <- MCPayloads
  MaxAppends = 2
  Devices <- MCDevices
  IpTargets <- MCIpTargets
  Approvals <- MCApprovals
  AnyHost = "*"
  ConfigWriteCap = FALSE
  Requests <- MCRequests
  Runners = {"exec", "ssh", "simulate", "none"}
  MaxRequests = 2
INVARIANT TypeOK
INVARIANT OnlyAuthorisedSent
INVARIANT StatusTellsSent
INVARIANT SentIsAudited
PROPERTY SerialTrail
PROPERTY DeadlineAnswers
CHECK_DEADLOCK FALSE
