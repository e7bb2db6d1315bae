SPECIFICATION CollectFairSpec
CONSTANTS
  Plans <- MCPlans
  FileOf <- MCFileOf
  Runner = "exec"
  Faults = {{"mkdir", "write"}, {"open", "audit"}}
  MaxRuns = 2
INVARIANT CollectTypeOK
INVARIANT OnlyConfirmedSent
INVARIANT AuditFollowsRun
INVARIANT CleanRunFresh
INVARIANT AuditTellsFiles
INVARIANT ErrorsAddUp
PROPERTY RunEnds
CHECK_DEADLOCK FALSE
