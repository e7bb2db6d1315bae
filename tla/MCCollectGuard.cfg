SPECIFICATION GuardSpec
CONSTANTS
  Inventories <- MCInventories
  AllowCIDRs <- MCAllowCIDRs
  DenyCIDRs <- MCDenyCIDRs
  AllowCommands <- MCAllow
  DenyPatterns <- MCDeny
  Mode = "inventory_only"
  MaxTargetsPerRun = 0
  MaxTargetsPerCIDR = 1
  DefaultPerRun = 2
  DefaultPerCIDR = 3
  Blank = ""
  Malformed = "bad"
INVARIANT GuardTypeOK
INVARIANT LimitsRespected
INVARIANT PlanInScope
INVARIANT PlanMatchesLimits
CHECK_DEADLOCK FALSE
