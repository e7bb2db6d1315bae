SPECIFICATION ValidateSpec
CONSTANTS
  Inventories <- ValidateInventories
  Flows <- MCFlows
  Malformed = "bad"
  MaxHops = 3
  Runners = {"ssh"}
  Formats = {"bare", "table"}
  Count = 3
INVARIANT RepliesSeen
CHECK_DEADLOCK FALSE
