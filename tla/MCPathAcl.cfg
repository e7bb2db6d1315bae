SPECIFICATION PathSpec
CONSTANTS
  Inventories <- LabelledInventories
  Flows <- MCFlows
  Malformed = "bad"
  MaxHops = 3
INVARIANT FirstEntryUsed
CHECK_DEADLOCK FALSE
