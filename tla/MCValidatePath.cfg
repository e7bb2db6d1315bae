SPECIFICATION ValidateSpec
CONSTANTS
  Inventories <- ValidateInventories
  Flows <- MCFlows
  Malformed = "bad"
  MaxHops = 3
  Runners = {"ssh", "exec", "simulate", "none"}
  Formats = {"rate", "stats", "marks"}
  Count = 2
INVARIANT MatchIsObserved
INVARIANT RepliesSeen
INVARIANT ChecksFollowPath
INVARIANT TracedNeverFails
CHECK_DEADLOCK FALSE
