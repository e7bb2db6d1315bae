SPECIFICATION OfflineSpec
CONSTANTS
  Procs <- MCProcs
  Sessions <- MCSessions
  Trees <- MCTrees
  MaxVLAN = 9
  WideRange = 3
INVARIANT StoreTellsWrites
INVARIANT BlocksAsWritten
INVARIANT PortsKept
INVARIANT FortiAsNested
INVARIANT SetLinesCommute
INVARIANT AnswersExact
INVARIANT FindingsExact
INVARIANT ChangesTellDifference
INVARIANT NeighborsTellFiles
INVARIANT TopologyTellsReports
CHECK_DEADLOCK FALSE
