SPECIFICATION TwinSpec
CONSTANTS
  Inventories <- TwinInventories
  Flows <- MCFlows
  Malformed = "bad"
  MaxHops = 3
  Order <- MCOrder
INVARIANT PathTypeOK
INVARIANT NoDeviceTwice
INVARIANT HopsJustified
INVARIANT DeliveredArrives
INVARIANT SameAnswer
CHECK_DEADLOCK FALSE
