CONSTANTS
  Kinds = {"state"}
  Dedicated = FALSE
  Capacity = 1
  MaxEvents = 3
  MaxLosses = 0
SPECIFICATION FairSpec
PROPERTY LagEndsInReconnect
CHECK_DEADLOCK FALSE
