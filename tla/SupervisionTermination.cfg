CONSTANTS
  Slots = {a, b}
  Shared = Shared
  Restarts = FALSE
  Faults = {"slot"}
  Slow = {}
  MaxStale = 1
SPECIFICATION FairSpec
PROPERTY EndedStreamTerminates
CHECK_DEADLOCK FALSE
