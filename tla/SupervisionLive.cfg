CONSTANTS
  Slots = {a, b}
  Shared = Shared
  Restarts = TRUE
  Faults = {"runtime"}
  Slow = {a}
  MaxStale = 1
SPECIFICATION FairSpec
PROPERTIES
  Served
  ResyncHonoured
  SharedConnectionCloses
CHECK_DEADLOCK FALSE
