CONSTANTS
  Slots = {a, b}
  Shared = Shared
  Capacity = 1
  MaxInputs = 3
  Never = Never
  StallThreshold = 1
  MaxFailures = 1
  MaxConnections = 1
SPECIFICATION Spec
SYMMETRY Symmetry
INVARIANTS
  TypeOK
PROPERTIES
  ToldOncePerRefusal
  RefusalEndsByOwnTraffic
CHECK_DEADLOCK FALSE
