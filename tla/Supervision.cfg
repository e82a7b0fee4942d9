CONSTANTS
  Slots = {a, b}
  Shared = Shared
  Restarts = FALSE
  Faults = {"build", "open", "slot", "runtime"}
  Slow = {a, b}
  MaxStale = 0
SPECIFICATION Spec
SYMMETRY Symmetry
INVARIANTS
  TypeOK
  NoOrphan
  StaleConnectionIsWoken
CHECK_DEADLOCK FALSE
