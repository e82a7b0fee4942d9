CONSTANTS
  Kinds = {"log", "state"}
  Dedicated = FALSE
  Capacity = 2
  MaxEvents = 4
  MaxLosses = 1
SPECIFICATION FairSpec
INVARIANTS
  TypeOK
  ShownLagIsFlagged
  OnlyDropsAreMissing
PROPERTY GapIsShown
CHECK_DEADLOCK FALSE
