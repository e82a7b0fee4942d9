CONSTANTS
  Kinds = {"history"}
  Dedicated = TRUE
  Capacity = 2
  MaxEvents = 4
  MaxLosses = 2
SPECIFICATION FairSpec
PROPERTY ImplementsFeed
CHECK_DEADLOCK FALSE
