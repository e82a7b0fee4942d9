CONSTANTS
  Never = Never
  StallThreshold = 2
  MaxFailures = 2
  MaxConnections = 2
  MaxTime = 4
SPECIFICATION Spec
INVARIANTS
  TypeOK
  LagIsVisible
  FailuresCountTheOutage
PROPERTY RecoveryReportsTheOutage
CHECK_DEADLOCK FALSE
