CONSTANTS
  Callers = {a, b}
  Intents = {open, close}
  Null = Null
SPECIFICATION FairSpec
INVARIANTS
  TypeOK
  RefusedMeansNotBroadcast
  IdsAreTracked
  VerdictsAgree
PROPERTY TrackingDecides
CHECK_DEADLOCK FALSE
