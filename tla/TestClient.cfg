CONSTANTS
  a1 = a1
  a2 = a2
  ch = ch
  safe = safe
  sv1 = sv1
  sv2 = sv2
  ty = ty
  only = only
  bal = bal
  Keys <- MCKeys
  Initial <- MCInitial
  Source <- MCSource
  Destination <- MCDestination
  Values <- MCValues
  Subscribers = {s1, s2}
  Updaters = {u1, u2}
  TxIds = {t1}
  Foreign = f
  Capacity = 1
  MaxChanges = 2
SYMMETRY Symmetry
SPECIFICATION Spec
INVARIANTS
  TypeOK
  LockedStreamsMissNothing
  OtherStreamsMissOnlyTheGap
  TicketParamsSettle
  ToldOnceAndTruly
  NoTransactionLost
PROPERTY RevertLeavesNoTrace
CHECK_DEADLOCK FALSE
