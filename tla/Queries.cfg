CONSTANTS
  Null = Null
  MaxInt = 7
  Callers = {a}
  Questions <- AllQuestions
  Worlds <- AllWorlds
  MaxBlock = 3
  PageSize = 1
  AccountConcurrency = 1
  Elsewhere = Elsewhere
SPECIFICATION FairSpec
INVARIANTS
  TypeOK
  DoubleAgrees
  ErrorsToldApart
  OptionsRestrict
PROPERTIES
  ImplementsReads
  CallsEnd
CHECK_DEADLOCK FALSE
