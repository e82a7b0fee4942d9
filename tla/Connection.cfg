CONSTANTS
  Null = Null
  MaxInt = 7
  Slots = {1, 2, 3}
  Specs <- AllSpecs
  Scopes <- AllScopes
  Settings <- AllSettings
  MinDelay = 1
  DefaultDelay = 2
  FirstDelay = 1
  Debounce = 1
  MaxDebounce = 1
  StallThreshold = 1
  MaxStale = 1
  MaxQuiet = 7
  MaxInARow = 3
SPECIFICATION Spec
INVARIANTS
  TypeOK
  DocumentsCombine
  SilenceIsTold
PROPERTY RetriesArePaced
