SPECIFICATION FairSpec
CONSTANTS
  MaxBatches = 3
  MaxFaults = 2
INVARIANTS
  PersistedFirst
  CompletedIsWhole
  NothingLeftBehind
PROPERTIES
  CancelEnds
CHECK_DEADLOCK FALSE
