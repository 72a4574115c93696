SPECIFICATION Spec
CONSTANTS
  MaxBatches = 1
  MaxFaults = 0
INVARIANTS
  ShutdownEndsOperations
CHECK_DEADLOCK FALSE
