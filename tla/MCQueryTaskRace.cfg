SPECIFICATION Spec
CONSTANTS
  MaxBatches = 1
  MaxFaults = 0
INVARIANTS
  CompletionKept
CHECK_DEADLOCK FALSE
