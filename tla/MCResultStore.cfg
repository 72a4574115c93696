SPECIFICATION Spec
CONSTANTS
  Results = {r1, r2}
  MaxRetained = 4
  MaxBatches = 2
SYMMETRY Symmetry
INVARIANTS
  QuotaHeld
  CompleteIsWhole
  LeaseHolds
  AnswerTruthful
PROPERTIES
  StartupClean
