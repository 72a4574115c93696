SPECIFICATION Spec
CONSTANTS
  Requests = {1, 2}
  CancelCalls = {1, 2}
  Plans <- MCPlans
  MaxClicks = 1
  HistoryBatchLimit = 1
  MaxRecords = 1
CHECK_DEADLOCK FALSE
INVARIANT MissingMeansOver
