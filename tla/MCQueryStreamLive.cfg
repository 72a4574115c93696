SPECIFICATION CancelFairSpec
CONSTANTS
  MaxCreditGrant = 1
  MaxOutstandingCredits = 1
  Capacity = 2
  ControlSlots = 2
  MaxControls = 1
  BatchRows = {1}
  MaxBatches = 1
PROPERTIES
  DropSettles
  CleanupHappens
CHECK_DEADLOCK FALSE
