SPECIFICATION Spec
CONSTANTS
  MaxCreditGrant = 1
  MaxOutstandingCredits = 1
  Capacity = 3
  ControlSlots = 2
  MaxControls = 2
  BatchRows = {2}
  MaxBatches = 2
INVARIANTS
  NoProtocolError
  CreditConservation
  EndReported
  ReleasedIsOver
  CancelHonoured
PROPERTIES
  TerminalFrees
CHECK_DEADLOCK FALSE
