SPECIFICATION FairSpec
CONSTANTS
  Clients = {c1}
  ShutdownCalls = {}
  MaxAcquires = 2
  ParkCapable = TRUE
CHECK_DEADLOCK FALSE
PROPERTY IdleEngineReaped
