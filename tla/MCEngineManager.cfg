SPECIFICATION FairSpec
CONSTANTS
  Clients = {c1, c2}
  ShutdownCalls = {s1}
  MaxAcquires = 2
  ParkCapable = TRUE
INVARIANTS
  ArmedTimersAreIdle
  LeaseAccounting
  LeaseKeepsGeneration
  SingleProcess
  ShutdownMeansReaped
PROPERTIES
  NoLeaseAfterShutdown
  AcquireAnswered
  ShutdownAnswered
CHECK_DEADLOCK FALSE
