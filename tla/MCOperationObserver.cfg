SPECIFICATION ObserverFairSpec
CONSTANTS
  s1 = s1
  s2 = s2
  Operations = {o1, o2}
  Subscribers = {s1, s2}
  O = o1
  Streams <- TwoStreams
  MaxReconnects = 1
  ReplayCapacity = 1
  OperationCapacity = 1
  MaxEvents = 3
PROPERTIES
  GapFree
  ViewRefined
  NothingStaysSubscribed
  ObservationEnds
CHECK_DEADLOCK FALSE
