SPECIFICATION FairSpec
CONSTANTS
  Streams = {s1, s2, s3, s4}
  s1 = s1
  s2 = s2
  s3 = s3
  s4 = s4
  MinWorkers = 2
  MaxDisconnects = 1
INVARIANTS TypeOK HandedOver ClosedOnce NoneForgotten NoLostWakeup
PROPERTIES ReserveEndsUnblocked CloseEnds
CHECK_DEADLOCK FALSE
