SPECIFICATION FairSpec
CONSTANTS
  Streams = {s1, s2, s3, s4}
  s1 = s1
  s2 = s2
  s3 = s3
  s4 = s4
  MinWorkers = 2
  MaxDisconnects = 1
PROPERTIES ReserveEnds
CHECK_DEADLOCK FALSE
