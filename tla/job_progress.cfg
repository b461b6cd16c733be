SPECIFICATION FairSpec
CONSTANTS
  Workers = {w1, w2}
  w1 = w1
  w2 = w2
  StreamCap = 1
  MaxStep = 1
  MaxRelays = 0
  MaxFaults = 1
  Strays = FALSE
PROPERTIES EveryoneReturns FaultFreeJobSucceeds
