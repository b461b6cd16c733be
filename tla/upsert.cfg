SPECIFICATION FairSpec
CONSTANTS
  Inserters = {i1, i2, i3}
  i1 = i1
  i2 = i2
  i3 = i3
  NumBatches = 5
  MaxFailures = 3
INVARIANTS TypeOK NothingInFlight
PROPERTIES FulfilsContract CallerReturns InsertersEnd
CHECK_DEADLOCK FALSE
