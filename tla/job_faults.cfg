SPECIFICATION Spec
CONSTANTS
  Workers = {w1, w2}
  w1 = w1
  w2 = w2
  StreamCap = 2
  MaxStep = 1
  MaxRelays = 1
  MaxFaults = 1
  Strays = TRUE
SYMMETRY Symmetry
INVARIANTS CommitIsTotal NoMessageMissed RelayedInStep StraysAbort
CONSTRAINT FaultsOrStrays
