SPECIFICATION Spec
CONSTANTS
  Workers = {w1, w2}
  w1 = w1
  w2 = w2
  StreamCap = 1
  MaxStep = 1
  MaxRelays = 3
  MaxFaults = 0
  Strays = TRUE
SYMMETRY Symmetry
INVARIANTS SomeoneCanGoOn
CHECK_DEADLOCK FALSE
