SPECIFICATION Spec
CONSTANTS
  Workers = {w1, w2, w3}
  w1 = w1
  w2 = w2
  w3 = w3
  StreamCap = 1
  MaxStep = 1
  MaxRelays = 1
  MaxFaults = 0
  Strays = FALSE
SYMMETRY Symmetry
INVARIANTS TypeOK CommitInv AgreeOnRounds AggregatorsAgree
PROPERTIES LockStep
