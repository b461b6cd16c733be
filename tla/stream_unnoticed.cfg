SPECIFICATION Spec
CONSTANTS
  MaxPayloads = 3
  MaxFaults = 1
INVARIANTS MasterTold
CHECK_DEADLOCK FALSE
