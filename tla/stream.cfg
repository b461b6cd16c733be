SPECIFICATION Spec
CONSTANTS
  MaxPayloads = 3
  MaxFaults = 1
INVARIANTS TypeOK PayloadsInOrder ToldUnlessBlocked
