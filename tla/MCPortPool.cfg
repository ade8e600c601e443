SPECIFICATION Spec
CONSTANTS
  Keys = {k1, k2}
  NoKey = NoKey
  NumPorts = 2
  MaxProcessors = 3
  MaxOutside = 1
  maxProcessors = 1
  maxAttempts = 2
SYMMETRY Symmetry
INVARIANTS TypeOK AllocationsAreOwned KeepsPortUnlessLate
CHECK_DEADLOCK FALSE
