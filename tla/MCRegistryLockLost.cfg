SPECIFICATION Spec
CONSTANTS
  Procs = {p1, p2, p3}
  NoProc = NoProc
  MaxUpdates = 1
  MaxFailures = 1
SYMMETRY Symmetry
INVARIANTS NoLostUpdate
CHECK_DEADLOCK FALSE
