SPECIFICATION FairSpec
CONSTANTS
  Procs = {p1, p2}
  NoProc = NoProc
  MaxUpdates = 2
  MaxFailures = 2
INVARIANTS TypeOK SerializedUnlessStolen
PROPERTIES RemovesOwnLock NobodyTriesForEver
CHECK_DEADLOCK FALSE
