SPECIFICATION FairSpec
CONSTANTS
  Writers = {w1, w2}
  Reads = {r1, r2, r3}
  Callers = {w1}
  NoCall = NoCall
  ReadCap = 2
INVARIANTS TypeOK WriterAlone NoIdleSlot
PROPERTIES NoOvertaking EveryCallSettles
CHECK_DEADLOCK FALSE
