SPECIFICATION FairSpec
CONSTANTS
  a = a
  b = b
  c = c
  Tasks <- MCTasks
  NoTask = NoTask
  priority <- MCPriority
  byteLength <- MCByteLength
  maxQueuedTasks = 2
  maxQueuedBytes = 2
  MaxCrashes = 1
INVARIANTS TypeOK NobodyWaitsInVain QueueBounded WaitingMatches OverlapBounded OrphansBounded
PROPERTIES SettledOnce EveryQuerySettles
CHECK_DEADLOCK FALSE
