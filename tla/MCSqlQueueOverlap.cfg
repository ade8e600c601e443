SPECIFICATION Spec
CONSTANTS
  a = a
  b = b
  c = c
  Tasks <- MCTasks
  NoTask = NoTask
  priority <- MCPriority
  byteLength <- MCByteLength
  maxQueuedTasks = 2
  maxQueuedBytes = 2
  MaxCrashes = 1
INVARIANTS OneQueryExecutes
CHECK_DEADLOCK FALSE
