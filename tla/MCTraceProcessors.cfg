SPECIFICATION Spec
CONSTANTS
  Keys = {shared, isolated}
  Shared = shared
  None = None
  MaxAttempts = 1
  MaxTraces = 2
  MaxLoads = 1
  MaxCrashes = 1
  MaxRequests = 0
INVARIANTS TypeOK NoProcessorWithoutTrace EveryProcessorIsOwned
PROPERTIES CancelledRestartLeavesNothing DeletionIsABarrier
CHECK_DEADLOCK FALSE
