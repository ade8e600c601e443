SPECIFICATION FairSpec
CONSTANTS
  Keys = {shared}
  Shared = shared
  None = None
  MaxAttempts = 2
  MaxTraces = 3
  MaxLoads = 2
  MaxCrashes = 1
  MaxRequests = 1

PROPERTIES DeletionEnds RestartEnds
CHECK_DEADLOCK FALSE
