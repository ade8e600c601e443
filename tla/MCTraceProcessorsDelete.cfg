SPECIFICATION Spec
CONSTANTS
  Keys = {shared}
  Shared = shared
  None = None
  MaxAttempts = 1
  MaxTraces = 1
  MaxLoads = 1
  MaxCrashes = 0
  MaxRequests = 1
INVARIANTS DeleteCleansUp
CHECK_DEADLOCK FALSE
