SPECIFICATION Spec
CONSTANTS
  Leases = {l1, l2}
  Traces = {t1}
  NoTrace = NoTrace
  Holders = {h1, h2}
  Policies <- MCPolicies
  MaxCrashes = 1
SYMMETRY Symmetry
INVARIANTS TypeOK OneSharedLease ActivityMatchesHolders LeaseOutlivesHolder
PROPERTIES ImplementsContract
CHECK_DEADLOCK FALSE
