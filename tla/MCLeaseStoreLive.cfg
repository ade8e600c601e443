SPECIFICATION FairSpec
CONSTANTS
  Leases = {l1, l2}
  Traces = {t1}
  NoTrace = NoTrace
  Holders = {h1}
  Policies <- ShortOnly
  MaxCrashes = 1
PROPERTIES DrainTerminates AbandonedLeasesRetire
CHECK_DEADLOCK FALSE
