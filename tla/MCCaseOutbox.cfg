SPECIFICATION FairSpec
CONSTANTS
  NumCandidates = 2
  key <- MCKey
  Workers = {w1, w2}
  maxAttempts = 2
  queueMax = 1
  dailyBudget = 1
  ingestEnabled = TRUE
  MaxEvents <- MCEvents
  Projections = {p1, p2}
INVARIANTS TypeOK ReviewedCaseExists AppliedFeedbackIsInForce
PROPERTIES ExhaustedIsTerminal ReviewEnds ImplementsFencedOutbox
CHECK_DEADLOCK FALSE
