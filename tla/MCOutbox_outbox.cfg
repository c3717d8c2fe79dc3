SPECIFICATION FairSpec
CONSTANTS
  e1 = e1  e2 = e2  w1 = w1  w2 = w2
  Rows = {e1, e2}
  Workers = {w1, w2}
  BatchSize = 2
  MaxAttempts = 2
  MaxErrors = 1
  MaxCrashes = 1
INVARIANTS ProcessedWasDelivered
PROPERTIES Settles
CHECK_DEADLOCK FALSE
