SPECIFICATION PortFairSpec
CONSTANTS
  x1 = x1  x2 = x2  x3 = x3  k1 = k1  k2 = k2  c1 = c1  c2 = c2  server = server  None = None
  Purchases = {x1, x2, x3}
  Rows = {k1, k2}
  Callers = {c1}
  Workers = {server}
  KeyOf <- SharedKey
  HostOf <- OneServer
  BatchSize = 2
  MaxAttempts = 2
  MaxErrors = 1
  MaxCrashes = 1
INVARIANTS ProcessedIsInLedger ReturnedIsKept
PROPERTIES EnqueuedIsRecorded
CHECK_DEADLOCK FALSE
