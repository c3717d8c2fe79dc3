SPECIFICATION FairSpec
CONSTANTS
  r1 = r1  c1 = c1  c2 = c2  job = job
  None = None
  MaxIntents = 2
  Requests = {r1}
  Calls = {c1, c2}
  Job = job
  BatchLimit = 1
  MaxTorn = 1
  MaxCrashes = 1
CONSTRAINT Apart
INVARIANTS MoneyIsExplained 
PROPERTIES PaidIsCredited
CHECK_DEADLOCK FALSE
