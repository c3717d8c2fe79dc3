SPECIFICATION Spec
CONSTANTS
  r1 = r1  c1 = c1  c2 = c2  job = job
  None = None
  MaxIntents = 1
  Requests = {}
  Calls = {c1}
  Job = job
  BatchLimit = 1
  MaxTorn = 1
  MaxCrashes = 0
INVARIANTS NoDoubleCredit
CHECK_DEADLOCK FALSE
