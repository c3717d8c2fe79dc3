SPECIFICATION FairSpec
CONSTANTS
  c1 = c1  c2 = c2  c3 = c3
  Callers = {c1, c2, c3}
  Threshold = 3
INVARIANTS ClosedBelowThreshold GaugeLagsByCoolDown
PROPERTIES Recovers
