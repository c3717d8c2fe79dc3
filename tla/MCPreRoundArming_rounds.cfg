SPECIFICATION Spec
CONSTANTS
  p1 = p1  p2 = p2  house = house  c1 = c1  c2 = c2  s1 = s1  s2 = s2  None = None
  Players = {p1, p2}
  House = house
  Opening <- TwoEach
  MaxTickets = 1
  MaxCycles = 1
  Calls = {c1}
  OneCallEach = TRUE
  Starts = {s1, s2}
  Path <- BothPaths
  Faulty = {"commit", "transfer", "booking", "release"}
  MaxFaults = 1
  MaxCrashes = 0
  Expiry = FALSE
INVARIANTS OneDebitPerGame RoundPaid RefundedWasDebited
CHECK_DEADLOCK FALSE
