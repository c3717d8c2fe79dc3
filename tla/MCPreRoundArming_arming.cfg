SPECIFICATION FairSpec
CONSTANTS
  p1 = p1  p2 = p2  house = house  c1 = c1  c2 = c2  s1 = s1  s2 = s2  None = None
  Players = {p1, p2}
  House = house
  Opening <- TwoAndOne
  MaxTickets = 2
  MaxCycles = 1
  Calls = {c1, c2}
  OneCallEach = TRUE
  Starts = {s1}
  Path <- Scheduler
  Faulty = {"socket", "booking", "caller"}
  MaxFaults = 1
  MaxCrashes = 1
  Expiry = TRUE
  
PROPERTY HoldsEnd
CHECK_DEADLOCK FALSE
