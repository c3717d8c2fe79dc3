SPECIFICATION Spec
CONSTANTS
  r1 = r1  r2 = r2  d1 = d1  d2 = d2  None = None
  Waker = waker  Watchdog = watchdog  Ticker = ticker
  Requests = {r1, r2}
  Drawers = {d1}
  LastPhase = 2
  MaxDraws = 2
  MasterIsTestHall = FALSE
  MayFail = TRUE
  MaxCrashes = 1
INVARIANTS IInv
PROPERTIES FollowsLifecycle GameEnds
CHECK_DEADLOCK FALSE
