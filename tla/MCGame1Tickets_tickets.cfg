SPECIFICATION Spec
CONSTANTS
  p1 = p1  p2 = p2  k1 = k1  k2 = k2  a1 = a1  b1 = b1  b2 = b2  adm = adm
  None = None  Stopper = stopper
  Players = {p1, p2}
  Opening <- Means
  BuyKeys = {k1, k2}
  ArmKeys = {a1}
  Owner <- Owners
  Retried = {k1}
  InsertFails = {k2, a1}
  Unreliable = {k2, a1}
  Calls = {b1, b2}
  Refunders = {adm}
  MaxDraws = 1
SYMMETRY CallSymmetry
INVARIANTS  NoMoneyLost StopRefundsAll
 
CHECK_DEADLOCK FALSE
