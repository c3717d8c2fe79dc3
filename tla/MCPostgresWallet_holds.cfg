SPECIFICATION FairSpec
CONSTANTS
  anna = anna  shop = shop  house = house
  h1 = h1  h2 = h2  k1 = k1  k2 = k2  p1 = p1  p2 = p2
  None = None
  Players = {anna, shop}
  System = {house}
  Holds = {h1}
  Keys = {k1}
  Amounts = {1}
  Procs = {p1, p2}
  MaxRetries = 1
  TargetSides = {"winnings"}
  OpeningDep <- MCOpeningDep
  OpeningWin <- MCOpeningWin
  CallsOf <- HoldCalls
INVARIANTS CommittedIffDebited 
PROPERTIES TerminalIsFinal  CallsReturn
