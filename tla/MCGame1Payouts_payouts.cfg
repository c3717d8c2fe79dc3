SPECIFICATION Spec
CONSTANTS
  a = a  b = b  innsats = innsats  jackpott = jackpott  None = None
  NumTickets = 3
  Color <- ColorOf
  Hall <- HallOf
  LastPhase = 2
  MaxDraws = 2
  MaxIncome = 1
  Prize <- PrizeOf
  Jackpot <- JackpotOf
  Daily <- DailyOf
  DailyUntil = 2
  Pots = {innsats, jackpott}
  PotHall <- HallOfPot
  Target <- TargetOf
  Seed <- SeedOf
  Window <- WindowOf
  Jackpotts = {jackpott}
  MaxPot = 2
  PrizeCap = 1
  MaxFaults = 1
INVARIANTS OnlyWinnersPaid RecordedIsPaid PotNeverOverpaid
PROPERTIES PrizesSettle PaidIsRecorded
CHECK_DEADLOCK FALSE
