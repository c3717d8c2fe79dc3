---------------------------- MODULE Game1Payouts ----------------------------
(***************************************************************************)
(* The prizes of one scheduled Game 1: Game1DrawEngineService.drawNext,    *)
(* which draws a ball and, if it wins the phase, pays every winner, the    *)
(* accumulating pots and the daily jackpot before it commits.              *)
(*                                                                         *)
(* A draw is one transaction, and draws of a game follow each other (they  *)
(* lock its engine state: Game1Schedule).  But the wallet and the pots     *)
(* commit on connections of their own, so a draw that is rolled back       *)
(* leaves what it paid and won.  The next attempt draws the same ball, as  *)
(* the bag was fixed at the start and draws_completed was rolled back, and *)
(* finds the postings of the first one by their idempotency keys.          *)
(*                                                                         *)
(* Amounts are small numbers; a ticket is an assignment, numbered in the   *)
(* order in which winners are read (purchased_at, id).                     *)
(***************************************************************************)
EXTENDS Integers, FiniteSets

CONSTANTS
  NumTickets,
  Color, Hall,      \* of the tickets; the color with the size
  LastPhase,        \* TOTAL_PHASES, 5 in the code
  MaxDraws,
  MaxIncome,        \* bound: purchases that are not refunded
  Prize,            \* Prize[color][phase][income]: shared by winners of a color
  Jackpot,          \* Jackpot[color][draw]: for each of them, in the last phase
  Daily, DailyUntil,             \* override of the day per color, and its last draw
  Pots, PotHall, Target, Seed, Window,   \* accumulating pots and their rules
  Jackpotts,        \* pots whose errors are swallowed
  MaxPot, PrizeCap,
  MaxFaults,        \* bound: failing statements, calls and restarts
  None

Tickets == 1..NumTickets
Phases  == 1..LastPhase
Draws   == 1..MaxDraws
Incomes == 0..MaxIncome
Colors  == {Color[t] : t \in Tickets}
Halls   == {Hall[t] : t \in Tickets} \cup {PotHall[p] : p \in Pots}

ASSUME NumbersAssumption ==
  /\ NumTickets \in Nat /\ LastPhase \in Nat \ {0} /\ MaxDraws \in Nat \ {0}
  /\ MaxIncome \in Nat /\ MaxFaults \in Nat /\ MaxPot \in Nat /\ PrizeCap \in Nat
ASSUME PrizesAssumption ==
  /\ Prize \in [Colors -> [Phases -> [Incomes -> Nat]]]
  /\ Jackpot \in [Colors -> [Draws -> Nat]]
  /\ Daily \in [Colors -> Nat] /\ DailyUntil \in Nat
ASSUME PotsAssumption ==
  /\ Jackpotts \subseteq Pots
  /\ Seed \in [Pots -> 0..MaxPot] /\ Target \in [Pots -> Nat]
  /\ Window \in [Pots -> SUBSET Draws]
  /\ None \notin Pots

(* game1Phase, the key of the daily jackpot, game1Jackpot, game1Pot.       *)
PhaseKey(f, t) == <<"phase", f, t>>
DailyKey(d, t) == <<"daily", d, t>>
PotKey(p) == IF p \in Jackpotts THEN <<"jackpott", 0, PotHall[p]>> ELSE <<"pot", 0, p>>

Keys == ({"phase"} \X Phases \X Tickets) \cup ({"daily"} \X Draws \X Tickets)
          \cup {PotKey(p) : p \in Pots}

(* The code allows two pots of this type in a hall, which then share a     *)
(* key.                                                                    *)
ASSUME OneJackpottAssumption ==
  \A p, q \in Jackpotts : PotHall[p] = PotHall[q] => p = q

VARIABLES
  completes,   \* completes[t][f]: the draw that gives ticket t the rows of phase f
  status, draws, phase,
  income,      \* purchases of the game that are not refunded
  rows,        \* app_game1_phase_winners
  paid,        \* [Keys -> amount]: the wallet's credits, by their key
  pot,         \* balances of the pots
  taken,       \* history: what was won from a pot in this game
  attempt,     \* the draw in progress
  faults

game == <<completes, status, draws, phase>>
vars == <<game, income, rows, paid, pot, taken, attempt, faults>>

NoAttempt == [at |-> "idle", todo |-> {}, pots |-> {},
              on |-> None, won |-> 0, income |-> 0]

Init ==
  /\ completes \in [Tickets -> [Phases -> 1..(MaxDraws + 1)]]
  /\ \A t \in Tickets, f \in Phases \ {LastPhase} : completes[t][f] <= completes[t][f + 1]
  /\ status = "running" /\ draws = 0 /\ phase = 1
  /\ income = MaxIncome
  /\ rows = {}
  /\ paid = [k \in Keys |-> 0]
  /\ pot = Seed
  /\ taken = [p \in Pots |-> 0]
  /\ attempt = NoAttempt
  /\ faults = 0

(* Mutant of Credit: an error is caught and logged.                        *)
Swallowed(k, amount) == paid' \in {paid, [paid EXCEPT ![k] = amount]}

(* A credit, or the earlier one with its key.  Nothing is not credited.    *)
Credit(k, amount) ==
  paid' = IF paid[k] = 0 THEN [paid EXCEPT ![k] = amount] ELSE paid

-----------------------------------------------------------------------------
(* evaluateAndPayoutPhase                                                  *)

(* Mutant of Ball: a bag that is not the same for the next attempt.        *)
AnotherBall == draws + 1 + faults

Ball == draws + 1

(* Tickets that have the rows of the phase, those of refunded purchases    *)
(* among them.                                                             *)
Winners == {t \in Tickets : completes[t][phase] <= Ball}

SameColor(t) == {s \in Winners : Color[s] = Color[t]}

Share(t) ==
  (Prize[Color[t]][phase][attempt.income] \div Cardinality(SameColor(t)))
    + (IF phase = LastPhase THEN Jackpot[Color[t]][draws + 1] ELSE 0)

Begin ==
  /\ attempt.at = "idle" /\ status = "running" /\ draws < MaxDraws
  /\ attempt' = [NoAttempt EXCEPT !.at = IF Winners = {} THEN "commit" ELSE "winners",
                                  !.todo = Winners, !.income = income]
  /\ UNCHANGED <<game, income, rows, paid, pot, taken, faults>>

(* Groups of a color in the order of their first winner.                   *)
Before(s, t) ==
  IF Color[s] = Color[t] THEN s <= t
  ELSE \E u \in SameColor(s) : \A v \in SameColor(t) : u < v

PayWinner(t) ==
  /\ attempt.at = "winners" /\ t \in attempt.todo
  /\ \A s \in attempt.todo : Before(t, s)
  /\ Credit(PhaseKey(phase, t), Share(t))
  /\ attempt' = [attempt EXCEPT !.todo = @ \ {t}]
  /\ UNCHANGED <<game, income, rows, pot, taken, faults>>

(* runAccumulatingPotEvaluation: the pots of all halls with a winner.      *)
WinnersArePaid ==
  /\ attempt.at = "winners" /\ attempt.todo = {}
  /\ attempt' =
       IF phase = LastPhase
       THEN [attempt EXCEPT !.at = "pots",
                            !.pots = {p \in Pots : \E t \in Winners : Hall[t] = PotHall[p]}]
       ELSE [attempt EXCEPT !.at = "commit"]
  /\ UNCHANGED <<game, income, rows, paid, pot, taken, faults>>

-----------------------------------------------------------------------------
(* The accumulating pots (PotEvaluator, Game1PotService)                   *)

AtLeast(a, b) == IF a >= b THEN a ELSE b
AtMost(a, b)  == IF a <= b THEN a ELSE b

Triggered(p) == draws + 1 \in Window[p] /\ pot[p] >= AtLeast(Target[p], 1)

(* Mutant of Emptied: the pot keeps its balance.                           *)
NotReset(p) == UNCHANGED <<pot, taken>>

(* tryWin: a transaction of its own.                                       *)
Emptied(p) ==
  /\ pot' = [pot EXCEPT ![p] = Seed[p]]
  /\ taken' = [taken EXCEPT ![p] = @ + pot[p]]

Proceed(p) ==
  attempt' = [attempt EXCEPT !.at = "pots", !.pots = @ \ {p}, !.on = None, !.won = 0]

TryWin(p) ==
  /\ attempt.at = "pots" /\ p \in attempt.pots
  /\ \/ /\ Triggered(p) /\ Emptied(p)
        /\ attempt' = [attempt EXCEPT !.at = "credit", !.on = p,
                                      !.won = AtMost(pot[p], PrizeCap)]
     \/ ~Triggered(p) /\ Proceed(p) /\ UNCHANGED <<pot, taken>>
  /\ UNCHANGED <<game, income, rows, paid, faults>>

CreditPot ==
  /\ attempt.at = "credit"
  /\ Credit(PotKey(attempt.on), attempt.won)
  /\ Proceed(attempt.on)
  /\ UNCHANGED <<game, income, rows, pot, taken, faults>>

(* failPolicyFor: an error of a jackpott is logged, and the draw goes on;  *)
(* tryWin fails before or after its commit.                                *)
JackpottFails(p) ==
  /\ p \in Jackpotts /\ faults < MaxFaults
  /\ \/ attempt.at = "credit" /\ attempt.on = p /\ UNCHANGED <<pot, taken>>
     \/ /\ attempt.at = "pots" /\ p \in attempt.pots
        /\ (Triggered(p) /\ Emptied(p)) \/ UNCHANGED <<pot, taken>>
  /\ Proceed(p)
  /\ faults' = faults + 1
  /\ UNCHANGED <<game, income, rows, paid>>

-----------------------------------------------------------------------------
(* runDailyJackpotEvaluation                                               *)

DailyWinners ==
  IF draws + 1 > DailyUntil THEN {} ELSE {t \in Winners : Daily[Color[t]] > 0}

PotsAreEvaluated ==
  /\ attempt.at = "pots" /\ attempt.pots = {}
  /\ attempt' = [attempt EXCEPT !.at = "daily", !.todo = DailyWinners]
  /\ UNCHANGED <<game, income, rows, paid, pot, taken, faults>>

PayDaily(t) ==
  /\ attempt.at = "daily" /\ t \in attempt.todo
  /\ \A s \in attempt.todo : Before(t, s)
  /\ Credit(DailyKey(draws + 1, t), Daily[Color[t]] \div Cardinality(SameColor(t)))
  /\ attempt' = [attempt EXCEPT !.todo = @ \ {t}]
  /\ UNCHANGED <<game, income, rows, pot, taken, faults>>

DailyIsPaid ==
  /\ attempt.at = "daily" /\ attempt.todo = {}
  /\ attempt' = [attempt EXCEPT !.at = "commit"]
  /\ UNCHANGED <<game, income, rows, paid, pot, taken, faults>>

-----------------------------------------------------------------------------
(* The end of the transaction of drawNext                                  *)

Won      == Winners # {}
Bingo    == Won /\ phase = LastPhase
Finished == Bingo \/ draws + 1 >= MaxDraws

(* Mutant of NextPhase: the phase won is played again.                     *)
SamePhase == phase

NextPhase == IF Won /\ ~Bingo THEN phase + 1 ELSE phase

CommitDraw ==
  /\ attempt.at = "commit"
  /\ rows' = rows \cup {[phase |-> phase, ticket |-> t, amount |-> Share(t)] : t \in Winners}
  /\ draws' = draws + 1
  /\ phase' = NextPhase
  /\ status' = IF Finished THEN "completed" ELSE status
  /\ attempt' = NoAttempt
  /\ UNCHANGED <<completes, income, paid, pot, taken, faults>>

(* Mutant of AfterRollBack: draws_completed was counted up outside.        *)
Skipped == draws + 1

AfterRollBack == draws

(* A statement or a call fails, with or without effect, or the process     *)
(* stops: the transaction is rolled back, the tick draws again later.      *)
RollBack ==
  /\ attempt.at # "idle" /\ faults < MaxFaults
  /\ draws' = AfterRollBack
  /\ attempt' = NoAttempt
  /\ faults' = faults + 1
  /\ UNCHANGED <<completes, status, phase, income, rows, paid, pot, taken>>

-----------------------------------------------------------------------------
(* Everybody else.  A draw reads the income and a pot once, so a change    *)
(* during a draw is as good as one before or after it; the row of the game *)
(* is locked during a draw.                                                *)

Between == status = "running" /\ attempt.at = "idle"

(* refundPurchase; a purchase whose INSERT comes after the start.          *)
IncomeChanges ==
  /\ Between /\ income' \in {income - 1, income + 1} \cap Incomes
  /\ UNCHANGED <<game, rows, paid, pot, taken, attempt, faults>>

(* accumulateFromSale and accumulateDaily, up to the pot's maximum.        *)
FillPot(p) ==
  /\ Between /\ pot[p] < MaxPot
  /\ pot' = [pot EXCEPT ![p] = @ + 1]
  /\ UNCHANGED <<game, income, rows, paid, taken, attempt, faults>>

Cancel ==
  /\ Between
  /\ status' = "cancelled"
  /\ UNCHANGED <<completes, draws, phase, income, rows, paid, pot, taken, attempt, faults>>
-----------------------------------------------------------------------------
Draw ==
  \/ Begin \/ WinnersArePaid \/ PotsAreEvaluated \/ DailyIsPaid \/ CommitDraw
  \/ \E t \in Tickets : PayWinner(t) \/ PayDaily(t)
  \/ \E p \in Pots : TryWin(p)
  \/ CreditPot

Next ==
  \/ Draw \/ RollBack \/ (\E p \in Pots : JackpottFails(p) \/ FillPot(p))
  \/ IncomeChanges \/ Cancel

(* The draw tick comes again and again, and awaits end.                    *)
Spec == Init /\ [][Next]_vars /\ WF_vars(Draw)
-----------------------------------------------------------------------------
(* Properties                                                              *)

Recorded(f, t) == \E r \in rows : r.phase = f /\ r.ticket = t
IsPaid(f, t)   == paid[PhaseKey(f, t)] > 0

PaidPrizes     == {x \in Phases \X Tickets : IsPaid(x[1], x[2])}
RecordedPrizes == {x \in PaidPrizes : Recorded(x[1], x[2])}

P == INSTANCE PrizeSettlement WITH
       Prizes <- Phases \X Tickets, paid <- PaidPrizes, recorded <- RecordedPrizes

(* Phases are settled in order; a prize is paid once, while its phase is   *)
(* played, and when the phase is recorded as won nobody was paid for it    *)
(* who is not recorded, however many attempts it took.                     *)
PrizesSettle == P!Spec

(* Whoever was paid for a phase has its rows by the draw that won it, or,  *)
(* after an attempt that was rolled back, by the next draw.                *)
OnlyWinnersPaid ==
  \A f \in Phases, t \in Tickets :
    IsPaid(f, t) => f <= phase /\ completes[t][f] <= draws + 1

(* The prize does not depend on refunds.                                   *)
FixedPrize(c, f) == \A m, n \in Incomes : Prize[c][f][m] = Prize[c][f][n]

(* A recorded winner was paid, and exactly what the record says, unless    *)
(* purchases were refunded between the attempts of a percentage game.      *)
RecordedIsPaid ==
  \A r \in rows : r.amount > 0 =>
    /\ IsPaid(r.phase, r.ticket)
    /\ faults = 0 \/ FixedPrize(Color[r.ticket], r.phase)
         => paid[PhaseKey(r.phase, r.ticket)] = r.amount

(* A pot pays at most what was taken from it, over all attempts, and if    *)
(* nothing fails just that.                                                *)
PotNeverOverpaid ==
  \A p \in Pots :
    /\ paid[PotKey(p)] <= taken[p]
    /\ faults = 0 /\ attempt.on # p => paid[PotKey(p)] = AtMost(taken[p], PrizeCap)

(* A prize that was paid gets its record, if the game is not stopped.      *)
AllRecorded == \A f \in Phases, t \in Tickets : IsPaid(f, t) => Recorded(f, t)
PaidIsRecorded == []<>(AllRecorded \/ status = "cancelled")

(* The typing of all variables, and what an attempt may be at.             *)
TypeOK ==
  /\ completes \in [Tickets -> [Phases -> 1..(MaxDraws + 1)]]
  /\ status \in {"running", "completed", "cancelled"}
  /\ draws \in 0..MaxDraws /\ phase \in Phases /\ income \in Incomes
  /\ rows \subseteq [phase : Phases, ticket : Tickets, amount : Nat]
  /\ paid \in [Keys -> Nat]
  /\ pot \in [Pots -> 0..MaxPot] /\ taken \in [Pots -> Nat]
  /\ attempt \in [at : {"idle", "winners", "pots", "credit", "daily", "commit"},
                  todo : SUBSET Tickets, pots : SUBSET Pots, on : Pots \cup {None},
                  won : Nat, income : Incomes]
  /\ faults \in Nat
-----------------------------------------------------------------------------
(* The strengthening that makes the four properties inductive.             *)

AttemptIsShaped ==
  /\ attempt.at # "idle" => status = "running"
  /\ status = "running" => draws < MaxDraws
  /\ attempt.at \in {"winners", "daily"} => attempt.todo \subseteq Winners
  /\ attempt.at \in {"winners", "pots", "credit", "daily"} => Won
  /\ attempt.at \in {"pots", "credit", "daily"} => phase = LastPhase
  /\ attempt.at = "credit" => attempt.on \in attempt.pots
  /\ attempt.at # "credit" => attempt.on = None

(* Of the phase that is played nobody is recorded.                         *)
RowsInOrder ==
  \A r \in rows : r.phase <= phase /\ (status # "completed" => r.phase < phase)

Settled(t) ==
  \/ attempt.at \notin {"idle", "winners"}
  \/ attempt.at = "winners" /\ t \notin attempt.todo

(* What this attempt and earlier ones of the draw have paid.               *)
SharesArePaid ==
  status = "running" => \A t \in Winners :
    /\ Settled(t) /\ Share(t) > 0 => IsPaid(phase, t)
    /\ faults = 0 => paid[PhaseKey(phase, t)] = IF Settled(t) THEN Share(t) ELSE 0
    /\ FixedPrize(Color[t], phase) => paid[PhaseKey(phase, t)] \in {0, Share(t)}

(* Until the pots of a full house are evaluated, none has been won.        *)
PotsUntouched ==
  \/ phase # LastPhase
  \/ status # "completed" /\ attempt.at \in {"idle", "winners"}
  \/ attempt.at = "commit" /\ ~Won

PotsAreCurrent ==
  /\ attempt.at = "credit" => attempt.won <= taken[attempt.on]
  /\ faults = 0 =>
       /\ PotsUntouched => \A p \in Pots : taken[p] = 0
       /\ \A p \in attempt.pots :
            attempt.at \in {"pots", "credit"} /\ p # attempt.on => taken[p] = 0
       /\ attempt.at = "credit" =>
            attempt.won = AtMost(taken[attempt.on], PrizeCap) /\ paid[PotKey(attempt.on)] = 0

IInv ==
  /\ TypeOK /\ AttemptIsShaped /\ RowsInOrder /\ SharesArePaid /\ PotsAreCurrent
  /\ OnlyWinnersPaid /\ RecordedIsPaid /\ PotNeverOverpaid
=============================================================================
