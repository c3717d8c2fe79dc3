------------------------ MODULE Game1Payouts_proofs ------------------------
(***************************************************************************)
(* For every number of tickets, phases, draws and pots, all prizes, rules  *)
(* and schedules of failing attempts: only winners are paid, a record says *)
(* what was paid, a pot pays no more than was taken from it, and the draws *)
(* implement PrizeSettlement.                                              *)
(***************************************************************************)
EXTENDS Game1Payouts, FiniteSetTheorems, TLAPS

(* Arithmetic of shares                                                    *)

LEMMA Quotient == \A m \in Nat, n \in Nat \ {0} : m \div n \in Nat
BY SMT

LEMMA Counted ==
  ASSUME NEW S \in SUBSET Tickets
  PROVE  Cardinality(S) \in Nat /\ (S # {} => Cardinality(S) \in Nat \ {0})
<1>1. IsFiniteSet(Tickets)
  BY FS_Interval, NumbersAssumption DEF Tickets
<1>2. IsFiniteSet(S)
  BY <1>1, FS_Subset
<1> QED
  BY <1>2, FS_CardinalityType, FS_EmptySet

LEMMA ShareOfType ==
  ASSUME TypeOK, draws < MaxDraws, NEW t \in Winners
  PROVE  Share(t) \in Nat
<1>1. t \in Tickets /\ Color[t] \in Colors /\ phase \in Phases /\ draws + 1 \in Draws
  BY NumbersAssumption DEF Winners, Colors, TypeOK, Draws
<1>2. Prize[Color[t]][phase][attempt.income] \in Nat
  BY <1>1, PrizesAssumption DEF TypeOK
<1>3. Cardinality(SameColor(t)) \in Nat \ {0}
  BY <1>1, Counted DEF SameColor, Winners
<1>4. Jackpot[Color[t]][draws + 1] \in Nat
  BY <1>1, PrizesAssumption
<1>5. Prize[Color[t]][phase][attempt.income] \div Cardinality(SameColor(t)) \in Nat
  BY <1>2, <1>3, Quotient
<1> QED
  BY <1>4, <1>5 DEF Share

LEMMA DailyOfType ==
  ASSUME TypeOK, NEW t \in Winners
  PROVE  Daily[Color[t]] \div Cardinality(SameColor(t)) \in Nat
<1>1. t \in Tickets /\ Color[t] \in Colors
  BY DEF Winners, Colors
<1>2. Cardinality(SameColor(t)) \in Nat \ {0}
  BY <1>1, Counted DEF SameColor, Winners
<1> QED
  BY <1>1, <1>2, PrizesAssumption, Quotient

(* Without refunds the share of a winner is the same in every attempt.     *)
LEMMA ShareIsFixed ==
  ASSUME TypeOK, NEW t \in Tickets, FixedPrize(Color[t], phase),
         attempt'.income \in Incomes, UNCHANGED <<completes, draws, phase>>
  PROVE  Share(t)' = Share(t)
<1>1. SameColor(t)' = SameColor(t)
  BY DEF SameColor, Winners, Ball
<1>2. Prize[Color[t]][phase][attempt'.income] = Prize[Color[t]][phase][attempt.income]
  BY DEF FixedPrize, TypeOK
<1> QED
  BY <1>1, <1>2 DEF Share
-----------------------------------------------------------------------------
(* Keys and credits                                                        *)

LEMMA KeysOfType ==
  /\ \A f \in Phases, t \in Tickets : PhaseKey(f, t) \in Keys
  /\ \A d \in Draws, t \in Tickets : DailyKey(d, t) \in Keys
  /\ \A p \in Pots : PotKey(p) \in Keys
BY DEF Keys, PhaseKey, DailyKey, PotKey

LEMMA KeysDiffer ==
  /\ \A f, g \in Phases, t, s \in Tickets : PhaseKey(f, t) = PhaseKey(g, s) => f = g /\ t = s
  /\ \A f \in Phases, d \in Draws, t, s \in Tickets : PhaseKey(f, t) # DailyKey(d, s)
  /\ \A f \in Phases, t \in Tickets, p \in Pots : PhaseKey(f, t) # PotKey(p)
  /\ \A d \in Draws, t \in Tickets, p \in Pots : DailyKey(d, t) # PotKey(p)
  /\ \A p, q \in Pots : PotKey(p) = PotKey(q) => p = q
<1>1. \A p, q \in Pots : PotKey(p) = PotKey(q) => p = q
  BY OneJackpottAssumption DEF PotKey
<1> QED
  BY <1>1 DEF PhaseKey, DailyKey, PotKey

LEMMA CreditEffect ==
  ASSUME TypeOK, NEW k \in Keys, NEW amount \in Nat, Credit(k, amount)
  PROVE  /\ paid' \in [Keys -> Nat]
         /\ \A j \in Keys : j # k => paid'[j] = paid[j]
         /\ paid'[k] = IF paid[k] = 0 THEN amount ELSE paid[k]
BY DEF Credit, TypeOK

LEMMA CapOfType ==
  \A m, n \in Nat : AtMost(m, n) \in Nat /\ AtMost(m, n) <= m
BY DEF AtMost
-----------------------------------------------------------------------------
(* Types                                                                   *)

LEMMA InitTypes == Init => TypeOK
<1>1. Init => attempt \in [at : {"idle", "winners", "pots", "credit", "daily", "commit"},
                  todo : SUBSET Tickets, pots : SUBSET Pots, on : Pots \cup {None},
                  won : Nat, income : Incomes]
  BY NumbersAssumption DEF Init, NoAttempt, Incomes
<1> QED
  BY <1>1, NumbersAssumption, PotsAssumption DEF Init, TypeOK, Phases, Incomes

LEMMA PotsOfType ==
  ASSUME TypeOK, NEW p \in Pots, Emptied(p)
  PROVE  pot' \in [Pots -> 0..MaxPot] /\ taken' \in [Pots -> Nat]
<1>1. pot[p] \in Nat /\ taken[p] \in Nat /\ Seed[p] \in 0..MaxPot
  BY PotsAssumption, NumbersAssumption DEF TypeOK
<1>2. taken[p] + pot[p] \in Nat
  BY <1>1
<1>3. pot' \in [Pots -> 0..MaxPot]
  BY <1>1 DEF TypeOK, Emptied
<1> QED
  BY <1>2, <1>3 DEF TypeOK, Emptied

(* What a step of a draw leaves as it was.                                 *)
LEMMA WinnerIsPaid ==
  ASSUME TypeOK, AttemptIsShaped, NEW t \in Tickets, PayWinner(t)
  PROVE  /\ t \in Winners /\ Share(t) \in Nat /\ PhaseKey(phase, t) \in Keys
         /\ paid' \in [Keys -> Nat]
         /\ \A j \in Keys : j # PhaseKey(phase, t) => paid'[j] = paid[j]
         /\ paid'[PhaseKey(phase, t)] =
              IF paid[PhaseKey(phase, t)] = 0 THEN Share(t) ELSE paid[PhaseKey(phase, t)]
<1>1. t \in Winners /\ draws < MaxDraws
  BY DEF PayWinner, AttemptIsShaped
<1>2. Share(t) \in Nat /\ PhaseKey(phase, t) \in Keys
  BY <1>1, ShareOfType, KeysOfType DEF TypeOK
<1> QED
  BY <1>1, <1>2, CreditEffect DEF PayWinner

LEMMA PotIsPaid ==
  ASSUME TypeOK, AttemptIsShaped, CreditPot
  PROVE  /\ attempt.on \in Pots /\ PotKey(attempt.on) \in Keys
         /\ paid' \in [Keys -> Nat]
         /\ \A j \in Keys : j # PotKey(attempt.on) => paid'[j] = paid[j]
         /\ paid'[PotKey(attempt.on)] =
              IF paid[PotKey(attempt.on)] = 0 THEN attempt.won ELSE paid[PotKey(attempt.on)]
<1>1. attempt.on \in Pots /\ attempt.won \in Nat
  BY DEF CreditPot, AttemptIsShaped, TypeOK
<1>2. PotKey(attempt.on) \in Keys
  BY <1>1, KeysOfType
<1> QED
  BY <1>1, <1>2, CreditEffect DEF CreditPot

LEMMA DailyWinnerIsPaid ==
  ASSUME TypeOK, AttemptIsShaped, NEW t \in Tickets, PayDaily(t)
  PROVE  /\ draws + 1 \in Draws /\ DailyKey(draws + 1, t) \in Keys
         /\ paid' \in [Keys -> Nat]
         /\ \A j \in Keys : j # DailyKey(draws + 1, t) => paid'[j] = paid[j]
<1>1. draws + 1 \in Draws /\ t \in Winners
  BY NumbersAssumption DEF PayDaily, AttemptIsShaped, TypeOK, Draws
<1>2. DailyKey(draws + 1, t) \in Keys
  BY <1>1, KeysOfType
<1> QED
  BY <1>1, <1>2, CreditEffect, DailyOfType DEF PayDaily

LEMMA TypeStep ==
  ASSUME TypeOK, AttemptIsShaped, [Next]_vars
  PROVE  TypeOK'
<1> USE DEF TypeOK
<1>1. CASE Begin
  BY <1>1 DEF Begin, NoAttempt, Winners, game
<1>2. CASE WinnersArePaid
  BY <1>2 DEF WinnersArePaid, game
<1>3. CASE PotsAreEvaluated
  BY <1>3 DEF PotsAreEvaluated, DailyWinners, Winners, game
<1>4. CASE DailyIsPaid
  BY <1>4 DEF DailyIsPaid, game
<1>5. CASE CommitDraw
  <2>1. draws < MaxDraws
    BY <1>5 DEF CommitDraw, AttemptIsShaped
  <2>2. rows' \subseteq [phase : Phases, ticket : Tickets, amount : Nat]
    <3>1. \A t \in Winners : t \in Tickets /\ Share(t) \in Nat
      BY <2>1, ShareOfType DEF Winners
    <3> QED
      BY <1>5, <3>1 DEF CommitDraw
  <2>3. draws' \in 0..MaxDraws
    BY <1>5, <2>1, NumbersAssumption DEF CommitDraw
  <2>4. phase' \in Phases /\ status' \in {"running", "completed", "cancelled"}
    BY <1>5, NumbersAssumption DEF CommitDraw, NextPhase, Bingo, Phases
  <2>5. attempt' \in [at : {"idle", "winners", "pots", "credit", "daily", "commit"},
                  todo : SUBSET Tickets, pots : SUBSET Pots, on : Pots \cup {None},
                  won : Nat, income : Incomes]
    BY <1>5, NumbersAssumption DEF CommitDraw, NoAttempt, Incomes
  <2> QED
    BY <1>5, <2>2, <2>3, <2>4, <2>5 DEF CommitDraw
<1>6. ASSUME NEW t \in Tickets, PayWinner(t)
      PROVE  TypeOK'
  BY <1>6, WinnerIsPaid DEF PayWinner, game
<1>7. ASSUME NEW t \in Tickets, PayDaily(t)
      PROVE  TypeOK'
  BY <1>7, DailyWinnerIsPaid DEF PayDaily, game
<1>8. ASSUME NEW p \in Pots, TryWin(p)
      PROVE  TypeOK'
  <2>1. CASE Triggered(p) /\ Emptied(p)
             /\ attempt' = [attempt EXCEPT !.at = "credit", !.on = p, !.won = AtMost(pot[p], PrizeCap)]
    <3>1. AtMost(pot[p], PrizeCap) \in Nat
      <4>1. pot[p] \in Nat
        BY NumbersAssumption
      <4> QED
        BY <4>1, CapOfType, NumbersAssumption
    <3> QED
      BY <1>8, <2>1, <3>1, PotsOfType DEF TryWin, game
  <2>2. CASE Proceed(p) /\ UNCHANGED <<pot, taken>>
    BY <1>8, <2>2 DEF TryWin, Proceed, game
  <2> QED
    BY <1>8, <2>1, <2>2 DEF TryWin
<1>9. CASE CreditPot
  BY <1>9, PotIsPaid DEF CreditPot, Proceed, game
<1>10. CASE RollBack
  BY <1>10, NumbersAssumption DEF RollBack, AfterRollBack, NoAttempt, Incomes
<1>11. ASSUME NEW p \in Pots, JackpottFails(p)
       PROVE  TypeOK'
  <2>1. pot' \in [Pots -> 0..MaxPot] /\ taken' \in [Pots -> Nat]
    BY <1>11, PotsOfType DEF JackpottFails
  <2>2. attempt' = [attempt EXCEPT !.at = "pots", !.pots = @ \ {p}, !.on = None, !.won = 0]
    BY <1>11 DEF JackpottFails, Proceed
  <2>3. /\ faults' = faults + 1
        /\ UNCHANGED <<completes, status, draws, phase, income, rows, paid>>
    BY <1>11 DEF JackpottFails, game
  <2>4. attempt' \in [at : {"idle", "winners", "pots", "credit", "daily", "commit"},
                  todo : SUBSET Tickets, pots : SUBSET Pots, on : Pots \cup {None},
                  won : Nat, income : Incomes]
    BY <2>2
  <2> HIDE DEF TypeOK
  <2> QED
    BY <2>1, <2>3, <2>4 DEF TypeOK
<1>12. ASSUME NEW p \in Pots, FillPot(p)
       PROVE  TypeOK'
  BY <1>12, NumbersAssumption DEF FillPot, game
<1>13. CASE IncomeChanges
  BY <1>13 DEF IncomeChanges, game
<1>14. CASE Cancel
  BY <1>14 DEF Cancel
<1>15. CASE UNCHANGED vars
  BY <1>15 DEF vars, game
<1> QED
  BY <1>1, <1>2, <1>3, <1>4, <1>5, <1>6, <1>7, <1>8, <1>9, <1>10, <1>11, <1>12, <1>13,
     <1>14, <1>15 DEF Next, Draw
-----------------------------------------------------------------------------
(* The shape of an attempt, and the order of the records                   *)

LEMMA SameWinners ==
  ASSUME UNCHANGED <<completes, draws, phase>>
  PROVE  Winners' = Winners /\ (Won' <=> Won) /\ (Bingo' <=> Bingo)
BY DEF Winners, Ball, Won, Bingo

LEMMA ShapeStep ==
  ASSUME TypeOK, AttemptIsShaped, [Next]_vars
  PROVE  AttemptIsShaped'
<1> USE DEF AttemptIsShaped
<1>1. CASE Begin
  BY <1>1, SameWinners DEF Begin, NoAttempt, Won, game
<1>2. CASE WinnersArePaid
  BY <1>2, SameWinners DEF WinnersArePaid, game, TypeOK
<1>3. CASE PotsAreEvaluated
  BY <1>3, SameWinners DEF PotsAreEvaluated, DailyWinners, game, TypeOK
<1>4. CASE DailyIsPaid
  BY <1>4, SameWinners DEF DailyIsPaid, game, TypeOK
<1>5. CASE CommitDraw
  BY <1>5, NumbersAssumption DEF CommitDraw, Finished, NoAttempt, TypeOK
<1>6. ASSUME NEW t \in Tickets, PayWinner(t)
      PROVE  AttemptIsShaped'
  BY <1>6, SameWinners DEF PayWinner, game, TypeOK
<1>7. ASSUME NEW t \in Tickets, PayDaily(t)
      PROVE  AttemptIsShaped'
  BY <1>7, SameWinners DEF PayDaily, game, TypeOK
<1>8. ASSUME NEW p \in Pots, TryWin(p)
      PROVE  AttemptIsShaped'
  BY <1>8, SameWinners DEF TryWin, Proceed, game, TypeOK
<1>9. CASE CreditPot
  BY <1>9, SameWinners DEF CreditPot, Proceed, game, TypeOK
<1>10. CASE RollBack
  BY <1>10 DEF RollBack, AfterRollBack, NoAttempt
<1>11. ASSUME NEW p \in Pots, JackpottFails(p)
       PROVE  AttemptIsShaped'
  BY <1>11, SameWinners DEF JackpottFails, Proceed, game, TypeOK
<1>12. ASSUME NEW p \in Pots, FillPot(p)
       PROVE  AttemptIsShaped'
  BY <1>12, SameWinners DEF FillPot, game
<1>13. CASE IncomeChanges
  BY <1>13, SameWinners DEF IncomeChanges, game
<1>14. CASE Cancel
  BY <1>14, SameWinners DEF Cancel, Between
<1>15. CASE UNCHANGED vars
  BY <1>15, SameWinners DEF vars, game
<1> QED
  BY <1>1, <1>2, <1>3, <1>4, <1>5, <1>6, <1>7, <1>8, <1>9, <1>10, <1>11, <1>12, <1>13,
     <1>14, <1>15 DEF Next, Draw

(* Only the end of a draw changes the game and its records, apart from a   *)
(* stop between two draws.                                                 *)
LEMMA OnlyCommits ==
  ASSUME [Next]_vars, ~CommitDraw
  PROVE  /\ UNCHANGED <<completes, draws, phase, rows>>
         /\ status' = status \/ Cancel
BY DEF Next, Draw, vars, game, Begin, WinnersArePaid, PotsAreEvaluated, DailyIsPaid, PayWinner,
       PayDaily, TryWin, CreditPot, RollBack, AfterRollBack, JackpottFails, FillPot, IncomeChanges, Cancel

LEMMA OrderStep ==
  ASSUME TypeOK, AttemptIsShaped, RowsInOrder, [Next]_vars
  PROVE  RowsInOrder'
<1>1. CASE CommitDraw
  <2>1. status = "running"
    BY <1>1 DEF CommitDraw, AttemptIsShaped
  <2>2. ASSUME NEW r \in rows'
        PROVE  r.phase <= phase' /\ (status' # "completed" => r.phase < phase')
    <3>1. CASE r \in rows
      BY <1>1, <2>1, <3>1 DEF CommitDraw, RowsInOrder, NextPhase, TypeOK, Phases
    <3>2. CASE \E t \in Winners : r = [phase |-> phase, ticket |-> t, amount |-> Share(t)]
      <4>1. r.phase = phase /\ Won
        BY <3>2 DEF Won
      <4> QED
        BY <1>1, <4>1 DEF CommitDraw, NextPhase, Finished, TypeOK, Phases
    <3> QED
      BY <1>1, <2>2, <3>1, <3>2 DEF CommitDraw
  <2> QED
    BY <2>2 DEF RowsInOrder
<1>2. CASE ~CommitDraw
  BY <1>2, OnlyCommits DEF RowsInOrder, Cancel, Between
<1> QED
  BY <1>1, <1>2
-----------------------------------------------------------------------------
(* Prizes of the phases                                                    *)

LEMMA OtherCredits ==
  ASSUME TypeOK, AttemptIsShaped, [Next]_vars, \A t \in Tickets : ~PayWinner(t)
  PROVE  \A f \in Phases, t \in Tickets : paid'[PhaseKey(f, t)] = paid[PhaseKey(f, t)]
<1>1. CASE CreditPot
  BY <1>1, PotIsPaid, KeysDiffer, KeysOfType
<1>2. ASSUME NEW t \in Tickets, PayDaily(t)
      PROVE  \A f \in Phases, s \in Tickets : paid'[PhaseKey(f, s)] = paid[PhaseKey(f, s)]
  BY <1>2, DailyWinnerIsPaid, KeysDiffer, KeysOfType
<1>3. CASE ~CreditPot /\ \A t \in Tickets : ~PayDaily(t)
  <2>1. paid' = paid
    BY <1>3 DEF Next, Draw, vars, game, Begin, WinnersArePaid, PotsAreEvaluated, DailyIsPaid, CommitDraw,
       TryWin, RollBack, JackpottFails, FillPot, IncomeChanges, Cancel
  <2> QED
    BY <2>1
<1> QED
  BY <1>1, <1>2, <1>3

LEMMA WinnersStep ==
  ASSUME TypeOK, AttemptIsShaped, OnlyWinnersPaid, [Next]_vars
  PROVE  OnlyWinnersPaid'
<1> SUFFICES ASSUME NEW f \in Phases, NEW t \in Tickets, IsPaid(f, t)'
             PROVE  f <= phase' /\ completes'[t][f] <= draws' + 1
  BY DEF OnlyWinnersPaid
<1>1. phase <= phase' /\ draws <= draws' /\ completes' = completes /\ phase' \in Phases /\ draws' \in Nat
  <2>1. CASE CommitDraw
    BY <2>1, TypeStep DEF CommitDraw, NextPhase, TypeOK, Phases
  <2>2. CASE ~CommitDraw
    BY <2>2, OnlyCommits DEF TypeOK, Phases
  <2> QED
    BY <2>1, <2>2
<1>2. CASE IsPaid(f, t)
  <2>1. f <= phase /\ completes[t][f] <= draws + 1
    BY <1>2 DEF OnlyWinnersPaid
  <2>2. completes[t][f] \in Nat /\ draws \in Nat /\ phase \in Nat
    BY NumbersAssumption DEF TypeOK, Phases
  <2> QED
    BY <1>1, <2>1, <2>2 DEF Phases
<1>3. CASE ~IsPaid(f, t)
  <2>1. PICK s \in Tickets : PayWinner(s)
    BY <1>3, OtherCredits DEF IsPaid
  <2>2. s \in Winners /\ PhaseKey(f, t) = PhaseKey(phase, s)
    BY <1>3, <2>1, WinnerIsPaid, KeysOfType DEF IsPaid
  <2>3. f = phase /\ t = s
    BY <2>2, KeysDiffer DEF TypeOK, Winners
  <2>4. completes[t][f] <= draws + 1
    BY <2>2, <2>3 DEF Winners, Ball
  <2>5. UNCHANGED <<draws, phase>>
    BY <2>1 DEF PayWinner, game
  <2> QED
    BY <1>1, <2>3, <2>4, <2>5 DEF Phases
<1> QED
  BY <1>2, <1>3

(* Within an attempt nothing but a payment settles a winner, and only a    *)
(* failed attempt forgets it.                                              *)
LEMMA SettledStep ==
  ASSUME TypeOK, AttemptIsShaped, [Next]_vars, ~CommitDraw, NEW t \in Winners,
         \A s \in Tickets : ~PayWinner(s)
  PROVE  /\ Settled(t)' => Settled(t) /\ attempt'.income = attempt.income
         /\ faults' = 0 => faults = 0 /\ (Settled(t)' <=> Settled(t))
<1> USE DEF Settled
<1>1. CASE Begin
  BY <1>1 DEF Begin, NoAttempt
<1>2. CASE WinnersArePaid
  BY <1>2 DEF WinnersArePaid, TypeOK
<1>3. CASE PotsAreEvaluated
  BY <1>3 DEF PotsAreEvaluated, TypeOK
<1>4. CASE DailyIsPaid
  BY <1>4 DEF DailyIsPaid, TypeOK
<1>5. ASSUME NEW s \in Tickets, PayDaily(s)
      PROVE  /\ Settled(t)' => Settled(t) /\ attempt'.income = attempt.income
             /\ faults' = 0 => faults = 0 /\ (Settled(t)' <=> Settled(t))
  BY <1>5 DEF PayDaily, TypeOK
<1>6. ASSUME NEW p \in Pots, TryWin(p)
      PROVE  /\ Settled(t)' => Settled(t) /\ attempt'.income = attempt.income
             /\ faults' = 0 => faults = 0 /\ (Settled(t)' <=> Settled(t))
  BY <1>6 DEF TryWin, Proceed, TypeOK
<1>7. CASE CreditPot
  BY <1>7 DEF CreditPot, Proceed, TypeOK
<1>8. CASE RollBack
  BY <1>8 DEF RollBack, NoAttempt, TypeOK
<1>9. ASSUME NEW p \in Pots, JackpottFails(p)
      PROVE  /\ Settled(t)' => Settled(t) /\ attempt'.income = attempt.income
             /\ faults' = 0 => faults = 0 /\ (Settled(t)' <=> Settled(t))
  BY <1>9 DEF JackpottFails, Proceed, TypeOK
<1>10. CASE IncomeChanges \/ Cancel \/ \E p \in Pots : FillPot(p)
  BY <1>10 DEF IncomeChanges, Cancel, FillPot
<1>11. CASE UNCHANGED vars
  BY <1>11 DEF vars
<1> QED
  BY <1>1, <1>2, <1>3, <1>4, <1>5, <1>6, <1>7, <1>8, <1>9, <1>10, <1>11 DEF Next, Draw

LEMMA SharesStep ==
  ASSUME TypeOK, AttemptIsShaped, OnlyWinnersPaid, SharesArePaid, [Next]_vars
  PROVE  SharesArePaid'
<1> SUFFICES ASSUME status' = "running", NEW t \in Winners'
             PROVE  (/\ Settled(t) /\ Share(t) > 0 => IsPaid(phase, t)
                     /\ faults = 0 => paid[PhaseKey(phase, t)] = IF Settled(t) THEN Share(t) ELSE 0
                     /\ FixedPrize(Color[t], phase) => paid[PhaseKey(phase, t)] \in {0, Share(t)})'
  BY DEF SharesArePaid
<1>0. t \in Tickets /\ TypeOK' /\ AttemptIsShaped'
  BY TypeStep, ShapeStep DEF Winners
<1>1. CASE CommitDraw
  <2>1. ~Settled(t)'
    BY <1>1 DEF CommitDraw, NoAttempt, Settled
  <2>2. ~Finished /\ paid' = paid /\ completes' = completes /\ draws' = draws + 1
    BY <1>1 DEF CommitDraw
  <2>3. paid[PhaseKey(phase', t)] = 0
    <3>1. CASE Won
      <4>1. phase' = phase + 1 /\ phase' \in Phases
        BY <1>0, <1>1, <2>2, <3>1 DEF CommitDraw, NextPhase, Finished, TypeOK
      <4>2. ~IsPaid(phase', t)
        BY <1>0, <4>1 DEF OnlyWinnersPaid, TypeOK, Phases
      <4> QED
        BY <1>0, <4>1, <4>2, KeysOfType DEF IsPaid, TypeOK
    <3>2. CASE ~Won
      <4>1. phase' = phase /\ phase \in Phases
        BY <1>1, <3>2 DEF CommitDraw, NextPhase, TypeOK
      <4>2. ~IsPaid(phase, t)
        BY <1>0, <3>2, <4>1 DEF OnlyWinnersPaid, Won, Winners, Ball
      <4> QED
        BY <1>0, <4>1, <4>2, KeysOfType DEF IsPaid, TypeOK
    <3> QED
      BY <3>1, <3>2
  <2> QED
    BY <2>1, <2>2, <2>3
<1>2. CASE ~CommitDraw
  <2>1. UNCHANGED <<completes, draws, phase>> /\ t \in Winners /\ status = "running"
    BY <1>2, OnlyCommits, SameWinners DEF Cancel
  <2>2. /\ Settled(t) /\ Share(t) > 0 => IsPaid(phase, t)
        /\ faults = 0 => paid[PhaseKey(phase, t)] = IF Settled(t) THEN Share(t) ELSE 0
        /\ FixedPrize(Color[t], phase) => paid[PhaseKey(phase, t)] \in {0, Share(t)}
    BY <2>1 DEF SharesArePaid
  <2>3. FixedPrize(Color[t], phase) => Share(t)' = Share(t)
    BY <1>0, <2>1, ShareIsFixed DEF TypeOK
  <2>4. FixedPrize(Color[t], phase)' <=> FixedPrize(Color[t], phase)
    BY <2>1 DEF FixedPrize
  <2>5. attempt'.income = attempt.income => Share(t)' = Share(t)
    BY <2>1 DEF Share, SameColor, Winners, Ball
  <2>6. PhaseKey(phase, t)' = PhaseKey(phase, t) /\ phase \in Phases
    BY <2>1 DEF PhaseKey, TypeOK
  <2>7. CASE \A s \in Tickets : ~PayWinner(s)
    <3>1. paid'[PhaseKey(phase, t)] = paid[PhaseKey(phase, t)]
      BY <1>0, <2>6, <2>7, OtherCredits
    <3>2. /\ Settled(t)' => Settled(t) /\ attempt'.income = attempt.income
          /\ faults' = 0 => faults = 0 /\ (Settled(t)' <=> Settled(t))
      BY <1>2, <2>1, <2>7, SettledStep
    <3>3. (Settled(t) /\ Share(t) > 0 => IsPaid(phase, t))'
      BY <2>2, <2>5, <2>6, <3>1, <3>2 DEF IsPaid
    <3>4. (faults = 0 => paid[PhaseKey(phase, t)] = IF Settled(t) THEN Share(t) ELSE 0)'
      BY <2>2, <2>5, <2>6, <3>1, <3>2
    <3>5. (FixedPrize(Color[t], phase) => paid[PhaseKey(phase, t)] \in {0, Share(t)})'
      BY <2>2, <2>3, <2>4, <2>6, <3>1
    <3> QED
      BY <3>3, <3>4, <3>5
  <2>8. ASSUME NEW s \in Tickets, PayWinner(s)
        PROVE  (/\ Settled(t) /\ Share(t) > 0 => IsPaid(phase, t)
                /\ faults = 0 => paid[PhaseKey(phase, t)] = IF Settled(t) THEN Share(t) ELSE 0
                /\ FixedPrize(Color[t], phase) => paid[PhaseKey(phase, t)] \in {0, Share(t)})'
    <3>1. Share(t)' = Share(t) /\ faults' = faults
      BY <2>5, <2>8 DEF PayWinner, TypeOK
    <3>2. CASE s = t
      <4>1. ~Settled(t) /\ Settled(t)'
        BY <2>8, <3>2 DEF PayWinner, Settled, TypeOK
      <4>2. /\ paid'[PhaseKey(phase, t)] =
                 IF paid[PhaseKey(phase, t)] = 0 THEN Share(t) ELSE paid[PhaseKey(phase, t)]
            /\ paid[PhaseKey(phase, t)] \in Nat
        BY <2>8, <3>2, WinnerIsPaid DEF TypeOK
      <4> QED
        BY <2>2, <2>4, <2>6, <3>1, <4>1, <4>2 DEF IsPaid
    <3>3. CASE s # t
      <4>1. Settled(t)' <=> Settled(t)
        BY <2>8, <3>3 DEF PayWinner, Settled, TypeOK
      <4>2. paid'[PhaseKey(phase, t)] = paid[PhaseKey(phase, t)]
        BY <1>0, <2>6, <2>8, <3>3, WinnerIsPaid, KeysDiffer, KeysOfType
      <4> QED
        BY <2>2, <2>4, <2>6, <3>1, <4>1, <4>2 DEF IsPaid
    <3> QED
      BY <3>2, <3>3
  <2> QED
    BY <2>7, <2>8
<1> QED
  BY <1>1, <1>2

LEMMA FaultsGrow ==
  ASSUME TypeOK, [Next]_vars, faults' = 0
  PROVE  faults = 0
<1>1. CASE RollBack \/ \E p \in Pots : JackpottFails(p)
  <2>1. faults' = faults + 1
    BY <1>1 DEF RollBack, JackpottFails
  <2> QED
    BY <2>1 DEF TypeOK
<1>2. CASE ~RollBack /\ \A p \in Pots : ~JackpottFails(p)
  BY <1>2 DEF Next, Draw, vars, Begin, WinnersArePaid, PotsAreEvaluated, DailyIsPaid, PayWinner,
     PayDaily, TryWin, CreditPot, CommitDraw, FillPot, IncomeChanges, Cancel
<1> QED
  BY <1>1, <1>2

(* What was paid for a phase stays what it was.                            *)
LEMMA PaidForGood ==
  ASSUME TypeOK, AttemptIsShaped, [Next]_vars, NEW f \in Phases, NEW t \in Tickets, IsPaid(f, t)
  PROVE  paid'[PhaseKey(f, t)] = paid[PhaseKey(f, t)]
<1>1. ASSUME NEW s \in Tickets, PayWinner(s)
      PROVE  paid'[PhaseKey(f, t)] = paid[PhaseKey(f, t)]
  BY <1>1, WinnerIsPaid, KeysOfType DEF IsPaid
<1> QED
  BY <1>1, OtherCredits

LEMMA RecordsStep ==
  ASSUME TypeOK, AttemptIsShaped, SharesArePaid, RecordedIsPaid, [Next]_vars
  PROVE  RecordedIsPaid'
<1> SUFFICES ASSUME NEW r \in rows', r.amount > 0
             PROVE  /\ IsPaid(r.phase, r.ticket)'
                    /\ faults' = 0 \/ FixedPrize(Color[r.ticket], r.phase)
                         => paid'[PhaseKey(r.phase, r.ticket)] = r.amount
  BY DEF RecordedIsPaid, FixedPrize, PhaseKey
<1>1. CASE r \in rows
  <2>1. r.phase \in Phases /\ r.ticket \in Tickets
    BY <1>1 DEF TypeOK
  <2>2. /\ IsPaid(r.phase, r.ticket)
        /\ faults = 0 \/ FixedPrize(Color[r.ticket], r.phase)
             => paid[PhaseKey(r.phase, r.ticket)] = r.amount
    BY <1>1 DEF RecordedIsPaid
  <2>3. paid'[PhaseKey(r.phase, r.ticket)] = paid[PhaseKey(r.phase, r.ticket)]
    BY <2>1, <2>2, PaidForGood
  <2> QED
    BY <2>2, <2>3, FaultsGrow DEF IsPaid
<1>2. CASE r \notin rows
  <2>1. CommitDraw
    BY <1>2, OnlyCommits
  <2>2. PICK t \in Winners : r = [phase |-> phase, ticket |-> t, amount |-> Share(t)]
    BY <1>2, <2>1 DEF CommitDraw
  <2>3. status = "running" /\ Settled(t) /\ paid' = paid /\ faults' = faults
    BY <2>1 DEF CommitDraw, AttemptIsShaped, Settled
  <2>4. Share(t) > 0 /\ IsPaid(phase, t)
    BY <2>2, <2>3 DEF SharesArePaid
  <2>5. faults = 0 => paid[PhaseKey(phase, t)] = Share(t)
    BY <2>3 DEF SharesArePaid
  <2>6. FixedPrize(Color[t], phase) => paid[PhaseKey(phase, t)] = Share(t)
    BY <2>3, <2>4 DEF SharesArePaid, IsPaid
  <2> QED
    BY <2>2, <2>3, <2>4, <2>5, <2>6 DEF IsPaid
<1> QED
  BY <1>1, <1>2
-----------------------------------------------------------------------------
(* Pots                                                                    *)

LEMMA PotCredits ==
  ASSUME TypeOK, AttemptIsShaped, [Next]_vars, ~CreditPot
  PROVE  \A p \in Pots : paid'[PotKey(p)] = paid[PotKey(p)]
<1>1. ASSUME NEW t \in Tickets, PayWinner(t)
      PROVE  \A p \in Pots : paid'[PotKey(p)] = paid[PotKey(p)]
  <2>1. phase \in Phases
    BY DEF TypeOK
  <2> QED
    BY <1>1, <2>1, WinnerIsPaid, KeysDiffer, KeysOfType
<1>2. ASSUME NEW t \in Tickets, PayDaily(t)
      PROVE  \A p \in Pots : paid'[PotKey(p)] = paid[PotKey(p)]
  BY <1>2, DailyWinnerIsPaid, KeysDiffer, KeysOfType
<1>3. CASE \A t \in Tickets : ~PayWinner(t) /\ ~PayDaily(t)
  <2>1. paid' = paid
    BY <1>3 DEF Next, Draw, vars, game, Begin, WinnersArePaid, PotsAreEvaluated, DailyIsPaid, CommitDraw,
       TryWin, RollBack, JackpottFails, FillPot, IncomeChanges, Cancel
  <2> QED
    BY <2>1
<1> QED
  BY <1>1, <1>2, <1>3

LEMMA PotNumbers ==
  ASSUME TypeOK, NEW p \in Pots
  PROVE  pot[p] \in Nat /\ taken[p] \in Nat /\ paid[PotKey(p)] \in Nat
BY NumbersAssumption, KeysOfType DEF TypeOK

(* Steps that neither win nor pay a pot.                                   *)
LEMMA PotsAside ==
  ASSUME TypeOK, AttemptIsShaped, PotsAreCurrent, PotNeverOverpaid, [Next]_vars,
         ~CreditPot, \A p \in Pots : ~TryWin(p) /\ ~JackpottFails(p)
  PROVE  PotsAreCurrent' /\ PotNeverOverpaid'
<1>1. taken' = taken /\ \A p \in Pots : paid'[PotKey(p)] = paid[PotKey(p)]
  <2>1. taken' = taken
    BY DEF Next, Draw, vars, Begin, WinnersArePaid, PotsAreEvaluated, DailyIsPaid, CommitDraw,
       PayWinner, PayDaily, RollBack, FillPot, IncomeChanges, Cancel
  <2> QED
    BY <2>1, PotCredits
<1>2. (attempt'.on = None /\ attempt'.at # "credit") \/ UNCHANGED vars
  <2>1. CASE Begin
    BY <2>1 DEF Begin, NoAttempt
  <2>2. CASE CommitDraw \/ RollBack
    BY <2>2 DEF CommitDraw, RollBack, NoAttempt
  <2>3. CASE WinnersArePaid \/ PotsAreEvaluated \/ DailyIsPaid
    BY <2>3 DEF WinnersArePaid, PotsAreEvaluated, DailyIsPaid, AttemptIsShaped, TypeOK
  <2>4. ASSUME NEW t \in Tickets, PayWinner(t) \/ PayDaily(t)
        PROVE  attempt'.on = None /\ attempt'.at # "credit"
    BY <2>4 DEF PayWinner, PayDaily, AttemptIsShaped, TypeOK
  <2>5. CASE IncomeChanges \/ Cancel \/ \E p \in Pots : FillPot(p)
    BY <2>5 DEF IncomeChanges, Cancel, FillPot, Between, AttemptIsShaped
  <2> QED
    BY <2>1, <2>2, <2>3, <2>4, <2>5 DEF Next, Draw
<1>3. attempt.on # None => UNCHANGED vars \/ faults' # 0
  <2>1. RollBack => faults' # 0
    BY DEF RollBack, TypeOK
  <2>2. attempt.on # None => RollBack \/ UNCHANGED vars
    BY DEF AttemptIsShaped, Next, Draw, Begin, WinnersArePaid, PotsAreEvaluated, DailyIsPaid,
       CommitDraw, PayWinner, PayDaily, FillPot, IncomeChanges, Cancel, Between
  <2> QED
    BY <2>1, <2>2
<1>4. PotsUntouched' => PotsUntouched \/ faults' # 0
  <2>1. CASE CommitDraw
    BY <2>1 DEF CommitDraw, PotsUntouched, NextPhase, Finished, Bingo, NoAttempt
  <2>2. CASE RollBack
    BY <2>2 DEF RollBack, TypeOK
  <2>3. CASE UNCHANGED vars
    BY <2>3, SameWinners DEF vars, game, PotsUntouched
  <2>4. CASE ~CommitDraw /\ ~RollBack /\ ~UNCHANGED vars
    <3>1. phase' = phase /\ (Won' <=> Won)
      BY <2>4, OnlyCommits, SameWinners
    <3> QED
      BY <2>4, <3>1 DEF Next, Draw, PotsUntouched, AttemptIsShaped, TypeOK, Begin, WinnersArePaid, PotsAreEvaluated,
         DailyIsPaid, PayWinner, PayDaily, FillPot, IncomeChanges, Cancel, Between, game
  <2> QED
    BY <2>1, <2>2, <2>3, <2>4
<1>5. attempt'.at = "pots" => PotsUntouched \/ UNCHANGED vars \/ faults' # 0
  <2>1. CASE WinnersArePaid
    BY <2>1 DEF WinnersArePaid, PotsUntouched, AttemptIsShaped
  <2>2. CASE CommitDraw \/ RollBack \/ Begin
    <3>1. CASE Begin
      BY <3>1 DEF Begin, NoAttempt
    <3> QED
      BY <2>2, <3>1 DEF CommitDraw, RollBack, NoAttempt
  <2>3. CASE ~CommitDraw /\ ~RollBack /\ ~Begin /\ ~WinnersArePaid
    BY <2>3 DEF TypeOK, Next, Draw, PotsAreEvaluated, DailyIsPaid, PayWinner, PayDaily, FillPot,
       IncomeChanges, Cancel, Between
  <2> QED
    BY <2>1, <2>2, <2>3
<1>6. CASE UNCHANGED vars
  BY <1>6, SameWinners DEF vars, game, PotsAreCurrent, PotsUntouched, PotNeverOverpaid
<1>7. CASE ~UNCHANGED vars
  <2>1. PotsAreCurrent'
    BY <1>1, <1>2, <1>4, <1>5, <1>7, FaultsGrow, TypeStep DEF PotsAreCurrent, TypeOK
  <2>2. PotNeverOverpaid'
    BY <1>1, <1>3, <1>7, FaultsGrow, PotsAssumption DEF PotNeverOverpaid
  <2> QED
    BY <2>1, <2>2
<1> QED
  BY <1>6, <1>7

LEMMA PotWon ==
  ASSUME TypeOK, AttemptIsShaped, PotsAreCurrent, PotNeverOverpaid, NEW p \in Pots, TryWin(p)
  PROVE  PotsAreCurrent' /\ PotNeverOverpaid'
<1>1. /\ attempt.at = "pots" /\ p \in attempt.pots /\ attempt.on = None
      /\ phase = LastPhase /\ status = "running"
      /\ UNCHANGED <<completes, status, draws, phase, paid, faults>>
      /\ p # None
  BY PotsAssumption DEF TryWin, AttemptIsShaped, game
<1>2. /\ pot[p] \in Nat /\ taken[p] \in Nat /\ paid[PotKey(p)] \in Nat
      /\ faults = 0 => taken[p] = 0 /\ paid[PotKey(p)] = 0
  BY <1>1, PotNumbers DEF PotsAreCurrent, PotNeverOverpaid
<1>3. attempt'.at \in {"pots", "credit"} /\ ~PotsUntouched'
  BY <1>1 DEF TryWin, Proceed, PotsUntouched, TypeOK
<1>4. \A q \in Pots : PotKey(q)' = PotKey(q)
  BY DEF PotKey
<1>5. CASE Triggered(p) /\ Emptied(p)
           /\ attempt' = [attempt EXCEPT !.at = "credit", !.on = p, !.won = AtMost(pot[p], PrizeCap)]
  <2>1. attempt'.at = "credit" /\ attempt'.on = p /\ attempt'.pots = attempt.pots
        /\ attempt'.won = AtMost(pot[p], PrizeCap)
    BY <1>5 DEF TypeOK
  <2>2. taken' = [taken EXCEPT ![p] = taken[p] + pot[p]]
    BY <1>5 DEF Emptied
  <2>3. taken'[p] = taken[p] + pot[p] /\ \A q \in Pots : q # p => taken'[q] = taken[q]
    BY <2>2 DEF TypeOK
  <2>4. attempt'.won <= pot[p] /\ attempt'.won \in Nat
    BY <1>2, <2>1, CapOfType, NumbersAssumption
  <2>5. attempt'.won <= taken'[attempt'.on]
    BY <1>2, <2>1, <2>3, <2>4
  <2>6. faults' = 0 => taken'[p] = pot[p]
    BY <1>1, <1>2, <2>3
  <2>7. PotsAreCurrent'
    <3>1. ASSUME faults' = 0, NEW q \in attempt'.pots, q # attempt'.on
          PROVE  taken'[q] = 0
      <4>1. q \in Pots /\ q \in attempt.pots /\ q # p /\ q # None
        BY <2>1, <3>1, PotsAssumption DEF TypeOK
      <4> QED
        BY <1>1, <2>3, <3>1, <4>1 DEF PotsAreCurrent
    <3>2. faults' = 0 => attempt'.won = AtMost(taken'[attempt'.on], PrizeCap)
                         /\ paid'[PotKey(attempt'.on)] = 0
      BY <1>1, <1>2, <2>1, <2>6
    <3> QED
      BY <1>3, <2>5, <3>1, <3>2 DEF PotsAreCurrent, AtMost, PotKey
  <2>8. PotNeverOverpaid'
    <3>1. \A q \in Pots : paid'[PotKey(q)] <= taken'[q]
      <4>1. \A q \in Pots : paid[PotKey(q)] <= taken[q]
        BY DEF PotNeverOverpaid
      <4>2. taken[p] <= taken'[p]
        BY <1>2, <2>3
      <4>3. paid[PotKey(p)] <= taken'[p]
        BY <1>2, <2>3, <4>1
      <4> QED
        BY <1>1, <2>3, <4>1, <4>3
    <3>2. \A q \in Pots : faults' = 0 /\ attempt'.on # q => paid'[PotKey(q)] = AtMost(taken'[q], PrizeCap)
      BY <1>1, <2>1, <2>3, PotsAssumption DEF PotNeverOverpaid
    <3> QED
      BY <3>1, <3>2 DEF PotNeverOverpaid, PotKey, AtMost
  <2> QED
    BY <2>7, <2>8
<1>6. CASE Proceed(p) /\ UNCHANGED <<pot, taken>>
  <2>1. attempt'.at = "pots" /\ attempt'.on = None /\ attempt'.pots = attempt.pots \ {p}
    BY <1>6 DEF Proceed, TypeOK
  <2>2. PotsAreCurrent'
    BY <1>1, <1>3, <1>6, <2>1 DEF PotsAreCurrent
  <2>3. PotNeverOverpaid'
    BY <1>1, <1>6, <2>1, PotsAssumption DEF PotNeverOverpaid
  <2> QED
    BY <2>2, <2>3
<1> QED
  BY <1>5, <1>6 DEF TryWin

LEMMA PotPaid ==
  ASSUME TypeOK, AttemptIsShaped, PotsAreCurrent, PotNeverOverpaid, CreditPot
  PROVE  PotsAreCurrent' /\ PotNeverOverpaid'
<1> DEFINE p == attempt.on
<1>1. /\ attempt.at = "credit" /\ p \in attempt.pots /\ p \in Pots
      /\ phase = LastPhase /\ status = "running"
      /\ UNCHANGED <<completes, status, draws, phase, taken, faults>>
  BY DEF CreditPot, AttemptIsShaped, game, TypeOK
<1>2. attempt'.at = "pots" /\ attempt'.on = None /\ attempt'.pots = attempt.pots \ {p}
  BY DEF CreditPot, Proceed, TypeOK
<1>3. ~PotsUntouched'
  BY <1>1, <1>2 DEF PotsUntouched
<1>4. paid'[PotKey(p)] = IF paid[PotKey(p)] = 0 THEN attempt.won ELSE paid[PotKey(p)]
  BY PotIsPaid
<1>5. \A q \in Pots : q # p => paid'[PotKey(q)] = paid[PotKey(q)]
  BY <1>1, PotIsPaid, KeysDiffer, KeysOfType
<1>6. PotsAreCurrent'
  BY <1>1, <1>2, <1>3 DEF PotsAreCurrent
<1>7. attempt.won <= taken[p] /\ paid[PotKey(p)] <= taken[p]
      /\ (faults = 0 => attempt.won = AtMost(taken[p], PrizeCap) /\ paid[PotKey(p)] = 0)
  BY <1>1 DEF PotsAreCurrent, PotNeverOverpaid
<1>8. \A q \in Pots : paid'[PotKey(q)] <= taken'[q]
  BY <1>1, <1>4, <1>5, <1>7 DEF PotNeverOverpaid
<1>9. \A q \in Pots : faults' = 0 => paid'[PotKey(q)] = AtMost(taken'[q], PrizeCap)
  BY <1>1, <1>4, <1>5, <1>7 DEF PotNeverOverpaid
<1> QED
  BY <1>6, <1>8, <1>9 DEF PotNeverOverpaid

LEMMA PotLost ==
  ASSUME TypeOK, AttemptIsShaped, PotsAreCurrent, PotNeverOverpaid, NEW p \in Pots, JackpottFails(p)
  PROVE  PotsAreCurrent' /\ PotNeverOverpaid'
<1>1. faults' # 0 /\ attempt'.at = "pots" /\ paid' = paid
  BY DEF JackpottFails, Proceed, TypeOK
<1>2. \A q \in Pots : taken[q] <= taken'[q]
  <2>1. CASE Emptied(p)
    BY <2>1, PotNumbers DEF Emptied, TypeOK
  <2>2. CASE taken' = taken
    BY <2>2, PotNumbers
  <2> QED
    BY <2>1, <2>2 DEF JackpottFails
<1>3. PotsAreCurrent'
  BY <1>1 DEF PotsAreCurrent
<1>4. \A q \in Pots : paid'[PotKey(q)] <= taken'[q]
  <2> TAKE q \in Pots
  <2>1. paid[PotKey(q)] <= taken[q] /\ taken[q] \in Nat /\ paid[PotKey(q)] \in Nat
    BY PotNumbers DEF PotNeverOverpaid
  <2>2. taken'[q] \in Nat
    <3>1. TypeOK'
      BY TypeStep DEF Next
    <3> QED
      BY <3>1 DEF TypeOK
  <2> QED
    BY <1>1, <1>2, <2>1, <2>2
<1> QED
  BY <1>1, <1>3, <1>4 DEF PotNeverOverpaid

LEMMA PotStep ==
  ASSUME TypeOK, AttemptIsShaped, PotsAreCurrent, PotNeverOverpaid, [Next]_vars
  PROVE  PotsAreCurrent' /\ PotNeverOverpaid'
BY PotsAside, PotWon, PotPaid, PotLost
-----------------------------------------------------------------------------
(* The invariant                                                           *)

LEMMA InitHolds == Init => IInv
<1> SUFFICES ASSUME Init PROVE IInv
  OBVIOUS
<1>1. TypeOK
  BY InitTypes
<1>2. paid = [k \in Keys |-> 0] /\ attempt = NoAttempt /\ rows = {} /\ taken = [p \in Pots |-> 0]
  BY DEF Init
<1>3. AttemptIsShaped /\ RowsInOrder
  BY <1>2, NumbersAssumption DEF AttemptIsShaped, RowsInOrder, NoAttempt, Init
<1>4. \A f \in Phases, t \in Tickets : paid[PhaseKey(f, t)] = 0
  BY <1>2, KeysOfType
<1>5. SharesArePaid
  BY <1>1, <1>2, <1>4 DEF SharesArePaid, Settled, NoAttempt, Winners, TypeOK
<1>6. OnlyWinnersPaid /\ RecordedIsPaid
  BY <1>2, <1>4 DEF OnlyWinnersPaid, RecordedIsPaid, IsPaid
<1>7. PotsAreCurrent
  BY <1>2 DEF PotsAreCurrent, NoAttempt
<1>8. PotNeverOverpaid
  <2>1. \A p \in Pots : paid[PotKey(p)] = 0 /\ taken[p] = 0
    BY <1>2, KeysOfType
  <2> QED
    BY <2>1, NumbersAssumption DEF PotNeverOverpaid, AtMost
<1> QED
  BY <1>1, <1>3, <1>5, <1>6, <1>7, <1>8 DEF IInv

LEMMA StepHolds == IInv /\ [Next]_vars => IInv'
BY TypeStep, ShapeStep, OrderStep, WinnersStep, SharesStep, RecordsStep, PotStep DEF IInv

(* Attempts, payments, records and pots agree in every reachable state.    *)
THEOREM Invariance == Spec => []IInv
<1> QED
  BY InitHolds, StepHolds, PTL DEF Spec

(* Nobody is paid for a phase who has not got its rows by the draw that    *)
(* won it, whatever attempts failed.                                       *)
THEOREM OnlyWinnersArePaid == Spec => []OnlyWinnersPaid
<1>1. IInv => OnlyWinnersPaid
  BY DEF IInv
<1> QED
  BY <1>1, Invariance, PTL

(* A recorded winner was paid what the record says, if nothing failed or   *)
(* the prize does not depend on refunds.                                   *)
THEOREM RecordsAreTrue == Spec => []RecordedIsPaid
<1>1. IInv => RecordedIsPaid
  BY DEF IInv
<1> QED
  BY <1>1, Invariance, PTL

(* A pot pays no more than was taken from it, and all of it, up to the     *)
(* cap, if nothing failed.                                                 *)
THEOREM NoPotIsOverpaid == Spec => []PotNeverOverpaid
<1>1. IInv => PotNeverOverpaid
  BY DEF IInv
<1> QED
  BY <1>1, Invariance, PTL
-----------------------------------------------------------------------------
(* The draws implement PrizeSettlement                                     *)

(* The next state of the mapped variables, spelt out.                      *)
LEMMA PrimedPrizes ==
  /\ PaidPrizes' = {x \in Phases \X Tickets : paid'[PhaseKey(x[1], x[2])] > 0}
  /\ RecordedPrizes' = {x \in PaidPrizes' : \E r \in rows' : r.phase = x[1] /\ r.ticket = x[2]}
BY DEF PaidPrizes, RecordedPrizes, IsPaid, Recorded, PhaseKey

LEMMA PrizesAside ==
  ASSUME IInv, [Next]_vars, \A t \in Tickets : ~PayWinner(t), rows' = rows
  PROVE  PaidPrizes' = PaidPrizes /\ RecordedPrizes' = RecordedPrizes
<1>1. \A x \in Phases \X Tickets : paid'[PhaseKey(x[1], x[2])] = paid[PhaseKey(x[1], x[2])]
  BY OtherCredits DEF IInv
<1>2. PaidPrizes' = PaidPrizes
  BY <1>1, PrimedPrizes DEF PaidPrizes, IsPaid
<1> QED
  BY <1>2, PrimedPrizes DEF RecordedPrizes, Recorded

LEMMA PaymentIsPay ==
  ASSUME IInv, NEW t \in Tickets, PayWinner(t)
  PROVE  P!Next \/ UNCHANGED <<PaidPrizes, RecordedPrizes>>
<1> DEFINE x == <<phase, t>>
<1>1. x \in Phases \X Tickets /\ x[1] = phase /\ x[2] = t
  BY DEF IInv, TypeOK
<1>2. status = "running" /\ rows' = rows
  BY DEF PayWinner, IInv, AttemptIsShaped
<1>3. \A r \in rows : r.phase < phase
  BY <1>2 DEF IInv, RowsInOrder
<1>4. \A y \in (Phases \X Tickets) : y # x => paid'[PhaseKey(y[1], y[2])] = paid[PhaseKey(y[1], y[2])]
  <2> TAKE y \in Phases \X Tickets
  <2>1. y = <<y[1], y[2]>> /\ y[1] \in Phases /\ y[2] \in Tickets
    OBVIOUS
  <2>2. y # x => PhaseKey(y[1], y[2]) # PhaseKey(phase, t)
    BY <1>1, <2>1, KeysDiffer
  <2> QED
    BY <2>1, <2>2, WinnerIsPaid, KeysOfType DEF IInv
<1>5. PaidPrizes' = PaidPrizes \/ PaidPrizes' = PaidPrizes \cup {x}
  <2>1. \A y \in Phases \X Tickets : y # x => (y \in PaidPrizes' <=> y \in PaidPrizes)
    BY <1>4, PrimedPrizes DEF PaidPrizes, IsPaid
  <2>2. x \in PaidPrizes => x \in PaidPrizes'
    BY <1>1, WinnerIsPaid, PrimedPrizes DEF IInv, PaidPrizes, IsPaid
  <2>3. PaidPrizes \subseteq Phases \X Tickets /\ PaidPrizes' \subseteq Phases \X Tickets
    BY PrimedPrizes DEF PaidPrizes
  <2> QED
    BY <1>1, <2>1, <2>2, <2>3
<1>6. RecordedPrizes' = RecordedPrizes
  <2>1. \A r \in rows : ~(r.phase = x[1] /\ r.ticket = x[2])
    <3>1. \A r \in rows : r.phase # phase
      BY <1>3 DEF IInv, TypeOK, Phases
    <3> QED
      BY <1>1, <3>1
  <2> QED
    BY <1>2, <1>5, <2>1, PrimedPrizes DEF RecordedPrizes, Recorded
<1>7. \A y \in RecordedPrizes : y[1] < phase
  BY <1>3 DEF RecordedPrizes, Recorded
<1>8. CASE x \in PaidPrizes \/ PaidPrizes' = PaidPrizes
  BY <1>5, <1>6, <1>8
<1>9. CASE x \notin PaidPrizes /\ PaidPrizes' = PaidPrizes \cup {x}
  <2>1. P!Pay(x)
    BY <1>1, <1>6, <1>7, <1>9 DEF P!Pay, P!Open
  <2> QED
    BY <1>1, <2>1 DEF P!Next
<1> QED
  BY <1>5, <1>8, <1>9

LEMMA CommitIsRecord ==
  ASSUME IInv, CommitDraw, Won
  PROVE  P!Next
<1>1. /\ status = "running" /\ paid' = paid /\ phase \in Phases
      /\ rows' = rows \cup {[phase |-> phase, ticket |-> t, amount |-> Share(t)] : t \in Winners}
  BY DEF CommitDraw, IInv, AttemptIsShaped, TypeOK
<1>2. PICK t \in Winners : TRUE
  BY DEF Won
<1>3. PaidPrizes' = PaidPrizes
  BY <1>1, PrimedPrizes DEF PaidPrizes, IsPaid
<1>4. ASSUME NEW u \in Tickets, IsPaid(phase, u)
      PROVE  u \in Winners
  BY <1>1, <1>4 DEF IInv, OnlyWinnersPaid, Winners, Ball
<1>5. \A y \in RecordedPrizes : y[1] < phase
  BY <1>1 DEF RecordedPrizes, Recorded, IInv, RowsInOrder
<1>6. RecordedPrizes' = RecordedPrizes \cup {y \in PaidPrizes : y[1] = phase}
  <2>1. ASSUME NEW y \in PaidPrizes, y[1] = phase
        PROVE  \E r \in rows' : r.phase = y[1] /\ r.ticket = y[2]
    <3>1. y[2] \in Winners
      BY <1>4, <2>1 DEF PaidPrizes
    <3> DEFINE r == [phase |-> phase, ticket |-> y[2], amount |-> Share(y[2])]
    <3>2. r \in rows'
      BY <1>1, <3>1
    <3> QED
      BY <2>1, <3>2
  <2>2. ASSUME NEW y \in PaidPrizes, y[1] # phase, NEW r \in rows', r.phase = y[1], r.ticket = y[2]
        PROVE  r \in rows
    BY <1>1, <2>2
  <2> QED
    BY <1>1, <1>3, <2>1, <2>2, PrimedPrizes DEF RecordedPrizes, Recorded
<1>7. P!Record(phase)
  BY <1>3, <1>5, <1>6 DEF P!Record, P!Open
<1>8. <<phase, t>> \in Phases \X Tickets /\ <<phase, t>>[1] = phase
  BY <1>1 DEF Winners
<1> QED
  BY <1>7, <1>8 DEF P!Next

LEMMA StepSettles ==
  ASSUME IInv, [Next]_vars
  PROVE  P!Next \/ UNCHANGED <<PaidPrizes, RecordedPrizes>>
<1>1. CASE CommitDraw /\ ~Won
  <2>1. rows' = rows /\ \A t \in Tickets : ~PayWinner(t)
    BY <1>1 DEF CommitDraw, PayWinner, Won
  <2> QED
    BY <2>1, PrizesAside
<1>2. CASE CommitDraw /\ Won
  BY <1>2, CommitIsRecord
<1>3. CASE ~CommitDraw /\ \A t \in Tickets : ~PayWinner(t)
  BY <1>3, PrizesAside, OnlyCommits
<1> QED
  BY <1>1, <1>2, <1>3, PaymentIsPay

(* Phases are settled in order, prizes are paid once and before their      *)
(* phase is recorded, and the record names everybody who was paid.         *)
THEOREM DrawsSettlePrizes == Spec => PrizesSettle
<1>1. Init => P!Init
  <2> SUFFICES ASSUME Init PROVE P!Init
    OBVIOUS
  <2>1. \A x \in Phases \X Tickets : paid[PhaseKey(x[1], x[2])] = 0
    BY KeysOfType DEF Init
  <2> QED
    BY <2>1 DEF P!Init, PaidPrizes, RecordedPrizes, IsPaid
<1>2. IInv /\ [Next]_vars => [P!Next]_<<PaidPrizes, RecordedPrizes>>
  BY StepSettles
<1> QED
  BY <1>1, <1>2, Invariance, PTL DEF Spec, PrizesSettle, P!Spec

(* Payments and records are never taken back, and nobody is paid for a     *)
(* phase that is recorded or lies before one that is.                      *)
SettledPhasesClosed ==
  /\ PaidPrizes \subseteq PaidPrizes' /\ RecordedPrizes \subseteq RecordedPrizes'
  /\ \A x \in PaidPrizes' \ PaidPrizes, y \in RecordedPrizes : y[1] < x[1]

LEMMA StepCloses ==
  ASSUME IInv, [Next]_vars
  PROVE  SettledPhasesClosed
<1>1. CASE UNCHANGED <<PaidPrizes, RecordedPrizes>>
  BY <1>1 DEF SettledPhasesClosed
<1>2. CASE P!Next
  <2>1. PICK x \in Phases \X Tickets : P!Pay(x) \/ P!Record(x[1])
    BY <1>2 DEF P!Next
  <2>2. CASE P!Pay(x)
    BY <2>2 DEF P!Pay, P!Open, SettledPhasesClosed
  <2>3. CASE P!Record(x[1])
    BY <2>3 DEF P!Record, SettledPhasesClosed
  <2> QED
    BY <2>1, <2>2, <2>3
<1> QED
  BY <1>1, <1>2, StepSettles

(* A draw that was rolled back and comes again, a fault or a restart pays  *)
(* nobody for a phase that has been settled.                               *)
THEOREM SettledForGood == Spec => [][SettledPhasesClosed]_vars
<1>1. IInv /\ [Next]_vars => [SettledPhasesClosed]_vars
  BY StepCloses
<1> QED
  BY <1>1, Invariance, PTL DEF Spec
=============================================================================
