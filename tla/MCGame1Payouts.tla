--------------------------- MODULE MCGame1Payouts --------------------------
(* A small instance of Game1Payouts for TLC: two tickets share a color,    *)
(* the third one has a color and a hall of its own.                        *)
EXTENDS Game1Payouts

CONSTANTS a, b, innsats, jackpott

ColorOf == <<a, a, b>>
HallOf  == <<a, a, b>>

(* A percentage of the income in color a, a fixed prize in color b.        *)
PrizeOf == [c \in {a, b} |-> [f \in Phases |-> [n \in Incomes |-> IF c = a THEN 3 * n ELSE 1]]]

JackpotOf == [c \in {a, b} |-> [d \in Draws |-> IF c = b /\ d = 2 THEN 1 ELSE 0]]
DailyOf   == [c \in {a, b} |-> IF c = a THEN 2 ELSE 0]

HallOfPot == [p \in {innsats, jackpott} |-> a]
SeedOf    == [p \in {innsats, jackpott} |-> IF p = innsats THEN 0 ELSE 2]
TargetOf  == [p \in {innsats, jackpott} |-> IF p = innsats THEN 2 ELSE 0]
WindowOf  == [p \in {innsats, jackpott} |-> IF p = innsats THEN {2} ELSE {1, 2}]
=============================================================================
