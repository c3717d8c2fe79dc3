--------------------------- MODULE MCGame1Tickets ---------------------------
(* Small instances of Game1Tickets for TLC.                                *)
EXTENDS Game1Tickets, TLC

CONSTANTS p1, p2, k1, k2, a1, b1, b2, adm

Owners == [k \in BuyKeys \cup ArmKeys |-> IF k \in {k1, k2} THEN p1 ELSE p2]
Means  == [p \in {p1, p2} |-> 1]

CallSymmetry == Permutations(Calls)
=============================================================================
