-------------------------- MODULE MCPreRoundArming --------------------------
(* Small instances of PreRoundArming for TLC.                              *)
EXTENDS PreRoundArming, TLC

CONSTANTS p1, p2, house, c1, c2, s1, s2

TwoEach    == [a \in {p1, p2, house} |-> IF a = house THEN 0 ELSE 2]
TwoAndOne  == [a \in {p1, p2, house} |-> IF a = house THEN 0 ELSE IF a = p1 THEN 2 ELSE 1]

Scheduler  == [s \in {s1} |-> "scheduler"]
BothPaths  == [s \in {s1, s2} |-> IF s = s1 THEN "scheduler" ELSE "perpetual"]
=============================================================================
