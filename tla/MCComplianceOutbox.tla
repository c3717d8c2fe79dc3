------------------------- MODULE MCComplianceOutbox -------------------------
(* Small instances of ComplianceOutbox for TLC.                            *)
EXTENDS ComplianceOutbox

CONSTANTS x1, x2, x3, k1, k2, c1, c2, server

(* x1 and x2 are purchases of one player for the same total in one game;   *)
(* x3 is another player's.                                                 *)
SharedKey == [x \in Purchases |-> IF x = x3 THEN k2 ELSE k1]

OneServer == [c \in Callers |-> server]
=============================================================================
