--------------------------- MODULE MCGame1Schedule ---------------------------
(* A small instance of Game1Schedule for TLC.                              *)
EXTENDS Game1Schedule

CONSTANTS r1, r2, d1, d2
=============================================================================
