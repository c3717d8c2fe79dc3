--------------------------- MODULE Game1Lifecycle ---------------------------
(***************************************************************************)
(* What players, halls and reports may rely on about one scheduled game:   *)
(* the states its row goes through and the balls drawn in it.  A start     *)
(* that fails is undone before a ball is drawn, balls are drawn one at a   *)
(* time and only in a running game, and a finished game stays as it is.    *)
(***************************************************************************)
EXTENDS Integers

CONSTANT MaxDraws   \* balls in the draw bag, or fewer by configuration

VARIABLES status, balls

Startable == {"scheduled", "purchase_open", "ready_to_start"}
Live      == {"running", "paused"}
Terminal  == {"completed", "cancelled"}

Init == status = "scheduled" /\ balls = 0

(* Before the start: sales open, halls become ready, or a hall is taken    *)
(* out, which needs everybody's readiness again.                           *)
Prepare ==
  /\ status' \in {"purchase_open", "ready_to_start"}
  /\ \/ status = "scheduled" /\ status' = "purchase_open"
     \/ {status, status'} = {"purchase_open", "ready_to_start"}
  /\ UNCHANGED balls

Start == status \in Startable /\ status' = "running" /\ UNCHANGED balls

(* The engine did not start: as if the start had not been asked for.       *)
Undo  == status = "running" /\ balls = 0 /\ status' \in Startable /\ UNCHANGED balls

Pause  == status = "running" /\ status' = "paused" /\ UNCHANGED balls
Resume == status = "paused" /\ status' = "running" /\ UNCHANGED balls

Draw ==
  /\ status = "running" /\ balls < MaxDraws
  /\ balls' = balls + 1
  /\ status' \in {"running", "completed"}
  /\ balls' = MaxDraws => status' = "completed"

Cancel == status \in Startable \cup Live /\ status' = "cancelled" /\ UNCHANGED balls

Next == Prepare \/ Start \/ Undo \/ Pause \/ Resume \/ Draw \/ Cancel

Spec == Init /\ [][Next]_<<status, balls>>
=============================================================================
