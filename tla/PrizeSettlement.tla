-------------------------- MODULE PrizeSettlement --------------------------
(***************************************************************************)
(* What winners and auditors may rely on about the prizes of one game:     *)
(* phases are settled in order, a prize is paid once and before its phase  *)
(* is recorded as won, and a record names everybody who was paid.          *)
(***************************************************************************)
EXTENDS Integers

CONSTANT Prizes   \* pairs of a phase and a ticket

VARIABLES paid, recorded

Init == paid = {} /\ recorded = {}

Open(phase) == \A x \in recorded : x[1] < phase

Pay(x) ==
  /\ Open(x[1]) /\ x \notin paid
  /\ paid' = paid \cup {x} /\ UNCHANGED recorded

Record(phase) ==
  /\ Open(phase)
  /\ recorded' = recorded \cup {x \in paid : x[1] = phase}
  /\ UNCHANGED paid

Next == \E x \in Prizes : Pay(x) \/ Record(x[1])

Spec == Init /\ [][Next]_<<paid, recorded>>
=============================================================================
