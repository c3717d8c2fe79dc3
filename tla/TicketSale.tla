----------------------------- MODULE TicketSale -----------------------------
(***************************************************************************)
(* What a player may rely on about one digital purchase: it is paid for    *)
(* before it exists, its price is returned at most once, and then only     *)
(* for a ticket that is not or no longer his.                              *)
(***************************************************************************)
VARIABLES ticket, taken, returned

vars == <<ticket, taken, returned>>

Init == ticket = "none" /\ taken = FALSE /\ returned = FALSE

Pay == ~taken /\ taken' = TRUE /\ UNCHANGED <<ticket, returned>>

Sell ==
  /\ ticket = "none" /\ taken /\ ~returned
  /\ ticket' = "bought" /\ UNCHANGED <<taken, returned>>

(* Without a ticket as a compensation, with one as a refund.               *)
Return ==
  /\ ticket \in {"none", "bought"} /\ taken /\ ~returned
  /\ returned' = TRUE /\ UNCHANGED <<ticket, taken>>

Withdraw ==
  /\ ticket = "bought" /\ returned
  /\ ticket' = "refunded" /\ UNCHANGED <<taken, returned>>

Next == Pay \/ Sell \/ Return \/ Withdraw

Spec == Init /\ [][Next]_vars
=============================================================================
