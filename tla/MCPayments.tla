----------------------------- MODULE MCPayments -----------------------------
(* Small instances of Payments for TLC.                                    *)
EXTENDS Payments

CONSTANTS r1, c1, c2, job

(* Top-up intents and payment requests share no state but the calls: they  *)
(* are checked in one run and not together.  The intents have one call     *)
(* beside the job, the requests two.                                       *)
Apart ==
  \/ (\A r \in Requests : status[r] = "none") /\ work[c2] = Idle
  \/ \A i \in Intents : status[i] = "none"
=============================================================================
