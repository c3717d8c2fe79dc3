---------------------------- MODULE WalletLedger ----------------------------
(***************************************************************************)
(* What the wallet promises its callers: every operation takes effect in   *)
(* one atomic step on accounts, reservations, ledger and outbox, or not at *)
(* all.  PostgresWallet, with its snapshots, row locks, retries and        *)
(* sweeps, is shown to implement this specification.                       *)
(*                                                                         *)
(* Two promises about reservations are stated.  Spec requires a hold to be *)
(* covered by the balance; StrictSpec requires it to be covered by what    *)
(* the other active holds leave of the balance, which the adapter keeps    *)
(* only when holds of one wallet are taken one at a time.                  *)
(***************************************************************************)
EXTENDS WalletBase

VARIABLES acct, res, ledger, outbox

vars == <<acct, res, ledger, outbox>>

Init ==
  /\ acct   = [a \in Accounts |-> OpeningBalance(a)]
  /\ res    = [h \in Holds |-> NoHold]
  /\ ledger = {}
  /\ outbox = {}

Take(h, w, amt) ==
  /\ res[h].status = "none"
  /\ amt <= Total(acct[w])
  /\ res' = [res EXCEPT ![h] = [status |-> "active", wallet |-> w, amount |-> amt]]
  /\ UNCHANGED <<acct, ledger, outbox>>

Increase(h, amt) ==
  /\ res[h].status = "active"
  /\ amt <= Total(acct[res[h].wallet])
  /\ res' = [res EXCEPT ![h].amount = @ + amt]
  /\ UNCHANGED <<acct, ledger, outbox>>

Release(h, amt) ==
  /\ res[h].status = "active"
  /\ res' = IF amt >= res[h].amount THEN [res EXCEPT ![h].status = "released"]
                                    ELSE [res EXCEPT ![h].amount = @ - amt]
  /\ UNCHANGED <<acct, ledger, outbox>>

Expire(S) ==
  /\ \A h \in S : res[h].status = "active"
  /\ res' = [h \in Holds |-> IF h \in S THEN [res[h] EXCEPT !.status = "expired"] ELSE res[h]]
  /\ UNCHANGED <<acct, ledger, outbox>>

Post(k, from, to, amt, side, via) ==
  /\ from # to
  /\ ~KeyUsed(ledger, k)
  /\ Covers(from, acct[from], amt)
  /\ acct' = [acct EXCEPT ![from] = Debited(from, @, amt),
                          ![to]   = Credited(to, @, amt, side)]
  /\ ledger' = ledger \cup {LedgerEntry(k, from, acct[from], to, acct[to], amt, side, via)}
  /\ outbox' = outbox \cup OutboxRows(k, from, to)

Move(k, from, to, amt, side) ==
  Post(k, from, to, amt, side, None) /\ UNCHANGED res

Settle(h, k, to, side) ==
  /\ res[h].status = "active"
  /\ Post(k, res[h].wallet, to, res[h].amount, side, h)
  /\ res' = [res EXCEPT ![h].status = "committed"]

Common ==
  \/ \E h \in Holds, amt \in Amounts : Release(h, amt)
  \/ \E S \in SUBSET Holds : Expire(S)
  \/ \E k \in Keys, from, to \in Accounts, amt \in Amounts, side \in Sides :
        Move(k, from, to, amt, side)
  \/ \E h \in Holds, k \in Keys, to \in Accounts, side \in Sides : Settle(h, k, to, side)

Next ==
  \/ Common
  \/ \E h \in Holds, w \in Players, amt \in Amounts : Take(h, w, amt)
  \/ \E h \in Holds, amt \in Amounts : Increase(h, amt)

Spec == Init /\ [][Next]_vars

Available(w) == Total(acct[w]) - HoldTotal(res, w)

StrictNext ==
  \/ Common
  \/ \E h \in Holds, w \in Players, amt \in Amounts :
        amt <= Available(w) /\ Take(h, w, amt)
  \/ \E h \in Holds, amt \in Amounts :
        /\ res[h].status = "active"
        /\ amt <= Available(res[h].wallet)
        /\ Increase(h, amt)

StrictSpec == Init /\ [][StrictNext]_vars
=============================================================================
