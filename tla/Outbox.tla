------------------------------- MODULE Outbox -------------------------------
(***************************************************************************)
(* The outbox table and the workers that poll it:                          *)
(* apps/backend/src/wallet/WalletOutboxRepo.ts and WalletOutboxWorker.ts.  *)
(* apps/backend/src/compliance/ComplianceOutboxRepo.ts and                 *)
(* ComplianceOutboxWorker.ts are the same code over another table; module  *)
(* ComplianceOutbox extends this one.                                      *)
(*                                                                         *)
(* One step is one SQL statement or one call of the dispatcher.  A claim   *)
(* takes no lease: the rows it returns stay 'pending' and unlocked while   *)
(* the worker dispatches them.                                             *)
(***************************************************************************)
EXTENDS Integers, FiniteSets

CONSTANTS
  Rows,         \* outbox rows
  Workers,      \* one per backend process
  BatchSize,    \* rows one claim takes
  MaxAttempts,  \* WALLET_OUTBOX_MAX_ATTEMPTS (5 in the code)
  MaxErrors,    \* bound: statements that fail
  MaxCrashes    \* bound: processes that stop in the middle of a tick

ASSUME RowsFinite         == IsFiniteSet(Rows)
ASSUME BatchSizePositive   == BatchSize \in Nat \ {0}
ASSUME MaxAttemptsPositive == MaxAttempts \in Nat \ {0}
ASSUME BudgetsNatural      == MaxErrors \in Nat /\ MaxCrashes \in Nat

VARIABLES
  row,        \* [Rows -> [status, attempts, at]]: at is the insertion order
  claimed,    \* [Workers -> [Rows -> Nat]]: attempts of the rows still to dispatch, 0 for others
  done,       \* [Workers -> SUBSET Rows]: succeededIds
  running,    \* [Workers -> BOOLEAN]
  delivered,  \* rows whose dispatcher returned at least once
  errors, crashes

outboxVars == <<row, claimed, done, running, delivered, errors, crashes>>

Row == [status : {"none", "pending", "processed", "dead_letter"}, attempts : Nat, at : Nat]

OutboxInit ==
  /\ row       = [e \in Rows |-> [status |-> "none", attempts |-> 0, at |-> 0]]
  /\ claimed   = [w \in Workers |-> [e \in Rows |-> 0]]
  /\ done      = [w \in Workers |-> {}]
  /\ running   = [w \in Workers |-> FALSE]
  /\ delivered = {}
  /\ errors = 0 /\ crashes = 0

InHand(w) == {e \in Rows : claimed[w][e] > 0}

Inserted == {e \in Rows : row[e].status # "none"}

(* enqueue, in the transaction of the ledger entry.                        *)
Enqueue(e) ==
  /\ row[e].status = "none"
  /\ row' = [row EXCEPT ![e] = [status |-> "pending", attempts |-> 0,
                                at |-> Cardinality(Inserted) + 1]]
  /\ UNCHANGED <<claimed, done, running, delivered, errors, crashes>>

(* Mutant of Claimable: a row claimed before is taken for one that another *)
(* worker still has.                                                       *)
FreshOnly(e) == row[e].status = "pending" /\ row[e].attempts = 0

Claimable(e) == row[e].status = "pending"

(* ORDER BY created_at, id LIMIT BatchSize.                                *)
Oldest(S) == {e \in S : Cardinality({f \in S : row[f].at < row[e].at}) < BatchSize}

(* FOR UPDATE SKIP LOCKED passes over rows another worker's statement      *)
(* holds at that moment: some of the rows it is working on.                *)
Busy(w) == UNION {InHand(v) \cup done[v] : v \in Workers \ {w}}

Claim(w) ==
  \E locked \in SUBSET Busy(w) :
    LET S == Oldest({e \in Rows \ locked : Claimable(e)}) IN
      /\ ~running[w]
      /\ S # {}
      /\ row' = [e \in Rows |-> IF e \in S THEN [row[e] EXCEPT !.attempts = @ + 1] ELSE row[e]]
      /\ claimed' = [claimed EXCEPT ![w] = [e \in Rows |-> IF e \in S THEN row[e].attempts + 1 ELSE 0]]
      /\ running' = [running EXCEPT ![w] = TRUE]
      /\ UNCHANGED <<done, delivered, errors, crashes>>

Dispatched(w, e) ==
  /\ e \in InHand(w)
  /\ claimed' = [claimed EXCEPT ![w][e] = 0]

DispatchSucceeds(w, e) ==
  /\ Dispatched(w, e)
  /\ done'      = [done EXCEPT ![w] = @ \cup {e}]
  /\ delivered' = delivered \cup {e}
  /\ UNCHANGED <<row, running, errors, crashes>>

Exhausted(n) == n >= MaxAttempts

(* Mutant of Succeeded: the id is pushed before the dispatcher is awaited. *)
SucceededAnyway(w, e) == done[w] \cup {e}

(* succeededIds when the dispatcher throws.                                *)
Succeeded(w, e) == done[w]

(* markFailed looks at the attempts the claim returned, not at the row.    *)
DispatchFails(w, e) ==
  /\ Dispatched(w, e)
  /\ row' = [row EXCEPT ![e].status =
               IF Exhausted(claimed[w][e]) THEN "dead_letter" ELSE "pending"]
  /\ done' = [done EXCEPT ![w] = Succeeded(w, e)]
  /\ UNCHANGED <<running, delivered, errors, crashes>>

(* The dispatcher throws and markFailed fails as well: logged.             *)
MarkFailedFails(w, e) ==
  /\ errors < MaxErrors
  /\ Dispatched(w, e)
  /\ errors' = errors + 1
  /\ UNCHANGED <<row, done, running, delivered, crashes>>

EndTick(w) ==
  /\ running[w] /\ InHand(w) = {}
  /\ done'    = [done EXCEPT ![w] = {}]
  /\ running' = [running EXCEPT ![w] = FALSE]
  /\ UNCHANGED <<claimed, delivered, crashes>>

(* markProcessed, whatever the rows' status has become meanwhile.          *)
MarkProcessed(w) ==
  /\ EndTick(w)
  /\ row' = [e \in Rows |-> IF e \in done[w] THEN [row[e] EXCEPT !.status = "processed"] ELSE row[e]]
  /\ UNCHANGED errors

MarkProcessedFails(w) ==
  /\ errors < MaxErrors
  /\ done[w] # {}
  /\ EndTick(w)
  /\ errors' = errors + 1
  /\ UNCHANGED row

(* The process stops or crashes in a tick and starts again.                *)
Crash(w) ==
  /\ crashes < MaxCrashes
  /\ running[w]
  /\ claimed' = [claimed EXCEPT ![w] = [e \in Rows |-> 0]]
  /\ done'    = [done EXCEPT ![w] = {}]
  /\ running' = [running EXCEPT ![w] = FALSE]
  /\ crashes' = crashes + 1
  /\ UNCHANGED <<row, delivered, errors>>

Tick(w) ==
  \/ Claim(w) \/ MarkProcessed(w) \/ MarkProcessedFails(w)
  \/ \E e \in Rows : DispatchSucceeds(w, e) \/ DispatchFails(w, e) \/ MarkFailedFails(w, e)

Next ==
  \/ \E e \in Rows : Enqueue(e)
  \/ \E w \in Workers : Tick(w) \/ Crash(w)

Spec == OutboxInit /\ [][Next]_outboxVars

(* setInterval fires again and again, and a tick that runs goes on.        *)
FairSpec == Spec /\ \A w \in Workers : WF_outboxVars(Tick(w))

-----------------------------------------------------------------------------
(* Properties.                                                             *)

(* Types of all variables.                                                 *)
OutboxTypeOK ==
  /\ row \in [Rows -> Row]
  /\ claimed \in [Workers -> [Rows -> Nat]]
  /\ done \in [Workers -> SUBSET Rows]
  /\ running \in [Workers -> BOOLEAN]
  /\ delivered \subseteq Rows
  /\ errors \in 0..MaxErrors /\ crashes \in 0..MaxCrashes

(* No event is lost: a row that is out of the queue as processed was       *)
(* delivered, however claims, failures and crashes interleave.             *)
ProcessedWasDelivered == \A e \in Rows : row[e].status = "processed" => e \in delivered

(* Nothing is given up before MaxAttempts claims.                          *)
DeadAfterMaxAttempts ==
  \A e \in Rows : row[e].status = "dead_letter" => row[e].attempts >= MaxAttempts

(* Every row leaves the queue for good: poison rows, failing statements    *)
(* and a second worker that puts a row back do not keep it there.          *)
Settles == \A e \in Rows : row[e].status = "pending" ~> [](row[e].status # "pending")

(* The strengthening that makes the safety properties inductive.           *)
ClaimsCounted ==
  \A w \in Workers, e \in Rows :
    /\ claimed[w][e] <= row[e].attempts
    /\ e \in InHand(w) \cup done[w] => row[e].status # "none"

IInv ==
  /\ OutboxTypeOK /\ ClaimsCounted /\ ProcessedWasDelivered /\ DeadAfterMaxAttempts
  /\ \A w \in Workers : done[w] \subseteq delivered
=============================================================================
