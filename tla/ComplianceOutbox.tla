-------------------------- MODULE ComplianceOutbox --------------------------
(***************************************************************************)
(* How a ticket purchase reaches the compliance ledger of section 71:      *)
(* Game1TicketPurchaseService calls the port of                            *)
(* compliance/ComplianceOutboxComplianceLedgerPort.ts after its wallet     *)
(* transaction has committed; the port inserts an outbox row, records the  *)
(* event inline in ComplianceLedger (game/ComplianceLedger.ts) and marks   *)
(* the row; ComplianceOutboxWorker retries what is left (module Outbox).   *)
(* One backend process runs one worker and many callers.  The copy of the  *)
(* ledger in its memory and the regulatory ledger are left out.            *)
(***************************************************************************)
EXTENDS Outbox

CONSTANTS
  Purchases,  \* committed purchases, each with its own purchaseId
  KeyOf,      \* [Purchases -> Rows]: eventType:gameId:playerId:hallId:amount
  Callers,    \* purchases under way at a time
  HostOf,     \* [Callers -> Workers]: the process that serves the call
  None

ASSUME KeyOfType  == KeyOf \in [Purchases -> Rows]
ASSUME HostOfType == HostOf \in [Callers -> Workers]
ASSUME NoneFresh  == None \notin Purchases

VARIABLES
  payload,   \* [Rows -> Purchases \cup {None}]: the event in the row
  ledger,    \* rows of app_rg_compliance_ledger, by their idempotency key
  pc,        \* [Callers -> where recordComplianceLedgerEvent is]
  buys,      \* [Callers -> Purchases \cup {None}]
  bought,    \* purchases whose wallet transaction committed
  returned,  \* purchases whose call to the port returned
  faulted    \* purchases whose outbox INSERT failed

portVars == <<payload, ledger, pc, buys, bought, returned, faulted>>
vars == <<outboxVars, portVars>>

Init ==
  /\ OutboxInit
  /\ payload = [k \in Rows |-> None]
  /\ ledger  = {}
  /\ pc   = [c \in Callers |-> "idle"]
  /\ buys = [c \in Callers |-> None]
  /\ bought = {} /\ returned = {} /\ faulted = {}

(* Mutant of OutboxKey: the discriminator is dropped from the key.         *)
OneKeyForAll(x) == CHOOSE k \in Rows : TRUE

(* buildOutboxIdempotencyKey                                               *)
OutboxKey(x) == KeyOf[x]

(* The ledger's own key ends in a hash of the event in JSON, metadata and  *)
(* all.  The column payload is JSONB, which keeps no order of keys: what   *)
(* the worker reads back (jsonb) hashes differently from what the caller   *)
(* passed (call).                                                          *)
Orders == {"call", "jsonb"}

LedgerKey(x, order) == <<x, order>>

Recorded(x) == \E order \in Orders : LedgerKey(x, order) \in ledger

(* ComplianceLedger.recordComplianceLedgerEvent: INSERT ... ON CONFLICT DO *)
(* NOTHING into the table, which fails or does not.                        *)
RecordEvent(x, order) == ledger' = ledger \cup {LedgerKey(x, order)}

RecordEventFails == UNCHANGED ledger

-----------------------------------------------------------------------------
(* The port.                                                               *)

(* The purchase is paid, and the port is called.                           *)
Buy(c) ==
  \E x \in Purchases \ bought :
    /\ pc[c] = "idle"
    /\ bought' = bought \cup {x}
    /\ pc'   = [pc EXCEPT ![c] = "enqueue"]
    /\ buys' = [buys EXCEPT ![c] = x]
    /\ UNCHANGED <<outboxVars, payload, ledger, returned, faulted>>

ReturnToCaller(c) ==
  /\ pc'   = [pc EXCEPT ![c] = "idle"]
  /\ buys' = [buys EXCEPT ![c] = None]
  /\ returned' = returned \cup {buys[c]}

InsertRow(c) ==
  LET x == buys[c] IN
    /\ pc[c] = "enqueue"
    /\ Enqueue(OutboxKey(x))
    /\ payload' = [payload EXCEPT ![OutboxKey(x)] = x]
    /\ pc' = [pc EXCEPT ![c] = "inline"]
    /\ UNCHANGED <<ledger, buys, bought, returned, faulted>>

(* ON CONFLICT DO NOTHING: no inline dispatch either.                      *)
RowExists(c) ==
  /\ pc[c] = "enqueue"
  /\ row[OutboxKey(buys[c])].status # "none"
  /\ ReturnToCaller(c)
  /\ UNCHANGED <<outboxVars, payload, ledger, bought, faulted>>

InsertFails(c) ==
  /\ pc[c] = "enqueue"
  /\ errors < MaxErrors
  /\ errors' = errors + 1
  /\ pc' = [pc EXCEPT ![c] = "fallback"]
  /\ faulted' = faulted \cup {buys[c]}
  /\ UNCHANGED <<row, claimed, done, running, delivered, crashes,
                 payload, ledger, buys, bought, returned>>

InlineSucceeds(c) ==
  /\ pc[c] = "inline"
  /\ RecordEvent(buys[c], "call")
  /\ pc' = [pc EXCEPT ![c] = "mark"]
  /\ UNCHANGED <<outboxVars, payload, buys, bought, returned, faulted>>

(* Mutant of InlineFails: the inner port swallows the error.               *)
InlineFailureSwallowed(c) ==
  /\ pc[c] = "inline"
  /\ RecordEventFails
  /\ pc' = [pc EXCEPT ![c] = "mark"]
  /\ UNCHANGED <<outboxVars, payload, buys, bought, returned, faulted>>

(* The row stays pending for the worker.                                   *)
InlineFails(c) ==
  /\ pc[c] = "inline"
  /\ RecordEventFails
  /\ ReturnToCaller(c)
  /\ UNCHANGED <<outboxVars, payload, bought, faulted>>

(* The INSERT failed: inline dispatch without a row to fall back on.       *)
Fallback(c) ==
  /\ pc[c] = "fallback"
  /\ RecordEvent(buys[c], "call") \/ RecordEventFails
  /\ ReturnToCaller(c)
  /\ UNCHANGED <<outboxVars, payload, bought, faulted>>

(* markProcessedByKey, which does look at the status.                      *)
MarkByKey(c) ==
  LET k == OutboxKey(buys[c]) IN
    /\ pc[c] = "mark"
    /\ row' = IF row[k].status = "pending" THEN [row EXCEPT ![k].status = "processed"] ELSE row
    /\ ReturnToCaller(c)
    /\ UNCHANGED <<claimed, done, running, delivered, errors, crashes,
                   payload, ledger, bought, faulted>>

MarkByKeyFails(c) ==
  /\ pc[c] = "mark"
  /\ errors < MaxErrors
  /\ errors' = errors + 1
  /\ ReturnToCaller(c)
  /\ UNCHANGED <<row, claimed, done, running, delivered, crashes,
                 payload, ledger, bought, faulted>>

PortStep(c) ==
  \/ InsertRow(c) \/ RowExists(c) \/ InsertFails(c)
  \/ InlineSucceeds(c) \/ InlineFails(c) \/ Fallback(c)
  \/ MarkByKey(c) \/ MarkByKeyFails(c)

-----------------------------------------------------------------------------
(* The worker, whose dispatcher is the ledger itself.                      *)

CallersAside == UNCHANGED <<payload, pc, buys, bought, returned, faulted>>

WorkerDispatch(w) ==
  /\ \E k \in Rows :
       \/ DispatchSucceeds(w, k) /\ RecordEvent(payload[k], "jsonb")
       \/ (DispatchFails(w, k) \/ MarkFailedFails(w, k)) /\ RecordEventFails
  /\ CallersAside

WorkerStatement(w) ==
  /\ Claim(w) \/ MarkProcessed(w) \/ MarkProcessedFails(w)
  /\ CallersAside /\ UNCHANGED ledger

(* The process dies with its calls and its worker.                         *)
ProcessCrash(w) ==
  LET gone == {c \in Callers : HostOf[c] = w} IN
    /\ crashes < MaxCrashes
    /\ crashes' = crashes + 1
    /\ claimed' = [claimed EXCEPT ![w] = [k \in Rows |-> 0]]
    /\ done'    = [done EXCEPT ![w] = {}]
    /\ running' = [running EXCEPT ![w] = FALSE]
    /\ pc'   = [c \in Callers |-> IF c \in gone THEN "idle" ELSE pc[c]]
    /\ buys' = [c \in Callers |-> IF c \in gone THEN None ELSE buys[c]]
    /\ UNCHANGED <<row, delivered, errors, payload, ledger, bought, returned, faulted>>

WorkerStep(w) == WorkerDispatch(w) \/ WorkerStatement(w)

PortNext ==
  \/ \E c \in Callers : Buy(c) \/ PortStep(c)
  \/ \E w \in Workers : WorkerStep(w) \/ ProcessCrash(w)

PortSpec == Init /\ [][PortNext]_vars

PortFairSpec ==
  /\ PortSpec
  /\ \A c \in Callers : WF_vars(PortStep(c))
  /\ \A w \in Workers : WF_vars(WorkerStep(w))

-----------------------------------------------------------------------------
(* Properties.                                                             *)

(* Types of all variables.                                                 *)
TypeOK ==
  /\ OutboxTypeOK
  /\ payload \in [Rows -> Purchases \cup {None}]
  /\ ledger \subseteq {LedgerKey(x, order) : x \in Purchases, order \in Orders}
  /\ pc \in [Callers -> {"idle", "enqueue", "inline", "fallback", "mark"}]
  /\ buys \in [Callers -> Purchases \cup {None}]
  /\ bought \subseteq Purchases /\ returned \subseteq Purchases /\ faulted \subseteq Purchases

(* A row that is out of the queue as processed is in the ledger, although  *)
(* the inline call and the worker handle it at the same time and either    *)
(* may fail, time out or die.                                              *)
ProcessedIsInLedger ==
  \A k \in Rows : row[k].status = "processed" => Recorded(payload[k])

Kept(x) == Recorded(x) \/ \E k \in Inserted : payload[k] = x

Alone(x) == \A y \in Purchases : KeyOf[y] = KeyOf[x] => y = x

(* A purchase whose call returned is in the ledger or waits in a row of    *)
(* its own, unless the INSERT of the row failed or another purchase of the *)
(* same player, hall, game and amount took its key.                        *)
ReturnedIsKept == \A x \in returned \ faulted : Alone(x) => Kept(x)

(* The strengthening that makes both inductive: a row belongs to the       *)
(* purchase with its key, what was dispatched is in the ledger, and each   *)
(* step of the port knows what the steps before it have done.              *)
RowsBelong ==
  \A k \in Rows : /\ payload[k] = None <=> row[k].status = "none"
                  /\ payload[k] # None => OutboxKey(payload[k]) = k
                  /\ k \in delivered => Recorded(payload[k])

CallersKnow ==
  \A c \in Callers :
    /\ buys[c] = None <=> pc[c] = "idle"
    /\ pc[c] \in {"inline", "mark"} => payload[OutboxKey(buys[c])] = buys[c]
    /\ pc[c] = "mark" => Recorded(buys[c])
    /\ pc[c] = "fallback" => buys[c] \in faulted

ClaimsExist ==
  \A w \in Workers, k \in Rows :
    /\ k \in InHand(w) \cup done[w] => row[k].status # "none"
    /\ k \in done[w] => k \in delivered

PortInv == TypeOK /\ RowsBelong /\ CallersKnow /\ ClaimsExist /\ ProcessedIsInLedger

(* What was inserted reaches the ledger or is dead-lettered for an         *)
(* operator.                                                               *)
EnqueuedIsRecorded ==
  \A k \in Rows : row[k].status = "pending" ~>
                    (Recorded(payload[k]) \/ row[k].status = "dead_letter")
=============================================================================
