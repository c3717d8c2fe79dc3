---------------------------- MODULE Game1Tickets ----------------------------
(***************************************************************************)
(* The digital tickets of one scheduled Game 1 and the money paid for      *)
(* them: Game1TicketPurchaseService (purchase, refund, refund of a whole   *)
(* game) and Game1ArmedToPurchaseConversionService (reservations of        *)
(* bet:arm become purchases).                                              *)
(*                                                                         *)
(* The wallet, the rows of purchases and the row of the game are on three  *)
(* connections: a purchase is a status read, a debit, an INSERT and, if    *)
(* that fails, a credit, and everything else may run in between.  A        *)
(* purchase is named by its idempotency key, which is UNIQUE in the table  *)
(* and from which the keys of its postings are derived; a purchase costs   *)
(* one unit, from the wallet (a sale in the hall is a row without money).  *)
(* The wallet is seen as WalletLedger promises it: a posting is atomic and *)
(* made once for its key.  The game is Game1Lifecycle, which Game1Schedule *)
(* implements.                                                             *)
(***************************************************************************)
EXTENDS Integers, FiniteSets

CONSTANTS
  Players,
  Opening,              \* [Players -> Nat]: purchases a player can pay for
  BuyKeys,              \* idempotency keys clients send
  ArmKeys,              \* keys of conversions, one per armed player and game
  Owner,                \* [BuyKeys \cup ArmKeys -> Players]
  Retried,              \* keys a client sends again
  InsertFails,          \* keys whose INSERT may fail
  Unreliable,           \* keys whose other calls may fail, with or without effect
  Calls,                \* purchase requests in progress
  Refunders, Stopper,   \* refund requests of administrators; the master's stop
  MaxDraws,
  None

Keys    == BuyKeys \cup ArmKeys
Undoers == Refunders \cup {Stopper}

ASSUME MoneyAssumption   == Opening \in [Players -> Nat]
ASSUME KeysAssumption    == /\ BuyKeys \cap ArmKeys = {} /\ Owner \in [Keys -> Players]
                            /\ Retried \subseteq BuyKeys
ASSUME NobodyAssumption  == None \notin Keys /\ Stopper \notin Refunders
ASSUME DrawsAssumption   == MaxDraws \in Nat \ {0}

(* game1PurchaseDebit and game1ArmedConversionCommit, game1PurchaseCompensate, *)
(* game1RefundCredit.                                                      *)
Kinds == {"debit", "compensate", "refund"}

VARIABLES
  posted,     \* SUBSET (Kinds \X Keys): the ledger
  hold,       \* [ArmKeys -> status of the reservation]
  status, balls,              \* the game
  row,        \* [Keys -> {"none", "bought", "refunded"}]: app_game1_ticket_purchases
  call,       \* [Calls -> [pc, key]]
  convert,    \* [ArmKeys -> pc]: convertSingle for the player of the key
  undo,       \* [Undoers -> [pc, key]]: refundPurchase
  stop,       \* [pc, listed, todo]: refundAllForGame after a stop
  cut         \* keys for which a step failed that nothing makes up for

wallet == <<posted, hold>>
game   == <<status, balls>>
vars   == <<wallet, game, row, call, convert, undo, stop, cut>>

L == INSTANCE Game1Lifecycle

Posted(kind, k) == <<kind, k>> \in posted

Paid(p)     == {k \in Keys : Owner[k] = p /\ Posted("debit", k)}
Returned(p) == {x \in posted : x[1] # "debit" /\ Owner[x[2]] = p}
Balance(p)  == Opening[p] - Cardinality(Paid(p)) + Cardinality(Returned(p))

(* A posting, or the earlier one with its key.                             *)
Post(kind, k) == posted' = posted \cup {<<kind, k>>} /\ UNCHANGED hold

NoCall == [pc |-> "idle", key |-> None]

(* Armed players have reserved the price of their tickets before.          *)
Init ==
  /\ posted = {}
  /\ hold = [k \in ArmKeys |-> "active"]
  /\ L!Init
  /\ row = [k \in Keys |-> "none"]
  /\ call = [b \in Calls |-> NoCall]
  /\ convert = [k \in ArmKeys |-> "idle"]
  /\ undo = [q \in Undoers |-> NoCall]
  /\ stop = [pc |-> "idle", listed |-> {}, todo |-> {}]
  /\ cut = {}

(* A call for this key fails, before or after it takes effect.             *)
Cut(k) == k \in Unreliable /\ cut' = cut \cup {k}

-----------------------------------------------------------------------------
(* Game1TicketPurchaseService.purchase                                     *)

Step(b, pc, k) == call' = [call EXCEPT ![b] = [pc |-> pc, key |-> k]]
Returns(b)     == call' = [call EXCEPT ![b] = NoCall]

OnSale == status \in {"purchase_open", "ready_to_start"}

(* Only a client that retries sends a key that has been seen.              *)
Fresh(k) == ~Posted("debit", k) /\ \A b \in Calls : call[b].key # k

(* The reads: idempotency key, status of the game, balance.  The hall may  *)
(* be closed, or the price wrong: then nothing happens.                    *)
Purchase(b, k) ==
  /\ call[b].pc = "idle"
  /\ k \in Retried \/ Fresh(k)
  /\ row[k] = "none" /\ OnSale
  /\ Balance(Owner[k]) > 0
  /\ Step(b, "debit", k)
  /\ UNCHANGED <<wallet, game, row, convert, undo, stop, cut>>

(* singleAccountMovement: a key that is known is answered before the       *)
(* balance is looked at.                                                   *)
Debit(b) ==
  LET k == call[b].key IN
  /\ call[b].pc = "debit"
  /\ \/ /\ Posted("debit", k) \/ Balance(Owner[k]) > 0
        /\ Post("debit", k) /\ Step(b, "insert", k)
     \/ /\ ~Posted("debit", k) /\ Balance(Owner[k]) <= 0
        /\ UNCHANGED wallet /\ Returns(b)
  /\ UNCHANGED <<game, row, convert, undo, stop, cut>>

(* Refused by the breaker, timed out, or done with the reply lost.         *)
DebitFails(b) ==
  LET k == call[b].key IN
  /\ call[b].pc = "debit" /\ Cut(k)
  /\ UNCHANGED wallet \/ (Balance(Owner[k]) > 0 /\ Post("debit", k))
  /\ Returns(b)
  /\ UNCHANGED <<game, row, convert, undo, stop>>

(* The INSERT, or the row that is already there (23505).                   *)
Inserted(k) == row' = IF row[k] = "none" THEN [row EXCEPT ![k] = "bought"] ELSE row

Insert(b) ==
  /\ call[b].pc = "insert"
  /\ Inserted(call[b].key)
  /\ Returns(b)
  /\ UNCHANGED <<wallet, game, convert, undo, stop, cut>>

(* Mutant of InsertRefused: 23505 is an error like the others.             *)
InsertRefusedOrThere(k) == k \in InsertFails \/ row[k] # "none"

InsertRefused(k) == k \in InsertFails

(* Mutant of AfterRefusedInsert: the error goes straight to the client.    *)
AnswersError(b, k) == Returns(b)

AfterRefusedInsert(b, k) == Step(b, "compensate", k)

InsertFailed(b) ==
  LET k == call[b].key IN
  /\ call[b].pc = "insert" /\ InsertRefused(k)
  /\ AfterRefusedInsert(b, k)
  /\ UNCHANGED <<wallet, game, row, convert, undo, stop, cut>>

Compensate(b) ==
  LET k == call[b].key IN
  /\ call[b].pc = "compensate"
  /\ Post("compensate", k)
  /\ Returns(b)
  /\ UNCHANGED <<game, row, convert, undo, stop, cut>>

CompensateFails(b) ==
  LET k == call[b].key IN
  /\ call[b].pc = "compensate" /\ Cut(k)
  /\ UNCHANGED wallet \/ Post("compensate", k)
  /\ Returns(b)
  /\ UNCHANGED <<game, row, convert, undo, stop>>

-----------------------------------------------------------------------------
(* Game1ArmedToPurchaseConversionService.convertSingle                     *)

At(k, pc) == convert' = [convert EXCEPT ![k] = pc]

(* Between the creation of the scheduled game and the start of its engine; *)
(* the status is not looked at.                                            *)
Convert(k) ==
  /\ convert[k] = "idle" /\ row[k] = "none"
  /\ status \in L!Startable
  /\ At(k, "commit")
  /\ UNCHANGED <<wallet, game, row, call, undo, stop, cut>>

Committed(k) ==
  /\ hold[k] = "active" /\ Balance(Owner[k]) > 0
  /\ hold' = [hold EXCEPT ![k] = "committed"]
  /\ posted' = posted \cup {<<"debit", k>>}

(* A reservation that is not active ends the conversion; too little money  *)
(* releases it.                                                            *)
CommitHold(k) ==
  /\ convert[k] = "commit"
  /\ \/ Committed(k) /\ At(k, "insert")
     \/ hold[k] # "active" /\ UNCHANGED wallet /\ At(k, "idle")
     \/ hold[k] = "active" /\ Balance(Owner[k]) <= 0 /\ UNCHANGED wallet /\ At(k, "release")
  /\ UNCHANGED <<game, row, call, undo, stop, cut>>

CommitFails(k) ==
  /\ convert[k] = "commit" /\ Cut(k)
  /\ UNCHANGED wallet \/ Committed(k)
  /\ At(k, "release")
  /\ UNCHANGED <<game, row, call, undo, stop>>

InsertConverted(k) ==
  /\ convert[k] = "insert"
  /\ Inserted(k)
  /\ At(k, "idle")
  /\ UNCHANGED <<wallet, game, call, undo, stop, cut>>

(* The reservation is committed by now and nothing gives the money back.   *)
InsertConvertedFails(k) ==
  /\ convert[k] = "insert" /\ k \in InsertFails
  /\ cut' = cut \cup {k}
  /\ At(k, "release")
  /\ UNCHANGED <<wallet, game, row, call, undo, stop>>

(* handleSingleFailure: a committed reservation cannot be released.        *)
Released(k) ==
  /\ hold' = [hold EXCEPT ![k] = IF @ = "active" THEN "released" ELSE @]
  /\ UNCHANGED posted

ReleaseHold(k) ==
  /\ convert[k] = "release"
  /\ Released(k)
  /\ At(k, "idle")
  /\ UNCHANGED <<game, row, call, undo, stop, cut>>

(* The sweep of the wallet.                                                *)
ExpireHold(k) ==
  /\ hold[k] = "active"
  /\ hold' = [hold EXCEPT ![k] = "expired"]
  /\ UNCHANGED <<posted, game, row, call, convert, undo, stop, cut>>

-----------------------------------------------------------------------------
(* refundPurchase, by an administrator or for each row of a stopped game   *)

Undo(q, pc, k) == undo' = [undo EXCEPT ![q] = [pc |-> pc, key |-> k]]
Undone(q)      == undo' = [undo EXCEPT ![q] = NoCall]

Refundable(k) == row[k] = "bought" /\ status # "completed"

Refund(q, k) ==
  /\ undo[q].pc = "idle"
  /\ Refundable(k)
  /\ Undo(q, "credit", k)

AdminRefunds(q, k) ==
  /\ q \in Refunders
  /\ Refund(q, k)
  /\ UNCHANGED <<wallet, game, row, call, convert, stop, cut>>

CreditRefund(q) ==
  LET k == undo[q].key IN
  /\ undo[q].pc = "credit"
  /\ Post("refund", k)
  /\ Undo(q, "mark", k)
  /\ UNCHANGED <<game, row, call, convert, stop, cut>>

(* UPDATE ... WHERE refunded_at IS NULL.                                   *)
MarkRefunded(q) ==
  LET k == undo[q].key IN
  /\ undo[q].pc = "mark"
  /\ row' = [row EXCEPT ![k] = "refunded"]
  /\ Undone(q)
  /\ UNCHANGED <<wallet, game, call, convert, stop, cut>>

(* Mutant of AfterRefundError: the failed credit is logged and the row is  *)
(* marked.                                                                 *)
MarksAnyhow(q) == Undo(q, "mark", undo[q].key)

AfterRefundError(q) == Undone(q)

(* The refund of this row ends with an error; a stop goes on with the next *)
(* one.                                                                    *)
RefundFails(q) ==
  LET k == undo[q].key IN
  /\ undo[q].pc \in {"credit", "mark"} /\ Cut(k)
  /\ UNCHANGED wallet \/ (undo[q].pc = "credit" /\ Post("refund", k))
  /\ AfterRefundError(q)
  /\ UNCHANGED <<game, row, call, convert, stop>>

(* Game1MasterControlService.stopGame, after its commit.                   *)
StopGame ==
  /\ stop.pc = "idle" /\ status # "scheduled" /\ L!Cancel
  /\ stop' = [stop EXCEPT !.pc = "list"]
  /\ UNCHANGED <<wallet, row, call, convert, undo, cut>>

StopLists ==
  /\ stop.pc = "list"
  /\ LET bought == {k \in Keys : row[k] = "bought"}
     IN  stop' = [pc |-> "refund", listed |-> bought, todo |-> bought]
  /\ UNCHANGED <<wallet, game, row, call, convert, undo, cut>>

StopRefunds(k) ==
  /\ stop.pc = "refund" /\ undo[Stopper].pc = "idle" /\ k \in stop.todo
  /\ stop' = [stop EXCEPT !.todo = @ \ {k}]
  /\ Refund(Stopper, k) \/ (~Refundable(k) /\ UNCHANGED undo)
  /\ UNCHANGED <<wallet, game, row, call, convert, cut>>

(* Mutant of NothingLeft: the first error ends the loop.                   *)
NothingLeftOrError == stop.todo = {} \/ stop.listed \cap cut # {}

NothingLeft == stop.todo = {}

StopEnds ==
  /\ stop.pc = "refund" /\ NothingLeft /\ undo[Stopper].pc = "idle"
  /\ stop' = [stop EXCEPT !.pc = "done"]
  /\ UNCHANGED <<wallet, game, row, call, convert, undo, cut>>

-----------------------------------------------------------------------------
(* Everybody else who changes the row of the game, among them those who    *)
(* cancel without a refund: the tick, the watchdog, the recovery.          *)
GameGoesOn ==
  /\ L!Next
  /\ UNCHANGED <<wallet, row, call, convert, undo, stop, cut>>

(* A restart: calls in progress are gone.                                  *)
Crash ==
  /\ cut' = cut \cup {k \in Keys : \/ \E b \in Calls : call[b].key = k
                                   \/ k \in ArmKeys /\ convert[k] # "idle"}
  /\ call' = [b \in Calls |-> NoCall]
  /\ convert' = [k \in ArmKeys |-> "idle"]
  /\ undo' = [q \in Undoers |-> NoCall]
  /\ stop' = IF stop.pc \in {"idle", "done"} THEN stop ELSE [stop EXCEPT !.pc = "lost"]
  /\ UNCHANGED <<wallet, game, row>>
-----------------------------------------------------------------------------
Serve(b) ==
  \/ Debit(b) \/ DebitFails(b) \/ Insert(b) \/ InsertFailed(b)
  \/ Compensate(b) \/ CompensateFails(b)

ConvertOn(k) ==
  \/ CommitHold(k) \/ CommitFails(k)
  \/ InsertConverted(k) \/ InsertConvertedFails(k) \/ ReleaseHold(k)

UndoOn(q) == CreditRefund(q) \/ MarkRefunded(q) \/ RefundFails(q)

StopOn == StopLists \/ (\E k \in Keys : StopRefunds(k)) \/ StopEnds

Next ==
  \/ \E b \in Calls : Serve(b) \/ \E k \in BuyKeys : Purchase(b, k)
  \/ \E k \in ArmKeys : Convert(k) \/ ConvertOn(k) \/ ExpireHold(k)
  \/ \E q \in Undoers : UndoOn(q) \/ \E k \in Keys : AdminRefunds(q, k)
  \/ StopGame \/ StopOn
  \/ GameGoesOn \/ Crash

Spec == Init /\ [][Next]_vars
-----------------------------------------------------------------------------
(* Properties                                                              *)

(* A purchase of the wallet that was not refunded has been paid for, and   *)
(* the payment was not given back.                                         *)
TicketsArePaid ==
  \A k \in Keys : row[k] = "bought" =>
    Posted("debit", k) /\ ~Posted("compensate", k)

(* Money and ticket of every purchase follow the abstract sale: paid once, *)
(* returned once, as a compensation or as a refund, and never played again *)
(* after that.                                                             *)
Sale(k) == INSTANCE TicketSale WITH
             ticket   <- row[k],
             taken    <- Posted("debit", k),
             returned <- Posted("compensate", k) \/ Posted("refund", k)

SalesAreFair ==
  /\ \A k \in Keys : Sale(k)!Init
  /\ [][\A k \in Keys : Sale(k)!Next \/ UNCHANGED Sale(k)!vars]_vars

(* Money that was taken has a purchase, is on its way to one, or went back *)
(* - unless a step failed or was cut off that the code does not make up    *)
(* for.  An INSERT that fails after a debit is made up for.                *)
Underway(k) ==
  \/ \E b \in Calls : call[b].key = k /\ call[b].pc \in {"insert", "compensate"}
  \/ k \in ArmKeys /\ convert[k] = "insert"

NoMoneyLost ==
  \A k \in Keys : Posted("debit", k) =>
    row[k] # "none" \/ Posted("compensate", k) \/ Underway(k) \/ k \in cut

(* Every purchase a stop has listed is refunded when it ends, whatever     *)
(* happens to the others and whoever else refunds it.                      *)
StopRefundsAll ==
  stop.pc = "done" => \A k \in stop.listed : row[k] = "refunded" \/ k \in cut

(* The inductive invariant.                                                *)
TypeOK ==
  /\ posted \subseteq Kinds \X Keys
  /\ hold \in [ArmKeys -> {"active", "committed", "released", "expired"}]
  /\ status \in L!Startable \cup L!Live \cup L!Terminal
  /\ row \in [Keys -> {"none", "bought", "refunded"}]
  /\ call \in [Calls -> [pc : {"idle", "debit", "insert", "compensate"}, key : BuyKeys \cup {None}]]
  /\ convert \in [ArmKeys -> {"idle", "commit", "insert", "release"}]
  /\ undo \in [Undoers -> [pc : {"idle", "credit", "mark"}, key : Keys \cup {None}]]
  /\ stop \in [pc : {"idle", "list", "refund", "done", "lost"},
               listed : SUBSET Keys, todo : SUBSET Keys]
  /\ cut \subseteq Keys

RowsArePaid ==
  \A k \in Keys :
    /\ row[k] # "none" => Posted("debit", k) /\ ~Posted("compensate", k)
    /\ Posted("refund", k) => row[k] # "none"
    /\ row[k] = "refunded" => Posted("refund", k)
    /\ Posted("compensate", k) => Posted("debit", k) /\ k \in BuyKeys \ Retried

(* A key that is not sent again has one call, and no call after its        *)
(* compensation.                                                           *)
CallsKnowTheirKey ==
  /\ \A b \in Calls :
       LET k == call[b].key IN
       /\ call[b].pc = "idle" <=> k = None
       /\ call[b].pc \in {"insert", "compensate"} => Posted("debit", k)
       /\ call[b].pc = "compensate" => k \notin Retried /\ row[k] = "none"
       /\ k \in Keys => ~Posted("compensate", k)
       /\ k \in BuyKeys \ Retried => row[k] = "none"
       /\ call[b].pc = "debit" /\ k \notin Retried => ~Posted("debit", k)
  /\ \A b, c \in Calls : call[b].key = call[c].key /\ call[b].key \in BuyKeys \ Retried => b = c

ConversionsMatch ==
  \A k \in ArmKeys :
    /\ Posted("debit", k) <=> hold[k] = "committed"
    /\ convert[k] = "insert" => Posted("debit", k)

RefundsMatch ==
  \A q \in Undoers :
    LET k == undo[q].key IN
    /\ undo[q].pc = "idle" <=> k = None
    /\ k \in Keys => row[k] # "none"
    /\ undo[q].pc = "mark" => Posted("refund", k)

StopProceeds ==
  /\ stop.pc # "idle" => status = "cancelled"
  /\ stop.pc \in {"idle", "list"} => stop.listed = {}
  /\ stop.pc \in {"refund", "done"} => \A k \in stop.listed \ stop.todo :
       row[k] = "refunded" \/ k \in cut \/ undo[Stopper].key = k
  /\ stop.pc = "done" => stop.todo = {}
  /\ stop.pc # "refund" => undo[Stopper].key = None
  /\ \A k \in stop.listed : row[k] # "none"

IInv ==
  /\ TypeOK /\ RowsArePaid /\ CallsKnowTheirKey
  /\ ConversionsMatch /\ RefundsMatch /\ StopProceeds /\ NoMoneyLost
=============================================================================
