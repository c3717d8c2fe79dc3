------------------------------ MODULE Payments ------------------------------
(***************************************************************************)
(* Money from outside.  A top-up intent (SwedbankPayService) follows a     *)
(* payment order at Swedbank Pay: the player's own request, the callback   *)
(* and an hourly job ask for the order and credit the wallet.  A payment   *)
(* request (PaymentRequestService) is accepted or rejected by an operator. *)
(*                                                                         *)
(* Both settle an item in the same way: in a transaction that locks its    *)
(* row they call the wallet, which commits on a connection of its own, and *)
(* then write the row and commit.  What differs is the idempotency key of  *)
(* the wallet call.  A call that ends between the wallet's commit and its  *)
(* own is torn: the money has moved and the row does not know.             *)
(*                                                                         *)
(* Amounts are left out: an item moves its amount or nothing.              *)
(***************************************************************************)
EXTENDS Integers, FiniteSets

CONSTANTS
  MaxIntents,    \* bound: top-up intents, numbered by created_at
  Requests,      \* payment requests, deposits and withdrawals
  Calls,         \* HTTP requests and callbacks in progress
  Job,           \* the job swedbank-payment-sync
  BatchLimit,    \* its LIMIT, 50 in the code
  MaxTorn,       \* bound: torn calls per item
  MaxCrashes,    \* bound: restarts of the backend
  None

Intents == 1..MaxIntents
Items   == Intents \cup Requests
Workers == Calls \cup {Job}

ASSUME PaymentsAssumption ==
  /\ MaxIntents \in Nat /\ BatchLimit \in Nat \ {0}
  /\ MaxTorn \in Nat /\ MaxCrashes \in Nat
  /\ Requests \cap Intents = {} /\ None \notin Items /\ Job \notin Calls

VARIABLES
  order,     \* the order at Swedbank Pay and how it was paid
  status,    \* the status column of an intent or a request
  credited,  \* the intents whose credited_at is set
  aged,      \* the intents older than 24 hours
  moved,     \* how often the wallet moved the money of an item
  torn,      \* history: how many calls for an item were torn
  work,      \* where a call or the job is, for which item, with which answer
  batch,     \* what the job has selected and not yet reconciled
  crashes

rows   == <<status, credited>>
wallet == <<moved, torn>>
vars   == <<order, rows, aged, wallet, work, batch, crashes>>

Paid    == {"PAID", "CREDIT_CARD", "OTHER_AMOUNT"}
Idle    == [at |-> "idle", on |-> None, seen |-> "none"]

Init ==
  /\ order = [i \in Intents |-> "none"]
  /\ status = [x \in Items |-> "none"]
  /\ credited = {} /\ aged = {}
  /\ moved = [x \in Items |-> 0] /\ torn = [x \in Items |-> 0]
  /\ work = [w \in Workers |-> Idle]
  /\ batch = {} /\ crashes = 0

Go(w, l) == work' = [work EXCEPT ![w].at = l]
Ends(w)  == work' = [work EXCEPT ![w] = Idle]

(* The row lock (FOR UPDATE), from the lock to the end of the transaction. *)
Holds(w, x) == work[w].on = x /\ work[w].at \in {"move", "settle"}
Free(x) == \A w \in Workers : ~Holds(w, x)

Settling(x) == \E w \in Workers : work[w].on = x /\ work[w].at = "settle"

-----------------------------------------------------------------------------
(* The order at Swedbank Pay                                               *)

CreateTopupIntent(i) ==
  /\ status[i] = "none" /\ \A j \in Intents : j < i => status[j] # "none"
  /\ order' = [order EXCEPT ![i] = "OPEN"]
  /\ status' = [status EXCEPT ![i] = "OPEN"]
  /\ UNCHANGED <<credited, aged, wallet, work, batch, crashes>>

PlayerPays(i) ==
  /\ order[i] = "OPEN"
  /\ \E how \in Paid : order' = [order EXCEPT ![i] = how]
  /\ UNCHANGED <<rows, aged, wallet, work, batch, crashes>>

OrderLapses(i) ==
  /\ order[i] = "OPEN"
  /\ order' = [order EXCEPT ![i] = "CANCELLED"]
  /\ UNCHANGED <<rows, aged, wallet, work, batch, crashes>>

(* Intents pass the age of 24 hours in the order of their creation.        *)
Ages(i) ==
  /\ status[i] # "none" /\ i \notin aged
  /\ \A j \in Intents : j < i => j \in aged
  /\ aged' = aged \cup {i}
  /\ UNCHANGED <<order, rows, wallet, work, batch, crashes>>

-----------------------------------------------------------------------------
(* Reconciling an intent (SwedbankPayService.reconcileRow)                 *)

Reconcile(c, i) ==
  /\ work[c] = Idle
  /\ status[i] # "none" /\ i \notin credited
  /\ work' = [work EXCEPT ![c] = [at |-> "fetch", on |-> i, seen |-> "none"]]
  /\ UNCHANGED <<order, rows, aged, wallet, batch, crashes>>

(* Mutant of AfterAnswer: any card will do.                                *)
AnyCard(answer) ==
  CASE answer = "OTHER_AMOUNT" -> "fail"
    [] answer \in {"PAID", "CREDIT_CARD"} -> "lock"
    [] OTHER -> "note"

AfterAnswer(answer) ==
  CASE answer = "OTHER_AMOUNT" -> "fail"
    [] answer = "CREDIT_CARD" -> "refuse"
    [] answer = "PAID" -> "lock"
    [] OTHER -> "note"

Fetch(w) ==
  /\ work[w].at = "fetch"
  /\ LET answer == order[work[w].on] IN
     work' = [work EXCEPT ![w].at = AfterAnswer(answer), ![w].seen = answer]
  /\ UNCHANGED <<order, rows, aged, wallet, batch, crashes>>

(* An UPDATE by id, whatever the row says by now.                          *)
Recorded(w) ==
  CASE work[w].at = "fail" -> "FAILED"
    [] work[w].at = "refuse" -> "REJECTED"
    [] OTHER -> work[w].seen

Record(w) ==
  /\ work[w].at \in {"fail", "refuse", "note"} /\ Free(work[w].on)
  /\ status' = [status EXCEPT ![work[w].on] = Recorded(w)]
  /\ IF work[w].at = "refuse" THEN Go(w, "cancel") ELSE Ends(w)
  /\ UNCHANGED <<order, credited, aged, wallet, batch, crashes>>

CancelOrder(w) ==
  /\ work[w].at = "cancel"
  /\ order' = [order EXCEPT ![work[w].on] = "CANCELLED"]
  /\ Ends(w)
  /\ UNCHANGED <<rows, aged, wallet, batch, crashes>>

-----------------------------------------------------------------------------
(* Settling an item                                                        *)

(* Mutant of Open: the row is not read again under its lock.               *)
OpenBefore(x) == TRUE

Open(x) == IF x \in Intents THEN x \notin credited ELSE status[x] = "PENDING"

Lock(w) ==
  /\ work[w].at = "lock" /\ Free(work[w].on)
  /\ IF Open(work[w].on) THEN Go(w, "move") ELSE Ends(w)
  /\ UNCHANGED <<order, rows, aged, wallet, batch, crashes>>

(* The wallet finds the key of a payment request again; a top-up has none. *)
Movements(x) == IF x \in Requests THEN 1 ELSE moved[x] + 1

Move(w) ==
  /\ work[w].at = "move"
  /\ moved' = [moved EXCEPT ![work[w].on] = Movements(work[w].on)]
  /\ Go(w, "settle")
  /\ UNCHANGED <<order, rows, aged, torn, batch, crashes>>

Settle(w) ==
  /\ work[w].at = "settle"
  /\ LET x == work[w].on IN
     IF x \in Intents
     THEN /\ status' = [status EXCEPT ![x] = "CREDITED"]
          /\ credited' = credited \cup {x}
     ELSE /\ status' = [status EXCEPT ![x] = "ACCEPTED"]
          /\ UNCHANGED credited
  /\ Ends(w)
  /\ UNCHANGED <<order, aged, wallet, batch, crashes>>

(* The UPDATE or the COMMIT after the wallet's commit fails.               *)
Tears(w) ==
  /\ work[w].at = "settle" /\ torn[work[w].on] < MaxTorn
  /\ torn' = [torn EXCEPT ![work[w].on] = @ + 1]
  /\ Ends(w)
  /\ UNCHANGED <<order, rows, aged, moved, batch, crashes>>

(* Every other call of Swedbank, the wallet or the database that fails.    *)
(* Whoever waits for a row lock gets it, or fails when it is free: a call  *)
(* of the wallet is shorter than the 30 seconds of a statement.            *)
Fails(w) ==
  /\ work[w].at \in {"fetch", "fail", "refuse", "note", "cancel", "lock", "move"}
  /\ work[w].at = "lock" => Free(work[w].on)
  /\ Ends(w)
  /\ UNCHANGED <<order, rows, aged, wallet, batch, crashes>>

Crash ==
  /\ crashes < MaxCrashes /\ crashes' = crashes + 1
  /\ \A x \in Items : Settling(x) => torn[x] < MaxTorn
  /\ torn' = [x \in Items |-> IF Settling(x) THEN torn[x] + 1 ELSE torn[x]]
  /\ work' = [w \in Workers |-> Idle]
  /\ batch' = {}
  /\ UNCHANGED <<order, rows, aged, moved>>

-----------------------------------------------------------------------------
(* The job (swedbankPaymentSync)                                           *)

Pending == {i \in Intents \ aged :
              status[i] \notin {"none", "PAID", "CREDITED", "FAILED", "EXPIRED", "CANCELLED"}}

(* Mutant of Oldest: the newest intents come first.                        *)
Newest(S) == {i \in S : Cardinality({j \in S : j > i}) < BatchLimit}

Oldest(S) == {i \in S : Cardinality({j \in S : j < i}) < BatchLimit}

JobSelects ==
  /\ work[Job] = Idle /\ batch = {}
  /\ batch' = Oldest(Pending)
  /\ UNCHANGED <<order, rows, aged, wallet, work, crashes>>

JobReconciles(i) ==
  /\ work[Job] = Idle
  /\ i \in batch /\ \A j \in batch : i <= j
  /\ batch' = batch \ {i}
  /\ IF i \in credited
     THEN UNCHANGED work
     ELSE work' = [work EXCEPT ![Job] = [at |-> "fetch", on |-> i, seen |-> "none"]]
  /\ UNCHANGED <<order, rows, aged, wallet, crashes>>

-----------------------------------------------------------------------------
(* Payment requests (PaymentRequestService)                                *)

CreateRequest(r) ==
  /\ status[r] = "none"
  /\ status' = [status EXCEPT ![r] = "PENDING"]
  /\ UNCHANGED <<order, credited, aged, wallet, work, batch, crashes>>

AcceptRequest(c, r) ==
  /\ work[c] = Idle /\ status[r] # "none"
  /\ work' = [work EXCEPT ![c] = [at |-> "lock", on |-> r, seen |-> "none"]]
  /\ UNCHANGED <<order, rows, aged, wallet, batch, crashes>>

(* One transaction, without a call in it.                                  *)
RejectRequest(r) ==
  /\ Free(r) /\ status[r] = "PENDING"
  /\ status' = [status EXCEPT ![r] = "REJECTED"]
  /\ UNCHANGED <<order, credited, aged, wallet, work, batch, crashes>>

-----------------------------------------------------------------------------
Steps(w) == Fetch(w) \/ Record(w) \/ CancelOrder(w) \/ Lock(w) \/ Move(w) \/ Settle(w)

Next ==
  \/ \E i \in Intents : CreateTopupIntent(i) \/ PlayerPays(i) \/ OrderLapses(i) \/ Ages(i)
  \/ \E r \in Requests : CreateRequest(r) \/ RejectRequest(r)
  \/ \E c \in Calls : \/ \E i \in Intents : Reconcile(c, i)
                      \/ \E r \in Requests : AcceptRequest(c, r)
  \/ JobSelects \/ \E i \in Intents : JobReconciles(i)
  \/ \E w \in Workers : Steps(w) \/ Tears(w) \/ Fails(w)
  \/ Crash

Spec == Init /\ [][Next]_vars

(* An order that was paid by debit card and is not credited.               *)
Owed(i) == order[i] = "PAID" /\ i \notin credited

(* The job runs every hour; a call that is not stopped goes on; a step     *)
(* that the job tries again and again for one intent succeeds some time;   *)
(* and an intent that nobody is owed for grows old.                        *)
Fairness ==
  /\ WF_vars(JobSelects)
  /\ \A w \in Workers : WF_vars(Steps(w) \/ Fails(w))
  /\ \A i \in Intents :
       /\ WF_vars(JobReconciles(i)) /\ WF_vars(~Owed(i) /\ Ages(i))
       /\ SF_vars(work[Job].on = i /\ Fetch(Job))
       /\ SF_vars(work[Job].on = i /\ Lock(Job))
       /\ SF_vars(work[Job].on = i /\ Move(Job))

FairSpec == Spec /\ Fairness

-----------------------------------------------------------------------------
(* What the wallet was told is explained: every movement of an item is the *)
(* one its row knows of, the one of the call that holds its row, or a torn *)
(* call's; and a request moves money once, however often it is accepted.   *)
(* (reconcileRow's and acceptRequest's lock, check and key.)               *)
One(b) == IF b THEN 1 ELSE 0

MoneyIsExplained ==
  /\ \A i \in Intents : moved[i] = torn[i] + One(i \in credited) + One(Settling(i))
  /\ \A r \in Requests :
       /\ moved[r] <= 1 /\ (status[r] = "ACCEPTED" => moved[r] = 1)
       /\ moved[r] = 1 /\ torn[r] = 0 => status[r] = "ACCEPTED" \/ Settling(r)

(* The wallet is credited only for an order that is paid in full by debit  *)
(* card and stays so: an answer is never used for another order's state,   *)
(* and no order is both credited and cancelled.                            *)
OnlyPaidOrdersCredited == \A i \in Intents : moved[i] > 0 => order[i] = "PAID"

(* What is paid is credited while the job still looks at the intent,       *)
(* whatever happens to the player's request and the callback, and however  *)
(* many abandoned intents come before it in the job's batch.               *)
PaidIsCredited ==
  \A i \in Intents : Owed(i) /\ i \notin aged ~> i \in credited \/ i \in aged

(* docs/architecture/payments-flows.md: no double credit, the row is the   *)
(* barrier and a key is not needed.                                        *)
NoDoubleCredit == \A i \in Intents : moved[i] <= 1

-----------------------------------------------------------------------------
(* The inductive invariant.                                                *)
Places == {"idle", "fetch", "fail", "refuse", "note", "cancel", "lock", "move", "settle"}
Orders == {"none", "OPEN", "CANCELLED"} \cup Paid

TypeOK ==
  /\ order \in [Intents -> Orders]
  /\ status \in [Items -> Orders \cup {"CREDITED", "REJECTED", "FAILED", "PENDING", "ACCEPTED"}]
  /\ credited \subseteq Intents /\ aged \subseteq Intents /\ batch \subseteq Intents
  /\ moved \in [Items -> Nat] /\ torn \in [Items -> Nat] /\ crashes \in Nat
  /\ work \in [Workers -> [at : Places, on : Items \cup {None}, seen : Orders]]

OrdersHaveRows ==
  /\ \A i \in Intents : status[i] = "none" <=> order[i] = "none"
  /\ \A i \in batch : status[i] # "none"

WorkersKnowTheirItem ==
  \A w \in Workers :
    LET x == work[w].on IN
    /\ work[w].at = "idle" <=> x = None
    /\ work[w].at \in {"fetch", "fail", "refuse", "note", "cancel"} => x \in Intents
    /\ x \in Intents => order[x] # "none"
    /\ work[w].at = "note" => work[w].seen # "none"
    /\ work[w].at \in {"refuse", "cancel"} => order[x] \in {"CREDIT_CARD", "CANCELLED"}
    /\ work[w].at \in {"lock", "move", "settle"} /\ x \in Intents => order[x] = "PAID"

OneHolder ==
  /\ \A v, w \in Workers, x \in Items : Holds(v, x) /\ Holds(w, x) => v = w
  /\ \A w \in Workers, x \in Items : Holds(w, x) => Open(x)
  /\ \A w \in Workers, r \in Requests : Holds(w, r) /\ work[w].at = "settle" => moved[r] = 1

IInv ==
  /\ TypeOK /\ OrdersHaveRows /\ WorkersKnowTheirItem /\ OneHolder
  /\ MoneyIsExplained /\ OnlyPaidOrdersCredited
=============================================================================
