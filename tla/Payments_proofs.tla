--------------------------- MODULE Payments_proofs ---------------------------
(***************************************************************************)
(* For every number of intents, requests, calls and restarts: every        *)
(* movement of the wallet is explained, and none is made for an order that *)
(* is not paid by debit card.                                              *)
(***************************************************************************)
EXTENDS Payments, TLAPS

USE PaymentsAssumption
USE DEF Items, Workers

(* What a step does to the place of one worker.                            *)
LEMMA Goes ==
  ASSUME TypeOK, NEW w \in Workers, NEW l \in Places, Go(w, l)
  PROVE  /\ work' \in [Workers -> [at : Places, on : Items \cup {None}, seen : Orders]]
         /\ work'[w].at = l /\ work'[w].on = work[w].on
         /\ \A v \in Workers : v # w => work'[v] = work[v]
  BY DEF TypeOK, Go

LEMMA IdleTyped == Idle \in [at : Places, on : Items \cup {None}, seen : Orders]
  BY DEF Idle, Places, Orders

LEMMA Leaves ==
  ASSUME TypeOK, NEW w \in Workers, Ends(w)
  PROVE  /\ work' \in [Workers -> [at : Places, on : Items \cup {None}, seen : Orders]]
         /\ work'[w].at = "idle" /\ work'[w].on = None
         /\ \A v \in Workers : v # w => work'[v] = work[v]
<1>1. work' \in [Workers -> [at : Places, on : Items \cup {None}, seen : Orders]]
      BY IdleTyped DEF TypeOK, Ends
<1>2. work'[w] = Idle  BY DEF TypeOK, Ends
<1> QED BY <1>1, <1>2 DEF Ends, TypeOK, Idle

LEMMA Answers ==
  ASSUME TypeOK, NEW w \in Workers, NEW l \in Places, NEW a \in Orders,
         work' = [work EXCEPT ![w].at = l, ![w].seen = a]
  PROVE  /\ work' \in [Workers -> [at : Places, on : Items \cup {None}, seen : Orders]]
         /\ work'[w].at = l /\ work'[w].on = work[w].on /\ work'[w].seen = a
         /\ \A v \in Workers : v # w => work'[v] = work[v]
  BY DEF TypeOK

(* A call of the job or of somebody else begins.                           *)
LEMMA Begins ==
  ASSUME TypeOK, NEW w \in Workers, NEW l \in Places, NEW x \in Items,
         work' = [work EXCEPT ![w] = [at |-> l, on |-> x, seen |-> "none"]]
  PROVE  /\ work' \in [Workers -> [at : Places, on : Items \cup {None}, seen : Orders]]
         /\ work'[w].at = l /\ work'[w].on = x
         /\ \A v \in Workers : v # w => work'[v] = work[v]
<1>1. [at |-> l, on |-> x, seen |-> "none"] \in [at : Places, on : Items \cup {None}, seen : Orders]
      BY DEF Orders
<1> QED BY <1>1 DEF TypeOK

(* The worker of a step is at a known place and for a known item.          *)
LEMMA Known ==
  ASSUME IInv, NEW w \in Workers
  PROVE  /\ work[w].at \in Places /\ work[w].on \in Items \cup {None} /\ work[w].seen \in Orders
         /\ work[w].at # "idle" => work[w].on \in Items
         /\ work[w].at \in {"fetch", "fail", "refuse", "note", "cancel"} => work[w].on \in Intents
  BY DEF IInv, TypeOK, WorkersKnowTheirItem

(* Nobody holds a row twice, so its lock is free when its holder leaves.   *)
LEMMA OtherSettles ==
  ASSUME IInv, NEW w \in Workers, work[w].at # "settle", work'[w].at # "settle",
         \A v \in Workers : v # w => work'[v] = work[v]
  PROVE  \A x \in Items : Settling(x)' <=> Settling(x)
  BY DEF Settling

LEMMA StopsSettling ==
  ASSUME IInv, NEW w \in Workers, work[w].at = "settle", work'[w].at # "settle",
         \A v \in Workers : v # w => work'[v] = work[v]
  PROVE  \A x \in Items : IF x = work[w].on THEN Settling(x) /\ ~Settling(x)'
                                            ELSE Settling(x)' <=> Settling(x)
<1>1. work[w].on \in Items  BY Known
<1>2. ASSUME NEW v \in Workers, work[v].on = work[w].on, work[v].at = "settle" PROVE v = w
      BY <1>1, <1>2 DEF IInv, OneHolder, Holds
<1>3. \A x \in Items : x = work[w].on => Settling(x) /\ ~Settling(x)'  BY <1>2 DEF Settling
<1>4. \A x \in Items : x # work[w].on => (Settling(x)' <=> Settling(x))  BY DEF Settling
<1> QED BY <1>3, <1>4

(* A step in which nobody gets a row lock or passes on under it.           *)
LEMMA NobodyGrips ==
  ASSUME IInv, moved' = moved,
         \A v \in Workers, x \in Items : Holds(v, x)' => Holds(v, x) /\ work'[v].at = work[v].at,
         \A x \in Items : Open(x) => Open(x)'
  PROVE  OneHolder'
<1>1. /\ \A v, w \in Workers, x \in Items : Holds(v, x) /\ Holds(w, x) => v = w
      /\ \A w \in Workers, x \in Items : Holds(w, x) => Open(x)
      /\ \A w \in Workers, r \in Requests : Holds(w, r) /\ work[w].at = "settle" => moved[r] = 1
  BY DEF IInv, OneHolder
<1>2. Requests \subseteq Items  BY DEF Items
<1> QED BY <1>1, <1>2, Zenon DEF OneHolder

LEMMA CreateTopupIntentKeeps == ASSUME IInv, NEW i \in Intents, CreateTopupIntent(i) PROVE IInv'
<1>0. work' = work /\ i \in Items /\ i \notin Requests  BY DEF CreateTopupIntent
<1>1. TypeOK'
      BY <1>0 DEF IInv, TypeOK, Orders, Paid, CreateTopupIntent, rows, wallet
<1>2. WorkersKnowTheirItem'
      BY <1>0 DEF IInv, TypeOK, WorkersKnowTheirItem, OrdersHaveRows, CreateTopupIntent, rows, wallet
<1>7. OrdersHaveRows'
      BY <1>0 DEF IInv, TypeOK, OrdersHaveRows, WorkersKnowTheirItem, Recorded, CreateTopupIntent, rows, wallet
<1>3. OneHolder'
      BY <1>0 DEF IInv, TypeOK, WorkersKnowTheirItem, OneHolder, Holds, Free, Open, CreateTopupIntent, rows, wallet
<1>4. \A x \in Items : Settling(x)' <=> Settling(x)
      BY <1>0 DEF Settling, CreateTopupIntent, rows, wallet
<1>5. MoneyIsExplained'
      BY <1>0, <1>4 DEF IInv, TypeOK, MoneyIsExplained, One, CreateTopupIntent, rows, wallet
<1>6. OnlyPaidOrdersCredited'
      BY <1>0 DEF IInv, TypeOK, WorkersKnowTheirItem, OrdersHaveRows, MoneyIsExplained, OnlyPaidOrdersCredited, One, CreateTopupIntent, rows, wallet
<1> QED BY <1>1, <1>2, <1>7, <1>3, <1>5, <1>6 DEF IInv
LEMMA PlayerPaysKeeps == ASSUME IInv, NEW i \in Intents, PlayerPays(i) PROVE IInv'
<1>0. work' = work  BY DEF PlayerPays
<1>1. TypeOK'
      BY <1>0 DEF IInv, TypeOK, Orders, Paid, PlayerPays, rows, wallet
<1>2. WorkersKnowTheirItem'
      BY <1>0 DEF IInv, TypeOK, WorkersKnowTheirItem, OrdersHaveRows, PlayerPays, rows, wallet, Paid
<1>7. OrdersHaveRows'
      BY <1>0 DEF IInv, TypeOK, OrdersHaveRows, WorkersKnowTheirItem, Recorded, PlayerPays, rows, wallet, Paid
<1>3. OneHolder'
      BY <1>0 DEF IInv, TypeOK, WorkersKnowTheirItem, OneHolder, Holds, Free, Open, PlayerPays, rows, wallet
<1>4. \A x \in Items : Settling(x)' <=> Settling(x)
      BY <1>0 DEF Settling, PlayerPays, rows, wallet
<1>5. MoneyIsExplained'
      BY <1>0, <1>4 DEF IInv, TypeOK, MoneyIsExplained, One, PlayerPays, rows, wallet
<1>6. OnlyPaidOrdersCredited'
      BY <1>0 DEF IInv, TypeOK, WorkersKnowTheirItem, OrdersHaveRows, MoneyIsExplained, OnlyPaidOrdersCredited, One, PlayerPays, rows, wallet
<1> QED BY <1>1, <1>2, <1>7, <1>3, <1>5, <1>6 DEF IInv
LEMMA OrderLapsesKeeps == ASSUME IInv, NEW i \in Intents, OrderLapses(i) PROVE IInv'
<1>0. work' = work  BY DEF OrderLapses
<1>1. TypeOK'
      BY <1>0 DEF IInv, TypeOK, Orders, Paid, OrderLapses, rows, wallet
<1>2. WorkersKnowTheirItem'
      BY <1>0 DEF IInv, TypeOK, WorkersKnowTheirItem, OrdersHaveRows, OrderLapses, rows, wallet
<1>7. OrdersHaveRows'
      BY <1>0 DEF IInv, TypeOK, OrdersHaveRows, WorkersKnowTheirItem, Recorded, OrderLapses, rows, wallet
<1>3. OneHolder'
      BY <1>0 DEF IInv, TypeOK, WorkersKnowTheirItem, OneHolder, Holds, Free, Open, OrderLapses, rows, wallet
<1>4. \A x \in Items : Settling(x)' <=> Settling(x)
      BY <1>0 DEF Settling, OrderLapses, rows, wallet
<1>5. MoneyIsExplained'
      BY <1>0, <1>4 DEF IInv, TypeOK, MoneyIsExplained, One, OrderLapses, rows, wallet
<1>6. OnlyPaidOrdersCredited'
      BY <1>0 DEF IInv, TypeOK, WorkersKnowTheirItem, OrdersHaveRows, MoneyIsExplained, OnlyPaidOrdersCredited, One, OrderLapses, rows, wallet
<1> QED BY <1>1, <1>2, <1>7, <1>3, <1>5, <1>6 DEF IInv
LEMMA AgesKeeps == ASSUME IInv, NEW i \in Intents, Ages(i) PROVE IInv'
<1>0. work' = work  BY DEF Ages
<1>1. TypeOK'
      BY <1>0 DEF IInv, TypeOK, Orders, Paid, Ages, rows, wallet
<1>2. WorkersKnowTheirItem'
      BY <1>0 DEF IInv, TypeOK, WorkersKnowTheirItem, OrdersHaveRows, Ages, rows, wallet
<1>7. OrdersHaveRows'
      BY <1>0 DEF IInv, TypeOK, OrdersHaveRows, WorkersKnowTheirItem, Recorded, Ages, rows, wallet
<1>3. OneHolder'
      BY <1>0 DEF IInv, TypeOK, WorkersKnowTheirItem, OneHolder, Holds, Free, Open, Ages, rows, wallet
<1>4. \A x \in Items : Settling(x)' <=> Settling(x)
      BY <1>0 DEF Settling, Ages, rows, wallet
<1>5. MoneyIsExplained'
      BY <1>0, <1>4 DEF IInv, TypeOK, MoneyIsExplained, One, Ages, rows, wallet
<1>6. OnlyPaidOrdersCredited'
      BY <1>0 DEF IInv, TypeOK, WorkersKnowTheirItem, OrdersHaveRows, MoneyIsExplained, OnlyPaidOrdersCredited, One, Ages, rows, wallet
<1> QED BY <1>1, <1>2, <1>7, <1>3, <1>5, <1>6 DEF IInv
LEMMA JobSelectsKeeps == ASSUME IInv, JobSelects PROVE IInv'
<1>0. work' = work  BY DEF JobSelects
<1>1. TypeOK'
      BY <1>0 DEF IInv, TypeOK, Orders, Paid, JobSelects, rows, wallet, Oldest, Pending
<1>2. WorkersKnowTheirItem'
      BY <1>0 DEF IInv, TypeOK, WorkersKnowTheirItem, OrdersHaveRows, JobSelects, rows, wallet
<1>7. OrdersHaveRows'
      BY <1>0 DEF IInv, TypeOK, OrdersHaveRows, WorkersKnowTheirItem, Recorded, JobSelects, rows, wallet, Oldest, Pending
<1>3. OneHolder'
      BY <1>0 DEF IInv, TypeOK, WorkersKnowTheirItem, OneHolder, Holds, Free, Open, JobSelects, rows, wallet
<1>4. \A x \in Items : Settling(x)' <=> Settling(x)
      BY <1>0 DEF Settling, JobSelects, rows, wallet
<1>5. MoneyIsExplained'
      BY <1>0, <1>4 DEF IInv, TypeOK, MoneyIsExplained, One, JobSelects, rows, wallet
<1>6. OnlyPaidOrdersCredited'
      BY <1>0 DEF IInv, TypeOK, WorkersKnowTheirItem, OrdersHaveRows, MoneyIsExplained, OnlyPaidOrdersCredited, One, JobSelects, rows, wallet
<1> QED BY <1>1, <1>2, <1>7, <1>3, <1>5, <1>6 DEF IInv
LEMMA CreateRequestKeeps == ASSUME IInv, NEW r \in Requests, CreateRequest(r) PROVE IInv'
<1>0. work' = work /\ r \in Items /\ r \notin Intents  BY DEF CreateRequest
<1>1. TypeOK'
      BY <1>0 DEF IInv, TypeOK, Orders, Paid, CreateRequest, rows, wallet
<1>2. WorkersKnowTheirItem'
      BY <1>0 DEF IInv, TypeOK, WorkersKnowTheirItem, OrdersHaveRows, CreateRequest, rows, wallet
<1>7. OrdersHaveRows'
      BY <1>0 DEF IInv, TypeOK, OrdersHaveRows, WorkersKnowTheirItem, Recorded, CreateRequest, rows, wallet
<1>3. OneHolder'
      BY <1>0 DEF IInv, TypeOK, WorkersKnowTheirItem, OneHolder, Holds, Free, Open, CreateRequest, rows, wallet
<1>4. \A x \in Items : Settling(x)' <=> Settling(x)
      BY <1>0 DEF Settling, CreateRequest, rows, wallet
<1>5. MoneyIsExplained'
      BY <1>0, <1>4 DEF IInv, TypeOK, MoneyIsExplained, One, CreateRequest, rows, wallet
<1>6. OnlyPaidOrdersCredited'
      BY <1>0 DEF IInv, TypeOK, WorkersKnowTheirItem, OrdersHaveRows, MoneyIsExplained, OnlyPaidOrdersCredited, One, CreateRequest, rows, wallet
<1> QED BY <1>1, <1>2, <1>7, <1>3, <1>5, <1>6 DEF IInv
LEMMA RejectRequestKeeps == ASSUME IInv, NEW r \in Requests, RejectRequest(r) PROVE IInv'
<1>0. work' = work /\ r \in Items /\ r \notin Intents  BY DEF RejectRequest
<1>1. TypeOK'
      BY <1>0 DEF IInv, TypeOK, Orders, Paid, RejectRequest, rows, wallet
<1>2. WorkersKnowTheirItem'
      BY <1>0 DEF IInv, TypeOK, WorkersKnowTheirItem, OrdersHaveRows, RejectRequest, rows, wallet
<1>7. OrdersHaveRows'
      BY <1>0 DEF IInv, TypeOK, OrdersHaveRows, WorkersKnowTheirItem, Recorded, RejectRequest, rows, wallet
<1>3. OneHolder'
      BY <1>0 DEF IInv, TypeOK, WorkersKnowTheirItem, OneHolder, Holds, Free, Open, RejectRequest, rows, wallet
<1>4. \A x \in Items : Settling(x)' <=> Settling(x)
      BY <1>0 DEF Settling, RejectRequest, rows, wallet
<1>5. MoneyIsExplained'
      BY <1>0, <1>4 DEF IInv, TypeOK, MoneyIsExplained, One, RejectRequest, rows, wallet
<1>6. OnlyPaidOrdersCredited'
      BY <1>0 DEF IInv, TypeOK, WorkersKnowTheirItem, OrdersHaveRows, MoneyIsExplained, OnlyPaidOrdersCredited, One, RejectRequest, rows, wallet
<1> QED BY <1>1, <1>2, <1>7, <1>3, <1>5, <1>6 DEF IInv
LEMMA ReconcileKeeps == ASSUME IInv, NEW c \in Calls, NEW i \in Intents, Reconcile(c, i) PROVE IInv'
<1>0. /\ c \in Workers /\ i \in Items /\ work[c].at = "idle"
      /\ work' \in [Workers -> [at : Places, on : Items \cup {None}, seen : Orders]]
      /\ work'[c].at = "fetch" /\ work'[c].on = i
      /\ \A v \in Workers : v # c => work'[v] = work[v]
  <2>1. "fetch" \in Places /\ c \in Workers /\ i \in Items /\ TypeOK /\ i \notin Requests
        BY DEF Places, IInv
  <2>2. work[c].at = "idle" /\ work' = [work EXCEPT ![c] = [at |-> "fetch", on |-> i, seen |-> "none"]]
        BY DEF Reconcile, Idle
  <2> QED BY <2>1, <2>2, Begins
<1>1. TypeOK'
      BY <1>0 DEF IInv, TypeOK, Orders, Paid, Reconcile, rows, wallet
<1>2. WorkersKnowTheirItem'
      BY <1>0 DEF IInv, TypeOK, WorkersKnowTheirItem, OrdersHaveRows, Reconcile, rows, wallet
<1>7. OrdersHaveRows'
      BY <1>0 DEF IInv, TypeOK, OrdersHaveRows, WorkersKnowTheirItem, Recorded, Reconcile, rows, wallet
<1>3. OneHolder'
  <2>1. moved' = moved /\ \A x \in Items : Open(x) => Open(x)'
        BY DEF Open, Reconcile, rows, wallet
  <2>2. \A v \in Workers, x \in Items : Holds(v, x)' => Holds(v, x) /\ work'[v].at = work[v].at
        BY <1>0 DEF Holds
  <2> QED BY <2>1, <2>2, NobodyGrips
<1>4. \A x \in Items : Settling(x)' <=> Settling(x)
      BY <1>0, OtherSettles DEF Reconcile, rows, wallet
<1>5. MoneyIsExplained'
      BY <1>0, <1>4 DEF IInv, TypeOK, MoneyIsExplained, One, Reconcile, rows, wallet
<1>6. OnlyPaidOrdersCredited'
      BY <1>0 DEF IInv, TypeOK, WorkersKnowTheirItem, OrdersHaveRows, MoneyIsExplained, OnlyPaidOrdersCredited, One, Reconcile, rows, wallet
<1> QED BY <1>1, <1>2, <1>7, <1>3, <1>5, <1>6 DEF IInv
LEMMA AcceptRequestKeeps == ASSUME IInv, NEW c \in Calls, NEW r \in Requests, AcceptRequest(c, r) PROVE IInv'
<1>0. /\ c \in Workers /\ r \in Items /\ r \notin Intents /\ work[c].at = "idle"
      /\ work' \in [Workers -> [at : Places, on : Items \cup {None}, seen : Orders]]
      /\ work'[c].at = "lock" /\ work'[c].on = r
      /\ \A v \in Workers : v # c => work'[v] = work[v]
  <2>1. "lock" \in Places /\ c \in Workers /\ r \in Items /\ TypeOK /\ r \notin Intents
        BY DEF Places, IInv
  <2>2. work[c].at = "idle" /\ work' = [work EXCEPT ![c] = [at |-> "lock", on |-> r, seen |-> "none"]]
        BY DEF AcceptRequest, Idle
  <2> QED BY <2>1, <2>2, Begins
<1>1. TypeOK'
      BY <1>0 DEF IInv, TypeOK, Orders, Paid, AcceptRequest, rows, wallet
<1>2. WorkersKnowTheirItem'
      BY <1>0 DEF IInv, TypeOK, WorkersKnowTheirItem, OrdersHaveRows, AcceptRequest, rows, wallet
<1>7. OrdersHaveRows'
      BY <1>0 DEF IInv, TypeOK, OrdersHaveRows, WorkersKnowTheirItem, Recorded, AcceptRequest, rows, wallet
<1>3. OneHolder'
  <2>1. moved' = moved /\ \A x \in Items : Open(x) => Open(x)'
        BY DEF Open, AcceptRequest, rows, wallet
  <2>2. \A v \in Workers, x \in Items : Holds(v, x)' => Holds(v, x) /\ work'[v].at = work[v].at
        BY <1>0 DEF Holds
  <2> QED BY <2>1, <2>2, NobodyGrips
<1>4. \A x \in Items : Settling(x)' <=> Settling(x)
      BY <1>0, OtherSettles DEF AcceptRequest, rows, wallet
<1>5. MoneyIsExplained'
      BY <1>0, <1>4 DEF IInv, TypeOK, MoneyIsExplained, One, AcceptRequest, rows, wallet
<1>6. OnlyPaidOrdersCredited'
      BY <1>0 DEF IInv, TypeOK, WorkersKnowTheirItem, OrdersHaveRows, MoneyIsExplained, OnlyPaidOrdersCredited, One, AcceptRequest, rows, wallet
<1> QED BY <1>1, <1>2, <1>7, <1>3, <1>5, <1>6 DEF IInv
LEMMA JobReconcilesKeeps == ASSUME IInv, NEW i \in Intents, JobReconciles(i) PROVE IInv'
<1>0. /\ Job \in Workers /\ i \in Items /\ work[Job].at = "idle"
      /\ work' \in [Workers -> [at : Places, on : Items \cup {None}, seen : Orders]]
      /\ \/ work'[Job] = work[Job]
         \/ work'[Job].at = "fetch" /\ work'[Job].on = i
      /\ \A v \in Workers : v # Job => work'[v] = work[v]
  <2>1. CASE UNCHANGED work  BY <2>1 DEF JobReconciles, IInv, TypeOK, Idle
  <2>2. CASE work' = [work EXCEPT ![Job] = [at |-> "fetch", on |-> i, seen |-> "none"]]
    <3>1. "fetch" \in Places /\ Job \in Workers /\ i \in Items /\ TypeOK  BY DEF Places, IInv
    <3>2. work[Job].at = "idle"  BY DEF JobReconciles, Idle
    <3> QED BY <2>2, <3>1, <3>2, Begins
  <2> QED BY <2>1, <2>2 DEF JobReconciles
<1>1. TypeOK'
      BY <1>0 DEF IInv, TypeOK, Orders, Paid, JobReconciles, rows, wallet
<1>2. WorkersKnowTheirItem'
      BY <1>0 DEF IInv, TypeOK, WorkersKnowTheirItem, OrdersHaveRows, JobReconciles, rows, wallet
<1>7. OrdersHaveRows'
      BY <1>0 DEF IInv, TypeOK, OrdersHaveRows, WorkersKnowTheirItem, Recorded, JobReconciles, rows, wallet
<1>3. OneHolder'
  <2>1. moved' = moved /\ \A x \in Items : Open(x) => Open(x)'
        BY DEF Open, JobReconciles, rows, wallet
  <2>2. \A v \in Workers, x \in Items : Holds(v, x)' => Holds(v, x) /\ work'[v].at = work[v].at
        BY <1>0 DEF Holds
  <2> QED BY <2>1, <2>2, NobodyGrips
<1>4. \A x \in Items : Settling(x)' <=> Settling(x)
      BY <1>0, OtherSettles DEF JobReconciles, rows, wallet
<1>5. MoneyIsExplained'
      BY <1>0, <1>4 DEF IInv, TypeOK, MoneyIsExplained, One, JobReconciles, rows, wallet
<1>6. OnlyPaidOrdersCredited'
      BY <1>0 DEF IInv, TypeOK, WorkersKnowTheirItem, OrdersHaveRows, MoneyIsExplained, OnlyPaidOrdersCredited, One, JobReconciles, rows, wallet
<1> QED BY <1>1, <1>2, <1>7, <1>3, <1>5, <1>6 DEF IInv
LEMMA FetchKeeps == ASSUME IInv, NEW w \in Workers, Fetch(w) PROVE IInv'
<1>0. /\ work[w].at = "fetch" /\ work[w].on \in Intents /\ work[w].on \in Items
      /\ work' \in [Workers -> [at : Places, on : Items \cup {None}, seen : Orders]]
      /\ work'[w].on = work[w].on /\ work'[w].seen = order[work[w].on] /\ work'[w].seen # "none"
      /\ work'[w].at = "refuse" => order[work[w].on] = "CREDIT_CARD"
      /\ work'[w].at = "lock" => order[work[w].on] = "PAID"
      /\ work'[w].at \in {"fail", "refuse", "lock", "note"}
      /\ \A v \in Workers : v # w => work'[v] = work[v]
  <2>1. work[w].at = "fetch" /\ work[w].on \in Intents  BY Known DEF Fetch
  <2>2. PICK a \in Orders : a = order[work[w].on]  BY <2>1 DEF IInv, TypeOK
  <2>3. PICK l \in Places : l = AfterAnswer(a) /\ l \in {"fail", "refuse", "lock", "note"}
        BY DEF AfterAnswer, Places
  <2>4. work' = [work EXCEPT ![w].at = l, ![w].seen = a]  BY <2>2, <2>3 DEF Fetch
  <2>5. a # "none"  BY <2>1, <2>2 DEF IInv, WorkersKnowTheirItem
  <2>6. /\ l \in {"refuse", "lock"} => a = IF l = "lock" THEN "PAID" ELSE "CREDIT_CARD"
        BY <2>3 DEF AfterAnswer
  <2>7. TypeOK  BY DEF IInv
  <2>8. /\ work' \in [Workers -> [at : Places, on : Items \cup {None}, seen : Orders]]
        /\ work'[w].at = l /\ work'[w].on = work[w].on /\ work'[w].seen = a
        /\ \A v \in Workers : v # w => work'[v] = work[v]
        BY <2>4, <2>7, Answers
  <2> QED BY <2>1, <2>2, <2>3, <2>5, <2>6, <2>8
<1>1. TypeOK'
      BY <1>0 DEF IInv, TypeOK, Orders, Paid, Fetch, rows, wallet
<1>2. WorkersKnowTheirItem'
  <2>1. order' = order /\ WorkersKnowTheirItem  BY DEF Fetch, IInv
  <2>2. work[w].on # None /\ order[work[w].on] # "none"
        BY <1>0, <2>1, \A v \in Workers : v = w => v \in Workers DEF WorkersKnowTheirItem
  <2>3. \A v \in Workers : v # w => work'[v] = work[v]  BY <1>0
  <2>4. /\ work'[w].on = work[w].on /\ work[w].on \in Intents /\ work'[w].seen # "none"
        /\ work'[w].at \in {"fail", "refuse", "lock", "note"}
        /\ work'[w].at = "refuse" => order'[work[w].on] = "CREDIT_CARD"
        /\ work'[w].at = "lock" => order'[work[w].on] = "PAID"
        BY <1>0, <2>1
  <2> QED BY <2>1, <2>2, <2>3, <2>4 DEF WorkersKnowTheirItem
<1>7. OrdersHaveRows'
      BY <1>0 DEF IInv, TypeOK, OrdersHaveRows, WorkersKnowTheirItem, Recorded, Fetch, rows, wallet
<1>3. OneHolder'
  <2>1. moved' = moved /\ \A x \in Items : Open(x) => Open(x)'
        BY DEF Open, Fetch, rows, wallet
  <2>2. \A v \in Workers, x \in Items : Holds(v, x)' => Holds(v, x) /\ work'[v].at = work[v].at
        BY <1>0 DEF Holds
  <2> QED BY <2>1, <2>2, NobodyGrips
<1>4. \A x \in Items : Settling(x)' <=> Settling(x)
      BY <1>0, OtherSettles DEF Fetch, rows, wallet
<1>5. MoneyIsExplained'
      BY <1>0, <1>4 DEF IInv, TypeOK, MoneyIsExplained, One, Fetch, rows, wallet
<1>6. OnlyPaidOrdersCredited'
      BY <1>0 DEF IInv, TypeOK, WorkersKnowTheirItem, OrdersHaveRows, MoneyIsExplained, OnlyPaidOrdersCredited, One, Fetch, rows, wallet
<1> QED BY <1>1, <1>2, <1>7, <1>3, <1>5, <1>6 DEF IInv
LEMMA RecordKeeps == ASSUME IInv, NEW w \in Workers, Record(w) PROVE IInv'
<1>0. /\ work[w].at \in {"fail", "refuse", "note"}
      /\ work[w].on \in Intents /\ work[w].on \in Items /\ work[w].on \notin Requests
      /\ Recorded(w) \in Orders \cup {"FAILED", "REJECTED"}
      /\ work' \in [Workers -> [at : Places, on : Items \cup {None}, seen : Orders]]
      /\ \/ work[w].at = "refuse" /\ work'[w].at = "cancel" /\ work'[w].on = work[w].on
         \/ work'[w].at = "idle" /\ work'[w].on = None
      /\ \A v \in Workers : v # w => work'[v] = work[v]
  <2>1. /\ work[w].at \in {"fail", "refuse", "note"} /\ work[w].on \in Intents
        /\ Recorded(w) \in Orders \cup {"FAILED", "REJECTED"}
        BY Known DEF Record, Recorded
  <2>2. CASE work[w].at = "refuse"  BY <2>1, <2>2, Goes DEF Record, IInv, Places
  <2>3. CASE work[w].at # "refuse"  BY <2>1, <2>3, Leaves DEF Record, IInv
  <2> QED BY <2>1, <2>2, <2>3
<1>1. TypeOK'
      BY <1>0 DEF IInv, TypeOK, Orders, Paid, Record, rows, wallet
<1>2. WorkersKnowTheirItem'
      BY <1>0 DEF IInv, TypeOK, WorkersKnowTheirItem, OrdersHaveRows, Record, rows, wallet
<1>7. OrdersHaveRows'
      BY <1>0 DEF IInv, TypeOK, OrdersHaveRows, WorkersKnowTheirItem, Recorded, Record, rows, wallet
<1>3. OneHolder'
      BY <1>0 DEF IInv, TypeOK, WorkersKnowTheirItem, OneHolder, Holds, Free, Open, Record, rows, wallet
<1>4. \A x \in Items : Settling(x)' <=> Settling(x)
      BY <1>0, OtherSettles DEF Record, rows, wallet
<1>5. MoneyIsExplained'
      BY <1>0, <1>4 DEF IInv, TypeOK, MoneyIsExplained, One, Record, rows, wallet
<1>6. OnlyPaidOrdersCredited'
      BY <1>0 DEF IInv, TypeOK, WorkersKnowTheirItem, OrdersHaveRows, MoneyIsExplained, OnlyPaidOrdersCredited, One, Record, rows, wallet
<1> QED BY <1>1, <1>2, <1>7, <1>3, <1>5, <1>6 DEF IInv
LEMMA CancelOrderKeeps == ASSUME IInv, NEW w \in Workers, CancelOrder(w) PROVE IInv'
<1>0. /\ work[w].at = "cancel" /\ work[w].on \in Intents /\ work[w].on \in Items
      /\ order[work[w].on] \in {"CREDIT_CARD", "CANCELLED"}
      /\ work' \in [Workers -> [at : Places, on : Items \cup {None}, seen : Orders]]
      /\ work'[w].at = "idle" /\ work'[w].on = None
      /\ \A v \in Workers : v # w => work'[v] = work[v]
      BY Known, Leaves DEF CancelOrder, IInv, WorkersKnowTheirItem
<1>1. TypeOK'
      BY <1>0 DEF IInv, TypeOK, Orders, Paid, CancelOrder, rows, wallet
<1>2. WorkersKnowTheirItem'
      BY <1>0 DEF IInv, TypeOK, WorkersKnowTheirItem, OrdersHaveRows, CancelOrder, rows, wallet
<1>7. OrdersHaveRows'
      BY <1>0 DEF IInv, TypeOK, OrdersHaveRows, WorkersKnowTheirItem, Recorded, CancelOrder, rows, wallet
<1>3. OneHolder'
  <2>1. moved' = moved /\ \A x \in Items : Open(x) => Open(x)'
        BY DEF Open, CancelOrder, rows, wallet
  <2>2. \A v \in Workers, x \in Items : Holds(v, x)' => Holds(v, x) /\ work'[v].at = work[v].at
        BY <1>0 DEF Holds
  <2> QED BY <2>1, <2>2, NobodyGrips
<1>4. \A x \in Items : Settling(x)' <=> Settling(x)
      BY <1>0, OtherSettles DEF CancelOrder, rows, wallet
<1>5. MoneyIsExplained'
      BY <1>0, <1>4 DEF IInv, TypeOK, MoneyIsExplained, One, CancelOrder, rows, wallet
<1>6. OnlyPaidOrdersCredited'
      BY <1>0 DEF IInv, TypeOK, WorkersKnowTheirItem, OrdersHaveRows, MoneyIsExplained, OnlyPaidOrdersCredited, One, CancelOrder, rows, wallet
<1> QED BY <1>1, <1>2, <1>7, <1>3, <1>5, <1>6 DEF IInv
LEMMA FailsKeeps == ASSUME IInv, NEW w \in Workers, Fails(w) PROVE IInv'
<1>0. /\ work[w].at # "settle"
      /\ work' \in [Workers -> [at : Places, on : Items \cup {None}, seen : Orders]]
      /\ work'[w].at = "idle" /\ work'[w].on = None
      /\ \A v \in Workers : v # w => work'[v] = work[v]
      BY Leaves DEF Fails, IInv
<1>1. TypeOK'
      BY <1>0 DEF IInv, TypeOK, Orders, Paid, Fails, rows, wallet
<1>2. WorkersKnowTheirItem'
      BY <1>0 DEF IInv, TypeOK, WorkersKnowTheirItem, OrdersHaveRows, Fails, rows, wallet
<1>7. OrdersHaveRows'
      BY <1>0 DEF IInv, TypeOK, OrdersHaveRows, WorkersKnowTheirItem, Recorded, Fails, rows, wallet
<1>3. OneHolder'
      BY <1>0 DEF IInv, TypeOK, WorkersKnowTheirItem, OneHolder, Holds, Free, Open, Fails, rows, wallet
<1>4. \A x \in Items : Settling(x)' <=> Settling(x)
      BY <1>0, OtherSettles DEF Fails, rows, wallet
<1>5. MoneyIsExplained'
      BY <1>0, <1>4 DEF IInv, TypeOK, MoneyIsExplained, One, Fails, rows, wallet
<1>6. OnlyPaidOrdersCredited'
      BY <1>0 DEF IInv, TypeOK, WorkersKnowTheirItem, OrdersHaveRows, MoneyIsExplained, OnlyPaidOrdersCredited, One, Fails, rows, wallet
<1> QED BY <1>1, <1>2, <1>7, <1>3, <1>5, <1>6 DEF IInv
LEMMA LockKeeps == ASSUME IInv, NEW w \in Workers, Lock(w) PROVE IInv'
<1>0. /\ work[w].at = "lock" /\ work[w].on \in Items
      /\ work' \in [Workers -> [at : Places, on : Items \cup {None}, seen : Orders]]
      /\ \/ Open(work[w].on) /\ work'[w].at = "move" /\ work'[w].on = work[w].on
         \/ work'[w].at = "idle" /\ work'[w].on = None
      /\ \A v \in Workers : v # w => work'[v] = work[v]
  <2>1. work[w].at = "lock" /\ work[w].on \in Items  BY Known DEF Lock
  <2>2. CASE Open(work[w].on)   BY <2>1, <2>2, Goes DEF Lock, IInv, Places
  <2>3. CASE ~Open(work[w].on)  BY <2>1, <2>3, Leaves DEF Lock, IInv
  <2> QED BY <2>1, <2>2, <2>3
<1>1. TypeOK'
      BY <1>0 DEF IInv, TypeOK, Orders, Paid, Lock, rows, wallet
<1>2. WorkersKnowTheirItem'
      BY <1>0 DEF IInv, TypeOK, WorkersKnowTheirItem, OrdersHaveRows, Lock, rows, wallet
<1>7. OrdersHaveRows'
      BY <1>0 DEF IInv, TypeOK, OrdersHaveRows, WorkersKnowTheirItem, Recorded, Lock, rows, wallet
<1>3. OneHolder'
      BY <1>0 DEF IInv, TypeOK, WorkersKnowTheirItem, OneHolder, Holds, Free, Open, Lock, rows, wallet
<1>4. \A x \in Items : Settling(x)' <=> Settling(x)
      BY <1>0, OtherSettles DEF Lock, rows, wallet
<1>5. MoneyIsExplained'
      BY <1>0, <1>4 DEF IInv, TypeOK, MoneyIsExplained, One, Lock, rows, wallet
<1>6. OnlyPaidOrdersCredited'
      BY <1>0 DEF IInv, TypeOK, WorkersKnowTheirItem, OrdersHaveRows, MoneyIsExplained, OnlyPaidOrdersCredited, One, Lock, rows, wallet
<1> QED BY <1>1, <1>2, <1>7, <1>3, <1>5, <1>6 DEF IInv
LEMMA MoveKeeps == ASSUME IInv, NEW w \in Workers, Move(w) PROVE IInv'
<1>x. PICK x : x = work[w].on  OBVIOUS
<1>0. /\ work[w].at = "move" /\ x \in Items
      /\ work' \in [Workers -> [at : Places, on : Items \cup {None}, seen : Orders]]
      /\ work'[w].at = "settle" /\ work'[w].on = x
      /\ \A v \in Workers : v # w => work'[v] = work[v]
      BY <1>x, Known, Goes DEF Move, IInv, Places
<1>a. moved' \in [Items -> Nat] /\ moved'[x] = Movements(x)
      /\ \A y \in Items : y # x => moved'[y] = moved[y]
      BY <1>0, <1>x DEF Move, Movements, IInv, TypeOK
<1>1. TypeOK'
      BY <1>0, <1>x, <1>a DEF IInv, TypeOK, Move, rows, wallet
<1>2. WorkersKnowTheirItem'
      BY <1>0, <1>x DEF IInv, TypeOK, WorkersKnowTheirItem, OrdersHaveRows, Move, rows, wallet
<1>7. OrdersHaveRows'
      BY <1>0, <1>x DEF IInv, TypeOK, OrdersHaveRows, WorkersKnowTheirItem, Recorded, Move, rows, wallet
<1>3. OneHolder'
      BY <1>0, <1>x, <1>a DEF IInv, TypeOK, WorkersKnowTheirItem, OneHolder, Holds, Open, Movements, Move, rows, wallet
<1>4. Settling(x)' /\ ~Settling(x) /\ \A y \in Items : y # x => (Settling(y)' <=> Settling(y))
  <2>1. \A v \in Workers : work[v].on = x /\ work[v].at = "settle" => v = w
        BY <1>0, <1>x DEF IInv, OneHolder, Holds
  <2> QED BY <1>0, <2>1 DEF Settling
<1>5. MoneyIsExplained'
  <2>1. ASSUME NEW i \in Intents
        PROVE  moved'[i] = torn'[i] + One(i \in credited') + One(Settling(i)')
    <3>1. i \in Items /\ i \notin Requests /\ moved[i] \in Nat /\ torn[i] \in Nat  BY DEF IInv, TypeOK
    <3>2. moved[i] = torn[i] + One(i \in credited) + One(Settling(i))  BY DEF IInv, MoneyIsExplained
    <3>3. torn' = torn /\ credited' = credited  BY DEF Move, rows
    <3>4. CASE i = x
      <4>1. moved'[i] = moved[i] + 1  BY <1>a, <3>1, <3>4 DEF Movements
      <4>2. One(Settling(i)) = 0 /\ One(Settling(i)') = 1  BY <1>4, <3>4 DEF One
      <4> QED BY <3>1, <3>2, <3>3, <4>1, <4>2 DEF One
    <3>5. CASE i # x
      <4>1. moved'[i] = moved[i] /\ (Settling(i)' <=> Settling(i))  BY <1>a, <1>4, <3>1, <3>5
      <4> QED BY <3>2, <3>3, <4>1 DEF One
    <3> QED BY <3>4, <3>5
  <2>2. ASSUME NEW r \in Requests
        PROVE  /\ moved'[r] <= 1 /\ (status'[r] = "ACCEPTED" => moved'[r] = 1)
               /\ moved'[r] = 1 /\ torn'[r] = 0 => status'[r] = "ACCEPTED" \/ Settling(r)'
    <3>1. r \in Items  OBVIOUS
    <3> QED BY <1>a, <1>4, <1>x, <3>1 DEF Move, Movements, rows, IInv, MoneyIsExplained
  <2> QED BY <2>1, <2>2 DEF MoneyIsExplained
<1>6. OnlyPaidOrdersCredited'
      BY <1>0, <1>x, <1>a DEF IInv, TypeOK, WorkersKnowTheirItem, OrdersHaveRows, MoneyIsExplained, OnlyPaidOrdersCredited, One, Move, rows, wallet
<1> QED BY <1>1, <1>2, <1>7, <1>3, <1>5, <1>6 DEF IInv
LEMMA SettleKeeps == ASSUME IInv, NEW w \in Workers, Settle(w) PROVE IInv'
<1>x. PICK x : x = work[w].on  OBVIOUS
<1>0. /\ work[w].at = "settle" /\ x \in Items
      /\ x \in Intents => x \notin credited /\ x \notin Requests
      /\ x \in Requests => moved[x] = 1 /\ x \notin Intents
      /\ work' \in [Workers -> [at : Places, on : Items \cup {None}, seen : Orders]]
      /\ work'[w].at = "idle" /\ work'[w].on = None
      /\ \A v \in Workers : v # w => work'[v] = work[v]
  <2>1. work[w].at = "settle" /\ x \in Items  BY <1>x, Known DEF Settle
  <2>2. Open(x) /\ (x \in Requests => moved[x] = 1)  BY <1>x, <2>1 DEF IInv, OneHolder, Holds
  <2> QED BY <1>x, <2>1, <2>2, Leaves DEF Settle, IInv, Open
<1>1. TypeOK'
      BY <1>0, <1>x DEF IInv, TypeOK, Orders, Paid, Settle, rows, wallet
<1>2. WorkersKnowTheirItem'
      BY <1>0, <1>x DEF IInv, TypeOK, WorkersKnowTheirItem, OrdersHaveRows, Settle, rows, wallet
<1>7. OrdersHaveRows'
      BY <1>0, <1>x DEF IInv, TypeOK, OrdersHaveRows, WorkersKnowTheirItem, Recorded, Settle, rows, wallet
<1>3. OneHolder'
      BY <1>0, <1>x DEF IInv, TypeOK, WorkersKnowTheirItem, OneHolder, Holds, Free, Open, Settle, rows, wallet
<1>4. ~Settling(x)' /\ Settling(x) /\ \A y \in Items : y # x => (Settling(y)' <=> Settling(y))
      BY <1>0, <1>x, StopsSettling
<1>5. MoneyIsExplained'
  <2>1. ASSUME NEW i \in Intents
        PROVE  moved'[i] = torn'[i] + One(i \in credited') + One(Settling(i)')
    <3>1. i \in Items /\ i \notin Requests /\ moved[i] \in Nat /\ torn[i] \in Nat  BY DEF IInv, TypeOK
    <3>2. moved[i] = torn[i] + One(i \in credited) + One(Settling(i))  BY DEF IInv, MoneyIsExplained
    <3> QED BY <1>0, <1>4, <1>x, <3>1, <3>2 DEF Settle, One, wallet
  <2>2. ASSUME NEW r \in Requests
        PROVE  /\ moved'[r] <= 1 /\ (status'[r] = "ACCEPTED" => moved'[r] = 1)
               /\ moved'[r] = 1 /\ torn'[r] = 0 => status'[r] = "ACCEPTED" \/ Settling(r)'
    <3>1. r \in Items /\ r \notin Intents  OBVIOUS
    <3> QED BY <1>0, <1>4, <1>x, <3>1 DEF Settle, wallet, IInv, TypeOK, MoneyIsExplained
  <2> QED BY <2>1, <2>2 DEF MoneyIsExplained
<1>6. OnlyPaidOrdersCredited'
      BY <1>0, <1>x DEF IInv, TypeOK, WorkersKnowTheirItem, OrdersHaveRows, MoneyIsExplained, OnlyPaidOrdersCredited, One, Settle, rows, wallet
<1> QED BY <1>1, <1>2, <1>7, <1>3, <1>5, <1>6 DEF IInv
LEMMA TearsKeeps == ASSUME IInv, NEW w \in Workers, Tears(w) PROVE IInv'
<1>x. PICK x : x = work[w].on  OBVIOUS
<1>0. /\ work[w].at = "settle" /\ x \in Items
      /\ work' \in [Workers -> [at : Places, on : Items \cup {None}, seen : Orders]]
      /\ work'[w].at = "idle" /\ work'[w].on = None
      /\ \A v \in Workers : v # w => work'[v] = work[v]
      /\ torn' \in [Items -> Nat] /\ torn'[x] = torn[x] + 1
      /\ \A y \in Items : y # x => torn'[y] = torn[y]
  <2>1. work[w].at = "settle" /\ x \in Items  BY <1>x, Known DEF Tears
  <2> QED BY <1>x, <2>1, Leaves DEF Tears, IInv, TypeOK
<1>1. TypeOK'
      BY <1>0, <1>x DEF IInv, TypeOK, Orders, Paid, Tears, rows, wallet
<1>2. WorkersKnowTheirItem'
      BY <1>0, <1>x DEF IInv, TypeOK, WorkersKnowTheirItem, OrdersHaveRows, Tears, rows, wallet
<1>7. OrdersHaveRows'
      BY <1>0, <1>x DEF IInv, TypeOK, OrdersHaveRows, WorkersKnowTheirItem, Recorded, Tears, rows, wallet
<1>3. OneHolder'
      BY <1>0, <1>x DEF IInv, TypeOK, WorkersKnowTheirItem, OneHolder, Holds, Free, Open, Tears, rows, wallet
<1>4. ~Settling(x)' /\ Settling(x) /\ \A y \in Items : y # x => (Settling(y)' <=> Settling(y))
      BY <1>0, <1>x, StopsSettling
<1>5. MoneyIsExplained'
  <2>1. ASSUME NEW i \in Intents
        PROVE  moved'[i] = torn'[i] + One(i \in credited') + One(Settling(i)')
    <3>1. i \in Items /\ moved[i] \in Nat /\ torn[i] \in Nat  BY DEF IInv, TypeOK
    <3>2. moved[i] = torn[i] + One(i \in credited) + One(Settling(i))  BY DEF IInv, MoneyIsExplained
    <3> QED BY <1>0, <1>4, <1>x, <3>1, <3>2 DEF Tears, rows, One
  <2>2. ASSUME NEW r \in Requests
        PROVE  /\ moved'[r] <= 1 /\ (status'[r] = "ACCEPTED" => moved'[r] = 1)
               /\ moved'[r] = 1 /\ torn'[r] = 0 => status'[r] = "ACCEPTED" \/ Settling(r)'
    <3>1. r \in Items /\ torn[r] \in Nat  BY DEF IInv, TypeOK
    <3> QED BY <1>0, <1>4, <1>x, <3>1 DEF Tears, rows, IInv, MoneyIsExplained
  <2> QED BY <2>1, <2>2 DEF MoneyIsExplained
<1>6. OnlyPaidOrdersCredited'
      BY <1>0, <1>x DEF IInv, TypeOK, WorkersKnowTheirItem, OrdersHaveRows, MoneyIsExplained, OnlyPaidOrdersCredited, One, Tears, rows, wallet
<1> QED BY <1>1, <1>2, <1>7, <1>3, <1>5, <1>6 DEF IInv
LEMMA CrashKeeps == ASSUME IInv, Crash PROVE IInv'
<1>0. /\ \A v \in Workers : work'[v].at = "idle" /\ work'[v].on = None
      /\ work' \in [Workers -> [at : Places, on : Items \cup {None}, seen : Orders]]
      /\ torn' \in [Items -> Nat]
      /\ \A x \in Items : torn'[x] = torn[x] + One(Settling(x))
  <2>1. \A v \in Workers : work'[v] = Idle  BY DEF Crash
  <2>2. work' \in [Workers -> [at : Places, on : Items \cup {None}, seen : Orders]]
        BY IdleTyped DEF Crash
  <2>3. torn \in [Items -> Nat]  BY DEF IInv, TypeOK
  <2>4. \A x \in Items : torn[x] + 1 \in Nat  BY <2>3
  <2>5. torn' \in [Items -> Nat]  BY <2>3, <2>4 DEF Crash
  <2>6. \A x \in Items : torn'[x] = torn[x] + One(Settling(x))  BY <2>3 DEF Crash, One
  <2> QED BY <2>1, <2>2, <2>5, <2>6 DEF Idle
<1>1. TypeOK'
      BY <1>0 DEF IInv, TypeOK, Orders, Paid, Crash, rows, wallet
<1>2. WorkersKnowTheirItem'
      BY <1>0 DEF IInv, TypeOK, WorkersKnowTheirItem, OrdersHaveRows, Crash, rows, wallet
<1>7. OrdersHaveRows'
      BY <1>0 DEF IInv, TypeOK, OrdersHaveRows, WorkersKnowTheirItem, Recorded, Crash, rows, wallet
<1>3. OneHolder'
      BY <1>0 DEF IInv, TypeOK, WorkersKnowTheirItem, OneHolder, Holds, Free, Open, Crash, rows, wallet
<1>4. \A x \in Items : ~Settling(x)'
      BY <1>0 DEF Settling
<1>5. MoneyIsExplained'
  <2>1. ASSUME NEW i \in Intents
        PROVE  moved'[i] = torn'[i] + One(i \in credited') + One(Settling(i)')
    <3>1. i \in Items /\ moved[i] \in Nat /\ torn[i] \in Nat  BY DEF IInv, TypeOK
    <3>2. moved[i] = torn[i] + One(i \in credited) + One(Settling(i))  BY DEF IInv, MoneyIsExplained
    <3> QED BY <1>0, <1>4, <3>1, <3>2 DEF Crash, rows, One
  <2>2. ASSUME NEW r \in Requests
        PROVE  /\ moved'[r] <= 1 /\ (status'[r] = "ACCEPTED" => moved'[r] = 1)
               /\ moved'[r] = 1 /\ torn'[r] = 0 => status'[r] = "ACCEPTED" \/ Settling(r)'
    <3>1. r \in Items /\ torn[r] \in Nat  BY DEF IInv, TypeOK
    <3>2. torn'[r] = 0 => torn[r] = 0 /\ ~Settling(r)  BY <1>0, <3>1 DEF One
    <3> QED BY <1>0, <1>4, <3>1, <3>2 DEF Crash, rows, IInv, MoneyIsExplained
  <2> QED BY <2>1, <2>2 DEF MoneyIsExplained
<1>6. OnlyPaidOrdersCredited'
      BY <1>0 DEF IInv, TypeOK, WorkersKnowTheirItem, OrdersHaveRows, MoneyIsExplained, OnlyPaidOrdersCredited, One, Crash, rows, wallet
<1> QED BY <1>1, <1>2, <1>7, <1>3, <1>5, <1>6 DEF IInv
LEMMA InitHolds == Init => IInv
<1> SUFFICES ASSUME Init PROVE IInv  OBVIOUS
<1>0. \A w \in Workers : work[w].at = "idle" /\ work[w].on = None  BY DEF Init, Idle
<1>1. TypeOK  BY IdleTyped DEF Init, TypeOK, Orders
<1>2. WorkersKnowTheirItem /\ OneHolder
      BY <1>0 DEF WorkersKnowTheirItem, OneHolder, Holds
<1>3. \A x \in Items : ~Settling(x)  BY <1>0 DEF Settling
<1>5. OrdersHaveRows  BY DEF Init, OrdersHaveRows
<1>4. MoneyIsExplained /\ OnlyPaidOrdersCredited
      BY <1>3 DEF Init, MoneyIsExplained, OnlyPaidOrdersCredited, One
<1> QED BY <1>1, <1>2, <1>4, <1>5 DEF IInv

LEMMA StutterKeeps == ASSUME IInv, UNCHANGED vars PROVE IInv'
<1>1. \A x \in Items : Settling(x)' <=> Settling(x)  BY DEF vars, Settling
<1>2. TypeOK' /\ OrdersHaveRows' /\ WorkersKnowTheirItem' /\ OneHolder' /\ OnlyPaidOrdersCredited'
      BY DEF vars, rows, wallet, IInv, TypeOK, OrdersHaveRows, WorkersKnowTheirItem, OneHolder,
             Holds, Open, OnlyPaidOrdersCredited
<1>3. MoneyIsExplained'
      BY <1>1 DEF vars, rows, wallet, IInv, MoneyIsExplained, One
<1> QED BY <1>2, <1>3 DEF IInv

LEMMA NextKeeps == ASSUME IInv, [Next]_vars PROVE IInv'
<1>1. CASE \E i \in Intents : CreateTopupIntent(i) \/ PlayerPays(i) \/ OrderLapses(i) \/ Ages(i)
      BY <1>1, CreateTopupIntentKeeps, PlayerPaysKeeps, OrderLapsesKeeps, AgesKeeps
<1>2. CASE \E r \in Requests : CreateRequest(r) \/ RejectRequest(r)
      BY <1>2, CreateRequestKeeps, RejectRequestKeeps
<1>3. CASE \E c \in Calls : \/ \E i \in Intents : Reconcile(c, i)
                           \/ \E r \in Requests : AcceptRequest(c, r)
      BY <1>3, ReconcileKeeps, AcceptRequestKeeps
<1>4. CASE JobSelects \/ \E i \in Intents : JobReconciles(i)
      BY <1>4, JobSelectsKeeps, JobReconcilesKeeps
<1>5. CASE \E w \in Workers : Steps(w) \/ Tears(w) \/ Fails(w)
      BY <1>5, FetchKeeps, RecordKeeps, CancelOrderKeeps, LockKeeps, MoveKeeps, SettleKeeps,
         TearsKeeps, FailsKeeps DEF Steps
<1>6. CASE Crash  BY <1>6, CrashKeeps
<1>7. CASE UNCHANGED vars  BY <1>7, StutterKeeps
<1> QED BY <1>1, <1>2, <1>3, <1>4, <1>5, <1>6, <1>7 DEF Next

(* Rows, workers and wallet agree in every state, for any number of        *)
(* intents, requests, calls and torn calls.                                *)
THEOREM Invariance == Spec => []IInv
  BY InitHolds, NextKeeps, PTL DEF Spec

(* An intent is credited once and once more for each torn call; a request  *)
(* moves its money at most once.                                           *)
THEOREM NoMovementUnexplained == Spec => []MoneyIsExplained
<1>1. IInv => MoneyIsExplained  BY DEF IInv
<1> QED BY <1>1, Invariance, PTL

(* Nothing is credited for an order that is not paid by debit card.        *)
THEOREM OnlyDebitCardsCredited == Spec => []OnlyPaidOrdersCredited
<1>1. IInv => OnlyPaidOrdersCredited  BY DEF IInv
<1> QED BY <1>1, Invariance, PTL

(* What the code keeps of the promise of docs/architecture/payments-flows  *)
(* that the row is the barrier: an intent is credited once more only after *)
(* a call whose wallet call went through and whose UPDATE did not.         *)
THEOREM CreditedAgainOnlyAfterATear ==
  Spec => [](\A i \in Intents : moved[i] <= torn[i] + 1)
<1>1. ASSUME IInv, NEW i \in Intents PROVE moved[i] <= torn[i] + 1
  <2>1. torn[i] \in Nat /\ moved[i] = torn[i] + One(i \in credited) + One(Settling(i))
        BY <1>1 DEF IInv, TypeOK, MoneyIsExplained
  <2>2. Settling(i) => i \notin credited  BY <1>1 DEF Settling, IInv, OneHolder, Holds, Open
  <2> QED BY <2>1, <2>2 DEF One
<1>2. IInv => \A i \in Intents : moved[i] <= torn[i] + 1  BY <1>1
<1> QED BY <1>2, Invariance, PTL

(* What is settled stays so: a credited intent and an accepted request are *)
(* never opened again, and the wallet moves nothing for them any more.     *)
SettledStays ==
  /\ \A i \in credited : i \in credited' /\ moved'[i] = moved[i]
  /\ \A r \in Requests : status[r] = "ACCEPTED" => status'[r] = "ACCEPTED" /\ moved'[r] = moved[r]

LEMMA StepSettles == ASSUME IInv, [Next]_vars PROVE SettledStays
<1>1. CASE UNCHANGED <<rows, moved>>  BY <1>1 DEF rows, SettledStays
<1>2. ASSUME NEW w \in Workers, Move(w) PROVE SettledStays
  <2>1. work[w].on \in Items /\ Open(work[w].on)
        BY <1>2, Known DEF Move, IInv, OneHolder, Holds
  <2> QED BY <1>2, <2>1 DEF Move, rows, Open, SettledStays, IInv, TypeOK
<1>3. ASSUME NEW w \in Workers, Settle(w) PROVE SettledStays
  <2>1. work[w].on \in Items /\ moved' = moved  BY <1>3, Known DEF Settle, wallet
  <2> QED BY <1>3, <2>1 DEF Settle, SettledStays, IInv, TypeOK
<1>4. ASSUME NEW w \in Workers, Record(w) PROVE SettledStays
  <2>1. work[w].on \in Intents /\ moved' = moved  BY <1>4, Known DEF Record, wallet
  <2> QED BY <1>4, <2>1 DEF Record, SettledStays, IInv, TypeOK
<1>5. ASSUME NEW i \in Intents, CreateTopupIntent(i) PROVE SettledStays
      BY <1>5 DEF CreateTopupIntent, wallet, SettledStays, IInv, TypeOK
<1>6. ASSUME NEW r \in Requests, CreateRequest(r) \/ RejectRequest(r) PROVE SettledStays
      BY <1>6 DEF CreateRequest, RejectRequest, wallet, SettledStays, IInv, TypeOK
<1>7. \/ UNCHANGED <<rows, moved>>
      \/ \E w \in Workers : Move(w) \/ Settle(w) \/ Record(w)
      \/ \E i \in Intents : CreateTopupIntent(i)
      \/ \E r \in Requests : CreateRequest(r) \/ RejectRequest(r)
      BY DEF Next, Steps, vars, rows, wallet, PlayerPays, OrderLapses, Ages, Reconcile,
             AcceptRequest, JobSelects, JobReconciles, Fetch, CancelOrder, Lock, Tears, Fails, Crash
<1> QED BY <1>1, <1>2, <1>3, <1>4, <1>5, <1>6, <1>7

(* No callback, job or retry opens a settled item again or pays it again,  *)
(* whatever calls are under way and wherever the process stops.            *)
THEOREM SettledForGood == Spec => [][SettledStays]_vars
<1>1. IInv /\ [Next]_vars => [SettledStays]_vars  BY StepSettles
<1> QED BY <1>1, Invariance, PTL DEF Spec
=============================================================================
