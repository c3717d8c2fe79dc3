----------------------- MODULE ComplianceOutbox_proofs -----------------------
(***************************************************************************)
(* The wallet outbox: no event is lost and none is given up early, for     *)
(* every number of rows and workers, every batch size and every schedule   *)
(* of claims that overlap, failing statements and crashes.                 *)
(*                                                                         *)
(* The compliance outbox, which extends it: for every number of purchases, *)
(* callers and backend processes, a row that left the queue as processed   *)
(* is in the compliance ledger, and, as long as no two purchases share an  *)
(* outbox key, no purchase whose call returned is missing from both.       *)
(***************************************************************************)
EXTENDS ComplianceOutbox, FiniteSetTheorems, TLAPS

LEMMA InsertedCount == Cardinality(Inserted) \in Nat
<1>1. Inserted \subseteq Rows
  BY DEF Inserted
<1> QED
  BY <1>1, RowsFinite, FS_Subset, FS_CardinalityType

LEMMA InHandIs ==
  ASSUME NEW w \in Workers, NEW e \in Rows
  PROVE  e \in InHand(w) <=> claimed[w][e] > 0
BY DEF InHand

-----------------------------------------------------------------------------
(* Types.                                                                  *)

LEMMA EnqueueTypes ==
  ASSUME OutboxTypeOK, NEW e \in Rows, Enqueue(e) PROVE OutboxTypeOK'
<1>1. [status |-> "pending", attempts |-> 0, at |-> Cardinality(Inserted) + 1] \in Row
  BY InsertedCount DEF Row
<1>2. row' \in [Rows -> Row]
  BY <1>1 DEF Enqueue, OutboxTypeOK
<1> QED
  BY <1>2 DEF Enqueue, OutboxTypeOK

LEMMA ClaimTypes ==
  ASSUME OutboxTypeOK, NEW w \in Workers, Claim(w) PROVE OutboxTypeOK'
<1>1. PICK locked \in SUBSET Busy(w) :
        LET S == Oldest({e \in Rows \ locked : Claimable(e)}) IN
          /\ row' = [e \in Rows |-> IF e \in S THEN [row[e] EXCEPT !.attempts = @ + 1] ELSE row[e]]
          /\ claimed' = [claimed EXCEPT ![w] = [e \in Rows |-> IF e \in S THEN row[e].attempts + 1 ELSE 0]]
          /\ running' = [running EXCEPT ![w] = TRUE]
  BY DEF Claim
<1>2. row' \in [Rows -> Row]
  <2>1. ASSUME NEW e \in Rows PROVE row[e] \in Row /\ [row[e] EXCEPT !.attempts = @ + 1] \in Row
    BY DEF OutboxTypeOK, Row
  <2> QED
    BY <1>1, <2>1
<1>3. claimed' \in [Workers -> [Rows -> Nat]]
  <2>1. ASSUME NEW e \in Rows PROVE row[e].attempts + 1 \in Nat
    BY DEF OutboxTypeOK, Row
  <2> QED
    BY <1>1, <2>1 DEF OutboxTypeOK
<1>4. running' \in [Workers -> BOOLEAN]
  BY <1>1 DEF OutboxTypeOK
<1> QED
  BY <1>2, <1>3, <1>4 DEF Claim, OutboxTypeOK

LEMMA DispatchTypes ==
  ASSUME OutboxTypeOK, NEW w \in Workers, NEW e \in Rows,
         DispatchSucceeds(w, e) \/ DispatchFails(w, e) \/ MarkFailedFails(w, e)
  PROVE  OutboxTypeOK'
<1>1. claimed' \in [Workers -> [Rows -> Nat]]
  <2>1. claimed' = [claimed EXCEPT ![w][e] = 0]
    BY DEF DispatchSucceeds, DispatchFails, MarkFailedFails, Dispatched
  <2> QED
    BY <2>1 DEF OutboxTypeOK
<1>2. row' \in [Rows -> Row]
  <2>1. row \in [Rows -> Row]
    BY DEF OutboxTypeOK
  <2>2. CASE DispatchSucceeds(w, e)
    BY <2>1, <2>2 DEF DispatchSucceeds, Row
  <2>3. CASE DispatchFails(w, e)
    BY <2>1, <2>3 DEF DispatchFails, Row
  <2>4. CASE MarkFailedFails(w, e)
    BY <2>1, <2>4 DEF MarkFailedFails, Row
  <2> QED
    BY <2>2, <2>3, <2>4
<1>3. done' \in [Workers -> SUBSET Rows] /\ delivered' \subseteq Rows
  BY DEF DispatchSucceeds, DispatchFails, MarkFailedFails, Succeeded, OutboxTypeOK
<1>4. errors' \in 0..MaxErrors /\ crashes' \in 0..MaxCrashes
  BY BudgetsNatural DEF DispatchSucceeds, DispatchFails, MarkFailedFails, OutboxTypeOK
<1>5. running' \in [Workers -> BOOLEAN]
  BY DEF DispatchSucceeds, DispatchFails, MarkFailedFails, OutboxTypeOK
<1> QED
  BY <1>1, <1>2, <1>3, <1>4, <1>5 DEF OutboxTypeOK

LEMMA EndTickTypes ==
  ASSUME OutboxTypeOK, NEW w \in Workers, MarkProcessed(w) \/ MarkProcessedFails(w)
  PROVE  OutboxTypeOK'
<1>1. EndTick(w)
  BY DEF MarkProcessed, MarkProcessedFails
<1>2. row' \in [Rows -> Row]
  <2>1. ASSUME NEW e \in Rows
        PROVE row[e] \in Row /\ [row[e] EXCEPT !.status = "processed"] \in Row
    BY DEF OutboxTypeOK, Row
  <2> QED
    BY <2>1 DEF MarkProcessed, MarkProcessedFails, OutboxTypeOK
<1>3. errors' \in 0..MaxErrors /\ crashes' \in 0..MaxCrashes
  BY BudgetsNatural DEF MarkProcessed, MarkProcessedFails, EndTick, OutboxTypeOK
<1>4. running' \in [Workers -> BOOLEAN]
  BY <1>1 DEF EndTick, OutboxTypeOK
<1>5. /\ claimed' \in [Workers -> [Rows -> Nat]]
      /\ done' \in [Workers -> SUBSET Rows]
      /\ delivered' \subseteq Rows
  BY <1>1 DEF EndTick, OutboxTypeOK
<1> QED
  BY <1>2, <1>3, <1>4, <1>5 DEF OutboxTypeOK

LEMMA CrashTypes ==
  ASSUME OutboxTypeOK, NEW w \in Workers, Crash(w) PROVE OutboxTypeOK'
<1>1. running' \in [Workers -> BOOLEAN]
  BY DEF Crash, OutboxTypeOK
<1>2. crashes' \in 0..MaxCrashes /\ errors' \in 0..MaxErrors
  BY BudgetsNatural DEF Crash, OutboxTypeOK
<1>3. claimed' \in [Workers -> [Rows -> Nat]] /\ done' \in [Workers -> SUBSET Rows]
  BY DEF Crash, OutboxTypeOK
<1> QED
  BY <1>1, <1>2, <1>3 DEF Crash, OutboxTypeOK

LEMMA OutboxTypes == OutboxTypeOK /\ [Next]_outboxVars => OutboxTypeOK'
<1> SUFFICES ASSUME OutboxTypeOK, [Next]_outboxVars PROVE OutboxTypeOK'
  OBVIOUS
<1>1. CASE UNCHANGED outboxVars
  BY <1>1 DEF outboxVars, OutboxTypeOK
<1>2. ASSUME NEW w \in Workers, Tick(w) PROVE OutboxTypeOK'
  BY <1>2, ClaimTypes, DispatchTypes, EndTickTypes DEF Tick
<1> QED
  BY <1>1, <1>2, EnqueueTypes, CrashTypes DEF Next

-----------------------------------------------------------------------------
(* The invariant, one lemma per kind of step.                              *)

DoneDelivered == \A w \in Workers : done[w] \subseteq delivered

LEMMA InitHolds == OutboxInit => IInv
<1> SUFFICES ASSUME OutboxInit PROVE IInv
  OBVIOUS
<1>1. OutboxTypeOK
  <2>1. running \in [Workers -> BOOLEAN]
    BY DEF OutboxInit
  <2>2. row \in [Rows -> Row] /\ claimed \in [Workers -> [Rows -> Nat]]
    BY DEF OutboxInit, Row
  <2>3. /\ done \in [Workers -> SUBSET Rows] /\ delivered \subseteq Rows
        /\ errors \in 0..MaxErrors /\ crashes \in 0..MaxCrashes
    BY BudgetsNatural DEF OutboxInit
  <2> QED
    BY <2>1, <2>2, <2>3 DEF OutboxTypeOK
<1>2. ASSUME NEW w \in Workers PROVE InHand(w) = {} /\ done[w] = {}
  BY <1>2 DEF OutboxInit, InHand
<1>3. ClaimsCounted
  BY <1>2 DEF ClaimsCounted, OutboxInit
<1>4. ProcessedWasDelivered /\ DeadAfterMaxAttempts
  BY DEF ProcessedWasDelivered, DeadAfterMaxAttempts, OutboxInit
<1> QED
  BY <1>1, <1>2, <1>3, <1>4 DEF IInv

LEMMA EnqueueSafe ==
  ASSUME IInv, NEW e \in Rows, Enqueue(e) PROVE IInv'
<1>1. OutboxTypeOK'
  BY EnqueueTypes DEF IInv
<1>2. /\ row[e].status = "none"
      /\ row'[e].status = "pending" /\ row'[e].attempts = 0
      /\ \A f \in Rows \ {e} : row'[f] = row[f]
  BY DEF Enqueue, IInv, OutboxTypeOK
<1>3. \A w \in Workers : InHand(w)' = InHand(w) /\ done'[w] = done[w]
  BY DEF Enqueue, InHand
<1>4. ClaimsCounted'
  <2> SUFFICES ASSUME NEW w \in Workers, NEW f \in Rows
               PROVE /\ claimed'[w][f] <= row'[f].attempts
                     /\ f \in InHand(w)' \cup done'[w] => row'[f].status # "none"
    BY DEF ClaimsCounted
  <2>1. f \in InHand(w) \cup done[w] => row[f].status # "none"
    BY DEF IInv, ClaimsCounted
  <2>2. claimed'[w][f] = claimed[w][f] /\ claimed[w][f] <= row[f].attempts /\ claimed[w][f] \in Nat
    BY DEF IInv, ClaimsCounted, Enqueue, OutboxTypeOK
  <2>3. CASE f = e
    <3>1. ~(claimed[w][e] > 0)
      BY <1>2, <2>1, <2>3, InHandIs
    <3> QED
      BY <1>2, <1>3, <2>1, <2>2, <2>3, <3>1
  <2>4. CASE f # e
    BY <1>2, <1>3, <2>1, <2>2, <2>4
  <2> QED
    BY <2>3, <2>4
<1>5. ProcessedWasDelivered' /\ DeadAfterMaxAttempts'
  BY <1>2 DEF IInv, ProcessedWasDelivered, DeadAfterMaxAttempts, Enqueue
<1>6. DoneDelivered'
  BY DEF IInv, DoneDelivered, Enqueue
<1> QED
  BY <1>1, <1>4, <1>5, <1>6 DEF IInv, DoneDelivered

(* A claim raises the attempts of what it takes, and of nothing else.      *)
LEMMA ClaimSafe ==
  ASSUME IInv, NEW w \in Workers, Claim(w) PROVE IInv'
<1>1. PICK locked \in SUBSET Busy(w) :
        LET S == Oldest({e \in Rows \ locked : Claimable(e)}) IN
          /\ row' = [e \in Rows |-> IF e \in S THEN [row[e] EXCEPT !.attempts = @ + 1] ELSE row[e]]
          /\ claimed' = [claimed EXCEPT ![w] = [e \in Rows |-> IF e \in S THEN row[e].attempts + 1 ELSE 0]]
  BY DEF Claim
<1> DEFINE S == Oldest({e \in Rows \ locked : Claimable(e)})
<1>2. OutboxTypeOK /\ OutboxTypeOK'
  BY ClaimTypes DEF IInv
<1>3. \A e \in S : row[e].status = "pending"
  BY DEF Oldest, Claimable
<1>4. ASSUME NEW e \in Rows
      PROVE  /\ row[e].attempts \in Nat
             /\ row'[e].status = row[e].status
             /\ row'[e].attempts = IF e \in S THEN row[e].attempts + 1 ELSE row[e].attempts
  BY <1>1, <1>2 DEF OutboxTypeOK, Row
<1>5. ASSUME NEW v \in Workers, NEW e \in Rows
      PROVE claimed'[v][e] = IF v = w THEN IF e \in S THEN row[e].attempts + 1 ELSE 0
                                      ELSE claimed[v][e]
  BY <1>1, <1>2 DEF OutboxTypeOK
<1>6. done' = done /\ delivered' = delivered
  BY DEF Claim
<1> HIDE DEF S
<1>7. ClaimsCounted'
  <2> SUFFICES ASSUME NEW v \in Workers, NEW e \in Rows
               PROVE /\ claimed'[v][e] <= row'[e].attempts
                     /\ e \in InHand(v)' \cup done'[v] => row'[e].status # "none"
    BY DEF ClaimsCounted
  <2>1. claimed[v][e] <= row[e].attempts /\ claimed[v][e] \in Nat
    BY <1>2 DEF IInv, ClaimsCounted, OutboxTypeOK
  <2>2. claimed'[v][e] <= row'[e].attempts
    BY <1>4, <1>5, <2>1
  <2>3. ASSUME e \in done'[v] PROVE row'[e].status # "none"
    BY <1>4, <1>6, <2>3 DEF IInv, ClaimsCounted
  <2>4. ASSUME claimed'[v][e] > 0 PROVE row'[e].status # "none"
    <3>1. e \in S \/ claimed[v][e] > 0
      BY <1>5, <2>4
    <3>2. e \in S \/ e \in InHand(v)
      BY <3>1, InHandIs
    <3> QED
      BY <1>3, <1>4, <3>2 DEF IInv, ClaimsCounted
  <2>5. e \in InHand(v)' => claimed'[v][e] > 0
    BY DEF InHand
  <2> QED
    BY <2>2, <2>3, <2>4, <2>5
<1>8. ProcessedWasDelivered'
  BY <1>4, <1>6 DEF IInv, ProcessedWasDelivered
<1>9. DeadAfterMaxAttempts'
  <2> SUFFICES ASSUME NEW e \in Rows, row'[e].status = "dead_letter"
               PROVE  row'[e].attempts >= MaxAttempts
    BY DEF DeadAfterMaxAttempts
  <2>1. row[e].attempts >= MaxAttempts
    BY <1>4 DEF IInv, DeadAfterMaxAttempts
  <2> QED
    BY <1>4, <2>1, MaxAttemptsPositive
<1>10. DoneDelivered'
  BY <1>6 DEF IInv, DoneDelivered
<1> QED
  BY <1>2, <1>7, <1>8, <1>9, <1>10 DEF IInv, DoneDelivered

(* Only a row in hand changes, and only to a status its attempts warrant.  *)
LEMMA DispatchSafe ==
  ASSUME IInv, NEW w \in Workers, NEW e \in Rows,
         DispatchSucceeds(w, e) \/ DispatchFails(w, e) \/ MarkFailedFails(w, e)
  PROVE  IInv'
<1>1. OutboxTypeOK /\ OutboxTypeOK'
  BY DispatchTypes DEF IInv
<1>2. e \in InHand(w) /\ claimed' = [claimed EXCEPT ![w][e] = 0]
  BY DEF DispatchSucceeds, DispatchFails, MarkFailedFails, Dispatched
<1>3. claimed[w][e] > 0 /\ claimed[w][e] <= row[e].attempts /\ row[e].status # "none"
  BY <1>2, InHandIs DEF IInv, ClaimsCounted
<1>4. ASSUME NEW f \in Rows
      PROVE  /\ row'[f].attempts = row[f].attempts
             /\ row'[f].status = "none" <=> row[f].status = "none"
             /\ row'[f].status = "processed" => row[f].status = "processed"
             /\ row'[f].status = "dead_letter" =>
                  row[f].status = "dead_letter" \/ (f = e /\ claimed[w][e] >= MaxAttempts)
  <2>1. CASE DispatchFails(w, e)
    <3>1. row' = [row EXCEPT ![e].status =
                    IF Exhausted(claimed[w][e]) THEN "dead_letter" ELSE "pending"]
      BY <2>1 DEF DispatchFails
    <3>2. CASE Exhausted(claimed[w][e])
      <4>1. row' = [row EXCEPT ![e].status = "dead_letter"]
        BY <3>1, <3>2
      <4>2. claimed[w][e] >= MaxAttempts
        BY <3>2 DEF Exhausted
      <4> QED
        BY <1>1, <1>3, <4>1, <4>2 DEF OutboxTypeOK, Row
    <3>3. CASE ~Exhausted(claimed[w][e])
      <4>1. row' = [row EXCEPT ![e].status = "pending"]
        BY <3>1, <3>3
      <4> QED
        BY <1>1, <1>3, <4>1 DEF OutboxTypeOK, Row
    <3> QED
      BY <3>2, <3>3
  <2>2. CASE DispatchSucceeds(w, e) \/ MarkFailedFails(w, e)
    <3>1. row' = row
      BY <2>2 DEF DispatchSucceeds, MarkFailedFails
    <3> QED
      BY <3>1
  <2> QED
    BY <2>1, <2>2
<1>5. ASSUME NEW v \in Workers, NEW f \in Rows
      PROVE claimed'[v][f] \in {0, claimed[v][f]}
  BY <1>1, <1>2 DEF OutboxTypeOK
<1>6. /\ delivered \subseteq delivered'
      /\ \A v \in Workers : /\ done'[v] \subseteq done[v] \cup {e}
                            /\ done'[v] \subseteq done[v] \cup delivered'
                            /\ v # w => done'[v] = done[v]
  BY <1>1 DEF DispatchSucceeds, DispatchFails, MarkFailedFails, Succeeded, OutboxTypeOK
<1>7. ClaimsCounted'
  <2> SUFFICES ASSUME NEW v \in Workers, NEW f \in Rows
               PROVE /\ claimed'[v][f] <= row'[f].attempts
                     /\ f \in InHand(v)' \cup done'[v] => row'[f].status # "none"
    BY DEF ClaimsCounted
  <2>1. claimed[v][f] <= row[f].attempts /\ claimed[v][f] \in Nat /\ row[f].attempts \in Nat
    BY <1>1 DEF IInv, ClaimsCounted, OutboxTypeOK, Row
  <2>2. claimed'[v][f] <= row'[f].attempts
    BY <1>4, <1>5, <2>1
  <2>3. ASSUME f \in InHand(v)' PROVE row[f].status # "none"
    <3>1. claimed'[v][f] > 0
      BY <2>3 DEF InHand
    <3>2. claimed[v][f] > 0
      BY <1>5, <3>1
    <3> QED
      BY <3>2, InHandIs DEF IInv, ClaimsCounted
  <2>4. ASSUME f \in done'[v] PROVE row[f].status # "none"
    BY <1>3, <1>6, <2>4 DEF IInv, ClaimsCounted
  <2> QED
    BY <1>4, <2>2, <2>3, <2>4
<1>8. ProcessedWasDelivered'
  BY <1>4, <1>6 DEF IInv, ProcessedWasDelivered
<1>9. DeadAfterMaxAttempts'
  <2> SUFFICES ASSUME NEW f \in Rows, row'[f].status = "dead_letter"
               PROVE  row'[f].attempts >= MaxAttempts
    BY DEF DeadAfterMaxAttempts
  <2>1. row[f].attempts \in Nat /\ claimed[w][e] \in Nat
    BY <1>1 DEF OutboxTypeOK, Row
  <2>2. CASE row[f].status = "dead_letter"
    BY <1>4, <2>2 DEF IInv, DeadAfterMaxAttempts
  <2>3. CASE f = e /\ claimed[w][e] >= MaxAttempts
    BY <1>3, <1>4, <2>1, <2>3, MaxAttemptsPositive
  <2> QED
    BY <1>4, <2>2, <2>3
<1>10. DoneDelivered'
  BY <1>6 DEF IInv, DoneDelivered
<1> QED
  BY <1>1, <1>7, <1>8, <1>9, <1>10 DEF IInv, DoneDelivered

(* markProcessed only touches delivered rows.                              *)
LEMMA EndTickSafe ==
  ASSUME IInv, NEW w \in Workers, MarkProcessed(w) \/ MarkProcessedFails(w)
  PROVE  IInv'
<1>1. OutboxTypeOK /\ OutboxTypeOK'
  BY EndTickTypes DEF IInv
<1>2. EndTick(w)
  BY DEF MarkProcessed, MarkProcessedFails
<1>3. /\ claimed' = claimed /\ delivered' = delivered
      /\ \A v \in Workers : done'[v] \subseteq done[v]
  BY <1>1, <1>2 DEF EndTick, OutboxTypeOK
<1>4. ASSUME NEW f \in Rows
      PROVE  /\ row'[f].attempts = row[f].attempts
             /\ row'[f].status = "none" => row[f].status = "none"
             /\ row'[f].status = "dead_letter" => row[f].status = "dead_letter"
             /\ row'[f].status = "processed" => row[f].status = "processed" \/ f \in done[w]
  <2>1. CASE MarkProcessed(w) /\ f \in done[w]
    <3>1. row'[f] = [row[f] EXCEPT !.status = "processed"]
      BY <2>1 DEF MarkProcessed
    <3> QED
      BY <1>1, <2>1, <3>1 DEF OutboxTypeOK, Row
  <2>2. CASE MarkProcessedFails(w) \/ f \notin done[w]
    <3>1. row'[f] = row[f]
      BY <2>2 DEF MarkProcessed, MarkProcessedFails
    <3> QED
      BY <3>1
  <2> QED
    BY <2>1, <2>2
<1>5. ClaimsCounted'
  <2>1. \A v \in Workers : InHand(v)' = InHand(v)
    BY <1>3 DEF InHand
  <2> QED
    BY <1>3, <1>4, <2>1 DEF IInv, ClaimsCounted
<1>6. ProcessedWasDelivered' /\ DeadAfterMaxAttempts'
  BY <1>3, <1>4 DEF IInv, ProcessedWasDelivered, DeadAfterMaxAttempts
<1>7. DoneDelivered'
  BY <1>3 DEF IInv, DoneDelivered
<1> QED
  BY <1>1, <1>5, <1>6, <1>7 DEF IInv, DoneDelivered

LEMMA CrashSafe ==
  ASSUME IInv, NEW w \in Workers, Crash(w) PROVE IInv'
<1>1. OutboxTypeOK /\ OutboxTypeOK'
  BY CrashTypes DEF IInv
<1>2. row' = row /\ delivered' = delivered
  BY DEF Crash
<1>3. ASSUME NEW v \in Workers
      PROVE  /\ done'[v] \subseteq done[v]
             /\ \A e \in Rows : claimed'[v][e] \in {0, claimed[v][e]}
  BY <1>1 DEF Crash, OutboxTypeOK
<1>4. ClaimsCounted'
  <2> SUFFICES ASSUME NEW v \in Workers, NEW f \in Rows
               PROVE /\ claimed'[v][f] <= row'[f].attempts
                     /\ f \in InHand(v)' \cup done'[v] => row'[f].status # "none"
    BY DEF ClaimsCounted
  <2>1. claimed[v][f] <= row[f].attempts /\ claimed[v][f] \in Nat /\ row[f].attempts \in Nat
    BY <1>1 DEF IInv, ClaimsCounted, OutboxTypeOK, Row
  <2>2. claimed'[v][f] <= row'[f].attempts
    BY <1>2, <1>3, <2>1
  <2>3. ASSUME f \in InHand(v)' PROVE row[f].status # "none"
    <3>1. claimed'[v][f] > 0
      BY <2>3 DEF InHand
    <3>2. claimed[v][f] > 0
      BY <1>3, <3>1
    <3> QED
      BY <3>2, InHandIs DEF IInv, ClaimsCounted
  <2>4. ASSUME f \in done'[v] PROVE row[f].status # "none"
    BY <1>3, <2>4 DEF IInv, ClaimsCounted
  <2> QED
    BY <1>2, <2>2, <2>3, <2>4
<1>5. ProcessedWasDelivered' /\ DeadAfterMaxAttempts'
  BY <1>2 DEF IInv, ProcessedWasDelivered, DeadAfterMaxAttempts
<1>6. DoneDelivered'
  BY <1>2, <1>3 DEF IInv, DoneDelivered
<1> QED
  BY <1>1, <1>4, <1>5, <1>6 DEF IInv, DoneDelivered

LEMMA StepHolds == IInv /\ [Next]_outboxVars => IInv'
<1> SUFFICES ASSUME IInv, [Next]_outboxVars PROVE IInv'
  OBVIOUS
<1>1. CASE UNCHANGED outboxVars
  BY <1>1 DEF outboxVars, IInv, OutboxTypeOK, ClaimsCounted, InHand,
     ProcessedWasDelivered, DeadAfterMaxAttempts
<1>2. ASSUME NEW w \in Workers, Tick(w) PROVE IInv'
  BY <1>2, ClaimSafe, DispatchSafe, EndTickSafe DEF Tick
<1> QED
  BY <1>1, <1>2, EnqueueSafe, CrashSafe DEF Next

(* Claims, deliveries and statuses agree in every reachable state.         *)
THEOREM OutboxInvariance == Spec => []IInv
<1> QED
  BY InitHolds, StepHolds, PTL DEF Spec

(* An event that left the queue as processed was delivered.                *)
THEOREM NothingLost == Spec => []ProcessedWasDelivered
<1>1. IInv => ProcessedWasDelivered
  BY DEF IInv
<1> QED
  BY <1>1, OutboxInvariance, PTL

(* No row is dead-lettered before it was claimed MaxAttempts times.        *)
THEOREM NothingGivenUpEarly == Spec => []DeadAfterMaxAttempts
<1>1. IInv => DeadAfterMaxAttempts
  BY DEF IInv
<1> QED
  BY <1>1, OutboxInvariance, PTL
-----------------------------------------------------------------------------
(* The compliance outbox and the ledger port.                              *)

PortTypeOK ==
  /\ payload \in [Rows -> Purchases \cup {None}]
  /\ ledger \subseteq {LedgerKey(x, order) : x \in Purchases, order \in Orders}
  /\ pc \in [Callers -> {"idle", "enqueue", "inline", "fallback", "mark"}]
  /\ buys \in [Callers -> Purchases \cup {None}]
  /\ bought \subseteq Purchases /\ returned \subseteq Purchases /\ faulted \subseteq Purchases

LEMMA TypeParts == TypeOK <=> OutboxTypeOK /\ PortTypeOK
BY DEF TypeOK, PortTypeOK

LEMMA TypePartsNext == TypeOK' <=> OutboxTypeOK' /\ PortTypeOK'
BY DEF TypeOK, PortTypeOK

(* A caller that is not idle has a purchase, and its key is a row.         *)
LEMMA BusyCaller ==
  ASSUME PortInv, NEW c \in Callers, pc[c] # "idle"
  PROVE  buys[c] \in Purchases /\ OutboxKey(buys[c]) \in Rows
<1>1. buys[c] \in Purchases
  BY TypeParts DEF PortInv, PortTypeOK, CallersKnow
<1> QED
  BY <1>1, KeyOfType DEF OutboxKey

(* recordComplianceLedgerEvent keeps the types, and forgets no row.        *)
LEMMA RecordTypes ==
  ASSUME PortTypeOK, NEW x \in Purchases, NEW order \in Orders,
         RecordEvent(x, order) \/ RecordEventFails
  PROVE  /\ ledger \subseteq ledger'
         /\ ledger' \subseteq {LedgerKey(y, o) : y \in Purchases, o \in Orders}
         /\ RecordEvent(x, order) => Recorded(x)'
<1>3. ledger \subseteq ledger' /\ ledger' \subseteq {LedgerKey(y, o) : y \in Purchases, o \in Orders}
  BY DEF RecordEvent, RecordEventFails, PortTypeOK
<1>4. RecordEvent(x, order) => Recorded(x)'
  BY DEF RecordEvent, Recorded, LedgerKey
<1> QED
  BY <1>3, <1>4

LEMMA RecordedIsPurchase ==
  ASSUME PortTypeOK, NEW x, Recorded(x) PROVE x \in Purchases
<1>1. PICK order \in Orders : <<x, order>> \in ledger
  BY DEF Recorded, LedgerKey
<1>2. PICK y \in Purchases, o \in Orders : <<x, order>> = <<y, o>>
  BY <1>1 DEF PortTypeOK, LedgerKey
<1> QED
  BY <1>2

LEMMA RecordedGrows ==
  ASSUME ledger \subseteq ledger' PROVE \A x : Recorded(x) => Recorded(x)'
BY DEF Recorded, LedgerKey

-----------------------------------------------------------------------------
(* What a step keeps when it leaves the payloads alone and neither frees a *)
(* row nor settles one that is not in the ledger.                          *)

LEMMA RowsKept ==
  ASSUME RowsBelong, ProcessedIsInLedger,
         payload' = payload, ledger \subseteq ledger',
         \A k \in Rows : row'[k].status = "none" <=> row[k].status = "none",
         \A k \in Rows : k \in delivered' => k \in delivered \/ Recorded(payload[k])',
         \A k \in Rows : row'[k].status = "processed" =>
                           row[k].status = "processed" \/ Recorded(payload[k])'
  PROVE  RowsBelong' /\ ProcessedIsInLedger'
BY RecordedGrows DEF RowsBelong, ProcessedIsInLedger, OutboxKey

LEMMA ClaimsKept ==
  ASSUME ClaimsExist,
         \A k \in Rows : row'[k].status = "none" => row[k].status = "none",
         \A w \in Workers : InHand(w)' \subseteq InHand(w) /\ done'[w] \subseteq done[w],
         delivered \subseteq delivered'
  PROVE  ClaimsExist'
BY DEF ClaimsExist

LEMMA CallersKept ==
  ASSUME CallersKnow, pc' = pc, buys' = buys, payload' = payload,
         ledger \subseteq ledger', faulted' = faulted
  PROVE  CallersKnow'
BY RecordedGrows DEF CallersKnow, OutboxKey

LEMMA OneReturns ==
  ASSUME PortInv, NEW c \in Callers, ReturnToCaller(c), payload' = payload,
         ledger \subseteq ledger', faulted' = faulted
  PROVE  CallersKnow'
<1> SUFFICES ASSUME NEW d \in Callers
             PROVE /\ buys'[d] = None <=> pc'[d] = "idle"
                   /\ pc'[d] \in {"inline", "mark"} => payload'[OutboxKey(buys'[d])] = buys'[d]
                   /\ pc'[d] = "mark" => Recorded(buys[d])'
                   /\ pc'[d] = "fallback" => buys'[d] \in faulted'
  BY DEF CallersKnow, OutboxKey
<1>1. CASE d = c
  BY <1>1, TypeParts DEF ReturnToCaller, PortInv, PortTypeOK
<1>2. CASE d # c
  <2>1. pc'[d] = pc[d] /\ buys'[d] = buys[d]
    BY <1>2, TypeParts DEF ReturnToCaller, PortInv, PortTypeOK
  <2> QED
    BY <2>1 DEF PortInv, CallersKnow, Recorded, LedgerKey
<1> QED
  BY <1>1, <1>2

(* Caller c goes on to the next step of the port, which needs the facts    *)
(* given for it; the others keep theirs.                                   *)
LEMMA OneMoves ==
  ASSUME PortInv, NEW c \in Callers, NEW q \in {"enqueue", "inline", "fallback", "mark"},
         pc' = [pc EXCEPT ![c] = q],
         \A d \in Callers \ {c} : buys'[d] = buys[d],
         buys'[c] \in Purchases,
         \A k \in Rows : payload[k] # None => payload'[k] = payload[k],
         ledger \subseteq ledger', faulted \subseteq faulted',
         q \in {"inline", "mark"} => payload'[OutboxKey(buys'[c])] = buys'[c],
         q = "mark" => Recorded(buys[c])',
         q = "fallback" => buys'[c] \in faulted'
  PROVE  CallersKnow'
<1> SUFFICES ASSUME NEW d \in Callers
             PROVE /\ buys'[d] = None <=> pc'[d] = "idle"
                   /\ pc'[d] \in {"inline", "mark"} => payload'[OutboxKey(buys'[d])] = buys'[d]
                   /\ pc'[d] = "mark" => Recorded(buys[d])'
                   /\ pc'[d] = "fallback" => buys'[d] \in faulted'
  BY DEF CallersKnow, OutboxKey
<1>1. CASE d = c
  <2>1. pc'[d] = q
    BY <1>1, TypeParts DEF PortInv, PortTypeOK
  <2> QED
    BY <1>1, <2>1, NoneFresh
<1>2. CASE d # c
  <2>1. pc'[d] = pc[d] /\ buys'[d] = buys[d]
    BY <1>2, TypeParts DEF PortInv, PortTypeOK
  <2>2. ASSUME pc[d] \in {"inline", "mark"}
        PROVE  payload'[OutboxKey(buys[d])] = buys[d]
    <3>1. buys[d] \in Purchases /\ OutboxKey(buys[d]) \in Rows
      BY <2>2, BusyCaller
    <3>2. payload[OutboxKey(buys[d])] = buys[d]
      BY <2>2 DEF PortInv, CallersKnow
    <3> QED
      BY <3>1, <3>2, NoneFresh
  <2> QED
    BY <2>1, <2>2 DEF PortInv, CallersKnow, Recorded, LedgerKey
<1> QED
  BY <1>1, <1>2

-----------------------------------------------------------------------------
(* The steps of the port.                                                  *)

LEMMA PortInitHolds == Init => PortInv
<1> SUFFICES ASSUME Init PROVE PortInv
  OBVIOUS
<1>1. IInv
  BY InitHolds DEF Init
<1>2. PortTypeOK
  BY DEF Init, PortTypeOK
<1>3. RowsBelong /\ ProcessedIsInLedger
  BY DEF Init, OutboxInit, RowsBelong, ProcessedIsInLedger
<1>4. CallersKnow
  BY DEF Init, CallersKnow
<1>5. ClaimsExist
  <2>1. \A w \in Workers : InHand(w) = {} /\ done[w] = {}
    BY DEF Init, OutboxInit, InHand
  <2> QED
    BY <2>1 DEF ClaimsExist
<1> QED
  BY <1>1, <1>2, <1>3, <1>4, <1>5, TypeParts DEF PortInv, IInv

(* Steps that leave the outbox variables alone.                            *)
LEMMA OutboxAside ==
  ASSUME PortInv, UNCHANGED <<outboxVars, payload>>, ledger \subseteq ledger'
  PROVE  OutboxTypeOK' /\ RowsBelong' /\ ProcessedIsInLedger' /\ ClaimsExist'
<1>1. OutboxTypeOK'
  BY TypeParts DEF PortInv, OutboxTypeOK, outboxVars
<1>2. RowsBelong' /\ ProcessedIsInLedger'
  BY RowsKept DEF PortInv, outboxVars
<1>3. ClaimsExist'
  <2>1. \A w \in Workers : InHand(w)' \subseteq InHand(w) /\ done'[w] \subseteq done[w]
    BY DEF outboxVars, InHand
  <2> QED
    BY <2>1, ClaimsKept DEF PortInv, outboxVars
<1> QED
  BY <1>1, <1>2, <1>3

LEMMA BuyKeeps == ASSUME PortInv, NEW c \in Callers, Buy(c) PROVE PortInv'
<1>1. PICK x \in Purchases \ bought :
        /\ bought' = bought \cup {x}
        /\ pc'   = [pc EXCEPT ![c] = "enqueue"]
        /\ buys' = [buys EXCEPT ![c] = x]
  BY DEF Buy
<1>2. UNCHANGED <<outboxVars, payload, ledger, returned, faulted>>
  BY DEF Buy
<1>3. OutboxTypeOK' /\ RowsBelong' /\ ProcessedIsInLedger' /\ ClaimsExist'
  BY <1>2, OutboxAside
<1>4. PortTypeOK'
  BY <1>1, <1>2, TypeParts DEF PortInv, PortTypeOK
<1>5. CallersKnow'
  <2>1. /\ buys'[c] = x
        /\ \A d \in Callers \ {c} : buys'[d] = buys[d]
    BY <1>1, TypeParts DEF PortInv, PortTypeOK
  <2> QED
    BY <1>1, <1>2, <2>1, OneMoves
<1> QED
  BY <1>3, <1>4, <1>5, TypePartsNext DEF PortInv

LEMMA InsertKeeps == ASSUME PortInv, NEW c \in Callers, InsertRow(c) PROVE PortInv'
<1> DEFINE x == buys[c]
           k == OutboxKey(x)
<1>1. /\ pc[c] = "enqueue" /\ Enqueue(k)
      /\ payload' = [payload EXCEPT ![k] = x]
      /\ pc' = [pc EXCEPT ![c] = "inline"]
      /\ UNCHANGED <<ledger, buys, bought, returned, faulted>>
  BY DEF InsertRow
<1>2. x \in Purchases /\ k \in Rows /\ x # None
  BY <1>1, BusyCaller, NoneFresh
<1>3. OutboxTypeOK /\ PortTypeOK
  BY TypeParts DEF PortInv
<1> HIDE DEF k, x
<1>4. OutboxTypeOK'
  BY <1>1, <1>2, <1>3, EnqueueTypes
<1>5. PortTypeOK'
  BY <1>1, <1>2, <1>3 DEF PortTypeOK
<1>6. /\ row[k].status = "none" /\ row'[k].status = "pending"
      /\ \A j \in Rows \ {k} : row'[j] = row[j]
      /\ UNCHANGED <<claimed, done, delivered>>
  BY <1>1, <1>2, <1>3 DEF Enqueue, OutboxTypeOK
<1>7. payload[k] = None /\ k \notin delivered
  <2>1. payload[k] = None
    BY <1>2, <1>6 DEF PortInv, RowsBelong
  <2> QED
    BY <1>2, <1>3, <2>1, NoneFresh, RecordedIsPurchase DEF PortInv, RowsBelong
<1>8. payload'[k] = x /\ \A j \in Rows \ {k} : payload'[j] = payload[j]
  BY <1>1, <1>2, <1>3 DEF PortTypeOK
<1>9. RowsBelong' /\ ProcessedIsInLedger'
  <2> SUFFICES ASSUME NEW j \in Rows
               PROVE /\ payload'[j] = None <=> row'[j].status = "none"
                     /\ payload'[j] # None => OutboxKey(payload'[j]) = j
                     /\ j \in delivered' => Recorded(payload[j])'
                     /\ row'[j].status = "processed" => Recorded(payload[j])'
    BY DEF RowsBelong, ProcessedIsInLedger, OutboxKey
  <2>1. CASE j = k
    <3>1. OutboxKey(x) = k
      BY DEF k
    <3> QED
      BY <1>2, <1>6, <1>7, <1>8, <2>1, <3>1
  <2>2. CASE j # k
    BY <1>1, <1>6, <1>8, <2>2, RecordedGrows DEF PortInv, RowsBelong, ProcessedIsInLedger, Recorded, LedgerKey
  <2> QED
    BY <2>1, <2>2
<1>10. CallersKnow'
  <2>1. OutboxKey(buys'[c]) = k /\ buys'[c] = x
    BY <1>1 DEF k, x
  <2>2. \A j \in Rows : payload[j] # None => payload'[j] = payload[j]
    BY <1>7, <1>8
  <2> QED
    BY <1>1, <1>2, <1>8, <2>1, <2>2, OneMoves
<1>11. ClaimsExist'
  <2>1. \A w \in Workers : InHand(w)' \subseteq InHand(w) /\ done'[w] \subseteq done[w]
    BY <1>6 DEF InHand
  <2>2. \A j \in Rows : row'[j].status = "none" => row[j].status = "none"
    BY <1>6
  <2> QED
    BY <1>6, <2>1, <2>2, ClaimsKept DEF PortInv
<1> QED
  BY <1>4, <1>5, <1>9, <1>10, <1>11, TypePartsNext DEF PortInv

(* RowExists, InlineFails and Fallback: the call returns.                  *)
LEMMA ReturnKeeps ==
  ASSUME PortInv, NEW c \in Callers, RowExists(c) \/ InlineFails(c) \/ Fallback(c)
  PROVE  PortInv'
<1>1. pc[c] # "idle" /\ ReturnToCaller(c)
  BY DEF RowExists, InlineFails, Fallback
<1>2. UNCHANGED <<outboxVars, payload, bought, faulted>>
  BY DEF RowExists, InlineFails, Fallback
<1>3. buys[c] \in Purchases /\ HostOf[c] \in Workers
  BY <1>1, BusyCaller, HostOfType
<1>4. PortTypeOK
  BY TypeParts DEF PortInv
<1>5. /\ ledger \subseteq ledger'
      /\ ledger' \subseteq {LedgerKey(x, order) : x \in Purchases, order \in Orders}
  <2>1. \/ UNCHANGED ledger
        \/ RecordEvent(buys[c], "call")
        \/ RecordEventFails
    BY DEF RowExists, InlineFails, Fallback
  <2>2. CASE UNCHANGED ledger
    BY <1>4, <2>2 DEF PortTypeOK
  <2>3. "call" \in Orders
    BY DEF Orders
  <2> QED
    BY <1>3, <1>4, <2>1, <2>2, <2>3, RecordTypes
<1>6. PortTypeOK'
  BY <1>1, <1>2, <1>3, <1>4, <1>5 DEF ReturnToCaller, PortTypeOK
<1> QED
  BY <1>1, <1>2, <1>5, <1>6, OutboxAside, OneReturns, TypePartsNext DEF PortInv

LEMMA InlineKeeps == ASSUME PortInv, NEW c \in Callers, InlineSucceeds(c) PROVE PortInv'
<1>1. /\ pc[c] = "inline" /\ pc' = [pc EXCEPT ![c] = "mark"]
      /\ UNCHANGED <<outboxVars, payload, buys, bought, returned, faulted>>
      /\ RecordEvent(buys[c], "call")
  BY DEF InlineSucceeds
<1>2. buys[c] \in Purchases /\ HostOf[c] \in Workers /\ PortTypeOK
  BY <1>1, BusyCaller, HostOfType, TypeParts DEF PortInv
<1>5. /\ ledger \subseteq ledger'
      /\ ledger' \subseteq {LedgerKey(x, order) : x \in Purchases, order \in Orders}
      /\ Recorded(buys[c])'
  <2>1. "call" \in Orders
    BY DEF Orders
  <2>2. Recorded(buys[c])' <=> \E order \in Orders : LedgerKey(buys[c], order) \in ledger'
    BY <1>1 DEF Recorded, LedgerKey
  <2>3. LedgerKey(buys[c], "call") \in ledger'
    BY <1>1 DEF RecordEvent
  <2> QED
    BY <1>1, <1>2, <2>1, <2>2, <2>3, RecordTypes
<1>3. PortTypeOK'
  BY <1>1, <1>2, <1>5 DEF PortTypeOK
<1>4. CallersKnow'
  <2>1. payload'[OutboxKey(buys'[c])] = buys'[c]
    BY <1>1 DEF PortInv, CallersKnow
  <2>2. /\ buys' = buys /\ payload' = payload
        /\ \A d \in Callers \ {c} : buys'[d] = buys[d]
        /\ \A k \in Rows : payload[k] # None => payload'[k] = payload[k]
        /\ faulted \subseteq faulted' /\ ledger \subseteq ledger'
    BY <1>1, <1>5
  <2>3. Recorded(buys[c])' /\ buys'[c] \in Purchases
    BY <1>2, <1>5, <2>2
  <2> QED
    BY <1>1, <2>1, <2>2, <2>3, OneMoves
<1> QED
  BY <1>1, <1>3, <1>4, <1>5, OutboxAside, TypePartsNext DEF PortInv

(* A statement of the port fails.                                          *)
LEMMA FailureKeeps ==
  ASSUME PortInv, NEW c \in Callers, InsertFails(c) \/ MarkByKeyFails(c)
  PROVE  PortInv'
<1>1. /\ pc[c] # "idle" /\ errors < MaxErrors /\ errors' = errors + 1
      /\ UNCHANGED <<row, claimed, done, running, delivered, crashes, payload, ledger, bought>>
  BY DEF InsertFails, MarkByKeyFails
<1>2. OutboxTypeOK /\ PortTypeOK /\ buys[c] \in Purchases
  BY <1>1, BusyCaller, TypeParts DEF PortInv
<1>3. OutboxTypeOK'
  <2>1. errors' \in 0..MaxErrors
    BY <1>1, <1>2, BudgetsNatural DEF OutboxTypeOK
  <2> QED
    BY <1>1, <1>2, <2>1 DEF OutboxTypeOK
<1>4. RowsBelong' /\ ProcessedIsInLedger'
  BY <1>1, RowsKept DEF PortInv
<1>5. ClaimsExist'
  <2>1. \A w \in Workers : InHand(w)' \subseteq InHand(w) /\ done'[w] \subseteq done[w]
    BY <1>1 DEF InHand
  <2> QED
    BY <1>1, <2>1, ClaimsKept DEF PortInv
<1>6. PortTypeOK' /\ CallersKnow'
  <2>1. CASE InsertFails(c)
    <3>1. /\ pc' = [pc EXCEPT ![c] = "fallback"]
          /\ faulted' = faulted \cup {buys[c]}
          /\ UNCHANGED <<buys, returned>>
      BY <2>1 DEF InsertFails
    <3>2. PortTypeOK'
      BY <1>1, <1>2, <3>1 DEF PortTypeOK
    <3>3. CallersKnow'
      BY <1>1, <1>2, <3>1, OneMoves
    <3> QED
      BY <3>2, <3>3
  <2>2. CASE MarkByKeyFails(c)
    <3>1. ReturnToCaller(c) /\ faulted' = faulted
      BY <2>2 DEF MarkByKeyFails
    <3>2. PortTypeOK'
      BY <1>1, <1>2, <3>1 DEF ReturnToCaller, PortTypeOK
    <3> QED
      BY <1>1, <3>1, <3>2, OneReturns
  <2> QED
    BY <2>1, <2>2
<1> QED
  BY <1>3, <1>4, <1>5, <1>6, TypePartsNext DEF PortInv

LEMMA MarkKeeps == ASSUME PortInv, NEW c \in Callers, MarkByKey(c) PROVE PortInv'
<1> DEFINE k == OutboxKey(buys[c])
<1>1. /\ pc[c] = "mark" /\ ReturnToCaller(c)
      /\ row' = IF row[k].status = "pending" THEN [row EXCEPT ![k].status = "processed"] ELSE row
      /\ UNCHANGED <<claimed, done, running, delivered, errors, crashes,
                     payload, ledger, bought, faulted>>
  BY DEF MarkByKey
<1>2. buys[c] \in Purchases /\ k \in Rows
  BY <1>1, BusyCaller
<1>3. OutboxTypeOK /\ PortTypeOK
  BY TypeParts DEF PortInv
<1>4. Recorded(payload[k])
  BY <1>1 DEF PortInv, CallersKnow
<1> HIDE DEF k
<1>5. /\ row' \in [Rows -> Row]
      /\ \A j \in Rows : /\ row'[j].status = "none" <=> row[j].status = "none"
                         /\ row'[j].status = "processed" => row[j].status = "processed" \/ j = k
  <2>1. CASE row[k].status = "pending"
    <3>1. row' = [row EXCEPT ![k].status = "processed"]
      BY <1>1, <2>1
    <3> QED
      BY <1>2, <1>3, <2>1, <3>1 DEF OutboxTypeOK, Row
  <2>2. CASE row[k].status # "pending"
    BY <1>1, <1>3, <2>2 DEF OutboxTypeOK
  <2> QED
    BY <2>1, <2>2
<1>6. OutboxTypeOK'
  BY <1>1, <1>3, <1>5 DEF OutboxTypeOK
<1>7. PortTypeOK'
  BY <1>1, <1>2, <1>3 DEF ReturnToCaller, PortTypeOK
<1>8. RowsBelong' /\ ProcessedIsInLedger'
  <2>1. \A j \in Rows : row'[j].status = "processed" =>
                          row[j].status = "processed" \/ Recorded(payload[j])'
    BY <1>1, <1>4, <1>5 DEF Recorded, LedgerKey
  <2> QED
    BY <1>1, <1>5, <2>1, RowsKept DEF PortInv
<1>9. ClaimsExist'
  <2>1. \A w \in Workers : InHand(w)' \subseteq InHand(w) /\ done'[w] \subseteq done[w]
    BY <1>1 DEF InHand
  <2> QED
    BY <1>1, <1>5, <2>1, ClaimsKept DEF PortInv
<1> QED
  BY <1>1, <1>6, <1>7, <1>8, <1>9, OneReturns, TypePartsNext DEF PortInv

-----------------------------------------------------------------------------
(* The worker and the crash.                                               *)

(* A row in a worker's hands carries a purchase.                           *)
LEMMA InHandHasPayload ==
  ASSUME PortInv, NEW w \in Workers, NEW k \in Rows, k \in InHand(w)
  PROVE  payload[k] \in Purchases /\ row[k].status # "none"
<1>1. row[k].status # "none"
  BY DEF PortInv, ClaimsExist
<1> QED
  BY <1>1, TypeParts DEF PortInv, RowsBelong, PortTypeOK

LEMMA DispatchKeeps == ASSUME PortInv, NEW w \in Workers, WorkerDispatch(w) PROVE PortInv'
<1>1. PICK k \in Rows :
        \/ DispatchSucceeds(w, k) /\ RecordEvent(payload[k], "jsonb")
        \/ (DispatchFails(w, k) \/ MarkFailedFails(w, k)) /\ RecordEventFails
  BY DEF WorkerDispatch
<1>2. UNCHANGED <<payload, pc, buys, bought, returned, faulted>>
  BY DEF WorkerDispatch, CallersAside
<1>3. k \in InHand(w) /\ claimed' = [claimed EXCEPT ![w][k] = 0]
  BY <1>1 DEF DispatchSucceeds, DispatchFails, MarkFailedFails, Dispatched
<1>4. payload[k] \in Purchases /\ row[k].status # "none"
  BY <1>3, InHandHasPayload
<1>5. OutboxTypeOK /\ PortTypeOK
  BY TypeParts DEF PortInv
<1>6. OutboxTypeOK'
  BY <1>1, <1>5, DispatchTypes
<1>7. /\ ledger \subseteq ledger'
      /\ ledger' \subseteq {LedgerKey(x, order) : x \in Purchases, order \in Orders}
      /\ RecordEvent(payload[k], "jsonb") => Recorded(payload[k])'
  <2>1. "jsonb" \in Orders
    BY DEF Orders
  <2>2. Recorded(payload[k])' <=> \E order \in Orders : LedgerKey(payload[k], order) \in ledger'
    BY <1>2 DEF Recorded, LedgerKey
  <2>3. RecordEvent(payload[k], "jsonb") \/ RecordEventFails
    BY <1>1
  <2>4. RecordEvent(payload[k], "jsonb") => LedgerKey(payload[k], "jsonb") \in ledger'
    BY DEF RecordEvent
  <2> QED
    BY <1>4, <1>5, <2>1, <2>2, <2>3, <2>4, RecordTypes
<1>8. PortTypeOK'
  BY <1>2, <1>5, <1>7 DEF PortTypeOK
<1>9. ASSUME NEW j \in Rows
      PROVE  /\ row'[j].status = "none" <=> row[j].status = "none"
             /\ row'[j].status = "processed" => row[j].status = "processed"
  <2>1. CASE DispatchFails(w, k)
    <3>1. row' = [row EXCEPT ![k].status = "dead_letter"]
          \/ row' = [row EXCEPT ![k].status = "pending"]
      <4>1. CASE Exhausted(claimed[w][k])
        BY <2>1, <4>1 DEF DispatchFails
      <4>2. CASE ~Exhausted(claimed[w][k])
        BY <2>1, <4>2 DEF DispatchFails
      <4> QED
        BY <4>1, <4>2
    <3> QED
      BY <1>4, <1>5, <3>1 DEF OutboxTypeOK, Row
  <2>2. CASE DispatchSucceeds(w, k) \/ MarkFailedFails(w, k)
    <3>1. row' = row
      BY <2>2 DEF DispatchSucceeds, MarkFailedFails
    <3> QED
      BY <3>1
  <2> QED
    BY <1>1, <2>1, <2>2
<1>10. /\ delivered' = delivered \/ (delivered' = delivered \cup {k} /\ Recorded(payload[k])')
       /\ \A v \in Workers : done'[v] \subseteq done[v] \cup delivered'
       /\ \A v \in Workers : done'[v] \subseteq done[v] \cup {k}
  <2>1. CASE DispatchSucceeds(w, k)
    <3>1. /\ delivered' = delivered \cup {k}
          /\ done' = [done EXCEPT ![w] = @ \cup {k}]
          /\ row' = row
      BY <2>1 DEF DispatchSucceeds
    <3>2. DispatchFails(w, k) \/ MarkFailedFails(w, k) => delivered' = delivered
      BY DEF DispatchFails, MarkFailedFails
    <3> QED
      BY <1>1, <1>5, <1>7, <3>1, <3>2 DEF OutboxTypeOK
  <2>2. CASE DispatchFails(w, k) \/ MarkFailedFails(w, k)
    <3>1. delivered' = delivered /\ \A v \in Workers : done'[v] = done[v]
      BY <1>5, <2>2 DEF DispatchFails, MarkFailedFails, Succeeded, OutboxTypeOK
    <3> QED
      BY <3>1
  <2> QED
    BY <1>1, <2>1, <2>2
<1>11. RowsBelong' /\ ProcessedIsInLedger'
  BY <1>2, <1>7, <1>9, <1>10, RowsKept DEF PortInv
<1>12. CallersKnow'
  BY <1>2, <1>7, CallersKept DEF PortInv
<1>13. ClaimsExist'
  <2> SUFFICES ASSUME NEW v \in Workers, NEW j \in Rows
               PROVE /\ j \in InHand(v)' \cup done'[v] => row'[j].status # "none"
                     /\ j \in done'[v] => j \in delivered'
    BY DEF ClaimsExist
  <2>1. InHand(v)' \subseteq InHand(v)
    <3>1. \A i \in Rows : claimed'[v][i] = 0 \/ claimed'[v][i] = claimed[v][i]
      BY <1>3, <1>5 DEF OutboxTypeOK
    <3> QED
      BY <3>1 DEF InHand
  <2> QED
    BY <1>4, <1>9, <1>10, <2>1 DEF PortInv, ClaimsExist
<1> QED
  BY <1>6, <1>8, <1>11, <1>12, <1>13, TypePartsNext DEF PortInv

LEMMA StatementKeeps == ASSUME PortInv, NEW w \in Workers, WorkerStatement(w) PROVE PortInv'
<1>1. Claim(w) \/ MarkProcessed(w) \/ MarkProcessedFails(w)
  BY DEF WorkerStatement
<1>2. UNCHANGED <<payload, pc, buys, bought, returned, faulted, ledger>>
  BY DEF WorkerStatement, CallersAside
<1>3. OutboxTypeOK /\ PortTypeOK
  BY TypeParts DEF PortInv
<1>4. OutboxTypeOK'
  BY <1>1, <1>3, ClaimTypes, EndTickTypes
<1>5. PortTypeOK'
  BY <1>2, <1>3 DEF PortTypeOK
<1>6. delivered' = delivered /\ \A v \in Workers : done'[v] \subseteq done[v]
  BY <1>1, <1>3 DEF Claim, MarkProcessed, MarkProcessedFails, EndTick, OutboxTypeOK
<1>7. ASSUME NEW j \in Rows
      PROVE  /\ row'[j].status = "none" <=> row[j].status = "none"
             /\ row'[j].status = "processed" => row[j].status = "processed" \/ j \in done[w]
  <2>1. row[j] \in Row
    BY <1>3 DEF OutboxTypeOK
  <2>2. \/ row'[j] = row[j]
        \/ row'[j] = [row[j] EXCEPT !.attempts = @ + 1]
        \/ j \in done[w] /\ row'[j] = [row[j] EXCEPT !.status = "processed"]
    BY <1>1 DEF Claim, MarkProcessed, MarkProcessedFails
  <2>3. j \in done[w] => row[j].status # "none"
    BY DEF PortInv, ClaimsExist
  <2> QED
    BY <2>1, <2>2, <2>3 DEF Row
<1>8. \A j \in done[w] : j \in Rows /\ Recorded(payload[j])
  BY <1>3 DEF PortInv, ClaimsExist, RowsBelong, OutboxTypeOK
<1>9. RowsBelong' /\ ProcessedIsInLedger'
  <2>1. \A j \in Rows : row'[j].status = "processed" =>
                          row[j].status = "processed" \/ Recorded(payload[j])'
    BY <1>2, <1>7, <1>8 DEF Recorded, LedgerKey
  <2> QED
    BY <1>2, <1>6, <1>7, <2>1, RowsKept DEF PortInv
<1>10. CallersKnow'
  BY <1>2, CallersKept DEF PortInv
<1>11. ASSUME NEW v \in Workers, NEW j \in Rows, j \in InHand(v)'
       PROVE  row[j].status # "none"
  <2>1. claimed'[v][j] > 0
    BY <1>11 DEF InHand
  <2>2. CASE Claim(w)
    <3>1. PICK locked \in SUBSET Busy(w) :
            claimed' = [claimed EXCEPT ![w] =
                         [e \in Rows |-> IF e \in Oldest({f \in Rows \ locked : Claimable(f)})
                                           THEN row[e].attempts + 1 ELSE 0]]
      BY <2>2 DEF Claim
    <3> DEFINE S == Oldest({f \in Rows \ locked : Claimable(f)})
    <3>2. \A e \in S : row[e].status = "pending"
      BY DEF Oldest, Claimable
    <3> HIDE DEF S
    <3>3. claimed' = [claimed EXCEPT ![w] =
                       [e \in Rows |-> IF e \in S THEN row[e].attempts + 1 ELSE 0]]
      BY <3>1 DEF S
    <3>4. CASE v = w
      <4>1. j \in S
        BY <1>3, <2>1, <3>3, <3>4 DEF OutboxTypeOK
      <4> QED
        BY <3>2, <4>1
    <3>5. CASE v # w
      <4>1. claimed'[v][j] = claimed[v][j]
        BY <1>3, <3>3, <3>5 DEF OutboxTypeOK
      <4>2. j \in InHand(v)
        BY <2>1, <4>1, InHandIs
      <4> QED
        BY <4>2 DEF PortInv, ClaimsExist
    <3> QED
      BY <3>4, <3>5
  <2>3. CASE MarkProcessed(w) \/ MarkProcessedFails(w)
    <3>1. claimed' = claimed
      BY <2>3 DEF MarkProcessed, MarkProcessedFails, EndTick
    <3>2. j \in InHand(v)
      BY <2>1, <3>1, InHandIs
    <3> QED
      BY <3>2 DEF PortInv, ClaimsExist
  <2> QED
    BY <1>1, <2>2, <2>3
<1>12. ClaimsExist'
  <2> SUFFICES ASSUME NEW v \in Workers, NEW j \in Rows
               PROVE /\ j \in InHand(v)' \cup done'[v] => row'[j].status # "none"
                     /\ j \in done'[v] => j \in delivered'
    BY DEF ClaimsExist
  <2>1. j \in InHand(v)' => row'[j].status # "none"
    BY <1>7, <1>11
  <2>2. j \in done'[v] => row'[j].status # "none" /\ j \in delivered'
    BY <1>6, <1>7 DEF PortInv, ClaimsExist
  <2> QED
    BY <2>1, <2>2
<1> QED
  BY <1>4, <1>5, <1>9, <1>10, <1>12, TypePartsNext DEF PortInv

LEMMA CrashKeeps == ASSUME PortInv, NEW w \in Workers, ProcessCrash(w) PROVE PortInv'
<1> DEFINE gone == {c \in Callers : HostOf[c] = w}
<1>1. /\ crashes < MaxCrashes /\ crashes' = crashes + 1
      /\ claimed' = [claimed EXCEPT ![w] = [k \in Rows |-> 0]]
      /\ done'    = [done EXCEPT ![w] = {}]
      /\ running' = [running EXCEPT ![w] = FALSE]
      /\ pc'   = [c \in Callers |-> IF c \in gone THEN "idle" ELSE pc[c]]
      /\ buys' = [c \in Callers |-> IF c \in gone THEN None ELSE buys[c]]
      /\ UNCHANGED <<row, delivered, errors, payload, ledger, bought, returned, faulted>>
  BY DEF ProcessCrash
<1>2. OutboxTypeOK /\ PortTypeOK
  BY TypeParts DEF PortInv
<1>3. OutboxTypeOK'
  <2>1. crashes' \in 0..MaxCrashes
    BY <1>1, <1>2, BudgetsNatural DEF OutboxTypeOK
  <2>2. running' \in [Workers -> BOOLEAN]
    BY <1>1, <1>2 DEF OutboxTypeOK
  <2>3. claimed' \in [Workers -> [Rows -> Nat]] /\ done' \in [Workers -> SUBSET Rows]
    BY <1>1, <1>2 DEF OutboxTypeOK
  <2> QED
    BY <1>1, <1>2, <2>1, <2>2, <2>3 DEF OutboxTypeOK
<1>4. PortTypeOK'
  <2>2. /\ pc' \in [Callers -> {"idle", "enqueue", "inline", "fallback", "mark"}]
        /\ buys' \in [Callers -> Purchases \cup {None}]
    BY <1>1, <1>2 DEF PortTypeOK
  <2> QED
    BY <1>1, <1>2, <2>2 DEF PortTypeOK
<1>5. RowsBelong' /\ ProcessedIsInLedger'
  BY <1>1, RowsKept DEF PortInv
<1>6. CallersKnow'
  <2> SUFFICES ASSUME NEW d \in Callers
               PROVE /\ buys'[d] = None <=> pc'[d] = "idle"
                     /\ pc'[d] \in {"inline", "mark"} => payload'[OutboxKey(buys'[d])] = buys'[d]
                     /\ pc'[d] = "mark" => Recorded(buys[d])'
                     /\ pc'[d] = "fallback" => buys'[d] \in faulted'
    BY DEF CallersKnow, OutboxKey
  <2>1. CASE d \in gone
    BY <1>1, <2>1
  <2>2. CASE d \notin gone
    <3>1. pc'[d] = pc[d] /\ buys'[d] = buys[d]
      BY <1>1, <2>2
    <3> QED
      BY <1>1, <3>1 DEF PortInv, CallersKnow, Recorded, LedgerKey
  <2> QED
    BY <2>1, <2>2
<1>7. ClaimsExist'
  <2>1. ASSUME NEW v \in Workers
        PROVE  InHand(v)' \subseteq InHand(v) /\ done'[v] \subseteq done[v]
    <3>1. done'[v] \subseteq done[v] /\ \A k \in Rows : claimed'[v][k] \in {0, claimed[v][k]}
      BY <1>1, <1>2 DEF OutboxTypeOK
    <3> QED
      BY <3>1 DEF InHand
  <2> QED
    BY <1>1, <2>1, ClaimsKept DEF PortInv
<1> QED
  BY <1>3, <1>4, <1>5, <1>6, <1>7, TypePartsNext DEF PortInv

LEMMA PortStepHolds == PortInv /\ [PortNext]_vars => PortInv'
<1> SUFFICES ASSUME PortInv, [PortNext]_vars PROVE PortInv'
  OBVIOUS
<1>1. CASE UNCHANGED vars
  <2>1. OutboxTypeOK' /\ RowsBelong' /\ ProcessedIsInLedger' /\ ClaimsExist'
    BY <1>1, OutboxAside DEF vars, portVars
  <2>2. PortTypeOK'
    BY <1>1, TypeParts DEF PortInv, PortTypeOK, vars, portVars
  <2>3. CallersKnow'
    BY <1>1, CallersKept DEF PortInv, vars, portVars
  <2> QED
    BY <2>1, <2>2, <2>3, TypePartsNext DEF PortInv
<1>2. ASSUME NEW c \in Callers, PortStep(c) PROVE PortInv'
  BY <1>2, InsertKeeps, ReturnKeeps, InlineKeeps, FailureKeeps, MarkKeeps DEF PortStep
<1>3. ASSUME NEW w \in Workers, WorkerStep(w) PROVE PortInv'
  BY <1>3, DispatchKeeps, StatementKeeps DEF WorkerStep
<1> QED
  BY <1>1, <1>2, <1>3, BuyKeeps, CrashKeeps DEF PortNext

(* Rows, payloads, callers and ledger agree in every reachable state.      *)
THEOREM PortInvariance == PortSpec => []PortInv
<1> QED
  BY PortInitHolds, PortStepHolds, PTL DEF PortSpec

(* No row leaves the queue as processed without its event in the ledger.   *)
THEOREM ProcessedIsRecorded == PortSpec => []ProcessedIsInLedger
<1>1. PortInv => ProcessedIsInLedger
  BY DEF PortInv
<1> QED
  BY <1>1, PortInvariance, PTL

-----------------------------------------------------------------------------
KeptInv == PortInv /\ ReturnedIsKept

(* Nothing that is kept is ever forgotten again.                           *)
LEMMA KeptForEver ==
  ASSUME PortInv, PortInv', [PortNext]_vars, NEW x \in Purchases, Kept(x)
  PROVE  Kept(x)'
<1>1. ledger \subseteq ledger'
  BY DEF PortNext, PortStep, WorkerStep, Buy, InsertRow, RowExists, InsertFails, InlineSucceeds,
     InlineFails, Fallback, MarkByKey, MarkByKeyFails, WorkerDispatch, WorkerStatement,
     ProcessCrash, RecordEvent, RecordEventFails, vars, portVars
<1>2. ASSUME NEW k \in Rows, payload[k] = x PROVE payload'[k] = x
  <2>1. payload' = payload \/ \E c \in Callers : InsertRow(c)
    BY DEF PortNext, PortStep, WorkerStep, Buy, RowExists, InsertFails, InlineSucceeds,
       InlineFails, Fallback, MarkByKey, MarkByKeyFails, WorkerDispatch, WorkerStatement,
       CallersAside, ProcessCrash, vars, portVars
  <2>2. ASSUME NEW c \in Callers, InsertRow(c) PROVE payload'[k] = x
    <3>1. /\ row[OutboxKey(buys[c])].status = "none" /\ pc[c] # "idle"
          /\ payload' = [payload EXCEPT ![OutboxKey(buys[c])] = buys[c]]
      BY <2>2 DEF InsertRow, Enqueue
    <3>2. OutboxKey(buys[c]) \in Rows
      BY <3>1, BusyCaller
    <3>3. payload[OutboxKey(buys[c])] = None
      BY <3>1, <3>2 DEF PortInv, RowsBelong
    <3>4. k # OutboxKey(buys[c])
      BY <1>2, <3>3, NoneFresh
    <3> QED
      BY <1>2, <3>1, <3>4, TypeParts DEF PortInv, PortTypeOK
  <2> QED
    BY <1>2, <2>1, <2>2
<1>3. ASSUME NEW k \in Rows, payload'[k] = x PROVE k \in Inserted'
  BY <1>3, NoneFresh DEF PortInv, RowsBelong, Inserted
<1> QED
  BY <1>1, <1>2, <1>3, RecordedGrows DEF Kept, Inserted

(* A call that returns leaves its purchase in the ledger or in a row.      *)
LEMMA ReturnIsKept ==
  ASSUME PortInv, NEW c \in Callers, PortStep(c), ReturnToCaller(c),
         buys[c] \notin faulted', Alone(buys[c])
  PROVE  Kept(buys[c])
<1>1. pc[c] # "idle"
  BY DEF PortStep, InsertRow, RowExists, InsertFails, InlineSucceeds, InlineFails, Fallback,
     MarkByKey, MarkByKeyFails
<1>2. buys[c] \in Purchases /\ OutboxKey(buys[c]) \in Rows
  BY <1>1, BusyCaller
<1>3. CASE pc[c] \in {"inline", "mark"}
  <2>1. payload[OutboxKey(buys[c])] = buys[c]
    BY <1>3 DEF PortInv, CallersKnow
  <2> QED
    BY <1>2, <2>1, NoneFresh DEF Kept, Inserted, PortInv, RowsBelong
<1>4. CASE pc[c] = "fallback"
  <2>1. buys[c] \in faulted
    BY <1>4 DEF PortInv, CallersKnow
  <2>2. faulted \subseteq faulted'
    BY DEF PortStep, InsertRow, RowExists, InsertFails, InlineSucceeds, InlineFails, Fallback,
       MarkByKey, MarkByKeyFails
  <2> QED
    BY <2>1, <2>2
<1>5. CASE pc[c] = "enqueue"
  <2>1. pc'[c] = "idle"
    BY TypeParts DEF ReturnToCaller, PortInv, PortTypeOK
  <2>2. RowExists(c)
    BY <1>5, <2>1, TypeParts DEF PortStep, InsertRow, InsertFails, InlineSucceeds, InlineFails,
       Fallback, MarkByKey, MarkByKeyFails, PortInv, PortTypeOK
  <2> DEFINE k == OutboxKey(buys[c])
  <2>3. row[k].status # "none"
    BY <2>2 DEF RowExists
  <2>4. payload[k] # None /\ OutboxKey(payload[k]) = k
    BY <1>2, <2>3 DEF PortInv, RowsBelong
  <2>5. payload[k] \in Purchases
    BY <1>2, <2>4, TypeParts DEF PortInv, PortTypeOK
  <2>6. payload[k] = buys[c]
    BY <1>2, <2>4, <2>5 DEF Alone, OutboxKey
  <2> QED
    BY <1>2, <2>3, <2>6 DEF Kept, Inserted
<1>6. pc[c] \in {"idle", "enqueue", "inline", "fallback", "mark"}
  BY TypeParts DEF PortInv, PortTypeOK
<1> QED
  BY <1>1, <1>3, <1>4, <1>5, <1>6

LEMMA ReturnedStep ==
  ASSUME PortInv, PortInv', ReturnedIsKept, [PortNext]_vars
  PROVE  ReturnedIsKept'
<1> SUFFICES ASSUME NEW x \in returned' \ faulted', Alone(x) PROVE Kept(x)'
  BY DEF ReturnedIsKept, Alone
<1>1. x \in Purchases
  BY TypePartsNext DEF PortInv, PortTypeOK
<1>2. faulted \subseteq faulted'
  BY DEF PortNext, PortStep, WorkerStep, Buy, InsertRow, RowExists, InsertFails, InlineSucceeds,
     InlineFails, Fallback, MarkByKey, MarkByKeyFails, WorkerDispatch, WorkerStatement,
     CallersAside, ProcessCrash, vars, portVars
<1>3. returned' = returned \/ \E c \in Callers : PortStep(c) /\ ReturnToCaller(c)
  BY DEF PortNext, PortStep, WorkerStep, Buy, InsertRow, RowExists, InsertFails, InlineSucceeds,
     InlineFails, Fallback, MarkByKey, MarkByKeyFails, WorkerDispatch, WorkerStatement,
     CallersAside, ProcessCrash, vars, portVars
<1>4. Kept(x)
  <2>1. CASE x \in returned
    BY <1>2, <2>1 DEF ReturnedIsKept
  <2>2. CASE x \notin returned
    <3>1. PICK c \in Callers : PortStep(c) /\ ReturnToCaller(c) /\ x = buys[c]
      BY <1>3, <2>2 DEF ReturnToCaller
    <3> QED
      BY <3>1, ReturnIsKept
  <2> QED
    BY <2>1, <2>2
<1> QED
  BY <1>1, <1>4, KeptForEver

(* A purchase that shares its outbox key with no other and whose call      *)
(* returned is in the ledger or in a row, however the process crashed.     *)
THEOREM ReturnedAreKept == PortSpec => []ReturnedIsKept
<1>1. Init => KeptInv
  BY PortInitHolds DEF Init, KeptInv, ReturnedIsKept
<1>2. KeptInv /\ [PortNext]_vars => KeptInv'
  BY PortStepHolds, ReturnedStep DEF KeptInv
<1>3. KeptInv => ReturnedIsKept
  BY DEF KeptInv
<1> QED
  BY <1>1, <1>2, <1>3, PTL DEF PortSpec

-----------------------------------------------------------------------------
(* How often a row was tried.  markFailed looks at the attempts the claim  *)
(* returned, which may lag behind the row by then.                         *)

AttemptsCounted == \A w \in Workers, k \in Rows : claimed[w][k] <= row[k].attempts

(* What a step may do to the attempts of a row and to what workers believe *)
(* of them.                                                                *)
CountsOn ==
  \A k \in Rows :
    /\ row'[k].attempts >= row[k].attempts \/ (row[k].status = "none" /\ row'[k].status = "pending")
    /\ row'[k].status = "dead_letter" =>
         \/ row[k].status = "dead_letter"
         \/ row'[k].attempts = row[k].attempts /\ \E w \in Workers : claimed[w][k] >= MaxAttempts
    /\ \A w \in Workers : claimed'[w][k] \in {0, claimed[w][k], row'[k].attempts}

LEMMA CountsOnKeeps ==
  ASSUME OutboxTypeOK, OutboxTypeOK', ClaimsExist, AttemptsCounted, DeadAfterMaxAttempts, CountsOn
  PROVE  (AttemptsCounted /\ DeadAfterMaxAttempts)'
<1>1. ASSUME NEW k \in Rows, NEW w \in Workers
      PROVE  /\ row[k].attempts \in Nat /\ row'[k].attempts \in Nat /\ claimed[w][k] \in Nat
             /\ claimed[w][k] <= row[k].attempts
  BY <1>1 DEF OutboxTypeOK, AttemptsCounted, Row
<1>2. ASSUME NEW k \in Rows, NEW w \in Workers, row[k].status = "none"
      PROVE  claimed[w][k] = 0
  <2>1. ~(claimed[w][k] > 0)
    BY <1>2, InHandIs DEF ClaimsExist
  <2> QED
    BY <1>1, <2>1
<1>3. AttemptsCounted'
  <2> SUFFICES ASSUME NEW w \in Workers, NEW k \in Rows PROVE claimed'[w][k] <= row'[k].attempts
    BY DEF AttemptsCounted
  <2>1. claimed'[w][k] \in {0, claimed[w][k], row'[k].attempts}
    BY DEF CountsOn
  <2>2. row'[k].attempts >= row[k].attempts \/ row[k].status = "none"
    BY DEF CountsOn
  <2> QED
    BY <1>1, <1>2, <2>1, <2>2
<1>4. DeadAfterMaxAttempts'
  <2> SUFFICES ASSUME NEW k \in Rows, row'[k].status = "dead_letter"
               PROVE  row'[k].attempts >= MaxAttempts
    BY DEF DeadAfterMaxAttempts
  <2>1. CASE row[k].status = "dead_letter"
    <3>1. row[k].attempts >= MaxAttempts /\ row'[k].attempts >= row[k].attempts
      BY <2>1 DEF CountsOn, DeadAfterMaxAttempts
    <3>2. row[k].attempts \in Nat /\ row'[k].attempts \in Nat
      BY DEF OutboxTypeOK, Row
    <3> QED
      BY <3>1, <3>2, MaxAttemptsPositive
  <2>2. CASE row[k].status # "dead_letter"
    <3>1. row'[k].attempts = row[k].attempts /\ \E w \in Workers : claimed[w][k] >= MaxAttempts
      BY <2>2 DEF CountsOn
    <3> QED
      BY <1>1, <3>1, MaxAttemptsPositive
  <2> QED
    BY <2>1, <2>2
<1> QED
  BY <1>3, <1>4

(* Steps that touch no row and at most drop claims.                        *)
LEMMA RowsAsideCount ==
  ASSUME OutboxTypeOK, row' = row,
         \A w \in Workers, k \in Rows : claimed'[w][k] \in {0, claimed[w][k]}
  PROVE  CountsOn
BY DEF CountsOn, OutboxTypeOK, Row

LEMMA CallerCounts ==
  ASSUME PortInv, NEW c \in Callers, Buy(c) \/ PortStep(c) PROVE CountsOn
<1>1. OutboxTypeOK
  BY TypeParts DEF PortInv
<1>2. CASE UNCHANGED <<row, claimed>>
  BY <1>1, <1>2, RowsAsideCount
<1>3. CASE InsertRow(c)
  <2>1. OutboxKey(buys[c]) \in Rows
    BY <1>3, BusyCaller DEF InsertRow
  <2>2. Enqueue(OutboxKey(buys[c]))
    BY <1>3 DEF InsertRow
  <2>3. ASSUME NEW e \in Rows, Enqueue(e) PROVE CountsOn
    BY <1>1, <2>3 DEF Enqueue, CountsOn, OutboxTypeOK, Row
  <2> QED
    BY <2>1, <2>2, <2>3
<1>4. CASE MarkByKey(c)
  <2>1. OutboxKey(buys[c]) \in Rows
    BY <1>4, BusyCaller DEF MarkByKey
  <2>2. /\ row' = row \/ row' = [row EXCEPT ![OutboxKey(buys[c])].status = "processed"]
        /\ claimed' = claimed
    BY <1>4 DEF MarkByKey
  <2>3. ASSUME NEW e \in Rows, row' = [row EXCEPT ![e].status = "processed"], claimed' = claimed
        PROVE  CountsOn
    BY <1>1, <2>3 DEF CountsOn, OutboxTypeOK, Row
  <2> QED
    BY <1>2, <2>1, <2>2, <2>3
<1> QED
  BY <1>2, <1>3, <1>4 DEF PortStep, Buy, RowExists, InsertFails, InlineSucceeds, InlineFails,
     Fallback, MarkByKeyFails, outboxVars

LEMMA WorkerCounts ==
  ASSUME PortInv, NEW w \in Workers, WorkerStep(w) \/ ProcessCrash(w) PROVE CountsOn
<1>1. OutboxTypeOK
  BY TypeParts DEF PortInv
<1>2. CASE ProcessCrash(w)
  BY <1>1, <1>2, RowsAsideCount DEF ProcessCrash, OutboxTypeOK
<1>3. CASE Claim(w)
  <2>1. PICK S \in SUBSET Rows :
          /\ row' = [e \in Rows |-> IF e \in S THEN [row[e] EXCEPT !.attempts = @ + 1] ELSE row[e]]
          /\ claimed' = [claimed EXCEPT ![w] = [e \in Rows |-> IF e \in S THEN row[e].attempts + 1 ELSE 0]]
    BY <1>3 DEF Claim, Oldest
  <2>2. ASSUME NEW e \in Rows
        PROVE  /\ row[e].attempts \in Nat
               /\ row'[e].status = row[e].status
               /\ row'[e].attempts = IF e \in S THEN row[e].attempts + 1 ELSE row[e].attempts
    BY <1>1, <2>1 DEF OutboxTypeOK, Row
  <2>3. ASSUME NEW v \in Workers, NEW e \in Rows
        PROVE  claimed'[v][e] = IF v = w THEN IF e \in S THEN row[e].attempts + 1 ELSE 0
                                         ELSE claimed[v][e]
    BY <1>1, <2>1 DEF OutboxTypeOK
  <2> QED
    BY <2>2, <2>3 DEF CountsOn
<1>4. CASE MarkProcessed(w) \/ MarkProcessedFails(w)
  <2>1. claimed' = claimed
    BY <1>4 DEF MarkProcessed, MarkProcessedFails, EndTick
  <2>2. ASSUME NEW e \in Rows
        PROVE  row'[e] = row[e] \/ row'[e] = [row[e] EXCEPT !.status = "processed"]
    BY <1>4 DEF MarkProcessed, MarkProcessedFails
  <2>3. ASSUME NEW e \in Rows
        PROVE  /\ row'[e].attempts = row[e].attempts /\ row[e].attempts \in Nat
               /\ row'[e].status = "dead_letter" => row[e].status = "dead_letter"
    <3>1. row[e] \in Row
      BY <1>1 DEF OutboxTypeOK
    <3>2. [row[e] EXCEPT !.status = "processed"].attempts = row[e].attempts
      BY <3>1 DEF Row
    <3>3. [row[e] EXCEPT !.status = "processed"].status = "processed"
      BY <3>1 DEF Row
    <3> QED
      BY <2>2, <3>1, <3>2, <3>3 DEF Row
  <2> QED
    BY <2>1, <2>3 DEF CountsOn
<1>5. ASSUME NEW k \in Rows,
             DispatchSucceeds(w, k) \/ DispatchFails(w, k) \/ MarkFailedFails(w, k)
      PROVE  CountsOn
  <2>1. claimed' = [claimed EXCEPT ![w][k] = 0]
    BY <1>5 DEF DispatchSucceeds, DispatchFails, MarkFailedFails, Dispatched
  <2>2. \A v \in Workers, e \in Rows : claimed'[v][e] \in {0, claimed[v][e]}
    BY <1>1, <2>1 DEF OutboxTypeOK
  <2>3. CASE row' = row
    BY <1>1, <2>2, <2>3, RowsAsideCount
  <2>4. CASE DispatchFails(w, k) /\ Exhausted(claimed[w][k])
    <3>1. row' = [row EXCEPT ![k].status = "dead_letter"] /\ claimed[w][k] >= MaxAttempts
      BY <2>4 DEF DispatchFails, Exhausted
    <3>2. \A e \in Rows : /\ row'[e].attempts = row[e].attempts /\ row[e].attempts \in Nat
                          /\ e # k => row'[e] = row[e]
      BY <1>1, <3>1 DEF OutboxTypeOK, Row
    <3> QED
      BY <2>2, <3>1, <3>2 DEF CountsOn
  <2>5. CASE DispatchFails(w, k) /\ ~Exhausted(claimed[w][k])
    <3>1. row' = [row EXCEPT ![k].status = "pending"]
      BY <2>5 DEF DispatchFails
    <3>2. \A e \in Rows : /\ row'[e].attempts = row[e].attempts /\ row[e].attempts \in Nat
                          /\ row'[e].status = "dead_letter" => row[e].status = "dead_letter"
      BY <1>1, <3>1 DEF OutboxTypeOK, Row
    <3> QED
      BY <2>2, <3>2 DEF CountsOn
  <2> QED
    BY <1>5, <2>3, <2>4, <2>5 DEF DispatchSucceeds, MarkFailedFails
<1> QED
  BY <1>2, <1>3, <1>4, <1>5 DEF WorkerStep, WorkerDispatch, WorkerStatement

(* The compliance outbox gives no row up before MaxAttempts claims either, *)
(* although a call may settle its row while a worker has it.               *)
THEOREM ComplianceRowsGivenUpLate == PortSpec => []DeadAfterMaxAttempts
<1>1. Init => AttemptsCounted /\ DeadAfterMaxAttempts
  BY DEF Init, OutboxInit, AttemptsCounted, DeadAfterMaxAttempts
<1>2. PortInv /\ PortInv' /\ AttemptsCounted /\ DeadAfterMaxAttempts /\ [PortNext]_vars
        => (AttemptsCounted /\ DeadAfterMaxAttempts)'
  <2> SUFFICES ASSUME PortInv, PortInv', AttemptsCounted, DeadAfterMaxAttempts, [PortNext]_vars
               PROVE  (AttemptsCounted /\ DeadAfterMaxAttempts)'
    OBVIOUS
  <2>1. OutboxTypeOK /\ OutboxTypeOK' /\ ClaimsExist
    BY TypeParts, TypePartsNext DEF PortInv
  <2>2. CASE UNCHANGED vars
    BY <2>2 DEF vars, outboxVars, AttemptsCounted, DeadAfterMaxAttempts
  <2>3. CASE CountsOn
    BY <2>1, <2>3, CountsOnKeeps
  <2> QED
    BY <2>2, <2>3, CallerCounts, WorkerCounts DEF PortNext
<1> QED
  BY <1>1, <1>2, PortInvariance, PTL DEF PortSpec
=============================================================================
