------------------------ MODULE PostgresWallet_proofs ------------------------
(***************************************************************************)
(* Theorems about PostgresWallet, for every set of players, reservations,  *)
(* keys, concurrent calls and every retry bound.                           *)
(***************************************************************************)
EXTENDS PostgresWallet, TLAPS, FiniteSetTheorems, WellFoundedInduction

(* The types of what the end of a transaction writes.                      *)
SessionOK ==
  /\ lock   \in [Rows -> Procs \cup {None}]
  /\ pc     \in [Procs -> {"idle", "begin", "locking"}]
  /\ call   \in [Procs -> Call]
  /\ todo   \in [Procs -> SUBSET Rows]
  /\ snap   \in [Procs -> [Holds -> Hold]]
  /\ stale  \in [Procs -> SUBSET Rows]
  /\ seen   \in [Procs -> [Accounts -> Balance]]
  /\ tries  \in [Procs -> 0..MaxRetries]

TablesOK ==
  /\ acct   \in [Accounts -> Balance]
  /\ res    \in [Holds -> Hold]
  /\ ledger \subseteq LedgerRow
  /\ outbox \subseteq Keys \X Players
  /\ due    \subseteq Holds

LEMMA TypeParts == TypeOK <=> TablesOK /\ SessionOK
  BY DEF TypeOK, TablesOK, SessionOK

LEMMA ConstantTypes ==
  /\ NoCall \in Call
  /\ NoHold \in Hold
  /\ NoSnap \in [Holds -> Hold]
  /\ Unread \in [Accounts -> Balance]
  /\ \A a \in Accounts : OpeningBalance(a) \in Balance
<1>1. NoCall \in Call
  BY DEF NoCall, Call, Sides
<1>2. NoHold \in Hold
  BY DEF NoHold, Hold, HoldStatus
<1>3. NoSnap \in [Holds -> Hold]
  BY <1>2 DEF NoSnap
<1>4. Unread \in [Accounts -> Balance]
  BY DEF Unread, Balance
<1>5. \A a \in Accounts : OpeningBalance(a) \in Balance
  BY OpeningBalances DEF OpeningBalance, Balance
<1> QED
  BY <1>1, <1>2, <1>3, <1>4, <1>5

LEMMA InitType == Init => TypeOK
  BY ConstantTypes, MaxRetriesType DEF Init, TypeOK, Rows

LEMMA ReturnType ==
  ASSUME NEW p \in Procs, TypeOK, Return(p), stale' \in [Procs -> SUBSET Rows]
  PROVE  SessionOK'
<1>1. lock' \in [Rows -> Procs \cup {None}]
  BY DEF TypeOK, Return, Unlocked
<1>2. pc' \in [Procs -> {"idle", "begin", "locking"}] /\ tries' \in [Procs -> 0..MaxRetries]
  BY MaxRetriesType DEF TypeOK, Return
<1>3. call' \in [Procs -> Call]
  BY ConstantTypes DEF TypeOK, Return
<1>4. todo' \in [Procs -> SUBSET Rows]
  BY DEF TypeOK, Return
<1>5. snap' \in [Procs -> [Holds -> Hold]] /\ seen' \in [Procs -> [Accounts -> Balance]]
  BY ConstantTypes DEF TypeOK, Return
<1> QED
  BY <1>1, <1>2, <1>3, <1>4, <1>5 DEF SessionOK

LEMMA FailType ==
  ASSUME NEW p \in Procs, TypeOK, Fail(p)
  PROVE  TypeOK'
<1>1. stale' \in [Procs -> SUBSET Rows]
  BY DEF Fail, TypeOK
<1>2. SessionOK'
  BY <1>1, ReturnType DEF Fail
<1>3. TablesOK'
  BY DEF Fail, TypeOK, TablesOK, tables
<1> QED
  BY <1>2, <1>3 DEF TypeOK, TablesOK, SessionOK

LEMMA CommittedType ==
  ASSUME NEW p \in Procs, NEW W \in SUBSET Rows, TypeOK, Committed(p, W)
  PROVE  SessionOK'
<1>1. stale' \in [Procs -> SUBSET Rows]
  BY DEF Committed, TypeOK
<1> QED
  BY <1>1, ReturnType DEF Committed

LEMMA RetryType ==
  ASSUME NEW p \in Procs, TypeOK, RollbackAndRetry(p)
  PROVE  TypeOK'
<1>1. CASE RepeatableRead(call[p]) /\ tries[p] < MaxRetries
  <2>1. lock' \in [Rows -> Procs \cup {None}]
    BY <1>1 DEF TypeOK, RollbackAndRetry, Unlocked
  <2>2. tries' \in [Procs -> 0..MaxRetries]
    <3>1. tries' = [tries EXCEPT ![p] = tries[p] + 1]
      BY <1>1 DEF RollbackAndRetry, NextTry
    <3>2. tries[p] + 1 \in 0..MaxRetries /\ tries \in [Procs -> 0..MaxRetries]
      BY <1>1, MaxRetriesType DEF TypeOK
    <3> QED
      BY <3>1, <3>2
  <2>3. pc' \in [Procs -> {"idle", "begin", "locking"}] /\ call' \in [Procs -> Call]
    BY <1>1 DEF TypeOK, RollbackAndRetry, NextTry
  <2>4. todo' \in [Procs -> SUBSET Rows] /\ stale' \in [Procs -> SUBSET Rows]
    BY <1>1 DEF TypeOK, RollbackAndRetry, NextTry
  <2>5. snap' \in [Procs -> [Holds -> Hold]] /\ seen' \in [Procs -> [Accounts -> Balance]]
    <3>1. snap' = [snap EXCEPT ![p] = NoSnap] /\ seen' = [seen EXCEPT ![p] = Unread]
      BY <1>1 DEF RollbackAndRetry
    <3>2. snap \in [Procs -> [Holds -> Hold]] /\ seen \in [Procs -> [Accounts -> Balance]]
      BY DEF TypeOK
    <3> QED
      BY <3>1, <3>2, ConstantTypes
  <2>6. TablesOK'
    BY <1>1 DEF TypeOK, RollbackAndRetry, TablesOK, tables
  <2> QED
    BY <2>1, <2>2, <2>3, <2>4, <2>5, <2>6 DEF TypeOK, TablesOK
<1>2. CASE ~(RepeatableRead(call[p]) /\ tries[p] < MaxRetries)
  BY <1>2, FailType DEF RollbackAndRetry
<1> QED
  BY <1>1, <1>2

LEMMA StartType ==
  ASSUME NEW p \in Procs, NEW c \in Call, TypeOK, Start(p, c)
  PROVE  TypeOK'
  BY MaxRetriesType DEF TypeOK, Start, tables

(* In a state with well-formed calls a call locks rows that exist.         *)
LEMMA RowsToLockType ==
  ASSUME TypeOK, CallShape, NEW p \in Procs
  PROVE  RowsToLock(call[p]) \subseteq Rows
  BY DEF TypeOK, CallShape, CallFits, RowsToLock, Rows, PostingOps, Call, Accounts

-----------------------------------------------------------------------------
(* What a step does to the other processes when process p returns.         *)

(* No reservation disappears or changes its wallet.                        *)
HoldsKept ==
  \A h \in Holds : res[h].status # "none" =>
    res'[h].status # "none" /\ res'[h].wallet = res[h].wallet

LEMMA ReturnShape ==
  ASSUME IInv, NEW p \in Procs, Return(p), HoldsKept
  PROVE  CallShape'
<1> SUFFICES ASSUME NEW q \in Procs
             PROVE  CallFits(q)'
  BY DEF CallShape
<1>1. CASE q = p
  BY <1>1 DEF IInv, TypeOK, Return, NoCall, PostingOps, CallFits
<1>2. CASE q # p
  <2>1. pc'[q] = pc[q] /\ call'[q] = call[q]
    BY <1>2 DEF IInv, TypeOK, Return
  <2> QED
    BY <2>1 DEF IInv, CallShape, CallFits, HoldsKept
<1> QED
  BY <1>1, <1>2

LEMMA ReturnLocks ==
  ASSUME IInv, NEW p \in Procs, Return(p)
  PROVE  /\ LocksHeld'
         /\ \A q \in Procs, r \in Rows : lock'[r] = q => q # p /\ lock[r] = q /\ seen'[q] = seen[q]
<1>1. \A q \in Procs, r \in Rows : lock'[r] = q <=> q # p /\ lock[r] = q
  BY NoneNotProc DEF IInv, TypeOK, Return, Unlocked
<1>2. \A q \in Procs : q # p => /\ pc'[q] = pc[q] /\ call'[q] = call[q]
                                /\ todo'[q] = todo[q] /\ seen'[q] = seen[q]
  BY DEF IInv, TypeOK, Return
<1>3. pc'[p] = "idle" /\ todo'[p] = {}
  BY DEF IInv, TypeOK, Return
<1>4. LocksHeld'
  <2> SUFFICES ASSUME NEW q \in Procs
               PROVE  /\ pc'[q] # "locking" => todo'[q] = {}
                      /\ \A r \in Rows : lock'[r] = q => pc'[q] = "locking" /\ r \notin todo'[q]
                      /\ pc'[q] = "locking" /\ call'[q].op # "expire" =>
                           \A r \in RowsToLock(call'[q]) : r \in todo'[q] \/ lock'[r] = q
    BY DEF LocksHeld, RowsToLock
  <2>1. CASE q = p
    BY <2>1, <1>1, <1>3
  <2>2. CASE q # p
    BY <2>2, <1>1, <1>2, RowsToLockType DEF IInv, LocksHeld
  <2> QED
    BY <2>1, <2>2
<1> QED
  BY <1>1, <1>2, <1>4

(* A transaction that ends without writing keeps the invariant.            *)
LEMMA FailKeeps ==
  ASSUME IInv, NEW p \in Procs, Fail(p)
  PROVE  IInv'
<1>1. TypeOK'
  BY FailType DEF IInv
<1>2. Return(p) /\ UNCHANGED tables
  BY DEF Fail
<1>3. HoldsKept
  BY <1>2 DEF HoldsKept, tables
<1>4. CallShape' /\ LocksHeld'
  BY <1>2, <1>3, ReturnShape, ReturnLocks
<1>5. HoldShape' /\ NonNegative' /\ CommittedIffDebited' /\ OncePerKey'
  BY <1>2 DEF IInv, tables, HoldShape, NonNegative, CommittedIffDebited, OncePerKey
<1>6. ReadsAreCurrent'
  BY <1>2, ReturnLocks DEF IInv, tables, ReadsAreCurrent, Rows
<1> QED
  BY <1>1, <1>4, <1>5, <1>6 DEF IInv


(* Tables are untouched: the parts of the invariant about them carry over. *)
LEMMA TablesKept ==
  ASSUME IInv, UNCHANGED <<tables, due>>
  PROVE  HoldShape' /\ NonNegative' /\ CommittedIffDebited' /\ OncePerKey' /\ HoldsKept
  BY DEF IInv, tables, HoldShape, NonNegative, CommittedIffDebited, OncePerKey, HoldsKept

(* Rolling back to try again keeps the invariant.                          *)
LEMMA RetryKeeps ==
  ASSUME IInv, NEW p \in Procs, pc[p] = "locking", RollbackAndRetry(p)
  PROVE  IInv'
<1>1. CASE RepeatableRead(call[p]) /\ tries[p] < MaxRetries
  <2>1. TypeOK'
    BY RetryType DEF IInv
  <2>2. UNCHANGED <<tables, due, call>> /\ lock' = Unlocked(p)
        /\ pc' = [pc EXCEPT ![p] = "begin"] /\ todo' = [todo EXCEPT ![p] = {}]
        /\ seen' = [seen EXCEPT ![p] = Unread]
    BY <1>1 DEF RollbackAndRetry
  <2>3. HoldShape' /\ NonNegative' /\ CommittedIffDebited' /\ OncePerKey'
    BY <2>2, TablesKept
  <2>4. \A q \in Procs, r \in Rows : lock'[r] = q <=> q # p /\ lock[r] = q
    BY <2>2, NoneNotProc DEF IInv, TypeOK, Unlocked
  <2>5. \A q \in Procs : q # p => /\ pc'[q] = pc[q] /\ call'[q] = call[q]
                                  /\ todo'[q] = todo[q] /\ seen'[q] = seen[q]
    BY <2>2 DEF IInv, TypeOK
  <2>6. pc'[p] = "begin" /\ todo'[p] = {}
    BY <2>2 DEF IInv, TypeOK
  <2>7. CallShape'
    BY <2>2, <2>5, <2>6 DEF IInv, CallShape, CallFits, tables
  <2>8. LocksHeld'
    <3> SUFFICES ASSUME NEW q \in Procs
                 PROVE  /\ pc'[q] # "locking" => todo'[q] = {}
                        /\ \A r \in Rows : lock'[r] = q => pc'[q] = "locking" /\ r \notin todo'[q]
                        /\ pc'[q] = "locking" /\ call'[q].op # "expire" =>
                             \A r \in RowsToLock(call'[q]) : r \in todo'[q] \/ lock'[r] = q
      BY DEF LocksHeld, RowsToLock
    <3>1. CASE q = p
      BY <3>1, <2>4, <2>6
    <3>2. CASE q # p
      BY <3>2, <2>4, <2>5, RowsToLockType DEF IInv, LocksHeld
    <3> QED
      BY <3>1, <3>2
  <2>9. ReadsAreCurrent'
    BY <2>2, <2>4, <2>5 DEF IInv, tables, ReadsAreCurrent, Rows
  <2> QED
    BY <2>1, <2>3, <2>7, <2>8, <2>9 DEF IInv
<1>2. CASE ~(RepeatableRead(call[p]) /\ tries[p] < MaxRetries)
  BY <1>2, FailKeeps DEF RollbackAndRetry
<1> QED
  BY <1>1, <1>2

(* A new call with fitting arguments keeps the invariant.                  *)
LEMMA StartKeeps ==
  ASSUME IInv, NEW p \in Procs, NEW c \in Call, Start(p, c), c.op # "none",
         c.op \in {"reserve", "increase", "release", "commit"} => c.hold \in Holds,
         c.op \in {"reserve", "increase"} => c.from \in Players,
         c.op \in {"increase", "release", "commit"} => res[c.hold].status # "none",
         c.op = "commit" => c.from = res[c.hold].wallet,
         c.op \in PostingOps => /\ c.from \in Accounts /\ c.to \in Accounts
                                /\ c.from # c.to /\ c.key \in Keys
  PROVE  IInv'
<1>1. TypeOK'
  BY StartType DEF IInv
<1>2. UNCHANGED <<tables, due, lock, todo, seen>>
  BY DEF Start
<1>3. HoldShape' /\ NonNegative' /\ CommittedIffDebited' /\ OncePerKey'
  BY <1>2, TablesKept
<1>4. pc'[p] = "begin" /\ call'[p] = c /\ pc[p] = "idle"
      /\ \A q \in Procs : q # p => pc'[q] = pc[q] /\ call'[q] = call[q]
  BY DEF IInv, TypeOK, Start
<1>5. CallShape'
  BY <1>2, <1>4 DEF IInv, CallShape, CallFits, tables
<1>6. LocksHeld'
  BY <1>2, <1>4 DEF IInv, LocksHeld, RowsToLock
<1>7. ReadsAreCurrent'
  BY <1>2 DEF IInv, ReadsAreCurrent, tables
<1> QED
  BY <1>1, <1>3, <1>5, <1>6, <1>7 DEF IInv

(* Every call a caller can make fits.                                      *)
LEMMA CallStepKeeps ==
  ASSUME IInv, NEW p \in Procs, CallStep(p)
  PROVE  IInv'
<1> USE DEF NoCall, Call, Operations, Sides
<1>1. \A h \in Holds : res[h].status # "none" => res[h].wallet \in Players
  BY DEF IInv, HoldShape
<1>2. CASE Reserve(p)
  <2> PICK h \in Holds, w \in Players, a \in Amounts :
        Start(p, [NoCall EXCEPT !.op = "reserve", !.hold = h, !.from = w, !.amt = a])
    BY <1>2 DEF Reserve
  <2>1. [NoCall EXCEPT !.op = "reserve", !.hold = h, !.from = w, !.amt = a] \in Call
    BY AmountsPositive DEF Accounts
  <2> QED
    BY <1>1, <2>1, KindsDisjoint, StartKeeps DEF Accounts, PostingOps
<1>3. CASE IncreaseReservation(p)
  <2> PICK h \in Holds, a \in Amounts :
        /\ res[h].status # "none"
        /\ Start(p, [NoCall EXCEPT !.op = "increase", !.hold = h, !.from = res[h].wallet, !.amt = a])
    BY <1>3 DEF IncreaseReservation
  <2>1. [NoCall EXCEPT !.op = "increase", !.hold = h, !.from = res[h].wallet, !.amt = a] \in Call
    BY <1>1, AmountsPositive DEF Accounts
  <2> QED
    BY <1>1, <2>1, KindsDisjoint, StartKeeps DEF Accounts, PostingOps
<1>4. CASE ReleaseReservation(p)
  <2> PICK h \in Holds, a \in Amounts :
        /\ res[h].status # "none"
        /\ Start(p, [NoCall EXCEPT !.op = "release", !.hold = h, !.amt = a])
    BY <1>4 DEF ReleaseReservation
  <2>1. [NoCall EXCEPT !.op = "release", !.hold = h, !.amt = a] \in Call
    BY AmountsPositive
  <2> QED
    BY <1>1, <2>1, KindsDisjoint, StartKeeps DEF Accounts, PostingOps
<1>5. CASE CommitReservation(p)
  <2> PICK h \in Holds, to \in Players, s \in TargetSides, k \in Keys :
        /\ res[h].status # "none"
        /\ res[h].wallet # to
        /\ Start(p, [NoCall EXCEPT !.op = "commit", !.hold = h, !.from = res[h].wallet,
                                   !.to = to, !.side = s, !.key = k])
    BY <1>5 DEF CommitReservation
  <2>1. [NoCall EXCEPT !.op = "commit", !.hold = h, !.from = res[h].wallet,
                       !.to = to, !.side = s, !.key = k] \in Call
    BY <1>1, TargetSidesType DEF Accounts
  <2> QED
    BY <1>1, <2>1, KindsDisjoint, StartKeeps DEF Accounts, PostingOps
<1>6. CASE Transfer(p)
  <2> PICK from \in Players, to \in Players, a \in Amounts, s \in TargetSides, k \in Keys :
        /\ from # to
        /\ Start(p, [NoCall EXCEPT !.op = "transfer", !.from = from, !.to = to,
                                   !.amt = a, !.side = s, !.key = k])
    BY <1>6 DEF Transfer
  <2>1. [NoCall EXCEPT !.op = "transfer", !.from = from, !.to = to,
                       !.amt = a, !.side = s, !.key = k] \in Call
    BY AmountsPositive, TargetSidesType DEF Accounts
  <2> QED
    BY <1>1, <2>1, KindsDisjoint, StartKeeps DEF Accounts, PostingOps
<1>7. CASE Debit(p)
  <2> PICK w \in Players, y \in System, a \in Amounts, k \in Keys :
        Start(p, [NoCall EXCEPT !.op = "debit", !.from = w, !.to = y, !.amt = a, !.key = k])
    BY <1>7 DEF Debit
  <2> DEFINE c == [NoCall EXCEPT !.op = "debit", !.from = w, !.to = y, !.amt = a, !.key = k]
  <2>1. c \in Call
    BY AmountsPositive DEF Accounts
  <2>2. c.op = "debit" /\ c.from = w /\ c.to = y /\ c.key = k
    OBVIOUS
  <2>3. w \in Accounts /\ y \in Accounts /\ w # y
    BY KindsDisjoint DEF Accounts
  <2> HIDE DEF c
  <2> QED
    BY <2>1, <2>2, <2>3, StartKeeps DEF PostingOps, c
<1>8. CASE Credit(p)
  <2> PICK w \in Players, y \in System, a \in Amounts, s \in TargetSides, k \in Keys :
        Start(p, [NoCall EXCEPT !.op = "credit", !.from = y, !.to = w,
                                !.amt = a, !.side = s, !.key = k])
    BY <1>8 DEF Credit
  <2> DEFINE c == [NoCall EXCEPT !.op = "credit", !.from = y, !.to = w,
                                !.amt = a, !.side = s, !.key = k]
  <2>1. c \in Call
    BY AmountsPositive, TargetSidesType DEF Accounts
  <2>2. c.op = "credit" /\ c.from = y /\ c.to = w /\ c.key = k
    OBVIOUS
  <2>3. w \in Accounts /\ y \in Accounts /\ w # y
    BY KindsDisjoint DEF Accounts
  <2> HIDE DEF c
  <2> QED
    BY <2>1, <2>2, <2>3, StartKeeps DEF PostingOps, c
<1>9. CASE ExpireStaleReservations(p)
  <2>1. [NoCall EXCEPT !.op = "expire"] \in Call
    OBVIOUS
  <2> QED
    BY <1>9, <2>1, StartKeeps DEF ExpireStaleReservations, PostingOps
<1> QED
  BY <1>2, <1>3, <1>4, <1>5, <1>6, <1>7, <1>8, <1>9 DEF CallStep


-----------------------------------------------------------------------------
(* Snapshot and lock steps.                                                *)

LEMMA TickKeeps ==
  ASSUME IInv, Tick
  PROVE  IInv'
<1>1. UNCHANGED <<tables, lock, session>> /\ due' \subseteq Holds
  BY DEF Tick, IInv, TypeOK
<1> QED
  BY <1>1 DEF IInv, TypeOK, CallShape, CallFits, HoldShape, LocksHeld, RowsToLock,
              ReadsAreCurrent, NonNegative, CommittedIffDebited, OncePerKey, tables, session

LEMMA BeginKeeps ==
  ASSUME IInv, NEW p \in Procs, Begin(p)
  PROVE  IInv'
<1>1. pc[p] = "begin" /\ pc' = [pc EXCEPT ![p] = "locking"]
      /\ UNCHANGED <<tables, due, lock, call, stale, seen, tries>>
  BY DEF Begin
<1>2. HoldShape' /\ NonNegative' /\ CommittedIffDebited' /\ OncePerKey'
  BY <1>1, TablesKept
<1>3. StaleHolds \subseteq Rows
  BY DEF StaleHolds, IInv, TypeOK, Rows
<1>4. todo' \in [Procs -> SUBSET Rows]
  BY <1>3, RowsToLockType DEF Begin, IInv, TypeOK
<1>5. snap' \in [Procs -> [Holds -> Hold]]
  BY ConstantTypes DEF Begin, IInv, TypeOK
<1>6. TypeOK'
  BY <1>1, <1>4, <1>5 DEF IInv, TypeOK, tables
<1>7. CallShape'
  BY <1>1 DEF IInv, TypeOK, CallShape, CallFits, tables
<1>8. \A r \in Rows : lock[r] # p
  BY <1>1 DEF IInv, LocksHeld
<1>9. LocksHeld'
  <2> SUFFICES ASSUME NEW q \in Procs
               PROVE  /\ pc'[q] # "locking" => todo'[q] = {}
                      /\ \A r \in Rows : lock'[r] = q => pc'[q] = "locking" /\ r \notin todo'[q]
                      /\ pc'[q] = "locking" /\ call'[q].op # "expire" =>
                           \A r \in RowsToLock(call'[q]) : r \in todo'[q] \/ lock'[r] = q
    BY DEF LocksHeld, RowsToLock
  <2>1. CASE q = p
    BY <2>1, <1>1, <1>8 DEF Begin, IInv, TypeOK
  <2>2. CASE q # p
    BY <2>2, <1>1 DEF Begin, IInv, TypeOK, LocksHeld
  <2> QED
    BY <2>1, <2>2
<1>10. ReadsAreCurrent'
  BY <1>1 DEF IInv, ReadsAreCurrent, tables
<1> QED
  BY <1>2, <1>6, <1>7, <1>9, <1>10 DEF IInv

LEMMA LockRowKeeps ==
  ASSUME IInv, NEW p \in Procs, LockRow(p)
  PROVE  IInv'
<1> PICK r \in NextRows(p) : /\ pc[p] = "locking" /\ Free(r) /\ ~Inactive(r)
                             /\ Acquire(p, r)
  BY DEF LockRow
<1>1. r \in todo[p] /\ r \in Rows
  BY DEF NextRows, IInv, TypeOK
<1>2. UNCHANGED <<tables, due, pc, call, snap, stale, tries>>
  BY DEF Acquire
<1>3. HoldShape' /\ NonNegative' /\ CommittedIffDebited' /\ OncePerKey'
  BY <1>2, TablesKept
<1>4. \A x \in Rows : lock'[x] = IF x = r THEN p ELSE lock[x]
  BY <1>1 DEF Acquire, IInv, TypeOK
<1>5. \A q \in Procs : todo'[q] = IF q = p THEN todo[q] \ {r} ELSE todo[q]
  BY DEF Acquire, IInv, TypeOK
<1>6. \A q \in Procs, a \in Accounts :
        seen'[q][a] = IF q = p /\ a = r THEN acct[a] ELSE seen[q][a]
  BY DEF Acquire, IInv, TypeOK
<1>7. TypeOK'
  <2>1. lock' \in [Rows -> Procs \cup {None}]
    BY <1>1 DEF Acquire, IInv, TypeOK
  <2>2. todo' \in [Procs -> SUBSET Rows]
    BY DEF Acquire, IInv, TypeOK
  <2>3. seen' \in [Procs -> [Accounts -> Balance]]
    BY DEF Acquire, IInv, TypeOK
  <2> QED
    BY <1>2, <2>1, <2>2, <2>3 DEF IInv, TypeOK, tables
<1>8. CallShape'
  BY <1>2 DEF IInv, CallShape, CallFits, tables
<1>9. LocksHeld'
  <2> SUFFICES ASSUME NEW q \in Procs
               PROVE  /\ pc'[q] # "locking" => todo'[q] = {}
                      /\ \A x \in Rows : lock'[x] = q => pc'[q] = "locking" /\ x \notin todo'[q]
                      /\ pc'[q] = "locking" /\ call'[q].op # "expire" =>
                           \A x \in RowsToLock(call'[q]) : x \in todo'[q] \/ lock'[x] = q
    BY DEF LocksHeld, RowsToLock
  <2>1. lock[r] = None
    BY DEF Free
  <2>2. RowsToLock(call[q]) \subseteq Rows
    BY RowsToLockType DEF IInv
  <2>3. pc' = pc /\ call' = call
    BY <1>2
  <2>4. pc'[q] # "locking" => todo'[q] = {}
    BY <1>5, <2>3 DEF IInv, LocksHeld
  <2>5. ASSUME NEW x \in Rows, lock'[x] = q
        PROVE  pc'[q] = "locking" /\ x \notin todo'[q]
    <3>1. CASE x = r
      BY <1>4, <1>5, <2>3, <2>5, <3>1
    <3>2. CASE x # r
      <4>1. lock[x] = q
        BY <1>4, <2>5, <3>2
      <4>2. pc[q] = "locking" /\ x \notin todo[q]
        BY <4>1 DEF IInv, LocksHeld
      <4> QED
        BY <1>5, <2>3, <4>2
    <3> QED
      BY <3>1, <3>2
  <2>6. ASSUME pc'[q] = "locking", call'[q].op # "expire", NEW x \in RowsToLock(call[q])
        PROVE  x \in todo'[q] \/ lock'[x] = q
    <3>1. x \in Rows /\ (x \in todo[q] \/ lock[x] = q)
      BY <2>2, <2>3, <2>6 DEF IInv, LocksHeld
    <3> QED
      BY <1>4, <1>5, <2>1, <3>1, NoneNotProc
  <2> QED
    BY <2>3, <2>4, <2>5, <2>6
<1>10. ReadsAreCurrent'
  BY <1>2, <1>4, <1>6 DEF IInv, ReadsAreCurrent, Inactive, tables, Rows
<1> QED
  BY <1>3, <1>7, <1>8, <1>9, <1>10 DEF IInv

LEMMA SkipKeeps ==
  ASSUME IInv, NEW p \in Procs, SkipInactive(p)
  PROVE  IInv'
<1> PICK r \in NextRows(p) :
       /\ pc[p] = "locking" /\ call[p].op = "expire"
       /\ todo' = [todo EXCEPT ![p] = @ \ {r}]
       /\ UNCHANGED <<tables, due, lock, pc, call, snap, stale, seen, tries>>
  BY DEF SkipInactive
<1>1. HoldShape' /\ NonNegative' /\ CommittedIffDebited' /\ OncePerKey'
  BY TablesKept
<1>2. TypeOK'
  BY DEF IInv, TypeOK, tables
<1>3. CallShape' /\ ReadsAreCurrent'
  BY DEF IInv, CallShape, CallFits, ReadsAreCurrent, tables
<1>4. LocksHeld'
  BY DEF IInv, TypeOK, LocksHeld, RowsToLock
<1> QED
  BY <1>1, <1>2, <1>3, <1>4 DEF IInv

LEMMA LockStepKeeps ==
  ASSUME IInv, NEW p \in Procs, LockStep(p)
  PROVE  IInv'
<1>1. CASE RejectInactive(p)
  BY <1>1, FailKeeps DEF RejectInactive
<1>2. CASE SerializationFailure(p)
  BY <1>2, RetryKeeps DEF SerializationFailure
<1>3. CASE DeadlockVictim(p)
  <2>1. pc[p] = "locking"
    BY <1>3 DEF DeadlockVictim, OnCycle, Blocked
  <2> QED
    BY <1>3, <2>1, RetryKeeps DEF DeadlockVictim
<1> QED
  BY <1>1, <1>2, <1>3, BeginKeeps, LockRowKeeps, SkipKeeps DEF LockStep


-----------------------------------------------------------------------------
(* Writing steps.  A transaction that writes owns every row it writes.     *)

LEMMA WriterOwns ==
  ASSUME IInv, NEW p \in Procs, pc[p] = "locking", todo[p] = {}, call[p].op # "expire"
  PROVE  \A r \in RowsToLock(call[p]) : r \in Rows /\ lock[r] = p
  BY RowsToLockType DEF IInv, LocksHeld

(* A reservation that is not committed was never paid for.                 *)
LEMMA ActiveUnpaid ==
  ASSUME IInv, NEW h \in Holds, res[h].status # "committed", NEW t \in ledger
  PROVE  t.via # h
  BY DEF IInv, CommittedIffDebited

(* Steps that write only reservations.  A rewritten reservation belonged   *)
(* to p or to nobody, was not committed and does not become so.            *)
Rewritten(p, h) ==
  /\ lock[h] = p \/ res[h].status = "none"
  /\ res[h].status # "committed" /\ res'[h].status # "committed"
  /\ res'[h].status # "none"
  /\ res[h].status # "none" => res'[h].wallet = res[h].wallet
  /\ res'[h].wallet \in Players

LEMMA HoldWriteKeeps ==
  ASSUME IInv, NEW p \in Procs, NEW H \in SUBSET Holds,
         NEW W \in SUBSET Rows, Committed(p, W),
         UNCHANGED <<acct, ledger, outbox, due>>,
         res' \in [Holds -> Hold],
         \A h \in Holds \ H : res'[h] = res[h],
         \A h \in H : Rewritten(p, h)
  PROVE  IInv'
<1>2. Return(p)
  BY DEF Committed
<1>3. SessionOK'
  BY CommittedType DEF IInv
<1>4. TypeOK'
  BY <1>3 DEF IInv, TypeOK, SessionOK
<1>5. HoldsKept
  BY DEF HoldsKept, Rewritten
<1>6. CallShape' /\ LocksHeld'
  BY <1>2, <1>5, ReturnShape, ReturnLocks
<1>7. HoldShape'
  BY DEF IInv, HoldShape, Rewritten
<1>8. NonNegative' /\ OncePerKey'
  BY DEF IInv, NonNegative, OncePerKey
<1>9. CommittedIffDebited'
  BY DEF IInv, CommittedIffDebited, Rewritten
<1>10. ReadsAreCurrent'
  <2> SUFFICES ASSUME NEW q \in Procs
               PROVE  /\ \A a \in Accounts : lock'[a] = q => seen'[q][a] = acct'[a]
                      /\ \A h \in Holds : lock'[h] = q => res'[h].status = "active"
    BY DEF ReadsAreCurrent
  <2>1. \A r \in Rows : lock'[r] = q => q # p /\ lock[r] = q /\ seen'[q] = seen[q]
    BY <1>2, ReturnLocks
  <2>2. \A a \in Accounts : lock'[a] = q => seen'[q][a] = acct'[a]
    BY <2>1 DEF IInv, ReadsAreCurrent, Rows
  <2>3. \A h \in Holds : lock'[h] = q => res'[h].status = "active"
    <3> SUFFICES ASSUME NEW h \in Holds, lock'[h] = q
                 PROVE  res'[h].status = "active"
      OBVIOUS
    <3>1. q # p /\ lock[h] = q
      BY <2>1 DEF Rows
    <3>2. res[h].status = "active"
      BY <3>1 DEF IInv, ReadsAreCurrent
    <3>3. h \notin H
      BY <3>1, <3>2 DEF Rewritten
    <3> QED
      BY <3>2, <3>3
  <2> QED
    BY <2>2, <2>3
<1> QED
  BY <1>4, <1>6, <1>7, <1>8, <1>9, <1>10 DEF IInv

LEMMA ReserveInsertKeeps ==
  ASSUME IInv, NEW p \in Procs, ReserveInsert(p)
  PROVE  IInv'
<1> DEFINE c == call[p]
<1>1. c \in Call /\ c.hold \in Holds /\ c.from \in Players
  BY DEF ReserveInsert, Ready, IInv, TypeOK, CallShape, CallFits
<1>2. [status |-> "active", wallet |-> c.from, amount |-> c.amt] \in Hold
  BY <1>1 DEF Hold, HoldStatus, Call
<1>3. res' = [res EXCEPT ![c.hold] = [status |-> "active", wallet |-> c.from, amount |-> c.amt]]
      /\ res[c.hold].status = "none" /\ Committed(p, {})
      /\ UNCHANGED <<acct, ledger, outbox, due>>
  BY DEF ReserveInsert
<1>4. res' \in [Holds -> Hold]
  BY <1>2, <1>3 DEF IInv, TypeOK
<1>5. res'[c.hold] = [status |-> "active", wallet |-> c.from, amount |-> c.amt]
      /\ \A h \in Holds \ {c.hold} : res'[h] = res[h]
  BY <1>1, <1>3 DEF IInv, TypeOK
<1>6. {c.hold} \in SUBSET Holds /\ {} \in SUBSET Rows
  BY <1>1
<1>7. /\ res'[c.hold].status = "active" /\ res'[c.hold].wallet \in Players
  BY <1>1, <1>5
<1>8. \A h \in {c.hold} : Rewritten(p, h)
  BY <1>3, <1>7 DEF Rewritten
<1> HIDE DEF c
<1> QED
  BY <1>3, <1>4, <1>5, <1>6, <1>8, HoldWriteKeeps

LEMMA IncreaseUpdateKeeps ==
  ASSUME IInv, NEW p \in Procs, IncreaseUpdate(p)
  PROVE  IInv'
<1> DEFINE c == call[p]
<1>1. c \in Call /\ c.hold \in Holds /\ c.op = "increase" /\ pc[p] = "locking" /\ todo[p] = {}
  BY DEF IncreaseUpdate, Ready, IInv, TypeOK, CallShape, CallFits
<1>2. lock[c.hold] = p
  BY <1>1, WriterOwns DEF RowsToLock
<1>3. res[c.hold].status = "active" /\ res[c.hold].wallet \in Players
  BY <1>1, <1>2 DEF IInv, ReadsAreCurrent, HoldShape
<1>4. res' = [res EXCEPT ![c.hold].amount = @ + c.amt] /\ Committed(p, {c.hold})
      /\ UNCHANGED <<acct, ledger, outbox, due>>
  BY DEF IncreaseUpdate
<1>5. res' \in [Holds -> Hold]
  <2>1. res[c.hold] \in Hold /\ c.amt \in Nat
    BY <1>1 DEF IInv, TypeOK, Call
  <2>2. [res[c.hold] EXCEPT !.amount = @ + c.amt] \in Hold
    BY <2>1 DEF Hold
  <2> QED
    BY <1>4, <2>2 DEF IInv, TypeOK
<1>6. res'[c.hold].status = "active" /\ res'[c.hold].wallet = res[c.hold].wallet
      /\ \A h \in Holds \ {c.hold} : res'[h] = res[h]
  BY <1>1, <1>3, <1>4 DEF IInv, TypeOK, Hold
<1>7. {c.hold} \in SUBSET Holds /\ {c.hold} \in SUBSET Rows
  BY <1>1 DEF Rows
<1>8. \A h \in {c.hold} : Rewritten(p, h)
  BY <1>2, <1>3, <1>6 DEF Rewritten
<1> HIDE DEF c
<1> QED
  BY <1>4, <1>5, <1>6, <1>7, <1>8, HoldWriteKeeps

LEMMA ReleaseUpdateKeeps ==
  ASSUME IInv, NEW p \in Procs, ReleaseUpdate(p)
  PROVE  IInv'
<1> DEFINE c == call[p]
<1>1. c \in Call /\ c.hold \in Holds /\ c.op = "release" /\ pc[p] = "locking" /\ todo[p] = {}
  BY DEF ReleaseUpdate, Ready, IInv, TypeOK, CallShape, CallFits
<1>2. lock[c.hold] = p
  BY <1>1, WriterOwns DEF RowsToLock
<1>3. res[c.hold].status = "active" /\ res[c.hold].wallet \in Players
  BY <1>1, <1>2 DEF IInv, ReadsAreCurrent, HoldShape
<1>4. res' = (IF c.amt >= res[c.hold].amount
              THEN [res EXCEPT ![c.hold].status = "released"]
              ELSE [res EXCEPT ![c.hold].amount = @ - c.amt])
      /\ Committed(p, {c.hold}) /\ UNCHANGED <<acct, ledger, outbox, due>>
  BY DEF ReleaseUpdate
<1>5. res' \in [Holds -> Hold]
  <2>1. res[c.hold] \in Hold /\ c.amt \in Nat
    BY <1>1 DEF IInv, TypeOK, Call
  <2>2. [res[c.hold] EXCEPT !.status = "released"] \in Hold
    BY <2>1 DEF Hold, HoldStatus
  <2>3. c.amt < res[c.hold].amount => [res[c.hold] EXCEPT !.amount = @ - c.amt] \in Hold
    BY <2>1 DEF Hold
  <2>4. c.amt >= res[c.hold].amount \/ c.amt < res[c.hold].amount
    BY <2>1 DEF Hold
  <2>5. CASE c.amt >= res[c.hold].amount
    BY <1>4, <2>2, <2>5 DEF IInv, TypeOK
  <2>6. CASE ~(c.amt >= res[c.hold].amount)
    BY <1>4, <2>3, <2>4, <2>6 DEF IInv, TypeOK
  <2> QED
    BY <2>5, <2>6
<1>6. res'[c.hold].status \in {"active", "released"} /\ res'[c.hold].wallet = res[c.hold].wallet
      /\ \A h \in Holds \ {c.hold} : res'[h] = res[h]
  BY <1>1, <1>3, <1>4 DEF IInv, TypeOK, Hold
<1>7. {c.hold} \in SUBSET Holds /\ {c.hold} \in SUBSET Rows
  BY <1>1 DEF Rows
<1>8. \A h \in {c.hold} : Rewritten(p, h)
  BY <1>2, <1>3, <1>6 DEF Rewritten
<1> HIDE DEF c
<1> QED
  BY <1>4, <1>5, <1>6, <1>7, <1>8, HoldWriteKeeps

LEMMA ExpireUpdateKeeps ==
  ASSUME IInv, NEW p \in Procs, ExpireUpdate(p)
  PROVE  IInv'
<1> DEFINE S == {h \in Holds : lock[h] = p}
<1>1. res' = [h \in Holds |-> IF h \in S THEN [res[h] EXCEPT !.status = "expired"] ELSE res[h]]
      /\ Committed(p, S) /\ UNCHANGED <<acct, ledger, outbox, due>>
  BY DEF ExpireUpdate
<1>2. \A h \in S : res[h].status = "active" /\ res[h].wallet \in Players
  BY DEF IInv, ReadsAreCurrent, HoldShape
<1>3. res' \in [Holds -> Hold]
  <2>1. ASSUME NEW h \in Holds
        PROVE  res[h] \in Hold /\ [res[h] EXCEPT !.status = "expired"] \in Hold
    <3>1. res[h] \in Hold
      BY DEF IInv, TypeOK
    <3>2. [res[h] EXCEPT !.status = "expired"] \in Hold
      BY <3>1 DEF Hold, HoldStatus
    <3> QED
      BY <3>1, <3>2
  <2> QED
    BY <1>1, <2>1
<1>4. \A h \in S : res'[h].status = "expired" /\ res'[h].wallet = res[h].wallet
  BY <1>1 DEF IInv, TypeOK, Hold
<1>5. \A h \in Holds \ S : res'[h] = res[h]
  BY <1>1
<1>6. \A h \in S : lock[h] = p
  OBVIOUS
<1>7. S \in SUBSET Holds /\ S \in SUBSET Rows
  BY DEF Rows
<1>8. \A h \in S : Rewritten(p, h)
  BY <1>2, <1>4, <1>6 DEF Rewritten
<1> HIDE DEF S
<1> QED
  BY <1>1, <1>3, <1>5, <1>7, <1>8, HoldWriteKeeps


-----------------------------------------------------------------------------
(* Postings.  First the operators executeLedger is built from.             *)

(* The winnings-first split loses nothing, and takes from deposit only     *)
(* when the winnings are used up.                                          *)
LEMMA SplitDebitSound ==
  ASSUME NEW a \in Accounts, NEW b \in Balance, NEW amt \in Nat, a \in System \/ b.win >= 0
  PROVE  /\ SplitDebit(a, b, amt).dep \in Nat /\ SplitDebit(a, b, amt).win \in Nat
         /\ SplitDebit(a, b, amt).dep + SplitDebit(a, b, amt).win = amt
         /\ a \notin System /\ SplitDebit(a, b, amt).dep > 0 => SplitDebit(a, b, amt).win = b.win
<1>1. b.win \in Int
  BY DEF Balance
<1> QED
  BY <1>1 DEF SplitDebit

LEMMA DebitedType ==
  ASSUME NEW a \in Accounts, NEW b \in Balance, NEW amt \in Nat, a \in System \/ b.win >= 0
  PROVE  Debited(a, b, amt) \in Balance
<1>1. b.dep \in Int /\ b.win \in Int /\ b.chain \in Nat
  BY DEF Balance
<1>2. SplitDebit(a, b, amt).dep \in Nat /\ SplitDebit(a, b, amt).win \in Nat
  BY SplitDebitSound
<1> QED
  BY <1>1, <1>2 DEF Debited, Balance

LEMMA CreditedType ==
  ASSUME NEW a \in Accounts, NEW b \in Balance, NEW amt \in Nat, NEW side \in Sides
  PROVE  /\ Credited(a, b, amt, side) \in Balance
         /\ Credited(a, b, amt, side).dep >= b.dep
         /\ Credited(a, b, amt, side).win >= b.win
<1>1. b.dep \in Int /\ b.win \in Int /\ b.chain \in Nat
  BY DEF Balance
<1> QED
  BY <1>1 DEF Credited, Balance

LEMMA LedgerEntryType ==
  ASSUME NEW k \in Keys, NEW from \in Accounts, NEW to \in Accounts,
         NEW bf \in Balance, NEW bt \in Balance, NEW amt \in Nat, NEW side \in Sides,
         NEW via \in Holds \cup {None}, from \in System \/ bf.win >= 0
  PROVE  LedgerEntry(k, from, bf, to, bt, amt, side, via) \in LedgerRow
<1>1. bf.chain \in Nat /\ bt.chain \in Nat
  BY DEF Balance
<1>2. SplitDebit(from, bf, amt).win \in Nat
  BY SplitDebitSound
<1>3. CreditSide(to, side) \in Sides
  BY DEF CreditSide, Sides
<1> QED
  BY <1>1, <1>2, <1>3 DEF LedgerEntry, LedgerRow

(* A posting as the invariant needs it: it debits and credits the stored   *)
(* balances and adds one entry under a new key.                            *)
Posted(p, via) ==
  LET c == call[p]
      e == LedgerEntry(c.key, c.from, acct[c.from], c.to, acct[c.to], Moved(p), c.side, via)
  IN  /\ c.from \in Accounts /\ c.to \in Accounts /\ c.from # c.to /\ c.key \in Keys
      /\ c.side \in Sides /\ Moved(p) \in Nat
      /\ lock[c.from] = p /\ lock[c.to] = p
      /\ Covers(c.from, acct[c.from], Moved(p)) /\ ~KeyUsed(ledger, c.key)
      /\ acct' = [acct EXCEPT ![c.from] = Debited(c.from, acct[c.from], Moved(p)),
                              ![c.to]   = Credited(c.to, acct[c.to], Moved(p), c.side)]
      /\ ledger' = ledger \cup {e}
      /\ outbox' = outbox \cup OutboxRows(c.key, c.from, c.to)

LEMMA ExecutePosts ==
  ASSUME IInv, NEW p \in Procs, Posting(p), NEW via \in Holds \cup {None}, ExecuteLedger(p, via)
  PROVE  Posted(p, via)
<1>1. pc[p] = "locking" /\ todo[p] = {} /\ call[p].op \in PostingOps /\ call[p] \in Call
  BY DEF Posting, Ready, PostingOps, IInv, TypeOK
<1>2. call[p].from \in Accounts /\ call[p].to \in Accounts /\ call[p].from # call[p].to
      /\ call[p].key \in Keys
  BY <1>1 DEF IInv, CallShape, CallFits
<1>3. lock[call[p].from] = p /\ lock[call[p].to] = p
  <2>1. call[p].from \in RowsToLock(call[p]) /\ call[p].to \in RowsToLock(call[p])
    BY <1>1 DEF RowsToLock, PostingOps
  <2> QED
    BY <1>1, <2>1, WriterOwns DEF PostingOps
<1>4. seen[p][call[p].from] = acct[call[p].from] /\ seen[p][call[p].to] = acct[call[p].to]
  BY <1>2, <1>3 DEF IInv, ReadsAreCurrent
<1>5. Moved(p) \in Nat
  <2>1. CASE call[p].op = "commit"
    <3>1. call[p].hold \in Holds
      BY <2>1 DEF IInv, CallShape, CallFits
    <3>2. res[call[p].hold] \in Hold
      BY <3>1 DEF IInv, TypeOK
    <3> QED
      BY <2>1, <3>2 DEF Moved, Hold
  <2>2. CASE call[p].op # "commit"
    BY <1>1, <2>2 DEF Moved, Call
  <2> QED
    BY <2>1, <2>2
<1>6. call[p].side \in Sides
  BY <1>1 DEF Call
<1> QED
  BY <1>2, <1>3, <1>4, <1>5, <1>6 DEF ExecuteLedger, Posted

LEMMA PostedTables ==
  ASSUME IInv, NEW p \in Procs, NEW via \in Holds \cup {None}, Posted(p, via)
  PROVE  /\ acct' \in [Accounts -> Balance] /\ ledger' \subseteq LedgerRow
         /\ outbox' \subseteq Keys \X Players
         /\ NonNegative' /\ OncePerKey'
         /\ \A a \in Accounts : acct'[a] # acct[a] => lock[a] = p
<1> DEFINE c == call[p]
           bf == acct[c.from]
           bt == acct[c.to]
<1>1. c.from \in Accounts /\ c.to \in Accounts /\ c.from # c.to /\ c.key \in Keys
      /\ c.side \in Sides /\ Moved(p) \in Nat
  BY DEF Posted
<1>2. bf \in Balance /\ bt \in Balance
  BY <1>1 DEF IInv, TypeOK
<1>3. c.from \in System \/ bf.win >= 0
  BY <1>1 DEF IInv, NonNegative, Accounts
<1>4. Debited(c.from, bf, Moved(p)) \in Balance
  BY <1>1, <1>2, <1>3, DebitedType
<1>5. Credited(c.to, bt, Moved(p), c.side) \in Balance
      /\ Credited(c.to, bt, Moved(p), c.side).dep >= bt.dep
      /\ Credited(c.to, bt, Moved(p), c.side).win >= bt.win
  BY <1>1, <1>2, CreditedType
<1>6. acct' \in [Accounts -> Balance]
      /\ acct'[c.from] = Debited(c.from, bf, Moved(p))
      /\ acct'[c.to] = Credited(c.to, bt, Moved(p), c.side)
      /\ \A a \in Accounts \ {c.from, c.to} : acct'[a] = acct[a]
  <2>1. acct \in [Accounts -> Balance]
    BY DEF IInv, TypeOK
  <2>2. acct' = [acct EXCEPT ![c.from] = Debited(c.from, bf, Moved(p)),
                             ![c.to]   = Credited(c.to, bt, Moved(p), c.side)]
    BY DEF Posted
  <2> HIDE DEF c, bf, bt
  <2> QED
    BY <1>1, <1>4, <1>5, <2>1, <2>2
<1>7. PICK e \in LedgerRow : ledger' = ledger \cup {e} /\ e.key = c.key
  <2> DEFINE e == LedgerEntry(c.key, c.from, bf, c.to, bt, Moved(p), c.side, via)
  <2>1. e \in LedgerRow
    BY <1>1, <1>2, <1>3, LedgerEntryType
  <2>2. ledger' = ledger \cup {e}
    BY DEF Posted
  <2>3. e.key = c.key
    BY DEF LedgerEntry
  <2> QED
    BY <2>1, <2>2, <2>3
<1>8. ledger' \subseteq LedgerRow
  BY <1>7 DEF IInv, TypeOK
<1>9. outbox' \subseteq Keys \X Players
  BY <1>1 DEF Posted, OutboxRows, IInv, TypeOK, Accounts
<1>10. OncePerKey'
  <2>1. \A t \in ledger : t.key # c.key
    BY DEF Posted, KeyUsed
  <2> QED
    BY <1>7, <2>1 DEF IInv, OncePerKey
<1>11. NonNegative'
  <2> SUFFICES ASSUME NEW w \in Players PROVE acct'[w].dep >= 0 /\ acct'[w].win >= 0
    BY DEF NonNegative
  <2>1. w \in Accounts /\ w \notin System
    BY KindsDisjoint DEF Accounts
  <2>2. acct[w].dep >= 0 /\ acct[w].win >= 0
    BY DEF IInv, NonNegative
  <2>3. CASE w = c.from
    <3>1. Debited(c.from, bf, Moved(p)).dep >= 0 /\ Debited(c.from, bf, Moved(p)).win >= 0
      BY <2>1, <2>3 DEF Posted, Covers
    <3> QED
      BY <1>6, <2>3, <3>1
  <2>4. CASE w = c.to
    <3>1. bt.dep \in Int /\ bt.win \in Int
      BY <1>2 DEF Balance
    <3>2. Credited(c.to, bt, Moved(p), c.side).dep \in Int
          /\ Credited(c.to, bt, Moved(p), c.side).win \in Int
      BY <1>5 DEF Balance
    <3> HIDE DEF c, bt
    <3>3. bt = acct[w]
      BY <2>4 DEF bt
    <3> QED
      BY <1>5, <1>6, <2>2, <2>4, <3>1, <3>2, <3>3
  <2>5. CASE w \notin {c.from, c.to}
    BY <1>6, <2>1, <2>2, <2>5
  <2> QED
    BY <2>3, <2>4, <2>5
<1>12. \A a \in Accounts : acct'[a] # acct[a] => lock[a] = p
  BY <1>6 DEF Posted
<1> QED
  BY <1>6, <1>8, <1>9, <1>10, <1>11, <1>12


(* After a posting the locks of the others are as they were, and so is     *)
(* what they read under them.                                              *)
LEMMA PostedReads ==
  ASSUME IInv, NEW p \in Procs, NEW via \in Holds \cup {None}, Posted(p, via), Return(p),
         \A h \in Holds : res'[h] # res[h] => lock[h] = p
  PROVE  ReadsAreCurrent'
<1> SUFFICES ASSUME NEW q \in Procs
             PROVE  /\ \A a \in Accounts : lock'[a] = q => seen'[q][a] = acct'[a]
                    /\ \A h \in Holds : lock'[h] = q => res'[h].status = "active"
  BY DEF ReadsAreCurrent
<1>1. \A r \in Rows : lock'[r] = q => q # p /\ lock[r] = q /\ seen'[q] = seen[q]
  BY ReturnLocks
<1>2. \A a \in Accounts : acct'[a] # acct[a] => lock[a] = p
  BY PostedTables
<1>3. \A a \in Accounts : lock'[a] = q => seen'[q][a] = acct'[a]
  BY <1>1, <1>2 DEF IInv, ReadsAreCurrent, Rows
<1>4. \A h \in Holds : lock'[h] = q => res'[h].status = "active"
  BY <1>1 DEF IInv, ReadsAreCurrent, Rows
<1> QED
  BY <1>3, <1>4

LEMMA MoveMoneyKeeps ==
  ASSUME IInv, NEW p \in Procs, MoveMoney(p)
  PROVE  IInv'
<1>1. Posting(p) /\ ExecuteLedger(p, None) /\ UNCHANGED <<res, due>>
      /\ Committed(p, {call[p].from, call[p].to})
  BY DEF MoveMoney
<1>2. Posted(p, None)
  BY <1>1, ExecutePosts
<1>3. {call[p].from, call[p].to} \in SUBSET Rows
  BY <1>2 DEF Posted, Rows
<1>4. Return(p) /\ SessionOK'
  BY <1>1, <1>3, CommittedType DEF IInv, Committed
<1>5. HoldsKept
  BY <1>1 DEF HoldsKept
<1>6. CallShape' /\ LocksHeld'
  BY <1>4, <1>5, ReturnShape, ReturnLocks
<1>7. NonNegative' /\ OncePerKey'
  BY <1>2, PostedTables
<1>8. TypeOK'
  BY <1>1, <1>2, <1>4, PostedTables DEF IInv, TypeOK, SessionOK
<1>9. ReadsAreCurrent'
  BY <1>1, <1>2, <1>4, PostedReads
<1>10. HoldShape'
  BY <1>1 DEF IInv, HoldShape
<1>11. CommittedIffDebited'
  <2> DEFINE e == LedgerEntry(call[p].key, call[p].from, acct[call[p].from], call[p].to,
                              acct[call[p].to], Moved(p), call[p].side, None)
  <2>0. ledger' = ledger \cup {e}
    BY <1>2 DEF Posted
  <2>1. ledger' = ledger \cup {e} /\ e.via = None
    BY <2>0 DEF LedgerEntry
  <2> HIDE DEF e
  <2>2. \A h \in Holds : {t \in ledger' : t.via = h} = {t \in ledger : t.via = h}
    BY <2>1, NoneIsNothing
  <2> QED
    BY <1>1, <2>2 DEF IInv, CommittedIffDebited
<1> QED
  BY <1>6, <1>7, <1>8, <1>9, <1>10, <1>11 DEF IInv

LEMMA CommitHoldKeeps ==
  ASSUME IInv, NEW p \in Procs, CommitHold(p)
  PROVE  IInv'
<1> DEFINE h == call[p].hold
<1>1. Ready(p, "commit") /\ ExecuteLedger(p, h)
      /\ res' = [res EXCEPT ![h].status = "committed"]
      /\ Committed(p, {h, call[p].from, call[p].to}) /\ UNCHANGED due
  BY DEF CommitHold
<1>2. Posting(p)
  BY <1>1 DEF Posting
<1>3. h \in Holds /\ call[p].from = res[h].wallet
  BY <1>1 DEF Ready, IInv, CallShape, CallFits
<1>4. lock[h] = p
  BY <1>1, WriterOwns DEF Ready, RowsToLock
<1>5. res[h].status = "active"
  BY <1>3, <1>4 DEF IInv, ReadsAreCurrent
<1>6. Posted(p, h)
  BY <1>1, <1>2, <1>3, ExecutePosts
<1>7. {h, call[p].from, call[p].to} \in SUBSET Rows
  BY <1>3, <1>6 DEF Posted, Rows
<1>8. Return(p) /\ SessionOK'
  BY <1>1, <1>7, CommittedType DEF IInv, Committed
<1>9. res' \in [Holds -> Hold] /\ res'[h].status = "committed"
      /\ res'[h].wallet = res[h].wallet /\ res'[h].amount = res[h].amount
      /\ \A g \in Holds \ {h} : res'[g] = res[g]
  <2>1. res[h] \in Hold
    BY <1>3 DEF IInv, TypeOK
  <2>2. [res[h] EXCEPT !.status = "committed"] \in Hold
    BY <2>1 DEF Hold, HoldStatus
  <2> HIDE DEF h
  <2> QED
    BY <1>1, <1>3, <2>1, <2>2 DEF IInv, TypeOK, Hold
<1>10. HoldsKept
  BY <1>5, <1>9 DEF HoldsKept
<1>11. CallShape' /\ LocksHeld'
  BY <1>8, <1>10, ReturnShape, ReturnLocks
<1>12. NonNegative' /\ OncePerKey'
  BY <1>3, <1>6, PostedTables
<1>13. TypeOK'
  BY <1>1, <1>3, <1>6, <1>8, <1>9, PostedTables DEF IInv, TypeOK, SessionOK
<1>14. ReadsAreCurrent'
  BY <1>3, <1>4, <1>6, <1>8, <1>9, PostedReads
<1>15. HoldShape'
  BY <1>5, <1>9 DEF IInv, HoldShape
<1>16. CommittedIffDebited'
  <2> DEFINE e == LedgerEntry(call[p].key, call[p].from, acct[call[p].from], call[p].to,
                              acct[call[p].to], Moved(p), call[p].side, h)
  <2>0. ledger' = ledger \cup {e}
    BY <1>6 DEF Posted
  <2>1. /\ ledger' = ledger \cup {e} /\ e.via = h
        /\ e.from = call[p].from /\ e.amount = Moved(p)
    BY <2>0 DEF LedgerEntry
  <2> HIDE DEF e
  <2>2. Moved(p) = res[h].amount
    BY <1>1 DEF Moved, Ready
  <2>3. {t \in ledger' : t.via = h} = {e}
    BY <1>3, <1>5, <2>1, ActiveUnpaid
  <2>4. \A g \in Holds \ {h} : {t \in ledger' : t.via = g} = {t \in ledger : t.via = g}
    BY <2>1
  <2> HIDE DEF h
  <2> QED
    BY <1>3, <1>9, <2>1, <2>2, <2>3, <2>4 DEF IInv, CommittedIffDebited
<1> QED
  BY <1>11, <1>12, <1>13, <1>14, <1>15, <1>16 DEF IInv

LEMMA WriteStepKeeps ==
  ASSUME IInv, NEW p \in Procs, WriteStep(p)
  PROVE  IInv'
<1>1. CASE ReserveExisting(p)
  <2>1. Committed(p, {}) /\ UNCHANGED <<tables, due>>
    BY <1>1 DEF ReserveExisting
  <2>2. res' \in [Holds -> Hold] /\ \A h \in Holds \ {} : res'[h] = res[h]
    BY <2>1 DEF IInv, TypeOK, tables
  <2>3. UNCHANGED <<acct, ledger, outbox, due>>
    BY <2>1 DEF tables
  <2> QED
    BY <2>1, <2>2, <2>3, HoldWriteKeeps
<1>2. CASE ReserveReject(p) \/ IncreaseReject(p) \/ PostingReject(p) \/ DuplicateKey(p)
  BY <1>2, FailKeeps DEF ReserveReject, IncreaseReject, PostingReject, DuplicateKey
<1> QED
  BY <1>1, <1>2, ReserveInsertKeeps, IncreaseUpdateKeeps, ReleaseUpdateKeeps,
     ExpireUpdateKeeps, MoveMoneyKeeps, CommitHoldKeeps DEF WriteStep

-----------------------------------------------------------------------------
(* The theorems.                                                           *)

LEMMA InitIInv == Init => IInv
<1> SUFFICES ASSUME Init PROVE IInv
  OBVIOUS
<1>1. TypeOK
  BY InitType
<1>2. CallShape
  BY DEF Init, CallShape, CallFits, NoCall, PostingOps
<1>3. HoldShape /\ CommittedIffDebited /\ OncePerKey
  BY DEF Init, HoldShape, NoHold, CommittedIffDebited, OncePerKey
<1>4. LocksHeld /\ ReadsAreCurrent
  BY NoneNotProc DEF Init, LocksHeld, ReadsAreCurrent, Rows
<1>5. NonNegative
  BY OpeningBalances DEF Init, NonNegative, OpeningBalance, Accounts
<1> QED
  BY <1>1, <1>2, <1>3, <1>4, <1>5 DEF IInv

LEMMA NextIInv == IInv /\ [Next]_vars => IInv'
<1> SUFFICES ASSUME IInv, [Next]_vars PROVE IInv'
  OBVIOUS
<1>1. CASE Tick
  BY <1>1, TickKeeps
<1>2. ASSUME NEW p \in Procs, CallStep(p) PROVE IInv'
  BY <1>2, CallStepKeeps
<1>3. ASSUME NEW p \in Procs, LockStep(p) PROVE IInv'
  BY <1>3, LockStepKeeps
<1>4. ASSUME NEW p \in Procs, WriteStep(p) PROVE IInv'
  BY <1>4, WriteStepKeeps
<1>5. ASSUME NEW p \in Procs, ConnectionLost(p) PROVE IInv'
  BY <1>5, FailKeeps DEF ConnectionLost
<1>6. CASE UNCHANGED vars
  BY <1>6 DEF IInv, TypeOK, CallShape, CallFits, HoldShape, LocksHeld, RowsToLock, ReadsAreCurrent,
              NonNegative, CommittedIffDebited, OncePerKey, vars, tables, session
<1> QED
  BY <1>1, <1>2, <1>3, <1>4, <1>5, <1>6 DEF Next

(* IInv holds in every reachable state.                                    *)
THEOREM Invariance == Spec => []IInv
  BY InitIInv, NextIInv, PTL DEF Spec

(* Every variable keeps its type.                                          *)
THEOREM TypeCorrect == Spec => []TypeOK
<1>1. IInv => TypeOK
  BY DEF IInv
<1> QED
  BY <1>1, Invariance, PTL

(* No interleaving of calls overdraws a player's deposit or winnings.      *)
THEOREM NeverOverdrawn == Spec => []NonNegative
<1>1. IInv => NonNegative
  BY DEF IInv
<1> QED
  BY <1>1, Invariance, PTL

(* A reservation is committed exactly when one ledger operation debited    *)
(* its wallet for it, by its amount.                                       *)
THEOREM CommitExactlyOnce == Spec => []CommittedIffDebited
<1>1. IInv => CommittedIffDebited
  BY DEF IInv
<1> QED
  BY <1>1, Invariance, PTL

(* An idempotency key is spent at most once.                               *)
THEOREM KeySpentOnce == Spec => []OncePerKey
<1>1. IInv => OncePerKey
  BY DEF IInv
<1> QED
  BY <1>1, Invariance, PTL


(* The steps that rewrite reservations touch only active ones.             *)
LEMMA WritesOnlyActive ==
  ASSUME IInv, NEW p \in Procs, WriteStep(p), NEW h \in Holds, res[h].status \in TerminalStatus
  PROVE  res'[h] = res[h]
<1> USE DEF TerminalStatus
<1>1. res \in [Holds -> Hold]
  BY DEF IInv, TypeOK
<1>2. ASSUME NEW g, Ready(p, "increase") \/ Ready(p, "release") \/ Ready(p, "commit"),
             g = call[p].hold
      PROVE  g # h
  <2>1. pc[p] = "locking" /\ todo[p] = {} /\ call[p].op \in {"increase", "release", "commit"}
    BY <1>2 DEF Ready
  <2>2. g \in Holds /\ g \in RowsToLock(call[p])
    BY <1>2, <2>1 DEF IInv, CallShape, CallFits, RowsToLock
  <2>3. lock[g] = p
    BY <2>1, <2>2, WriterOwns
  <2>4. res[g].status = "active"
    BY <2>2, <2>3 DEF IInv, ReadsAreCurrent
  <2> QED
    BY <2>4
<1>3. CASE ReserveInsert(p)
  <2>1. call[p].hold # h
    BY <1>3 DEF ReserveInsert
  <2> QED
    BY <1>1, <1>3, <2>1 DEF ReserveInsert
<1>4. CASE IncreaseUpdate(p)
  <2>1. call[p].hold # h
    BY <1>2, <1>4 DEF IncreaseUpdate
  <2> QED
    BY <1>1, <1>4, <2>1 DEF IncreaseUpdate
<1>5. CASE ReleaseUpdate(p)
  <2>1. call[p].hold # h
    BY <1>2, <1>5 DEF ReleaseUpdate
  <2> QED
    BY <1>1, <1>5, <2>1 DEF ReleaseUpdate
<1>6. CASE ExpireUpdate(p)
  <2>1. lock[h] # p
    BY DEF IInv, ReadsAreCurrent
  <2> QED
    BY <1>6, <2>1 DEF ExpireUpdate
<1>7. CASE CommitHold(p)
  <2>1. call[p].hold # h
    BY <1>2, <1>7 DEF CommitHold
  <2> QED
    BY <1>1, <1>7, <2>1 DEF CommitHold
<1>8. CASE MoveMoney(p)
  BY <1>8 DEF MoveMoney
<1>9. CASE \/ ReserveExisting(p) \/ ReserveReject(p) \/ IncreaseReject(p)
           \/ PostingReject(p) \/ DuplicateKey(p)
  BY <1>9 DEF ReserveExisting, ReserveReject, IncreaseReject, PostingReject, DuplicateKey,
              Fail, tables
<1> QED
  BY <1>3, <1>4, <1>5, <1>6, <1>7, <1>8, <1>9 DEF WriteStep

(* Only the last step of a transaction writes tables.                      *)
LEMMA CallsWriteNothing ==
  ASSUME NEW p \in Procs, CallStep(p)
  PROVE  UNCHANGED tables
<1>1. ASSUME NEW c, Start(p, c) PROVE UNCHANGED tables
  BY <1>1 DEF Start
<1>2. CASE Reserve(p)                   BY <1>1, <1>2 DEF Reserve
<1>3. CASE IncreaseReservation(p)       BY <1>1, <1>3 DEF IncreaseReservation
<1>4. CASE ReleaseReservation(p)        BY <1>1, <1>4 DEF ReleaseReservation
<1>5. CASE CommitReservation(p)         BY <1>1, <1>5 DEF CommitReservation
<1>6. CASE Transfer(p)                  BY <1>1, <1>6 DEF Transfer
<1>7. CASE Debit(p)                     BY <1>1, <1>7 DEF Debit
<1>8. CASE Credit(p)                    BY <1>1, <1>8 DEF Credit
<1>9. CASE ExpireStaleReservations(p)   BY <1>1, <1>9 DEF ExpireStaleReservations
<1> QED
  BY <1>2, <1>3, <1>4, <1>5, <1>6, <1>7, <1>8, <1>9 DEF CallStep

LEMMA LocksWriteNothing ==
  ASSUME NEW p \in Procs, LockStep(p)
  PROVE  UNCHANGED tables
<1>1. CASE Begin(p)                  BY <1>1 DEF Begin
<1>2. CASE LockRow(p)                BY <1>2 DEF LockRow, Acquire
<1>3. CASE RejectInactive(p)         BY <1>3 DEF RejectInactive, Fail
<1>4. CASE SkipInactive(p)           BY <1>4 DEF SkipInactive
<1>5. CASE SerializationFailure(p)   BY <1>5 DEF SerializationFailure, RollbackAndRetry, Fail
<1>6. CASE DeadlockVictim(p)         BY <1>6 DEF DeadlockVictim, RollbackAndRetry, Fail
<1> QED
  BY <1>1, <1>2, <1>3, <1>4, <1>5, <1>6 DEF LockStep

(* Once released, committed or expired, a reservation never changes.       *)
THEOREM TerminalForever == Spec => TerminalIsFinal
<1>1. ASSUME IInv, [Next]_vars, NEW h \in Holds, res[h].status \in TerminalStatus
      PROVE  res'[h] = res[h]
  <2>1. ASSUME NEW p \in Procs, CallStep(p) PROVE UNCHANGED res
    BY <2>1, CallsWriteNothing DEF tables
  <2>2. ASSUME NEW p \in Procs, LockStep(p) PROVE UNCHANGED res
    BY <2>2, LocksWriteNothing DEF tables
  <2>3. ASSUME NEW p \in Procs, ConnectionLost(p) PROVE UNCHANGED res
    BY <2>3 DEF ConnectionLost, Fail, tables
  <2>4. CASE Tick \/ UNCHANGED vars
    BY <2>4 DEF Tick, vars, tables
  <2> QED
    BY <1>1, <2>1, <2>2, <2>3, <2>4, WritesOnlyActive DEF Next
<1>2. IInv /\ [Next]_vars =>
        [\A h \in Holds : res[h].status \in TerminalStatus => res'[h] = res[h]]_vars
  BY <1>1
<1> QED
  BY <1>2, Invariance, PTL DEF Spec, TerminalIsFinal

-----------------------------------------------------------------------------
(* Sums over finite sets: what MapThenSumSet of the community modules      *)
(* computes, by the least-element principle.                               *)

(* The least-element principle, which replaces induction. *)
LEMMA AllNaturals ==
  ASSUME NEW M \in SUBSET Nat, 0 \in M, \A n \in M : n + 1 \in M
  PROVE  M = Nat
<1> DEFINE R == OpToRel(<, Nat)
           T == Nat \ M
<1>1. SUFFICES ASSUME T # {} PROVE FALSE
  OBVIOUS
<1>2. PICK x \in T : \A y \in T : ~ (<<y, x>> \in R)
  <2>1. IsWellFoundedOn(R, Nat)
    BY NatLessThanWellFounded
  <2> HIDE DEF R
  <2> QED
    BY <1>1, <2>1, WFMin
<1>3. x # 0 /\ x - 1 \in Nat /\ x - 1 < x
  OBVIOUS
<1>4. <<x - 1, x>> \in R
  BY <1>3 DEF OpToRel
<1>5. x - 1 \in M
  BY <1>2, <1>3, <1>4
<1> QED
  BY <1>3, <1>5

(* What a recursive sum of f over the subsets of S is. *)
Pick1(s) == CHOOSE x \in s : TRUE
Sums(f, S, F) ==
  F = [s \in SUBSET S |-> IF s = {} THEN 0 ELSE f[Pick1(s)] + F[s \ {Pick1(s)}]]

(* The element taken first is one of the set.                              *)
LEMMA PickIn == ASSUME NEW s, s # {} PROVE Pick1(s) \in s
BY DEF Pick1

(* What the table of such sums says of {} and of every other subset.       *)
LEMMA SumsOf ==
  ASSUME NEW f, NEW S, NEW F, Sums(f, S, F)
  PROVE  /\ F[{}] = 0
         /\ \A s \in SUBSET S : s # {} => F[s] = f[Pick1(s)] + F[s \ {Pick1(s)}]
<1>1. \A s \in SUBSET S : F[s] = IF s = {} THEN 0 ELSE f[Pick1(s)] + F[s \ {Pick1(s)}]
  BY DEF Sums
<1> QED
  BY <1>1

(* Taking an element away makes a finite set smaller.                      *)
LEMMA Smaller ==
  ASSUME NEW s, IsFiniteSet(s), NEW x \in s, NEW n \in Nat, Cardinality(s) <= n + 1
  PROVE  IsFiniteSet(s \ {x}) /\ Cardinality(s \ {x}) <= n
<1>1. IsFiniteSet(s \ {x}) /\ Cardinality(s \ {x}) = Cardinality(s) - 1
  BY FS_RemoveElement
<1>2. Cardinality(s) \in Nat
  BY FS_CardinalityType
<1> QED
  BY <1>1, <1>2

Upto(f, S, n, F) ==
  \A s \in SUBSET S : Cardinality(s) <= n =>
    F[s] = IF s = {} THEN 0 ELSE f[Pick1(s)] + F[s \ {Pick1(s)}]

(* Every finite set has such a table: built size by size.                  *)
LEMMA SumsExist ==
  ASSUME NEW f, NEW S, IsFiniteSet(S)
  PROVE  \E F : Sums(f, S, F)
<1> DEFINE M == {n \in Nat : \E F : Upto(f, S, n, F)}
<1>0. \A s \in SUBSET S : IsFiniteSet(s) /\ Cardinality(s) \in Nat /\ (Cardinality(s) = 0 <=> s = {})
  BY FS_Subset, FS_CardinalityType, FS_EmptySet
<1>1. 0 \in M
  <2> DEFINE F == [s \in SUBSET S |-> 0]
  <2>1. \A s \in SUBSET S : Cardinality(s) <= 0 => s = {}
    BY <1>0
  <2>2. Upto(f, S, 0, F)
    BY <2>1 DEF Upto
  <2> QED
    BY <2>2
<1>2. ASSUME NEW n \in M PROVE n + 1 \in M
  <2>1. PICK F : Upto(f, S, n, F)
    BY <1>2
  <2> DEFINE G == [s \in SUBSET S |->
               IF Cardinality(s) <= n THEN F[s]
               ELSE f[Pick1(s)] + F[s \ {Pick1(s)}]]
  <2>2. ASSUME NEW s \in SUBSET S, s # {}, Cardinality(s) <= n + 1
        PROVE  G[s] = f[Pick1(s)] + G[s \ {Pick1(s)}]
    <3>1. Pick1(s) \in s /\ s \ {Pick1(s)} \in SUBSET S
      BY <2>2, PickIn
    <3>2. Cardinality(s \ {Pick1(s)}) <= n
      BY <1>0, <2>2, <3>1, Smaller
    <3>3. G[s \ {Pick1(s)}] = F[s \ {Pick1(s)}]
      BY <3>1, <3>2
    <3>4. Cardinality(s) <= n => F[s] = f[Pick1(s)] + F[s \ {Pick1(s)}]
      BY <2>1, <2>2 DEF Upto
    <3> QED
      BY <3>3, <3>4
  <2>3. G[{}] = 0
    <3>1. Cardinality({}) <= n /\ {} \in SUBSET S
      BY <1>0, FS_EmptySet
    <3> QED
      BY <2>1, <3>1 DEF Upto
  <2> HIDE DEF G
  <2>4. Upto(f, S, n + 1, G)
    BY <2>2, <2>3 DEF Upto
  <2> QED
    BY <1>2, <2>4
<1>3. Cardinality(S) \in M
  <2> HIDE DEF M
  <2>1. M = Nat
    <3>1. M \in SUBSET Nat
      BY DEF M
    <3> QED
      BY <1>1, <1>2, <3>1, AllNaturals
  <2> QED
    BY <2>1, FS_CardinalityType
<1>4. PICK F : Upto(f, S, Cardinality(S), F)
  BY <1>3
<1> DEFINE G == [s \in SUBSET S |-> F[s]]
<1>5. \A s \in SUBSET S : Cardinality(s) <= Cardinality(S)
  BY FS_Subset
<1>6. \A s \in SUBSET S : F[s] = IF s = {} THEN 0 ELSE f[Pick1(s)] + F[s \ {Pick1(s)}]
  BY <1>4, <1>5 DEF Upto
<1>7. Sums(f, S, G)
  BY <1>6 DEF Sums
<1> QED
  BY <1>7

(* A set of subsets that has {} and whatever has all its one-smaller subsets. *)
LEMMA AllSubsets ==
  ASSUME NEW S, IsFiniteSet(S), NEW M, {} \in M,
         \A s \in SUBSET S : s # {} /\ (\A x \in s : s \ {x} \in M) => s \in M
  PROVE  \A s \in SUBSET S : s \in M
<1> DEFINE T == (SUBSET S) \ M
           R == StrictSubsetOrdering(S)
<1>1. SUFFICES ASSUME T # {} PROVE FALSE
  OBVIOUS
<1>2. T \subseteq FiniteSubsetsOf(S)
  BY FS_Subset DEF FiniteSubsetsOf
<1>3. PICK s \in T : \A t \in T : <<t, s>> \notin R
  <2>1. IsWellFoundedOn(R, FiniteSubsetsOf(S))
    BY FS_StrictSubsetOrderingWellFounded
  <2> HIDE DEF R, T
  <2> QED
    BY <1>1, <1>2, <2>1, WFMin
<1>4. ASSUME NEW x \in s PROVE s \ {x} \in M
  <2>1. <<s \ {x}, s>> \in R
    BY <1>2 DEF StrictSubsetOrdering
  <2> QED
    BY <1>3, <2>1
<1> HIDE DEF R
<1>5. s \in SUBSET S /\ s \notin M
  BY <1>3
<1> HIDE DEF T
<1>6. s # {}
  BY <1>5
<1> QED
  BY <1>4, <1>5, <1>6

(* Two tables agree on a set on which their functions agree.               *)
LEMMA SumsAgree ==
  ASSUME NEW f, NEW S, NEW F, Sums(f, S, F), NEW g, NEW T, NEW G, Sums(g, T, G),
         NEW U \in SUBSET (S \cap T), IsFiniteSet(U), \A x \in U : f[x] = g[x]
  PROVE  F[U] = G[U]
<1> DEFINE M == {s \in SUBSET U : F[s] = G[s]}
<1>1. {} \in M
  BY SumsOf
<1>2. ASSUME NEW s \in SUBSET U, s # {}, \A x \in s : s \ {x} \in M PROVE s \in M
  <2>1. Pick1(s) \in s
    BY <1>2, PickIn
  <2>2. F[s] = f[Pick1(s)] + F[s \ {Pick1(s)}] /\ G[s] = g[Pick1(s)] + G[s \ {Pick1(s)}]
    BY <1>2, SumsOf
  <2> QED
    BY <1>2, <2>1, <2>2
<1> HIDE DEF M
<1>3. \A s \in SUBSET U : s \in M
  BY <1>1, <1>2, AllSubsets
<1> QED
  BY <1>3 DEF M

(* Sums of integers are integers, sums of naturals naturals.               *)
LEMMA SumsTyped ==
  ASSUME NEW f, NEW S, NEW F, Sums(f, S, F), IsFiniteSet(S), NEW V, V = Int \/ V = Nat,
         \A x \in S : f[x] \in V
  PROVE  \A s \in SUBSET S : F[s] \in V
<1> DEFINE M == {s \in SUBSET S : F[s] \in V}
<1>0. \A s \in SUBSET S : s # {} => F[s] = f[Pick1(s)] + F[s \ {Pick1(s)}]
  BY SumsOf
<1>1. {} \in M
  BY SumsOf
<1>2. ASSUME NEW s \in SUBSET S, s # {}, \A x \in s : s \ {x} \in M PROVE s \in M
  <2>1. Pick1(s) \in s
    BY <1>2, PickIn
  <2>2. F[s] = f[Pick1(s)] + F[s \ {Pick1(s)}]
    BY <1>0, <1>2
  <2>3. f[Pick1(s)] \in V /\ F[s \ {Pick1(s)}] \in V
    BY <1>2, <2>1
  <2> QED
    BY <2>2, <2>3
<1> HIDE DEF M
<1>3. \A s \in SUBSET S : s \in M
  BY <1>1, <1>2, AllSubsets
<1> QED
  BY <1>3 DEF M

(* The element taken first makes no difference. *)
LEMMA SumsSplit ==
  ASSUME NEW f, NEW S, NEW F, Sums(f, S, F), IsFiniteSet(S), \A x \in S : f[x] \in Int
  PROVE  \A s \in SUBSET S : \A x \in s : F[s] = f[x] + F[s \ {x}]
<1> DEFINE M == {s \in SUBSET S : \A x \in s : F[s] = f[x] + F[s \ {x}]}
<1>1. {} \in M
  OBVIOUS
<1>2. ASSUME NEW s \in SUBSET S, s # {}, \A x \in s : s \ {x} \in M PROVE s \in M
  <2> DEFINE c == Pick1(s)
  <2>1. c \in s
    BY <1>2, PickIn
  <2>2. F[s] = f[c] + F[s \ {c}]
    BY <1>2, SumsOf
  <2> HIDE DEF c
  <2>3. ASSUME NEW x \in s, x # c PROVE F[s] = f[x] + F[s \ {x}]
    <3>1. F[s \ {c}] = f[x] + F[(s \ {c}) \ {x}] /\ F[s \ {x}] = f[c] + F[(s \ {x}) \ {c}]
      BY <1>2, <2>1, <2>3
    <3>2. (s \ {c}) \ {x} = (s \ {x}) \ {c}
      OBVIOUS
    <3>3. f[x] \in Int /\ f[c] \in Int /\ F[(s \ {x}) \ {c}] \in Int
      <4>1. (s \ {x}) \ {c} \in SUBSET S
        OBVIOUS
      <4> QED
        BY <2>1, <4>1, SumsTyped
    <3>4. F[s] = f[c] + (f[x] + F[(s \ {x}) \ {c}])
      BY <2>2, <3>1, <3>2
    <3> QED
      BY <3>1, <3>3, <3>4
  <2> QED
    BY <2>2, <2>3
<1> HIDE DEF M
<1>3. \A s \in SUBSET S : s \in M
  BY <1>1, <1>2, AllSubsets
<1> QED
  BY <1>3 DEF M

SumOver(f, S) == (CHOOSE F : Sums(f, S, F))[S]

(* SumOver reads any table of sums.                                        *)
LEMMA SumOverIs ==
  ASSUME NEW f, NEW S, IsFiniteSet(S), NEW F, Sums(f, S, F)
  PROVE  F[S] = SumOver(f, S)
<1>1. Sums(f, S, CHOOSE G : Sums(f, S, G))
  <2>1. \E G : Sums(f, S, G)
    BY SumsExist
  <2> QED
    BY <2>1, Zenon
<1> QED
  BY <1>1, SumsAgree DEF SumOver

(* The sum over nothing.                                                   *)
LEMMA SumNothing == ASSUME NEW f PROVE SumOver(f, {}) = 0
<1>1. IsFiniteSet({})
  BY FS_EmptySet
<1>2. PICK F : Sums(f, {}, F)
  BY <1>1, SumsExist
<1> QED
  BY <1>1, <1>2, SumsOf, SumOverIs

(* The sum depends on the function's values on the set only.               *)
LEMMA SumSame ==
  ASSUME NEW f, NEW g, NEW S, IsFiniteSet(S), \A x \in S : f[x] = g[x]
  PROVE  SumOver(f, S) = SumOver(g, S)
<1>1. PICK F : Sums(f, S, F)
  BY SumsExist
<1>2. PICK G : Sums(g, S, G)
  BY SumsExist
<1>3. F[S] = G[S]
  BY <1>1, <1>2, SumsAgree
<1> QED
  BY <1>1, <1>2, <1>3, SumOverIs

(* Any one element may be summed first.                                    *)
LEMMA SumWithout ==
  ASSUME NEW f, NEW S, IsFiniteSet(S), \A x \in S : f[x] \in Int, NEW y \in S
  PROVE  SumOver(f, S) = f[y] + SumOver(f, S \ {y})
<1>1. PICK F : Sums(f, S, F)
  BY SumsExist
<1>2. IsFiniteSet(S \ {y})
  BY FS_RemoveElement
<1>3. PICK G : Sums(f, S \ {y}, G)
  BY <1>2, SumsExist
<1>4. F[S \ {y}] = G[S \ {y}]
  BY <1>1, <1>2, <1>3, SumsAgree
<1>5. F[S] = f[y] + F[S \ {y}]
  BY <1>1, SumsSplit
<1> QED
  BY <1>1, <1>2, <1>3, <1>4, <1>5, SumOverIs

(* The type of a sum.                                                      *)
LEMMA SumTyped ==
  ASSUME NEW f, NEW S, IsFiniteSet(S), NEW V, V = Int \/ V = Nat, \A x \in S : f[x] \in V
  PROVE  SumOver(f, S) \in V
<1>1. PICK F : Sums(f, S, F)
  BY SumsExist
<1>2. F[S] \in V
  BY <1>1, SumsTyped
<1> QED
  BY <1>1, <1>2, SumOverIs

(* SUM(amount_cents) of the active reservations is such a sum.             *)
LEMMA HoldTotalIsSum ==
  ASSUME NEW r, NEW w, IsFiniteSet(ActiveHolds(r, w))
  PROVE  HoldTotal(r, w) = SumOver([h \in Holds |-> r[h].amount], ActiveHolds(r, w))
<1> DEFINE S == ActiveHolds(r, w)
           f == [h \in Holds |-> r[h].amount]
           Step(F) == F = [s \in SUBSET S |->
                             IF s = {} THEN 0
                             ELSE r[CHOOSE x \in s : TRUE].amount
                                    + F[s \ {CHOOSE x \in s : TRUE}]]
           H == CHOOSE F : Step(F)
<1>1. HoldTotal(r, w) = H[S]
  BY DEF HoldTotal, MapThenSumSet, MapThenFoldSet
<1>2. S \subseteq Holds
  BY DEF ActiveHolds
<1>3. ASSUME NEW F PROVE Step(F) <=> Sums(f, S, F)
  <2>1. \A s \in SUBSET S : s # {} => r[CHOOSE x \in s : TRUE].amount = f[Pick1(s)]
    BY <1>2, PickIn DEF Pick1
  <2> HIDE DEF f, S
  <2> QED
    BY <2>1 DEF Sums, Pick1
<1> HIDE DEF Step, S, f
<1>4. Sums(f, S, H)
  <2>1. \E F : Step(F)
    BY <1>3, SumsExist DEF S
  <2>2. Step(H)
    BY <2>1, Zenon
  <2> QED
    BY <1>3, <2>2
<1> HIDE DEF H
<1> QED
  BY <1>1, <1>4, SumOverIs DEF S, f

(* The columns of the reconciliation query as sums.                        *)
LEMMA LedgerDepIsSum ==
  ASSUME NEW l, IsFiniteSet(l), NEW a
  PROVE  LedgerDep(l, a) =
           OpeningBalance(a).dep
             + SumOver([t \in l |-> t.amount], {t \in l : t.to = a /\ t.side = "deposit"})
             - SumOver([t \in l |-> t.amount - t.fromWin], {t \in l : t.from = a})
<1> DEFINE S == {t \in l : t.to = a /\ t.side = "deposit"}
           T == {t \in l : t.from = a}
           f == [t \in l |-> t.amount]
           g == [t \in l |-> t.amount - t.fromWin]
           StepS(F) == F = [s \in SUBSET S |->
                              IF s = {} THEN 0
                              ELSE (CHOOSE x \in s : TRUE).amount
                                     + F[s \ {CHOOSE x \in s : TRUE}]]
           StepT(F) == F = [s \in SUBSET T |->
                              IF s = {} THEN 0
                              ELSE ((CHOOSE x \in s : TRUE).amount - (CHOOSE x \in s : TRUE).fromWin)
                                     + F[s \ {CHOOSE x \in s : TRUE}]]
           H == CHOOSE F : StepS(F)
           K == CHOOSE F : StepT(F)
<1>1. LedgerDep(l, a) = OpeningBalance(a).dep + H[S] - K[T]
  BY DEF LedgerDep, MapThenSumSet, MapThenFoldSet
<1>2. S \subseteq l /\ T \subseteq l /\ IsFiniteSet(S) /\ IsFiniteSet(T)
  BY FS_Subset
<1>3. ASSUME NEW F PROVE (StepS(F) <=> Sums(f, S, F)) /\ (StepT(F) <=> Sums(g, T, F))
  <2>1. \A s \in SUBSET S : s # {} => (CHOOSE x \in s : TRUE).amount = f[Pick1(s)]
    BY <1>2, PickIn DEF Pick1
  <2>2. \A s \in SUBSET T : s # {} => (CHOOSE x \in s : TRUE).amount - (CHOOSE x \in s : TRUE).fromWin
                                      = g[Pick1(s)]
    BY <1>2, PickIn DEF Pick1
  <2> HIDE DEF f, g, S, T
  <2> QED
    BY <2>1, <2>2 DEF Sums, Pick1
<1> HIDE DEF StepS, StepT, S, T, f, g
<1>4. Sums(f, S, H) /\ Sums(g, T, K)
  <2>1. (\E F : StepS(F)) /\ (\E F : StepT(F))
    BY <1>2, <1>3, SumsExist
  <2>2. StepS(H) /\ StepT(K)
    BY <2>1, Zenon
  <2> QED
    BY <1>3, <2>2
<1> HIDE DEF H, K
<1>5. H[S] = SumOver(f, S) /\ K[T] = SumOver(g, T)
  BY <1>2, <1>4, SumOverIs
<1> QED
  BY <1>1, <1>5 DEF S, T, f, g

(* The same for the winnings side.                                         *)
LEMMA LedgerWinIsSum ==
  ASSUME NEW l, IsFiniteSet(l), NEW a
  PROVE  LedgerWin(l, a) =
           OpeningBalance(a).win
             + SumOver([t \in l |-> t.amount], {t \in l : t.to = a /\ t.side = "winnings"})
             - SumOver([t \in l |-> t.fromWin], {t \in l : t.from = a})
<1> DEFINE S == {t \in l : t.to = a /\ t.side = "winnings"}
           T == {t \in l : t.from = a}
           f == [t \in l |-> t.amount]
           g == [t \in l |-> t.fromWin]
           StepS(F) == F = [s \in SUBSET S |->
                              IF s = {} THEN 0
                              ELSE (CHOOSE x \in s : TRUE).amount
                                     + F[s \ {CHOOSE x \in s : TRUE}]]
           StepT(F) == F = [s \in SUBSET T |->
                              IF s = {} THEN 0
                              ELSE (CHOOSE x \in s : TRUE).fromWin
                                     + F[s \ {CHOOSE x \in s : TRUE}]]
           H == CHOOSE F : StepS(F)
           K == CHOOSE F : StepT(F)
<1>1. LedgerWin(l, a) = OpeningBalance(a).win + H[S] - K[T]
  BY DEF LedgerWin, MapThenSumSet, MapThenFoldSet
<1>2. S \subseteq l /\ T \subseteq l /\ IsFiniteSet(S) /\ IsFiniteSet(T)
  BY FS_Subset
<1>3. ASSUME NEW F PROVE (StepS(F) <=> Sums(f, S, F)) /\ (StepT(F) <=> Sums(g, T, F))
  <2>1. \A s \in SUBSET S : s # {} => (CHOOSE x \in s : TRUE).amount = f[Pick1(s)]
    BY <1>2, PickIn DEF Pick1
  <2>2. \A s \in SUBSET T : s # {} => (CHOOSE x \in s : TRUE).fromWin
                                      = g[Pick1(s)]
    BY <1>2, PickIn DEF Pick1
  <2> HIDE DEF f, g, S, T
  <2> QED
    BY <2>1, <2>2 DEF Sums, Pick1
<1> HIDE DEF StepS, StepT, S, T, f, g
<1>4. Sums(f, S, H) /\ Sums(g, T, K)
  <2>1. (\E F : StepS(F)) /\ (\E F : StepT(F))
    BY <1>2, <1>3, SumsExist
  <2>2. StepS(H) /\ StepT(K)
    BY <2>1, Zenon
  <2> QED
    BY <1>3, <2>2
<1> HIDE DEF H, K
<1>5. H[S] = SumOver(f, S) /\ K[T] = SumOver(g, T)
  BY <1>2, <1>4, SumOverIs
<1> QED
  BY <1>1, <1>5 DEF S, T, f, g

(* One more element in the domain, and perhaps in the sum.                 *)
Grows(f, S, g, e) ==
  /\ IsFiniteSet(S) /\ e \notin S
  /\ \A x \in S : f[x] \in Int /\ g[x] = f[x]
  /\ g[e] \in Int

(* What the new element changes.                                           *)
LEMMA SumGrows ==
  ASSUME NEW f, NEW S, NEW g, NEW e, Grows(f, S, g, e)
  PROVE  /\ SumOver(g, S) = SumOver(f, S) /\ SumOver(f, S) \in Int
         /\ SumOver(g, S \cup {e}) = SumOver(f, S) + g[e]
<1>1. /\ IsFiniteSet(S) /\ e \notin S /\ g[e] \in Int
      /\ \A x \in S : f[x] \in Int
      /\ \A x \in S : g[x] = f[x]
  BY DEF Grows
<1>2. SumOver(g, S) = SumOver(f, S)
  BY <1>1, SumSame
<1>3. SumOver(f, S) \in Int
  BY <1>1, SumTyped
<1>4. IsFiniteSet(S \cup {e}) /\ e \in S \cup {e} /\ (S \cup {e}) \ {e} = S
  BY <1>1, FS_AddElement
<1>5. \A x \in S \cup {e} : g[x] \in Int
  BY <1>1
<1>6. SumOver(g, S \cup {e}) = g[e] + SumOver(g, (S \cup {e}) \ {e})
  BY <1>4, <1>5, SumWithout
<1>7. SumOver(g, S \cup {e}) = g[e] + SumOver(f, S)
  BY <1>2, <1>4, <1>6
<1> QED
  BY <1>1, <1>2, <1>3, <1>7

(* What one more row of the ledger changes in the columns.                 *)
LEMMA LedgerDepGrows ==
  ASSUME NEW l, IsFiniteSet(l), NEW e, e \notin l, NEW a, OpeningBalance(a).dep \in Int,
         \A t \in l \cup {e} : t.amount \in Int /\ t.fromWin \in Int
  PROVE  /\ LedgerDep(l, a) \in Int
         /\ LedgerDep(l \cup {e}, a) = LedgerDep(l, a)
               + (IF e.to = a /\ e.side = "deposit" THEN e.amount ELSE 0)
               - (IF e.from = a THEN e.amount - e.fromWin ELSE 0)
<1> DEFINE m == l \cup {e}
           S == {t \in l : t.to = a /\ t.side = "deposit"}
           T == {t \in l : t.from = a}
           SS == {t \in m : t.to = a /\ t.side = "deposit"}
           TT == {t \in m : t.from = a}
           f == [t \in l |-> t.amount]
           g == [t \in l |-> t.amount - t.fromWin]
           ff == [t \in m |-> t.amount]
           gg == [t \in m |-> t.amount - t.fromWin]
<1>1. IsFiniteSet(m)
  BY FS_AddElement
<1>2. LedgerDep(l, a) = OpeningBalance(a).dep + SumOver(f, S) - SumOver(g, T)
  BY LedgerDepIsSum
<1>3. LedgerDep(m, a) = OpeningBalance(a).dep + SumOver(ff, SS) - SumOver(gg, TT)
  BY <1>1, LedgerDepIsSum
<1>4. Grows(f, S, ff, e) /\ Grows(g, T, gg, e)
  BY FS_Subset DEF Grows
<1>5. /\ SS = IF e.to = a /\ e.side = "deposit" THEN S \cup {e} ELSE S
      /\ TT = IF e.from = a THEN T \cup {e} ELSE T
      /\ ff[e] = e.amount /\ gg[e] = e.amount - e.fromWin
  OBVIOUS
<1> HIDE DEF S, T, SS, TT, f, g, ff, gg
<1>6. /\ SumOver(ff, S) = SumOver(f, S) /\ SumOver(f, S) \in Int
      /\ SumOver(ff, S \cup {e}) = SumOver(f, S) + ff[e]
  BY <1>4, SumGrows
<1>7. /\ SumOver(gg, T) = SumOver(g, T) /\ SumOver(g, T) \in Int
      /\ SumOver(gg, T \cup {e}) = SumOver(g, T) + gg[e]
  BY <1>4, SumGrows
<1>8. SumOver(ff, SS) = SumOver(f, S) + (IF e.to = a /\ e.side = "deposit" THEN e.amount ELSE 0)
  BY <1>5, <1>6
<1>9. SumOver(gg, TT) = SumOver(g, T) + (IF e.from = a THEN e.amount - e.fromWin ELSE 0)
  BY <1>5, <1>7
<1>10. e.amount \in Int /\ e.fromWin \in Int
  OBVIOUS
<1> QED
  BY <1>2, <1>3, <1>6, <1>7, <1>8, <1>9, <1>10

(* The same for the winnings side.                                         *)
LEMMA LedgerWinGrows ==
  ASSUME NEW l, IsFiniteSet(l), NEW e, e \notin l, NEW a, OpeningBalance(a).win \in Int,
         \A t \in l \cup {e} : t.amount \in Int /\ t.fromWin \in Int
  PROVE  /\ LedgerWin(l, a) \in Int
         /\ LedgerWin(l \cup {e}, a) = LedgerWin(l, a)
               + (IF e.to = a /\ e.side = "winnings" THEN e.amount ELSE 0)
               - (IF e.from = a THEN e.fromWin ELSE 0)
<1> DEFINE m == l \cup {e}
           S == {t \in l : t.to = a /\ t.side = "winnings"}
           T == {t \in l : t.from = a}
           SS == {t \in m : t.to = a /\ t.side = "winnings"}
           TT == {t \in m : t.from = a}
           f == [t \in l |-> t.amount]
           g == [t \in l |-> t.fromWin]
           ff == [t \in m |-> t.amount]
           gg == [t \in m |-> t.fromWin]
<1>1. IsFiniteSet(m)
  BY FS_AddElement
<1>2. LedgerWin(l, a) = OpeningBalance(a).win + SumOver(f, S) - SumOver(g, T)
  BY LedgerWinIsSum
<1>3. LedgerWin(m, a) = OpeningBalance(a).win + SumOver(ff, SS) - SumOver(gg, TT)
  BY <1>1, LedgerWinIsSum
<1>4. Grows(f, S, ff, e) /\ Grows(g, T, gg, e)
  BY FS_Subset DEF Grows
<1>5. /\ SS = IF e.to = a /\ e.side = "winnings" THEN S \cup {e} ELSE S
      /\ TT = IF e.from = a THEN T \cup {e} ELSE T
      /\ ff[e] = e.amount /\ gg[e] = e.fromWin
  OBVIOUS
<1> HIDE DEF S, T, SS, TT, f, g, ff, gg
<1>6. /\ SumOver(ff, S) = SumOver(f, S) /\ SumOver(f, S) \in Int
      /\ SumOver(ff, S \cup {e}) = SumOver(f, S) + ff[e]
  BY <1>4, SumGrows
<1>7. /\ SumOver(gg, T) = SumOver(g, T) /\ SumOver(g, T) \in Int
      /\ SumOver(gg, T \cup {e}) = SumOver(g, T) + gg[e]
  BY <1>4, SumGrows
<1>8. SumOver(ff, SS) = SumOver(f, S) + (IF e.to = a /\ e.side = "winnings" THEN e.amount ELSE 0)
  BY <1>5, <1>6
<1>9. SumOver(gg, TT) = SumOver(g, T) + (IF e.from = a THEN e.fromWin ELSE 0)
  BY <1>5, <1>7
<1>10. e.amount \in Int /\ e.fromWin \in Int
  OBVIOUS
<1> QED
  BY <1>2, <1>3, <1>6, <1>7, <1>8, <1>9, <1>10

(* Without ledger rows a balance is the opening balance.                   *)
LEMMA LedgerOfNothing ==
  ASSUME NEW a
  PROVE  /\ LedgerDep({}, a) = OpeningBalance(a).dep + 0 - 0
         /\ LedgerWin({}, a) = OpeningBalance(a).win + 0 - 0
<1> DEFINE S == {t \in {} : t.to = a /\ t.side = "deposit"}
           R == {t \in {} : t.to = a /\ t.side = "winnings"}
           T == {t \in {} : t.from = a}
<1>1. LedgerDep({}, a) = OpeningBalance(a).dep
        + SumOver([t \in {} |-> t.amount], S) - SumOver([t \in {} |-> t.amount - t.fromWin], T)
  BY FS_EmptySet, LedgerDepIsSum
<1>2. LedgerWin({}, a) = OpeningBalance(a).win
        + SumOver([t \in {} |-> t.amount], R) - SumOver([t \in {} |-> t.fromWin], T)
  BY FS_EmptySet, LedgerWinIsSum
<1>3. S = {} /\ R = {} /\ T = {}
  OBVIOUS
<1> HIDE DEF S, R, T
<1> QED
  BY <1>1, <1>2, <1>3, SumNothing

-----------------------------------------------------------------------------
(* What the ledger says of the balances.                                   *)

(* The parts of the invariant that are about the rows of the ledger.       *)
ChainsGrow ==
  \A t \in ledger : t.prevFrom < acct[t.from].chain /\ t.prevTo < acct[t.to].chain

BooksInv == IsFiniteSet(ledger) /\ LedgerExplainsBalances /\ ChainsGrow /\ HashChainUnforked

(* Only a posting writes accounts or the ledger.                           *)
LEMMA OnlyPostingsBook ==
  ASSUME IInv, [Next]_vars
  PROVE  \/ UNCHANGED <<acct, ledger>>
         \/ \E p \in Procs, via \in Holds \cup {None} : Posted(p, via)
<1>1. ASSUME NEW p \in Procs, CallStep(p) \/ LockStep(p) \/ ConnectionLost(p)
      PROVE  UNCHANGED <<acct, ledger>>
  BY <1>1, CallsWriteNothing, LocksWriteNothing DEF ConnectionLost, Fail, tables
<1>2. ASSUME NEW p \in Procs, WriteStep(p)
      PROVE  \/ UNCHANGED <<acct, ledger>>
             \/ \E via \in Holds \cup {None} : Posted(p, via)
  <2>1. CASE MoveMoney(p)
    BY <2>1, ExecutePosts DEF MoveMoney
  <2>2. CASE CommitHold(p)
    <3>1. call[p].hold \in Holds /\ Posting(p)
      BY <2>2 DEF CommitHold, Ready, Posting, IInv, CallShape, CallFits
    <3> QED
      BY <2>2, <3>1, ExecutePosts DEF CommitHold
  <2>3. CASE \/ ReserveInsert(p) \/ IncreaseUpdate(p) \/ ReleaseUpdate(p) \/ ExpireUpdate(p)
    BY <2>3 DEF ReserveInsert, IncreaseUpdate, ReleaseUpdate, ExpireUpdate
  <2>4. CASE \/ ReserveExisting(p) \/ ReserveReject(p) \/ IncreaseReject(p)
             \/ PostingReject(p) \/ DuplicateKey(p)
    BY <2>4 DEF ReserveExisting, ReserveReject, IncreaseReject, PostingReject, DuplicateKey,
                Fail, tables
  <2> QED
    BY <1>2, <2>1, <2>2, <2>3, <2>4 DEF WriteStep
<1>3. CASE Tick \/ UNCHANGED vars
  BY <1>3 DEF Tick, vars, tables
<1> QED
  BY <1>1, <1>2, <1>3 DEF Next

(* A posting, account by account and row by row.                           *)
LEMMA PostedBooks ==
  ASSUME IInv, NEW p \in Procs, NEW via \in Holds \cup {None}, Posted(p, via)
  PROVE  \E e \in LedgerRow :
           /\ e \notin ledger /\ ledger' = ledger \cup {e}
           /\ e.from = call[p].from /\ e.to = call[p].to /\ e.amount = Moved(p)
           /\ e.from \in Accounts /\ e.to \in Accounts /\ e.from # e.to
           /\ e.prevFrom = acct[e.from].chain /\ e.prevTo = acct[e.to].chain
           /\ acct'[e.from].dep = acct[e.from].dep - (e.amount - e.fromWin)
           /\ acct'[e.from].win = acct[e.from].win - e.fromWin
           /\ acct'[e.to].dep = acct[e.to].dep + (IF e.side = "deposit" THEN e.amount ELSE 0)
           /\ acct'[e.to].win = acct[e.to].win + (IF e.side = "winnings" THEN e.amount ELSE 0)
           /\ acct'[e.from].chain = acct[e.from].chain + 1
           /\ acct'[e.to].chain = acct[e.to].chain + 1
           /\ \A a \in Accounts \ {e.from, e.to} : acct'[a] = acct[a]
<1> DEFINE c == call[p]
           bf == acct[c.from]
           bt == acct[c.to]
           m == Moved(p)
           e == LedgerEntry(c.key, c.from, bf, c.to, bt, m, c.side, via)
<1>1. /\ c.from \in Accounts /\ c.to \in Accounts /\ c.from # c.to /\ c.key \in Keys
      /\ c.side \in Sides /\ m \in Nat /\ ~KeyUsed(ledger, c.key)
      /\ ledger' = ledger \cup {e}
      /\ acct' = [acct EXCEPT ![c.from] = Debited(c.from, bf, m),
                              ![c.to]   = Credited(c.to, bt, m, c.side)]
  BY DEF Posted
<1>2. acct \in [Accounts -> Balance] /\ bf \in Balance /\ bt \in Balance
  BY <1>1 DEF IInv, TypeOK
<1>3. c.from \in System \/ bf.win >= 0
  BY <1>1 DEF IInv, NonNegative, Accounts
<1>4. e \in LedgerRow
  BY <1>1, <1>2, <1>3, LedgerEntryType
<1>5. /\ e.key = c.key /\ e.from = c.from /\ e.to = c.to /\ e.amount = m
      /\ e.fromWin = SplitDebit(c.from, bf, m).win /\ e.side = CreditSide(c.to, c.side)
      /\ e.prevFrom = bf.chain /\ e.prevTo = bt.chain
  BY DEF LedgerEntry
<1>6. e \notin ledger
  BY <1>1, <1>5 DEF KeyUsed
<1>7. /\ acct'[c.from] = Debited(c.from, bf, m) /\ acct'[c.to] = Credited(c.to, bt, m, c.side)
      /\ \A a \in Accounts \ {c.from, c.to} : acct'[a] = acct[a]
  <2> HIDE DEF c, bf, bt, m, e
  <2> QED
    BY <1>1, <1>2
<1>8. SplitDebit(c.from, bf, m).dep = m - SplitDebit(c.from, bf, m).win
  <2>1. /\ SplitDebit(c.from, bf, m).dep \in Nat /\ SplitDebit(c.from, bf, m).win \in Nat
        /\ SplitDebit(c.from, bf, m).dep + SplitDebit(c.from, bf, m).win = m
    BY <1>1, <1>2, <1>3, SplitDebitSound
  <2> QED
    BY <1>1, <2>1
<1>9. /\ Debited(c.from, bf, m).dep = bf.dep - (m - e.fromWin)
      /\ Debited(c.from, bf, m).win = bf.win - e.fromWin
      /\ Debited(c.from, bf, m).chain = bf.chain + 1
  BY <1>5, <1>8 DEF Debited
<1>10. bt.dep \in Int /\ bt.win \in Int
  BY <1>2 DEF Balance
<1>11. /\ Credited(c.to, bt, m, c.side).dep = bt.dep + (IF e.side = "deposit" THEN m ELSE 0)
       /\ Credited(c.to, bt, m, c.side).win = bt.win + (IF e.side = "winnings" THEN m ELSE 0)
       /\ Credited(c.to, bt, m, c.side).chain = bt.chain + 1
  <2>1. e.side \in Sides /\ e.side = CreditSide(c.to, c.side) /\ m \in Nat
    BY <1>1, <1>5 DEF CreditSide, Sides
  <2>2. /\ Credited(c.to, bt, m, c.side).dep = IF e.side = "deposit" THEN bt.dep + m ELSE bt.dep
        /\ Credited(c.to, bt, m, c.side).win = IF e.side = "winnings" THEN bt.win + m ELSE bt.win
        /\ Credited(c.to, bt, m, c.side).chain = bt.chain + 1
    BY <2>1 DEF Credited
  <2> QED
    BY <1>10, <2>1, <2>2
<1>12. e.from = call[p].from /\ e.to = call[p].to /\ e.amount = Moved(p)
  BY <1>5
<1> HIDE DEF e, c, m
<1>13. /\ e.from \in Accounts /\ e.to \in Accounts /\ e.from # e.to
       /\ e.prevFrom = acct[e.from].chain /\ e.prevTo = acct[e.to].chain
       /\ \A a \in Accounts \ {e.from, e.to} : acct'[a] = acct[a]
  BY <1>1, <1>5, <1>7
<1>14. /\ acct'[e.from].dep = acct[e.from].dep - (e.amount - e.fromWin)
       /\ acct'[e.from].win = acct[e.from].win - e.fromWin
       /\ acct'[e.from].chain = acct[e.from].chain + 1
  BY <1>5, <1>7, <1>9
<1>15. /\ acct'[e.to].dep = acct[e.to].dep + (IF e.side = "deposit" THEN e.amount ELSE 0)
       /\ acct'[e.to].win = acct[e.to].win + (IF e.side = "winnings" THEN e.amount ELSE 0)
       /\ acct'[e.to].chain = acct[e.to].chain + 1
  BY <1>5, <1>7, <1>11
<1> QED
  BY <1>1, <1>4, <1>6, <1>12, <1>13, <1>14, <1>15

(* A posting hashes over the newest entry of each of its accounts.         *)
LEMMA ChainsStay ==
  ASSUME IInv, ChainsGrow, HashChainUnforked, NEW p \in Procs,
         NEW via \in Holds \cup {None}, Posted(p, via)
  PROVE  ChainsGrow' /\ HashChainUnforked'
<1>1. PICK e \in LedgerRow :
           /\ e \notin ledger /\ ledger' = ledger \cup {e}
           /\ e.from \in Accounts /\ e.to \in Accounts /\ e.from # e.to
           /\ e.prevFrom = acct[e.from].chain /\ e.prevTo = acct[e.to].chain
           /\ acct'[e.from].chain = acct[e.from].chain + 1
           /\ acct'[e.to].chain = acct[e.to].chain + 1
           /\ \A a \in Accounts \ {e.from, e.to} : acct'[a] = acct[a]
  BY PostedBooks
<1>2. \A a \in Accounts : acct[a].chain \in Nat
  BY DEF IInv, TypeOK, Balance
<1>3. \A t \in ledger : t.from \in Accounts /\ t.to \in Accounts /\ t.prevFrom \in Nat /\ t.prevTo \in Nat
  BY DEF IInv, TypeOK, LedgerRow
<1>4. \A a \in Accounts : acct'[a].chain >= acct[a].chain /\ acct'[a].chain \in Nat
  BY <1>1, <1>2
<1>5. ASSUME NEW t \in ledger'
      PROVE  t.prevFrom < acct'[t.from].chain /\ t.prevTo < acct'[t.to].chain
  <2>1. CASE t = e
    BY <1>1, <1>2, <2>1
  <2>2. CASE t \in ledger
    <3>1. t.prevFrom < acct[t.from].chain /\ t.prevTo < acct[t.to].chain
      BY <2>2 DEF ChainsGrow
    <3> QED
      BY <1>2, <1>3, <1>4, <2>2, <3>1
  <2> QED
    BY <1>1, <2>1, <2>2
<1>6. ASSUME NEW t \in ledger
      PROVE  /\ t.from = e.from => t.prevFrom # e.prevFrom
             /\ t.to = e.to     => t.prevTo # e.prevTo
             /\ t.from = e.to   => t.prevFrom # e.prevTo
             /\ e.from = t.to   => e.prevFrom # t.prevTo
  <2>1. t.prevFrom < acct[t.from].chain /\ t.prevTo < acct[t.to].chain
    BY DEF ChainsGrow
  <2> QED
    BY <1>1, <1>2, <1>3, <2>1
<1>7. HashChainUnforked'
  BY <1>1, <1>6 DEF HashChainUnforked
<1> QED
  BY <1>5, <1>7 DEF ChainsGrow

(* Every posting changes each side of each account by what it writes into  *)
(* the ledger.                                                             *)
LEMMA PostedExplains ==
  ASSUME IInv, IsFiniteSet(ledger), LedgerExplainsBalances, NEW p \in Procs,
         NEW via \in Holds \cup {None}, Posted(p, via)
  PROVE  IsFiniteSet(ledger') /\ LedgerExplainsBalances'
<1>1. PICK e \in LedgerRow :
           /\ e \notin ledger /\ ledger' = ledger \cup {e}
           /\ e.from \in Accounts /\ e.to \in Accounts /\ e.from # e.to
           /\ acct'[e.from].dep = acct[e.from].dep - (e.amount - e.fromWin)
           /\ acct'[e.from].win = acct[e.from].win - e.fromWin
           /\ acct'[e.to].dep = acct[e.to].dep + (IF e.side = "deposit" THEN e.amount ELSE 0)
           /\ acct'[e.to].win = acct[e.to].win + (IF e.side = "winnings" THEN e.amount ELSE 0)
           /\ \A a \in Accounts \ {e.from, e.to} : acct'[a] = acct[a]
  BY PostedBooks
<1>2. IsFiniteSet(ledger')
  BY <1>1, FS_AddElement
<1>3. \A t \in ledger' : t.amount \in Int /\ t.fromWin \in Int
  BY <1>1 DEF IInv, TypeOK, LedgerRow
<1>4. ASSUME NEW a \in Accounts
      PROVE  acct'[a].dep = LedgerDep(ledger', a) /\ acct'[a].win = LedgerWin(ledger', a)
  <2>1. /\ acct[a].dep = LedgerDep(ledger, a) /\ acct[a].win = LedgerWin(ledger, a)
        /\ OpeningBalance(a).dep \in Int /\ OpeningBalance(a).win \in Int
    BY OpeningBalances DEF LedgerExplainsBalances, OpeningBalance
  <2>2. /\ LedgerDep(ledger, a) \in Int
        /\ LedgerDep(ledger', a) = LedgerDep(ledger, a)
             + (IF e.to = a /\ e.side = "deposit" THEN e.amount ELSE 0)
             - (IF e.from = a THEN e.amount - e.fromWin ELSE 0)
    BY <1>1, <1>3, <2>1, LedgerDepGrows
  <2>3. /\ LedgerWin(ledger, a) \in Int
        /\ LedgerWin(ledger', a) = LedgerWin(ledger, a)
             + (IF e.to = a /\ e.side = "winnings" THEN e.amount ELSE 0)
             - (IF e.from = a THEN e.fromWin ELSE 0)
    BY <1>1, <1>3, <2>1, LedgerWinGrows
  <2>4. e.amount \in Int /\ e.fromWin \in Int
    BY <1>1, <1>3
  <2>5. CASE a = e.from
    BY <1>1, <2>1, <2>2, <2>3, <2>4, <2>5
  <2>6. CASE a = e.to
    BY <1>1, <2>1, <2>2, <2>3, <2>4, <2>6
  <2>7. CASE a \notin {e.from, e.to}
    BY <1>1, <2>1, <2>2, <2>3, <2>4, <2>7
  <2> QED
    BY <2>5, <2>6, <2>7
<1> QED
  BY <1>2, <1>4 DEF LedgerExplainsBalances

(* The opening balances explain themselves.                                *)
LEMMA InitBooks == Init => BooksInv
<1> SUFFICES ASSUME Init PROVE BooksInv
  OBVIOUS
<1>1. ledger = {} /\ IsFiniteSet(ledger)
  BY FS_EmptySet DEF Init
<1>2. ChainsGrow /\ HashChainUnforked
  BY <1>1 DEF ChainsGrow, HashChainUnforked
<1>3. ASSUME NEW a \in Accounts
      PROVE  acct[a].dep = LedgerDep(ledger, a) /\ acct[a].win = LedgerWin(ledger, a)
  <2>1. /\ LedgerDep({}, a) = OpeningBalance(a).dep + 0 - 0
        /\ LedgerWin({}, a) = OpeningBalance(a).win + 0 - 0
    BY LedgerOfNothing, FS_EmptySet
  <2>2. OpeningBalance(a).dep \in Int /\ OpeningBalance(a).win \in Int
    BY OpeningBalances DEF OpeningBalance
  <2>3. acct[a] = OpeningBalance(a)
    BY DEF Init
  <2> QED
    BY <1>1, <2>1, <2>2, <2>3
<1> QED
  BY <1>1, <1>2, <1>3 DEF BooksInv, LedgerExplainsBalances

(* Every step keeps the books.                                             *)
LEMMA NextBooks == IInv /\ BooksInv /\ [Next]_vars => BooksInv'
<1> SUFFICES ASSUME IInv, BooksInv, [Next]_vars PROVE BooksInv'
  OBVIOUS
<1>1. CASE UNCHANGED <<acct, ledger>>
  BY <1>1 DEF BooksInv, LedgerExplainsBalances, ChainsGrow, HashChainUnforked
<1>2. ASSUME NEW p \in Procs, NEW via \in Holds \cup {None}, Posted(p, via) PROVE BooksInv'
  BY <1>2, ChainsStay, PostedExplains DEF BooksInv
<1> QED
  BY <1>1, <1>2, OnlyPostingsBook

(* The books always balance: for any number of concurrent postings the     *)
(* ledger explains the balances and the hash chains have no fork.          *)
THEOREM BooksKept == Spec => []BooksInv
  BY InitBooks, NextBooks, Invariance, PTL DEF Spec

(* The reconciliation never finds a difference.                            *)
THEOREM BalancesReconcile == Spec => []LedgerExplainsBalances
<1>1. BooksInv => LedgerExplainsBalances
  BY DEF BooksInv
<1> QED
  BY <1>1, BooksKept, PTL

(* No two ledger operations hash over the same entry of an account.        *)
THEOREM ChainNeverForks == Spec => []HashChainUnforked
<1>1. BooksInv => HashChainUnforked
  BY DEF BooksInv
<1> QED
  BY <1>1, BooksKept, PTL

-----------------------------------------------------------------------------
(* What one step does to the calls in flight.                              *)

Step(p) == CallStep(p) \/ LockStep(p) \/ WriteStep(p) \/ ConnectionLost(p)

(* A call asks for what callers may ask for, of the wallet of its hold.    *)
AskedWell(c, r) ==
  /\ c.op \notin {"none", "commit", "expire"} => c.amt \in Amounts
  /\ c.op = "increase" => c.from = r[c.hold].wallet
  /\ c.op = "credit" => c.from \in System

Starts(p) ==
  /\ UNCHANGED tables /\ pc'[p] = "begin" /\ snap'[p] = snap[p]
  /\ AskedWell(call'[p], res)

Locks(p) ==
  /\ UNCHANGED tables
  /\ pc'[p] = pc[p] /\ call'[p] = call[p] /\ snap'[p] = snap[p] /\ stale'[p] = stale[p]
  /\ \E r \in Rows : todo'[p] = todo[p] \ {r} /\ ~Refused(p, r)

Ends(p) == pc'[p] # "locking" /\ snap'[p] = NoSnap /\ call'[p] \in {call[p], NoCall}

LEMMA StartStarts ==
  ASSUME IInv, NEW p \in Procs, NEW c, Start(p, c), AskedWell(c, res)
  PROVE  Starts(p)
  BY DEF Start, Starts, IInv, TypeOK, tables

LEMMA CallsStart ==
  ASSUME IInv, NEW p \in Procs, CallStep(p)
  PROVE  Starts(p)
<1>1. CASE Reserve(p)
  <2>1. PICK h \in Holds, w \in Players, a \in Amounts :
          Start(p, [NoCall EXCEPT !.op = "reserve", !.hold = h, !.from = w, !.amt = a])
    BY <1>1 DEF Reserve
  <2>2. AskedWell([NoCall EXCEPT !.op = "reserve", !.hold = h, !.from = w, !.amt = a], res)
    BY DEF AskedWell, NoCall
  <2> QED
    BY <2>1, <2>2, StartStarts
<1>2. CASE IncreaseReservation(p)
  <2>1. PICK h \in Holds, a \in Amounts :
          Start(p, [NoCall EXCEPT !.op = "increase", !.hold = h, !.from = res[h].wallet, !.amt = a])
    BY <1>2 DEF IncreaseReservation
  <2>2. AskedWell([NoCall EXCEPT !.op = "increase", !.hold = h, !.from = res[h].wallet, !.amt = a], res)
    BY DEF AskedWell, NoCall
  <2> QED
    BY <2>1, <2>2, StartStarts
<1>3. CASE ReleaseReservation(p)
  <2>1. PICK h \in Holds, a \in Amounts :
          Start(p, [NoCall EXCEPT !.op = "release", !.hold = h, !.amt = a])
    BY <1>3 DEF ReleaseReservation
  <2>2. AskedWell([NoCall EXCEPT !.op = "release", !.hold = h, !.amt = a], res)
    BY DEF AskedWell, NoCall
  <2> QED
    BY <2>1, <2>2, StartStarts
<1>4. CASE CommitReservation(p)
  <2>1. PICK h \in Holds, to \in Players, s \in TargetSides, k \in Keys :
          Start(p, [NoCall EXCEPT !.op = "commit", !.hold = h, !.from = res[h].wallet,
                                  !.to = to, !.side = s, !.key = k])
    BY <1>4 DEF CommitReservation
  <2>2. AskedWell([NoCall EXCEPT !.op = "commit", !.hold = h, !.from = res[h].wallet,
                                 !.to = to, !.side = s, !.key = k], res)
    BY DEF AskedWell, NoCall
  <2> QED
    BY <2>1, <2>2, StartStarts
<1>5. CASE Transfer(p)
  <2>1. PICK from, to \in Players, a \in Amounts, s \in TargetSides, k \in Keys :
          Start(p, [NoCall EXCEPT !.op = "transfer", !.from = from, !.to = to,
                                  !.amt = a, !.side = s, !.key = k])
    BY <1>5 DEF Transfer
  <2>2. AskedWell([NoCall EXCEPT !.op = "transfer", !.from = from, !.to = to,
                                 !.amt = a, !.side = s, !.key = k], res)
    BY DEF AskedWell, NoCall
  <2> QED
    BY <2>1, <2>2, StartStarts
<1>6. CASE Debit(p)
  <2>1. PICK w \in Players, y \in System, a \in Amounts, k \in Keys :
          Start(p, [NoCall EXCEPT !.op = "debit", !.from = w, !.to = y, !.amt = a, !.key = k])
    BY <1>6 DEF Debit
  <2>2. AskedWell([NoCall EXCEPT !.op = "debit", !.from = w, !.to = y, !.amt = a, !.key = k], res)
    BY DEF AskedWell, NoCall
  <2> QED
    BY <2>1, <2>2, StartStarts
<1>7. CASE Credit(p)
  <2>1. PICK w \in Players, y \in System, a \in Amounts, s \in TargetSides, k \in Keys :
          Start(p, [NoCall EXCEPT !.op = "credit", !.from = y, !.to = w,
                                  !.amt = a, !.side = s, !.key = k])
    BY <1>7 DEF Credit
  <2>2. AskedWell([NoCall EXCEPT !.op = "credit", !.from = y, !.to = w,
                                 !.amt = a, !.side = s, !.key = k], res)
    BY DEF AskedWell, NoCall
  <2> QED
    BY <2>1, <2>2, StartStarts
<1>8. CASE ExpireStaleReservations(p)
  <2>1. AskedWell([NoCall EXCEPT !.op = "expire"], res)
    BY DEF AskedWell, NoCall
  <2> QED
    BY <1>8, <2>1, StartStarts DEF ExpireStaleReservations
<1> QED
  BY <1>1, <1>2, <1>3, <1>4, <1>5, <1>6, <1>7, <1>8 DEF CallStep

LEMMA ReturnEnds ==
  ASSUME IInv, NEW p \in Procs, Return(p)
  PROVE  Ends(p)
  BY DEF Return, Ends, IInv, TypeOK

LEMMA RetryEnds ==
  ASSUME IInv, NEW p \in Procs, RollbackAndRetry(p)
  PROVE  Ends(p)
<1>1. CASE RepeatableRead(call[p]) /\ tries[p] < MaxRetries
  BY <1>1 DEF RollbackAndRetry, Ends, IInv, TypeOK
<1>2. CASE ~(RepeatableRead(call[p]) /\ tries[p] < MaxRetries)
  BY <1>2, ReturnEnds DEF RollbackAndRetry, Fail
<1> QED
  BY <1>1, <1>2

LEMMA WritesReturn ==
  ASSUME NEW p \in Procs, WriteStep(p)
  PROVE  Return(p)
  BY DEF WriteStep, ReserveInsert, ReserveExisting, ReserveReject, IncreaseUpdate, IncreaseReject,
         ReleaseUpdate, ExpireUpdate, MoveMoney, CommitHold, PostingReject, DuplicateKey,
         Fail, Committed

LEMMA LockRowLocks ==
  ASSUME IInv, NEW p \in Procs, LockRow(p) \/ SkipInactive(p)
  PROVE  Locks(p)
<1>0. NextRows(p) \subseteq Rows
  BY DEF IInv, TypeOK, NextRows
<1>1. CASE LockRow(p)
  <2>1. PICK r \in NextRows(p) : ~Refused(p, r) /\ Acquire(p, r)
    BY <1>1 DEF LockRow
  <2> QED
    BY <1>0, <2>1 DEF Acquire, Locks, IInv, TypeOK, tables
<1>2. CASE SkipInactive(p)
  <2>1. PICK r \in NextRows(p) :
          /\ call[p].op = "expire" /\ todo' = [todo EXCEPT ![p] = @ \ {r}]
          /\ UNCHANGED <<tables, due, lock, pc, call, snap, stale, seen, tries>>
    BY <1>2 DEF SkipInactive
  <2>2. ~Refused(p, r)
    BY <2>1 DEF Refused, RepeatableRead
  <2> QED
    BY <1>0, <2>1, <2>2 DEF Locks, IInv, TypeOK, tables
<1> QED
  BY <1>1, <1>2

(* Every step of p starts its call, takes its snapshot, locks a row or     *)
(* ends the attempt.                                                       *)
LEMMA OwnStep ==
  ASSUME IInv, NEW p \in Procs, Step(p)
  PROVE  Starts(p) \/ Begin(p) \/ Locks(p) \/ Ends(p)
<1>1. CASE CallStep(p)
  BY <1>1, CallsStart
<1>2. CASE LockStep(p)
  BY <1>2, LockRowLocks, RetryEnds, ReturnEnds
     DEF LockStep, RejectInactive, Fail, SerializationFailure, DeadlockVictim
<1>3. CASE WriteStep(p) \/ ConnectionLost(p)
  BY <1>3, WritesReturn, ReturnEnds DEF ConnectionLost, Fail
<1> QED
  BY <1>1, <1>2, <1>3 DEF Step

(* What p does leaves the other calls alone, except that rows they have    *)
(* yet to lock become stale.                                               *)
Untouched(q) ==
  /\ pc'[q] = pc[q] /\ call'[q] = call[q] /\ snap'[q] = snap[q] /\ todo'[q] = todo[q]
  /\ stale[q] \subseteq stale'[q]

LEMMA ReturnUntouched ==
  ASSUME IInv, NEW p \in Procs, NEW q \in Procs, q # p, Return(p), stale[q] \subseteq stale'[q]
  PROVE  Untouched(q)
  BY DEF Return, Untouched, IInv, TypeOK

LEMMA FailUntouched ==
  ASSUME IInv, NEW p \in Procs, NEW q \in Procs, q # p, Fail(p)
  PROVE  Untouched(q)
<1>1. stale'[q] = stale[q]
  BY DEF Fail, IInv, TypeOK
<1> QED
  BY <1>1, ReturnUntouched DEF Fail

LEMMA RetryUntouched ==
  ASSUME IInv, NEW p \in Procs, NEW q \in Procs, q # p, RollbackAndRetry(p)
  PROVE  Untouched(q)
<1>1. CASE RepeatableRead(call[p]) /\ tries[p] < MaxRetries
  BY <1>1 DEF RollbackAndRetry, Untouched, IInv, TypeOK
<1>2. CASE ~(RepeatableRead(call[p]) /\ tries[p] < MaxRetries)
  BY <1>2, FailUntouched DEF RollbackAndRetry
<1> QED
  BY <1>1, <1>2

LEMMA WriteUntouched ==
  ASSUME IInv, NEW p \in Procs, NEW q \in Procs, q # p, WriteStep(p)
  PROVE  Untouched(q)
<1>1. ASSUME NEW W, Committed(p, W) PROVE Untouched(q)
  <2>1. stale[q] \subseteq stale'[q]
    BY <1>1 DEF Committed
  <2> QED
    BY <1>1, <2>1, ReturnUntouched DEF Committed
<1>2. CASE \/ ReserveReject(p) \/ IncreaseReject(p) \/ PostingReject(p) \/ DuplicateKey(p)
  BY <1>2, FailUntouched DEF ReserveReject, IncreaseReject, PostingReject, DuplicateKey
<1>3. CASE ReserveInsert(p) \/ ReserveExisting(p)
  BY <1>1, <1>3 DEF ReserveInsert, ReserveExisting
<1>4. CASE IncreaseUpdate(p)   BY <1>1, <1>4 DEF IncreaseUpdate
<1>5. CASE ReleaseUpdate(p)    BY <1>1, <1>5 DEF ReleaseUpdate
<1>6. CASE ExpireUpdate(p)     BY <1>1, <1>6 DEF ExpireUpdate
<1>7. CASE MoveMoney(p)        BY <1>1, <1>7 DEF MoveMoney
<1>8. CASE CommitHold(p)       BY <1>1, <1>8 DEF CommitHold
<1> QED
  BY <1>2, <1>3, <1>4, <1>5, <1>6, <1>7, <1>8 DEF WriteStep

LEMMA StartUntouched ==
  ASSUME IInv, NEW p \in Procs, NEW q \in Procs, q # p, CallStep(p)
  PROVE  Untouched(q)
<1>1. ASSUME NEW c, Start(p, c) PROVE Untouched(q)
  BY <1>1 DEF Start, Untouched, IInv, TypeOK
<1>2. CASE Reserve(p)                   BY <1>1, <1>2 DEF Reserve
<1>3. CASE IncreaseReservation(p)       BY <1>1, <1>3 DEF IncreaseReservation
<1>4. CASE ReleaseReservation(p)        BY <1>1, <1>4 DEF ReleaseReservation
<1>5. CASE CommitReservation(p)         BY <1>1, <1>5 DEF CommitReservation
<1>6. CASE Transfer(p)                  BY <1>1, <1>6 DEF Transfer
<1>7. CASE Debit(p)                     BY <1>1, <1>7 DEF Debit
<1>8. CASE Credit(p)                    BY <1>1, <1>8 DEF Credit
<1>9. CASE ExpireStaleReservations(p)   BY <1>1, <1>9 DEF ExpireStaleReservations
<1> QED
  BY <1>2, <1>3, <1>4, <1>5, <1>6, <1>7, <1>8, <1>9 DEF CallStep

LEMMA LockUntouched ==
  ASSUME IInv, NEW p \in Procs, NEW q \in Procs, q # p, LockStep(p)
  PROVE  Untouched(q)
<1>1. CASE Begin(p)
  BY <1>1 DEF Begin, Untouched, IInv, TypeOK
<1>2. CASE LockRow(p)
  BY <1>2 DEF LockRow, Acquire, Untouched, IInv, TypeOK
<1>3. CASE SkipInactive(p)
  BY <1>3 DEF SkipInactive, Untouched, IInv, TypeOK
<1>4. CASE RejectInactive(p)
  BY <1>4, FailUntouched DEF RejectInactive
<1>5. CASE SerializationFailure(p) \/ DeadlockVictim(p)
  BY <1>5, RetryUntouched DEF SerializationFailure, DeadlockVictim
<1> QED
  BY <1>1, <1>2, <1>3, <1>4, <1>5 DEF LockStep

LEMMA OtherStep ==
  ASSUME IInv, NEW p \in Procs, NEW q \in Procs, q # p, Step(p)
  PROVE  Untouched(q)
  BY StartUntouched, LockUntouched, WriteUntouched, FailUntouched DEF Step, ConnectionLost

-----------------------------------------------------------------------------
(* What the writing steps do to the reservations.                          *)

OneHold(p, h, row) ==
  /\ h \in Holds /\ row \in Hold /\ call[p].hold = h
  /\ res'[h] = row /\ \A g \in Holds \ {h} : res'[g] = res[g]
  /\ res' = [res EXCEPT ![h] = row]

(* What a step writes over was locked by it, or was not there.             *)
Overwrites(p) ==
  \E W : /\ Committed(p, W)
         /\ \A h \in Holds : res'[h] # res[h] => res[h].status = "none" \/ (h \in W /\ lock[h] = p)

LEMMA HoldIsOwned ==
  ASSUME IInv, NEW p \in Procs, NEW op \in {"increase", "release", "commit"}, Ready(p, op)
  PROVE  /\ call[p].hold \in Holds /\ lock[call[p].hold] = p
         /\ res[call[p].hold].status = "active" /\ res[call[p].hold].wallet \in Players
         /\ res[call[p].hold] \in Hold /\ call[p].amt \in Nat
<1>1. pc[p] = "locking" /\ todo[p] = {} /\ call[p].op = op
  BY DEF Ready
<1>2. call[p].hold \in Holds /\ call[p].hold \in RowsToLock(call[p])
  BY <1>1 DEF IInv, CallShape, CallFits, RowsToLock
<1>3. lock[call[p].hold] = p
  BY <1>1, <1>2, WriterOwns
<1>4. res[call[p].hold] \in Hold /\ call[p].amt \in Nat
  BY <1>2 DEF IInv, TypeOK, Call
<1>5. res[call[p].hold].status = "active" /\ res[call[p].hold].wallet \in Players
  BY <1>2, <1>3 DEF IInv, ReadsAreCurrent, HoldShape
<1> QED
  BY <1>2, <1>3, <1>4, <1>5

LEMMA Inserts ==
  ASSUME IInv, NEW p \in Procs, ReserveInsert(p)
  PROVE  /\ OneHold(p, call[p].hold,
                    [status |-> "active", wallet |-> call[p].from, amount |-> call[p].amt])
         /\ res[call[p].hold].status = "none" /\ call[p].from \in Players
         /\ seen[p][call[p].from] = acct[call[p].from] /\ call[p].amt <= AvailableTo(p)
         /\ call[p].op = "reserve" /\ pc[p] = "locking" /\ todo[p] = {}
         /\ Committed(p, {}) /\ UNCHANGED <<acct, ledger, outbox>>
<1> DEFINE c == call[p]
           row == [status |-> "active", wallet |-> c.from, amount |-> c.amt]
<1>1. /\ c.op = "reserve" /\ pc[p] = "locking" /\ todo[p] = {} /\ c \in Call
      /\ c.hold \in Holds /\ c.from \in Players
  BY DEF ReserveInsert, Ready, IInv, TypeOK, CallShape, CallFits
<1>2. row \in Hold
  BY <1>1 DEF Hold, HoldStatus, Call
<1>3. seen[p][c.from] = acct[c.from]
  <2>1. lock[c.from] = p /\ c.from \in Accounts
    BY <1>1, WriterOwns DEF RowsToLock, Accounts
  <2> QED
    BY <2>1 DEF IInv, ReadsAreCurrent
<1>4. /\ res' = [res EXCEPT ![c.hold] = row] /\ res[c.hold].status = "none"
      /\ c.amt <= AvailableTo(p)
      /\ Committed(p, {}) /\ UNCHANGED <<acct, ledger, outbox>>
  BY DEF ReserveInsert
<1>5. OneHold(p, c.hold, row)
  BY <1>1, <1>2, <1>4 DEF OneHold, IInv, TypeOK
<1> QED
  BY <1>1, <1>3, <1>4, <1>5

LEMMA Raises ==
  ASSUME IInv, NEW p \in Procs, IncreaseUpdate(p)
  PROVE  /\ OneHold(p, call[p].hold,
                    [res[call[p].hold] EXCEPT !.amount = @ + call[p].amt])
         /\ Ready(p, "increase")
         /\ call[p].from \in Players
         /\ seen[p][call[p].from] = acct[call[p].from] /\ call[p].amt <= AvailableTo(p)
         /\ Committed(p, {call[p].hold}) /\ UNCHANGED <<acct, ledger, outbox>>
<1> DEFINE c == call[p]
           row == [res[c.hold] EXCEPT !.amount = @ + c.amt]
<1>1. Ready(p, "increase") /\ c.op = "increase" /\ pc[p] = "locking" /\ todo[p] = {}
  BY DEF IncreaseUpdate, Ready
<1>2. c.hold \in Holds /\ res[c.hold] \in Hold /\ c.amt \in Nat
  BY <1>1, HoldIsOwned
<1>3. row \in Hold
  BY <1>2 DEF Hold
<1>4. c.from \in Players
  BY <1>1 DEF IInv, CallShape, CallFits
<1>5. seen[p][c.from] = acct[c.from]
  <2>1. lock[c.from] = p /\ c.from \in Accounts
    BY <1>1, <1>4, WriterOwns DEF RowsToLock, Accounts
  <2> QED
    BY <2>1 DEF IInv, ReadsAreCurrent
<1>6. /\ res' = [res EXCEPT ![c.hold] = row] /\ c.amt <= AvailableTo(p)
      /\ Committed(p, {c.hold}) /\ UNCHANGED <<acct, ledger, outbox>>
  BY DEF IncreaseUpdate
<1>7. OneHold(p, c.hold, row)
  BY <1>2, <1>3, <1>6 DEF OneHold, IInv, TypeOK
<1> QED
  BY <1>1, <1>4, <1>5, <1>6, <1>7

LEMMA Frees ==
  ASSUME IInv, NEW p \in Procs, ReleaseUpdate(p)
  PROVE  /\ OneHold(p, call[p].hold,
                    IF call[p].amt >= res[call[p].hold].amount
                    THEN [res[call[p].hold] EXCEPT !.status = "released"]
                    ELSE [res[call[p].hold] EXCEPT !.amount = @ - call[p].amt])
         /\ Ready(p, "release")
         /\ Committed(p, {call[p].hold}) /\ UNCHANGED <<acct, ledger, outbox>>
<1> DEFINE c == call[p]
           row == IF c.amt >= res[c.hold].amount
                  THEN [res[c.hold] EXCEPT !.status = "released"]
                  ELSE [res[c.hold] EXCEPT !.amount = @ - c.amt]
<1>1. Ready(p, "release")
  BY DEF ReleaseUpdate
<1>2. c.hold \in Holds /\ res[c.hold] \in Hold /\ c.amt \in Nat
  BY <1>1, HoldIsOwned
<1>3. row \in Hold
  <2>1. [res[c.hold] EXCEPT !.status = "released"] \in Hold
    BY <1>2 DEF Hold, HoldStatus
  <2>2. c.amt < res[c.hold].amount => [res[c.hold] EXCEPT !.amount = @ - c.amt] \in Hold
    BY <1>2 DEF Hold
  <2>3. c.amt >= res[c.hold].amount \/ c.amt < res[c.hold].amount
    BY <1>2 DEF Hold
  <2> QED
    BY <2>1, <2>2, <2>3
<1>4. /\ res' = [res EXCEPT ![c.hold] = row]
      /\ Committed(p, {c.hold}) /\ UNCHANGED <<acct, ledger, outbox>>
  BY DEF ReleaseUpdate
<1>5. OneHold(p, c.hold, row)
  <2> HIDE DEF row
  <2> QED
    BY <1>2, <1>3, <1>4 DEF OneHold, IInv, TypeOK
<1> QED
  BY <1>1, <1>4, <1>5

LEMMA Expires ==
  ASSUME IInv, NEW p \in Procs, ExpireUpdate(p)
  PROVE  \E S \in SUBSET Holds :
           /\ \A h \in S : res[h].status = "active" /\ lock[h] = p
           /\ res' = [h \in Holds |-> IF h \in S THEN [res[h] EXCEPT !.status = "expired"] ELSE res[h]]
           /\ Committed(p, S) /\ UNCHANGED <<acct, ledger, outbox>>
<1> DEFINE S == {h \in Holds : lock[h] = p}
<1>1. S \in SUBSET Holds /\ \A h \in S : res[h].status = "active" /\ lock[h] = p
  BY DEF IInv, ReadsAreCurrent
<1>2. /\ res' = [h \in Holds |-> IF h \in S THEN [res[h] EXCEPT !.status = "expired"] ELSE res[h]]
      /\ Committed(p, S) /\ UNCHANGED <<acct, ledger, outbox>>
  BY DEF ExpireUpdate
<1> QED
  BY <1>1, <1>2

LEMMA Settles ==
  ASSUME IInv, NEW p \in Procs, CommitHold(p)
  PROVE  /\ OneHold(p, call[p].hold, [res[call[p].hold] EXCEPT !.status = "committed"])
         /\ Ready(p, "commit")
         /\ Posted(p, call[p].hold) /\ Moved(p) = res[call[p].hold].amount
         /\ call[p].from = res[call[p].hold].wallet
         /\ Committed(p, {call[p].hold, call[p].from, call[p].to})
<1> DEFINE h == call[p].hold
           row == [res[h] EXCEPT !.status = "committed"]
<1>1. /\ Ready(p, "commit") /\ ExecuteLedger(p, h) /\ res' = [res EXCEPT ![h] = row]
      /\ Committed(p, {h, call[p].from, call[p].to})
  BY DEF CommitHold
<1>2. h \in Holds /\ res[h] \in Hold
  BY <1>1, HoldIsOwned
<1>3. row \in Hold
  BY <1>2 DEF Hold, HoldStatus
<1>4. OneHold(p, h, row)
  BY <1>1, <1>2, <1>3 DEF OneHold, IInv, TypeOK
<1>5. Posting(p)
  BY <1>1 DEF Posting
<1>6. Posted(p, h)
  BY <1>1, <1>2, <1>5, ExecutePosts
<1>7. Moved(p) = res[h].amount /\ call[p].from = res[h].wallet
  BY <1>1 DEF Moved, Ready, IInv, CallShape, CallFits
<1> QED
  BY <1>1, <1>4, <1>6, <1>7

(* A step that changes the reservations is one of these.                   *)
Rewrites(p) ==
  \/ ReserveInsert(p) \/ IncreaseUpdate(p) \/ ReleaseUpdate(p) \/ ExpireUpdate(p) \/ CommitHold(p)

LEMMA StepRewrites ==
  ASSUME NEW p \in Procs, Step(p)
  PROVE  Rewrites(p) \/ UNCHANGED res
<1>1. CASE CallStep(p) \/ LockStep(p) \/ ConnectionLost(p)
  BY <1>1, CallsWriteNothing, LocksWriteNothing DEF ConnectionLost, Fail, tables
<1>2. CASE WriteStep(p)
  BY <1>2 DEF WriteStep, Rewrites, ReserveExisting, ReserveReject, IncreaseReject, MoveMoney,
              PostingReject, DuplicateKey, Fail, tables
<1> QED
  BY <1>1, <1>2 DEF Step

LEMMA RewritesOverwrite ==
  ASSUME IInv, NEW p \in Procs, Rewrites(p)
  PROVE  Overwrites(p)
<1>1. CASE ReserveInsert(p)
  <2>1. \A h \in Holds : res'[h] # res[h] => res[h].status = "none"
    BY <1>1, Inserts DEF OneHold
  <2> QED
    BY <1>1, <2>1, Inserts DEF Overwrites
<1>2. ASSUME NEW op \in {"increase", "release", "commit"}, Ready(p, op),
             NEW row, OneHold(p, call[p].hold, row), NEW W, call[p].hold \in W, Committed(p, W)
      PROVE  Overwrites(p)
  <2>1. lock[call[p].hold] = p
    BY <1>2, HoldIsOwned
  <2>2. \A h \in Holds : res'[h] # res[h] => h \in W /\ lock[h] = p
    BY <1>2, <2>1 DEF OneHold
  <2> QED
    BY <1>2, <2>2 DEF Overwrites
<1>3. CASE IncreaseUpdate(p)
  BY <1>2, <1>3, Raises
<1>4. CASE ReleaseUpdate(p)
  BY <1>2, <1>4, Frees
<1>5. CASE CommitHold(p)
  BY <1>2, <1>5, Settles
<1>6. CASE ExpireUpdate(p)
  <2>1. PICK S \in SUBSET Holds :
           /\ \A h \in S : res[h].status = "active" /\ lock[h] = p
           /\ res' = [h \in Holds |-> IF h \in S THEN [res[h] EXCEPT !.status = "expired"] ELSE res[h]]
           /\ Committed(p, S)
    BY <1>6, Expires
  <2>2. \A h \in Holds : res'[h] # res[h] => h \in S /\ lock[h] = p
    BY <2>1
  <2> QED
    BY <2>1, <2>2 DEF Overwrites
<1> QED
  BY <1>1, <1>3, <1>4, <1>5, <1>6 DEF Rewrites

-----------------------------------------------------------------------------
(* Calls ask for what callers may ask for, and reservations are finitely   *)
(* many.                                                                   *)

FiniteRows(r) == IsFiniteSet({h \in Holds : r[h].status # "none"})

AskInv ==
  /\ FiniteRows(res)
  /\ \A p \in Procs : AskedWell(call[p], res) /\ FiniteRows(snap[p])

LEMMA NoCallAsksNothing ==
  ASSUME NEW r
  PROVE  AskedWell(NoCall, r)
  BY DEF AskedWell, NoCall

LEMMA NoSnapIsFinite == FiniteRows(NoSnap)
<1>1. {h \in Holds : NoSnap[h].status # "none"} = {}
  BY DEF NoSnap, NoHold
<1> QED
  BY <1>1, FS_EmptySet DEF FiniteRows

(* No reservation disappears or changes its wallet, and at most one is new. *)
LEMMA RowsKept ==
  ASSUME IInv, FiniteRows(res), NEW p \in Procs, Step(p)
  PROVE  HoldsKept /\ FiniteRows(res')
<1>1. CASE UNCHANGED res
  BY <1>1 DEF HoldsKept, FiniteRows
<1>2. ASSUME NEW h \in Holds, NEW row, OneHold(p, h, row), row.status # "none",
             res[h].status # "none" => row.wallet = res[h].wallet
      PROVE  HoldsKept /\ FiniteRows(res')
  <2>1. HoldsKept
    BY <1>2 DEF OneHold, HoldsKept
  <2>2. {g \in Holds : res'[g].status # "none"} = {g \in Holds : res[g].status # "none"} \cup {h}
    BY <1>2 DEF OneHold
  <2>3. IsFiniteSet({g \in Holds : res[g].status # "none"} \cup {h})
    BY FS_AddElement DEF FiniteRows
  <2> QED
    BY <2>1, <2>2, <2>3 DEF FiniteRows
<1>3. CASE ReserveInsert(p)
  <2> DEFINE row == [status |-> "active", wallet |-> call[p].from, amount |-> call[p].amt]
  <2>1. OneHold(p, call[p].hold, row) /\ res[call[p].hold].status = "none"
    BY <1>3, Inserts
  <2>2. call[p].hold \in Holds
    BY <2>1 DEF OneHold
  <2>3. row.status # "none"
    OBVIOUS
  <2> HIDE DEF row
  <2> QED
    BY <1>2, <2>1, <2>2, <2>3
<1>4. ASSUME NEW op \in {"increase", "release", "commit"}, Ready(p, op), NEW row,
             OneHold(p, call[p].hold, row), row.status # "none",
             row.wallet = res[call[p].hold].wallet
      PROVE  HoldsKept /\ FiniteRows(res')
  BY <1>2, <1>4, HoldIsOwned
<1>5. CASE IncreaseUpdate(p)
  <2>1. Ready(p, "increase")
    BY <1>5, Raises
  <2>2. res[call[p].hold] \in Hold /\ res[call[p].hold].status = "active"
    BY <2>1, HoldIsOwned
  <2>3. /\ [res[call[p].hold] EXCEPT !.amount = @ + call[p].amt].status # "none"
        /\ [res[call[p].hold] EXCEPT !.amount = @ + call[p].amt].wallet = res[call[p].hold].wallet
    BY <2>2 DEF Hold
  <2> QED
    BY <1>4, <1>5, <2>1, <2>3, Raises
<1>6. CASE ReleaseUpdate(p)
  <2> DEFINE row == IF call[p].amt >= res[call[p].hold].amount
                    THEN [res[call[p].hold] EXCEPT !.status = "released"]
                    ELSE [res[call[p].hold] EXCEPT !.amount = @ - call[p].amt]
  <2>1. Ready(p, "release") /\ OneHold(p, call[p].hold, row)
    BY <1>6, Frees
  <2>2. res[call[p].hold] \in Hold /\ res[call[p].hold].status = "active"
    BY <2>1, HoldIsOwned
  <2>3. row.status # "none" /\ row.wallet = res[call[p].hold].wallet
    BY <2>2 DEF Hold
  <2> HIDE DEF row
  <2> QED
    BY <1>4, <2>1, <2>3
<1>7. CASE CommitHold(p)
  <2> DEFINE row == [res[call[p].hold] EXCEPT !.status = "committed"]
  <2>1. Ready(p, "commit") /\ OneHold(p, call[p].hold, row)
    BY <1>7, Settles
  <2>2. res[call[p].hold] \in Hold /\ res[call[p].hold].status = "active"
    BY <2>1, HoldIsOwned
  <2>3. row.status # "none" /\ row.wallet = res[call[p].hold].wallet
    BY <2>2 DEF Hold
  <2> HIDE DEF row
  <2> QED
    BY <1>4, <2>1, <2>3
<1>8. CASE ExpireUpdate(p)
  <2>1. PICK S \in SUBSET Holds :
           /\ \A h \in S : res[h].status = "active" /\ lock[h] = p
           /\ res' = [h \in Holds |-> IF h \in S THEN [res[h] EXCEPT !.status = "expired"] ELSE res[h]]
    BY <1>8, Expires
  <2>2. ASSUME NEW h \in Holds
        PROVE  /\ res'[h].status # "none" <=> res[h].status # "none"
               /\ res'[h].wallet = res[h].wallet
    <3>1. res[h] \in Hold
      BY DEF IInv, TypeOK
    <3> QED
      BY <2>1, <3>1 DEF Hold
  <2>3. {h \in Holds : res'[h].status # "none"} = {h \in Holds : res[h].status # "none"}
    BY <2>2
  <2> QED
    BY <2>2, <2>3 DEF HoldsKept, FiniteRows
<1> QED
  BY <1>1, <1>3, <1>5, <1>6, <1>7, <1>8, StepRewrites DEF Rewrites

LEMMA InitAsk == Init => AskInv
<1> SUFFICES ASSUME Init PROVE AskInv
  OBVIOUS
<1>1. res = NoSnap /\ \A p \in Procs : call[p] = NoCall /\ snap[p] = NoSnap
  BY DEF Init, NoSnap
<1> QED
  BY <1>1, NoCallAsksNothing, NoSnapIsFinite DEF AskInv

LEMMA NextAsk == IInv /\ AskInv /\ [Next]_vars => AskInv'
<1> SUFFICES ASSUME IInv, AskInv, [Next]_vars PROVE AskInv'
  OBVIOUS
<1>1. CASE Tick \/ UNCHANGED vars
  BY <1>1 DEF Tick, vars, tables, session, AskInv, FiniteRows, AskedWell
<1>2. ASSUME NEW p \in Procs, Step(p) PROVE AskInv'
  <2>1. HoldsKept /\ FiniteRows(res')
    BY <1>2, RowsKept DEF AskInv
  <2>2. ASSUME NEW q \in Procs, call'[q] = call[q] PROVE AskedWell(call'[q], res')
    <3>1. AskedWell(call[q], res)
      BY DEF AskInv
    <3>2. call[q].op = "increase" => call[q].hold \in Holds /\ res[call[q].hold].status # "none"
      BY DEF IInv, CallShape, CallFits
    <3> QED
      BY <2>1, <2>2, <3>1, <3>2 DEF HoldsKept, AskedWell
  <2>3. ASSUME NEW q \in Procs PROVE AskedWell(call'[q], res') /\ FiniteRows(snap'[q])
    <3>1. CASE q # p
      BY <1>2, <2>2, <3>1, OtherStep DEF Untouched, AskInv
    <3>2. CASE Starts(p) /\ q = p
      BY <3>2 DEF Starts, tables, AskInv
    <3>3. CASE Begin(p) /\ q = p
      <4>1. call' = call /\ snap'[p] \in {res, NoSnap}
        BY <3>3 DEF Begin, IInv, TypeOK
      <4> QED
        BY <2>2, <3>3, <4>1, NoSnapIsFinite DEF AskInv
    <3>4. CASE Locks(p) /\ q = p
      BY <2>2, <3>4 DEF Locks, AskInv
    <3>5. CASE Ends(p) /\ q = p
      BY <2>2, <3>5, NoCallAsksNothing, NoSnapIsFinite DEF Ends
    <3> QED
      BY <1>2, <3>1, <3>2, <3>3, <3>4, <3>5, OwnStep
  <2> QED
    BY <2>1, <2>3 DEF AskInv
<1> QED
  BY <1>1, <1>2 DEF Next, Step

(* Calls in flight ask for amounts callers may ask for, an increase of the *)
(* wallet of its reservation, and only finitely many reservations exist.   *)
THEOREM CallsAskWell == Spec => []AskInv
  BY InitAsk, NextAsk, Invariance, PTL DEF Spec

-----------------------------------------------------------------------------
(* The adapter implements the atomic wallet.                               *)

(* The operators of the wallet's data read the same in WalletLedger.       *)
LEMMA SameOperators ==
  /\ \A a, b, amt : Ledger!Debited(a, b, amt) = Debited(a, b, amt)
  /\ \A a, b, amt : Ledger!Covers(a, b, amt) = Covers(a, b, amt)
  /\ \A a, b, amt, side : Ledger!Credited(a, b, amt, side) = Credited(a, b, amt, side)
  /\ \A l, k : Ledger!KeyUsed(l, k) = KeyUsed(l, k)
  /\ \A b : Ledger!Total(b) = Total(b)
  /\ \A k, from, to : Ledger!OutboxRows(k, from, to) = OutboxRows(k, from, to)
  /\ \A k, from, bf, to, bt, amt, side, via :
       Ledger!LedgerEntry(k, from, bf, to, bt, amt, side, via)
         = LedgerEntry(k, from, bf, to, bt, amt, side, via)
  BY DEF Ledger!Debited, Debited, Ledger!Covers, Covers, Ledger!Credited, Credited,
         Ledger!KeyUsed, KeyUsed, Ledger!Total, Total, Ledger!OutboxRows, OutboxRows,
         Ledger!LedgerEntry, LedgerEntry, Ledger!SplitDebit, SplitDebit,
         Ledger!CreditSide, CreditSide

LEMMA SameTotal ==
  ASSUME NEW r, NEW w
  PROVE  Ledger!HoldTotal(r, w) = HoldTotal(r, w)
  BY DEF HoldTotal, Ledger!HoldTotal, ActiveHolds, Ledger!ActiveHolds,
         MapThenSumSet, Ledger!MapThenSumSet, MapThenFoldSet, Ledger!MapThenFoldSet

LEMMA ActiveIsFinite ==
  ASSUME NEW r, FiniteRows(r), NEW w
  PROVE  IsFiniteSet(ActiveHolds(r, w))
<1>1. ActiveHolds(r, w) \subseteq {h \in Holds : r[h].status # "none"}
  BY DEF ActiveHolds
<1> QED
  BY <1>1, FS_Subset DEF FiniteRows

LEMMA HoldTotalNat ==
  ASSUME NEW r \in [Holds -> Hold], FiniteRows(r), NEW w
  PROVE  HoldTotal(r, w) \in Nat
<1> DEFINE f == [h \in Holds |-> r[h].amount]
<1>1. IsFiniteSet(ActiveHolds(r, w))
  BY ActiveIsFinite
<1>2. \A h \in ActiveHolds(r, w) : f[h] \in Nat
  BY DEF ActiveHolds, Hold
<1>3. SumOver(f, ActiveHolds(r, w)) \in Nat
  BY <1>1, <1>2, SumTyped
<1> QED
  BY <1>1, <1>3, HoldTotalIsSum

(* What reserve and increase compute never exceeds the balance.            *)
LEMMA AvailableBelowTotal ==
  ASSUME IInv, AskInv, NEW p \in Procs, NEW w \in Players, call[p].from = w,
         seen[p][w] = acct[w]
  PROVE  AvailableTo(p) <= Total(acct[w]) /\ AvailableTo(p) \in Int /\ Total(acct[w]) \in Int
<1>1. HoldTotal(snap[p], w) \in Nat
  BY HoldTotalNat DEF IInv, TypeOK, AskInv
<1>2. acct[w] \in Balance
  BY DEF IInv, TypeOK, Accounts
<1> QED
  BY <1>1, <1>2 DEF AvailableTo, Total, Balance

LEMMA PostedIsPost ==
  ASSUME NEW p \in Procs, NEW via, Posted(p, via)
  PROVE  Ledger!Post(call[p].key, call[p].from, call[p].to, Moved(p), call[p].side, via)
<1> DEFINE c == call[p]
<1>1. acct' = [acct EXCEPT ![c.from] = Debited(c.from, @, Moved(p)),
                           ![c.to]   = Credited(c.to, @, Moved(p), c.side)]
  BY DEF Posted
<1> QED
  BY <1>1, SameOperators DEF Posted, Ledger!Post

LEMMA MoveIsMove ==
  ASSUME IInv, AskInv, NEW p \in Procs, MoveMoney(p)
  PROVE  Ledger!Common
<1> DEFINE c == call[p]
<1>1. Posting(p) /\ ExecuteLedger(p, None) /\ UNCHANGED res
      /\ c.op \in {"transfer", "debit", "credit"}
  BY DEF MoveMoney, Posting, Ready
<1>2. Posted(p, None)
  BY <1>1, ExecutePosts
<1>3. Moved(p) = c.amt /\ c.amt \in Amounts
  BY <1>1 DEF Moved, AskInv, AskedWell
<1>4. c.key \in Keys /\ c.from \in Accounts /\ c.to \in Accounts /\ c.side \in Sides
  BY <1>2 DEF Posted
<1>5. Ledger!Move(c.key, c.from, c.to, c.amt, c.side)
  BY <1>1, <1>2, <1>3, PostedIsPost DEF Ledger!Move
<1> HIDE DEF c
<1>6. c.from \in Ledger!Accounts /\ c.to \in Ledger!Accounts /\ c.side \in Ledger!Sides
  BY <1>4 DEF Accounts, Sides, Ledger!Accounts, Ledger!Sides
<1> QED
  BY <1>3, <1>4, <1>5, <1>6 DEF Ledger!Common

LEMMA CommitIsSettle ==
  ASSUME IInv, NEW p \in Procs, CommitHold(p)
  PROVE  Ledger!Common
<1> DEFINE c == call[p]
<1>1. /\ OneHold(p, c.hold, [res[c.hold] EXCEPT !.status = "committed"])
      /\ Ready(p, "commit") /\ Posted(p, c.hold)
      /\ Moved(p) = res[c.hold].amount /\ c.from = res[c.hold].wallet
  BY Settles
<1>2. res[c.hold].status = "active" /\ c.hold \in Holds
  BY <1>1, HoldIsOwned
<1>3. c.key \in Keys /\ c.to \in Accounts /\ c.side \in Sides
  BY <1>1 DEF Posted
<1>4. Ledger!Post(c.key, res[c.hold].wallet, c.to, res[c.hold].amount, c.side, c.hold)
  BY <1>1, PostedIsPost
<1> HIDE DEF c
<1>5. Ledger!Settle(c.hold, c.key, c.to, c.side)
  BY <1>1, <1>2, <1>4 DEF Ledger!Settle, OneHold
<1>6. c.to \in Ledger!Accounts /\ c.side \in Ledger!Sides
  BY <1>3 DEF Accounts, Sides, Ledger!Accounts, Ledger!Sides
<1> QED
  BY <1>2, <1>3, <1>5, <1>6 DEF Ledger!Common

LEMMA ReleaseIsRelease ==
  ASSUME IInv, AskInv, NEW p \in Procs, ReleaseUpdate(p)
  PROVE  Ledger!Common
<1>1. Ready(p, "release") /\ UNCHANGED <<acct, ledger, outbox>>
  BY Frees
<1>2. call[p].hold \in Holds /\ res[call[p].hold].status = "active" /\ call[p].amt \in Amounts
  BY <1>1, HoldIsOwned DEF Ready, AskInv, AskedWell
<1>3. Ledger!Release(call[p].hold, call[p].amt)
  BY <1>1, <1>2 DEF ReleaseUpdate, Ledger!Release
<1> QED
  BY <1>2, <1>3 DEF Ledger!Common

LEMMA ExpireIsExpire ==
  ASSUME IInv, NEW p \in Procs, ExpireUpdate(p)
  PROVE  Ledger!Common
<1>1. PICK S \in SUBSET Holds :
        /\ \A h \in S : res[h].status = "active" /\ lock[h] = p
        /\ res' = [h \in Holds |-> IF h \in S THEN [res[h] EXCEPT !.status = "expired"] ELSE res[h]]
        /\ UNCHANGED <<acct, ledger, outbox>>
  BY Expires
<1>2. Ledger!Expire(S)
  BY <1>1 DEF Ledger!Expire
<1> QED
  BY <1>2 DEF Ledger!Common

(* A step that changes neither reservations nor accounts changes nothing.  *)
LEMMA OtherwiseStutters ==
  ASSUME NEW p \in Procs, Step(p), ~Rewrites(p), ~MoveMoney(p)
  PROVE  UNCHANGED tables
<1>1. CASE CallStep(p) \/ LockStep(p) \/ ConnectionLost(p)
  BY <1>1, CallsWriteNothing, LocksWriteNothing DEF ConnectionLost, Fail
<1>2. CASE WriteStep(p)
  BY <1>2 DEF WriteStep, Rewrites, ReserveExisting, ReserveReject, IncreaseReject,
              PostingReject, DuplicateKey, Fail
<1> QED
  BY <1>1, <1>2 DEF Step

LEMMA StepImplements ==
  ASSUME IInv, AskInv, NEW p \in Procs, Step(p)
  PROVE  Ledger!Next \/ UNCHANGED tables
<1>1. CASE ReserveInsert(p)
  <2> DEFINE c == call[p]
  <2>1. /\ OneHold(p, c.hold, [status |-> "active", wallet |-> c.from, amount |-> c.amt])
        /\ res[c.hold].status = "none" /\ c.from \in Players /\ c.op = "reserve"
        /\ seen[p][c.from] = acct[c.from] /\ c.amt <= AvailableTo(p)
        /\ UNCHANGED <<acct, ledger, outbox>>
    BY <1>1, Inserts
  <2>2. c.amt \in Amounts /\ c.amt \in Nat /\ c.hold \in Holds
    BY <2>1, AmountsPositive DEF AskInv, AskedWell, OneHold
  <2>3. c.amt <= Total(acct[c.from])
    <3>1. /\ AvailableTo(p) <= Total(acct[c.from]) /\ AvailableTo(p) \in Int
          /\ Total(acct[c.from]) \in Int
      BY <2>1, AvailableBelowTotal
    <3> QED
      BY <2>1, <2>2, <3>1
  <2> HIDE DEF c
  <2>4. Ledger!Take(c.hold, c.from, c.amt)
    BY <2>1, <2>3, SameOperators DEF Ledger!Take, OneHold
  <2> QED
    BY <2>1, <2>2, <2>4 DEF Ledger!Next
<1>2. CASE IncreaseUpdate(p)
  <2> DEFINE c == call[p]
  <2>1. /\ Ready(p, "increase") /\ c.from \in Players
        /\ seen[p][c.from] = acct[c.from] /\ c.amt <= AvailableTo(p)
        /\ UNCHANGED <<acct, ledger, outbox>>
    BY <1>2, Raises
  <2>2. c.amt \in Amounts /\ c.amt \in Nat /\ c.from = res[c.hold].wallet
    BY <2>1, AmountsPositive DEF AskInv, AskedWell, Ready
  <2>3. c.hold \in Holds /\ res[c.hold].status = "active"
    BY <2>1, HoldIsOwned
  <2>4. c.amt <= Total(acct[c.from])
    <3>1. /\ AvailableTo(p) <= Total(acct[c.from]) /\ AvailableTo(p) \in Int
          /\ Total(acct[c.from]) \in Int
      BY <2>1, AvailableBelowTotal
    <3> QED
      BY <2>1, <2>2, <3>1
  <2>5. res' = [res EXCEPT ![c.hold].amount = @ + c.amt]
    BY <1>2 DEF IncreaseUpdate
  <2> HIDE DEF c
  <2>6. Ledger!Increase(c.hold, c.amt)
    BY <2>1, <2>2, <2>3, <2>4, <2>5, SameOperators DEF Ledger!Increase
  <2> QED
    BY <2>2, <2>3, <2>6 DEF Ledger!Next
<1>3. CASE ReleaseUpdate(p) \/ ExpireUpdate(p) \/ CommitHold(p) \/ MoveMoney(p)
  BY <1>3, ReleaseIsRelease, ExpireIsExpire, CommitIsSettle, MoveIsMove DEF Ledger!Next
<1> QED
  BY <1>1, <1>2, <1>3, OtherwiseStutters DEF Rewrites

LEMMA InitImplements == Init => Ledger!Init
<1>1. \A a \in Accounts : Ledger!OpeningBalance(a) = OpeningBalance(a)
  BY DEF OpeningBalance, Ledger!OpeningBalance
<1> QED
  BY <1>1 DEF Init, Ledger!Init, NoHold, Ledger!NoHold, Accounts, Ledger!Accounts

(* Snapshots, row locks, retries, deadlocks and lost connections are not   *)
(* to be seen in what the tables go through: every call takes effect in    *)
(* one step of the atomic wallet, or not at all.                           *)
THEOREM AdapterImplementsLedger == Spec => ImplementsLedger
<1>1. IInv /\ AskInv /\ [Next]_vars => [Ledger!Next]_(Ledger!vars)
  <2> SUFFICES ASSUME IInv, AskInv, [Next]_vars PROVE [Ledger!Next]_(Ledger!vars)
    OBVIOUS
  <2>1. CASE Tick \/ UNCHANGED vars
    BY <2>1 DEF Tick, vars, tables, Ledger!vars
  <2>2. ASSUME NEW p \in Procs, Step(p) PROVE [Ledger!Next]_(Ledger!vars)
    BY <2>2, StepImplements DEF tables, Ledger!vars
  <2> QED
    BY <2>1, <2>2 DEF Next, Step
<1> QED
  BY <1>1, InitImplements, Invariance, CallsAskWell, PTL DEF Spec, ImplementsLedger, Ledger!Spec

(* The events of a ledger are in the outbox, and no others.                *)
Announced(l, o) == o = UNION {OutboxRows(t.key, t.from, t.to) : t \in l}

LEMMA PostAnnounces ==
  ASSUME NEW k, NEW from, NEW to, NEW amt, NEW side, NEW via,
         Ledger!Post(k, from, to, amt, side, via), Announced(ledger, outbox)
  PROVE  Announced(ledger', outbox') /\ ledger \subseteq ledger'
<1> DEFINE t == LedgerEntry(k, from, acct[from], to, acct[to], amt, side, via)
<1>1. ledger' = ledger \cup {t} /\ outbox' = outbox \cup OutboxRows(k, from, to)
  BY SameOperators DEF Ledger!Post
<1>2. t.key = k /\ t.from = from /\ t.to = to
  BY DEF LedgerEntry
<1> HIDE DEF t
<1>3. outbox' = outbox \cup OutboxRows(t.key, t.from, t.to)
  BY <1>1, <1>2
<1> QED
  BY <1>1, <1>3 DEF Announced

LEMMA LedgerAnnounces ==
  ASSUME Announced(ledger, outbox), [Ledger!Next]_(Ledger!vars)
  PROVE  Announced(ledger', outbox') /\ ledger \subseteq ledger'
<1>1. CASE UNCHANGED <<ledger, outbox>>
  BY <1>1 DEF Announced
<1>2. CASE \E k \in Keys, from, to \in Accounts, amt \in Amounts, side \in Sides :
             Ledger!Move(k, from, to, amt, side)
  BY <1>2, PostAnnounces DEF Ledger!Move
<1>3. CASE \E h \in Holds, k \in Keys, to \in Accounts, side \in Sides : Ledger!Settle(h, k, to, side)
  BY <1>3, PostAnnounces DEF Ledger!Settle
<1>4. \/ UNCHANGED <<ledger, outbox>>
      \/ \E k \in Keys, from, to \in Accounts, amt \in Amounts, side \in Sides :
           Ledger!Move(k, from, to, amt, side)
      \/ \E h \in Holds, k \in Keys, to \in Accounts, side \in Sides : Ledger!Settle(h, k, to, side)
  BY DEF Ledger!Next, Ledger!Common, Ledger!vars, Ledger!Release, Ledger!Expire, Ledger!Take,
         Ledger!Increase, Ledger!Accounts, Accounts, Ledger!Sides, Sides
<1> QED
  BY <1>1, <1>2, <1>3, <1>4

(* Whatever commits, rolls back, is retried or replayed: every posting has *)
(* its events in the outbox and no event is there without its posting.     *)
THEOREM EveryPostingIsAnnounced == Spec => []Announced(ledger, outbox)
<1>1. Ledger!Init => Announced(ledger, outbox)
  BY DEF Ledger!Init, Announced
<1>2. Announced(ledger, outbox) /\ [Ledger!Next]_(Ledger!vars) => Announced(ledger, outbox)'
  BY LedgerAnnounces DEF Announced
<1> QED
  BY <1>1, <1>2, AdapterImplementsLedger, PTL DEF ImplementsLedger, Ledger!Spec

(* The ledger is only ever appended to.                                    *)
THEOREM LedgerOnlyGrows == Spec => [][ledger \subseteq ledger']_(Ledger!vars)
<1>1. Announced(ledger, outbox) /\ [Ledger!Next]_(Ledger!vars)
        => [ledger \subseteq ledger']_(Ledger!vars)
  BY LedgerAnnounces
<1> QED
  BY <1>1, EveryPostingIsAnnounced, AdapterImplementsLedger, PTL DEF ImplementsLedger, Ledger!Spec

-----------------------------------------------------------------------------
(* Holds of one wallet taken one at a time.                                *)

(* Two calls in flight that take from one wallet do so for one reservation. *)
(* The adapter does not see to this: reserve locks the account but sums    *)
(* the holds of its snapshot.                                              *)
OneHoldAtATime ==
  \A p, q \in Procs :
    (ReadsHolds(call[p]) /\ ReadsHolds(call[q]) /\ call[p].from = call[q].from)
      => call[p].hold = call[q].hold

(* The snapshot a taking call works from shows at least what is held now,  *)
(* its own reservation excepted, which it reads again under its lock.      *)
ShownIn(s, r, h, w) ==
  s[h].status = "active" /\ s[h].wallet = w /\ s[h].amount >= r[h].amount

SnapCovers ==
  \A p \in Procs :
    pc[p] = "locking" /\ ReadsHolds(call[p]) =>
      /\ \A h \in ActiveHolds(res, call[p].from) \ {call[p].hold} :
           ShownIn(snap[p], res, h, call[p].from)
      /\ call[p].op = "increase" =>
           \/ call[p].hold \in stale[p] \cap todo[p]
           \/ snap[p][call[p].hold] = res[call[p].hold]

(* Of a wallet with a smaller set of smaller holds less is held.           *)
LEMMA SumMonotone ==
  ASSUME NEW f, NEW g, NEW T, IsFiniteSet(T), NEW S \in SUBSET T,
         \A x \in S : f[x] \in Nat /\ f[x] <= g[x], \A x \in T : g[x] \in Nat
  PROVE  SumOver(f, S) <= SumOver(g, T)
<1> DEFINE M == {t \in SUBSET T : SumOver(f, S \cap t) <= SumOver(g, t)}
<1>0. \A t \in SUBSET T : IsFiniteSet(t) /\ IsFiniteSet(S \cap t)
  BY FS_Subset
<1>1. {} \in M
  <2>1. S \cap {} = {}
    OBVIOUS
  <2> QED
    BY <2>1, SumNothing
<1>2. ASSUME NEW t \in SUBSET T, t # {}, \A x \in t : t \ {x} \in M PROVE t \in M
  <2>1. PICK x \in t : TRUE
    BY <1>2
  <2>2. SumOver(f, S \cap (t \ {x})) <= SumOver(g, t \ {x})
    BY <1>2
  <2>3. SumOver(g, t) = g[x] + SumOver(g, t \ {x})
    <3>1. t \in SUBSET T /\ \A y \in t : g[y] \in Nat
      OBVIOUS
    <3>2. IsFiniteSet(t)
      BY <1>0, <3>1
    <3>3. \A y \in t : g[y] \in Int
      BY <3>1
    <3> QED
      BY <3>2, <3>3, SumWithout
  <2>4. /\ SumOver(g, t \ {x}) \in Nat /\ SumOver(f, S \cap (t \ {x})) \in Nat /\ g[x] \in Nat
    <3>1. IsFiniteSet(t \ {x}) /\ IsFiniteSet(S \cap (t \ {x}))
      BY <1>0
    <3> QED
      BY <3>1, SumTyped
  <2>5. CASE x \in S
    <3>1. (S \cap t) \ {x} = S \cap (t \ {x}) /\ x \in S \cap t
      BY <2>5
    <3>2. SumOver(f, S \cap t) = f[x] + SumOver(f, (S \cap t) \ {x})
      BY <1>0, <3>1, SumWithout
    <3>3. f[x] \in Nat /\ f[x] <= g[x]
      BY <2>5
    <3> QED
      BY <2>2, <2>3, <2>4, <3>1, <3>2, <3>3
  <2>6. CASE x \notin S
    <3>1. S \cap t = S \cap (t \ {x})
      BY <2>6
    <3>2. SumOver(f, S \cap t) = SumOver(f, S \cap (t \ {x}))
      BY <3>1, Zenon
    <3> QED
      BY <2>2, <2>3, <2>4, <3>2
  <2> QED
    BY <2>5, <2>6
<1> HIDE DEF M
<1>3. T \in M
  BY <1>1, <1>2, AllSubsets
<1>4. S \cap T = S
  OBVIOUS
<1> QED
  BY <1>3, <1>4 DEF M

LEMMA LessHeld ==
  ASSUME NEW r \in [Holds -> Hold], FiniteRows(r), NEW s \in [Holds -> Hold], FiniteRows(s),
         NEW w, \A h \in ActiveHolds(r, w) : ShownIn(s, r, h, w)
  PROVE  HoldTotal(r, w) <= HoldTotal(s, w)
<1> DEFINE f == [h \in Holds |-> r[h].amount]
           g == [h \in Holds |-> s[h].amount]
           S == ActiveHolds(r, w)
           T == ActiveHolds(s, w)
<1>1. IsFiniteSet(S) /\ IsFiniteSet(T)
  BY ActiveIsFinite
<1>2. S \in SUBSET T
  BY DEF ActiveHolds, ShownIn
<1>3. \A h \in S : f[h] \in Nat /\ f[h] <= g[h]
  BY DEF ActiveHolds, ShownIn, Hold
<1>4. \A h \in T : g[h] \in Nat
  BY DEF ActiveHolds, Hold
<1>5. HoldTotal(r, w) = SumOver(f, S) /\ HoldTotal(s, w) = SumOver(g, T)
  BY <1>1, HoldTotalIsSum
<1> HIDE DEF f, g, S, T
<1> QED
  BY <1>1, <1>2, <1>3, <1>4, <1>5, SumMonotone

(* When a taking call writes, it has seen all that is held.                *)
LEMMA TakesWhatIsLeft ==
  ASSUME IInv, AskInv, SnapCovers, NEW p \in Procs, ReserveInsert(p) \/ IncreaseUpdate(p)
  PROVE  AvailableTo(p) <= Total(acct[call[p].from]) - HoldTotal(res, call[p].from)
<1> DEFINE w == call[p].from
<1>1. /\ pc[p] = "locking" /\ todo[p] = {} /\ ReadsHolds(call[p])
      /\ w \in Players /\ seen[p][w] = acct[w] /\ call[p].hold \in Holds
  BY Inserts, Raises DEF Ready, ReadsHolds, OneHold
<1>2. \A h \in ActiveHolds(res, w) \ {call[p].hold} : ShownIn(snap[p], res, h, w)
  BY <1>1 DEF SnapCovers
<1>3. \A h \in ActiveHolds(res, w) : ShownIn(snap[p], res, h, w)
  <2>1. CASE ReserveInsert(p)
    <3>1. call[p].hold \notin ActiveHolds(res, w)
      BY <2>1, Inserts DEF ActiveHolds
    <3> QED
      BY <1>2, <3>1
  <2>2. CASE IncreaseUpdate(p)
    <3>1. snap[p][call[p].hold] = res[call[p].hold]
      BY <1>1, <2>2, Raises DEF SnapCovers, Ready
    <3>2. res[call[p].hold].amount \in Nat
      BY <1>1 DEF IInv, TypeOK, Hold
    <3>3. call[p].hold \in ActiveHolds(res, w) => ShownIn(snap[p], res, call[p].hold, w)
      BY <3>1, <3>2 DEF ActiveHolds, ShownIn
    <3> QED
      BY <1>2, <3>3
  <2> QED
    BY <2>1, <2>2
<1>4. HoldTotal(res, w) <= HoldTotal(snap[p], w)
  BY <1>3, LessHeld DEF IInv, TypeOK, AskInv
<1>5. HoldTotal(res, w) \in Nat /\ HoldTotal(snap[p], w) \in Nat
  BY HoldTotalNat DEF IInv, TypeOK, AskInv
<1>6. acct[w] \in Balance
  BY <1>1 DEF IInv, TypeOK, Accounts
<1> QED
  BY <1>1, <1>4, <1>5, <1>6 DEF AvailableTo, Total, Balance

LEMMA TakesHonestly ==
  ASSUME IInv, AskInv, SnapCovers, NEW p \in Procs, ReserveInsert(p) \/ IncreaseUpdate(p),
         call[p].amt \in Nat, call[p].amt <= AvailableTo(p)
  PROVE  /\ call[p].amt <= Total(acct[call[p].from])
         /\ call[p].amt <= Total(acct[call[p].from]) - HoldTotal(res, call[p].from)
<1>1. call[p].from \in Players /\ seen[p][call[p].from] = acct[call[p].from]
  BY Inserts, Raises
<1>2. /\ AvailableTo(p) <= Total(acct[call[p].from]) /\ AvailableTo(p) \in Int
      /\ Total(acct[call[p].from]) \in Int
  BY <1>1, AvailableBelowTotal
<1>3. AvailableTo(p) <= Total(acct[call[p].from]) - HoldTotal(res, call[p].from)
  BY TakesWhatIsLeft
<1>4. HoldTotal(res, call[p].from) \in Nat
  BY HoldTotalNat DEF IInv, TypeOK, AskInv
<1> QED
  BY <1>2, <1>3, <1>4

(* A hold that another step leaves active is one it left alone, lowered,   *)
(* raised or made.                                                         *)
LEMMA ActiveAfter ==
  ASSUME IInv, AskInv, NEW p \in Procs, Rewrites(p), NEW w \in Players,
         NEW h \in ActiveHolds(res', w)
  PROVE  \/ /\ h \in ActiveHolds(res, w) /\ res'[h].amount <= res[h].amount
         \/ /\ ReserveInsert(p) \/ IncreaseUpdate(p)
            /\ call[p].hold = h /\ call[p].from = w
<1>0. h \in Holds /\ res[h] \in Hold /\ res'[h].status = "active" /\ res'[h].wallet = w
  BY DEF ActiveHolds, IInv, TypeOK
<1>1. CASE res'[h] = res[h]
  BY <1>0, <1>1 DEF ActiveHolds, Hold
<1>2. ASSUME NEW row, OneHold(p, call[p].hold, row), res'[h] # res[h]
      PROVE  h = call[p].hold /\ row = res'[h]
  BY <1>0, <1>2 DEF OneHold
<1>3. CASE ReserveInsert(p) /\ res'[h] # res[h]
  <2> DEFINE row == [status |-> "active", wallet |-> call[p].from, amount |-> call[p].amt]
  <2>1. OneHold(p, call[p].hold, row)
    BY <1>3, Inserts
  <2>2. h = call[p].hold /\ row = res'[h]
    <3> HIDE DEF row
    <3> QED
      BY <1>2, <1>3, <2>1
  <2> QED
    BY <1>0, <1>3, <2>2
<1>4. CASE IncreaseUpdate(p) /\ res'[h] # res[h]
  <2> DEFINE row == [res[call[p].hold] EXCEPT !.amount = @ + call[p].amt]
  <2>1. OneHold(p, call[p].hold, row) /\ Ready(p, "increase")
    BY <1>4, Raises
  <2>2. h = call[p].hold /\ row = res'[h]
    <3> HIDE DEF row
    <3> QED
      BY <1>2, <1>4, <2>1
  <2>3. call[p].from = res[call[p].hold].wallet
    BY <2>1 DEF Ready, AskInv, AskedWell
  <2>4. row.wallet = res[h].wallet
    BY <1>0, <2>2 DEF Hold
  <2> QED
    BY <1>0, <1>4, <2>2, <2>3, <2>4
<1>5. CASE ReleaseUpdate(p) /\ res'[h] # res[h]
  <2> DEFINE row == IF call[p].amt >= res[call[p].hold].amount
                    THEN [res[call[p].hold] EXCEPT !.status = "released"]
                    ELSE [res[call[p].hold] EXCEPT !.amount = @ - call[p].amt]
  <2>1. OneHold(p, call[p].hold, row) /\ Ready(p, "release")
    BY <1>5, Frees
  <2>2. h = call[p].hold /\ row = res'[h]
    <3> HIDE DEF row
    <3> QED
      BY <1>2, <1>5, <2>1
  <2>3. res[h].status = "active" /\ call[p].amt \in Nat
    BY <2>1, <2>2, HoldIsOwned
  <2>4. row.status = "active" /\ row.wallet = w
    BY <1>0, <2>2
  <2>5. row = [res[h] EXCEPT !.amount = @ - call[p].amt]
    BY <1>0, <2>2, <2>4 DEF Hold
  <2>6. row.wallet = res[h].wallet /\ row.amount <= res[h].amount
    BY <1>0, <2>3, <2>5 DEF Hold
  <2> QED
    BY <1>0, <2>2, <2>3, <2>4, <2>6 DEF ActiveHolds
<1>6. CASE CommitHold(p) /\ res'[h] # res[h]
  <2> DEFINE row == [res[call[p].hold] EXCEPT !.status = "committed"]
  <2>1. OneHold(p, call[p].hold, row)
    BY <1>6, Settles
  <2>2. h = call[p].hold /\ row = res'[h]
    <3> HIDE DEF row
    <3> QED
      BY <1>2, <1>6, <2>1
  <2>3. row.status = "committed"
    BY <1>0, <2>2 DEF Hold
  <2> QED
    BY <1>0, <2>2, <2>3
<1>7. CASE ExpireUpdate(p) /\ res'[h] # res[h]
  <2>1. PICK S \in SUBSET Holds :
          res' = [g \in Holds |-> IF g \in S THEN [res[g] EXCEPT !.status = "expired"] ELSE res[g]]
    BY <1>7, Expires
  <2>2. res'[h].status = "expired"
    BY <1>0, <1>7, <2>1 DEF Hold
  <2> QED
    BY <1>0, <2>2
<1> QED
  BY <1>1, <1>3, <1>4, <1>5, <1>6, <1>7 DEF Rewrites

(* Another call's step leaves a snapshot covering what is held.            *)
LEMMA OthersCover ==
  ASSUME IInv, AskInv, SnapCovers, OneHoldAtATime, NEW p \in Procs, Step(p),
         NEW q \in Procs, q # p, pc[q] = "locking", ReadsHolds(call[q])
  PROVE  /\ \A h \in ActiveHolds(res', call[q].from) \ {call[q].hold} :
              ShownIn(snap[q], res', h, call[q].from)
         /\ call[q].op = "increase" =>
              \/ call[q].hold \in stale'[q] \cap todo[q]
              \/ snap[q][call[q].hold] = res'[call[q].hold]
<1> DEFINE w == call[q].from
           k == call[q].hold
<1>0. w \in Players /\ k \in Holds
  BY DEF IInv, CallShape, CallFits, ReadsHolds
<1>1. /\ \A h \in ActiveHolds(res, w) \ {k} : ShownIn(snap[q], res, h, w)
      /\ call[q].op = "increase" => k \in stale[q] \cap todo[q] \/ snap[q][k] = res[k]
  BY DEF SnapCovers
<1>2. stale[q] \subseteq stale'[q]
  BY OtherStep DEF Untouched
<1>3. CASE UNCHANGED res
  BY <1>1, <1>2, <1>3 DEF ActiveHolds, ShownIn
<1>4. CASE Rewrites(p)
  <2>1. ASSUME NEW h \in ActiveHolds(res', w) \ {k} PROVE ShownIn(snap[q], res', h, w)
    <3>1. CASE h \in ActiveHolds(res, w) /\ res'[h].amount <= res[h].amount
      <4>1. ShownIn(snap[q], res, h, w)
        BY <1>1, <2>1, <3>1
      <4>2. snap[q][h].amount \in Nat /\ res[h].amount \in Nat /\ res'[h].amount \in Nat
        <5>1. res' \in [Holds -> Hold]
          BY NextIInv DEF Next, Step, IInv, TypeOK
        <5> QED
          BY <2>1, <5>1 DEF IInv, TypeOK, Hold, ActiveHolds
      <4> QED
        BY <3>1, <4>1, <4>2 DEF ShownIn
    <3>2. ASSUME ReserveInsert(p) \/ IncreaseUpdate(p), call[p].hold = h, call[p].from = w
          PROVE  FALSE
      <4>1. ReadsHolds(call[p])
        BY <3>2, Inserts, Raises DEF Ready, ReadsHolds
      <4> QED
        BY <2>1, <3>2, <4>1 DEF OneHoldAtATime
    <3> QED
      BY <1>0, <1>4, <2>1, <3>1, <3>2, ActiveAfter
  <2>2. ASSUME call[q].op = "increase"
        PROVE  k \in stale'[q] \cap todo[q] \/ snap[q][k] = res'[k]
    <3>1. CASE res'[k] = res[k]
      BY <1>1, <1>2, <2>2, <3>1
    <3>2. CASE res'[k] # res[k]
      <4>1. PICK W : /\ Committed(p, W)
                     /\ \A h \in Holds : res'[h] # res[h] =>
                          res[h].status = "none" \/ (h \in W /\ lock[h] = p)
        BY <1>4, RewritesOverwrite DEF Overwrites
      <4>2. res[k].status # "none"
        BY <2>2 DEF IInv, CallShape, CallFits
      <4>3. k \in W /\ lock[k] = p
        BY <1>0, <3>2, <4>1, <4>2
      <4>4. k \in todo[q]
        BY <1>0, <2>2, <4>3 DEF IInv, LocksHeld, RowsToLock, Rows
      <4>5. k \in stale'[q]
        BY <4>1, <4>3, <4>4 DEF Committed
      <4> QED
        BY <4>4, <4>5
    <3> QED
      BY <3>1, <3>2
  <2> QED
    BY <2>1, <2>2
<1> QED
  BY <1>3, <1>4, StepRewrites

LEMMA OwnCovers ==
  ASSUME IInv, SnapCovers, NEW p \in Procs, Step(p), pc'[p] = "locking", ReadsHolds(call'[p])
  PROVE  /\ \A h \in ActiveHolds(res', call'[p].from) \ {call'[p].hold} :
              ShownIn(snap'[p], res', h, call'[p].from)
         /\ call'[p].op = "increase" =>
              \/ call'[p].hold \in stale'[p] \cap todo'[p]
              \/ snap'[p][call'[p].hold] = res'[call'[p].hold]
<1>1. CASE Begin(p)
  <2>1. snap'[p] = res /\ res' = res /\ call' = call
    BY <1>1 DEF Begin, IInv, TypeOK, tables
  <2>2. \A h \in Holds : res[h].amount \in Nat
    BY DEF IInv, TypeOK, Hold
  <2> QED
    BY <2>1, <2>2 DEF ActiveHolds, ShownIn
<1>2. CASE Locks(p)
  <2>1. /\ res' = res /\ pc[p] = "locking" /\ call'[p] = call[p] /\ snap'[p] = snap[p]
        /\ stale'[p] = stale[p]
    BY <1>2 DEF Locks, tables
  <2>2. PICK r \in Rows : todo'[p] = todo[p] \ {r} /\ ~Refused(p, r)
    BY <1>2 DEF Locks
  <2>3. call[p].op = "increase" => r \notin stale[p]
    BY <2>2 DEF Refused, RepeatableRead
  <2> QED
    BY <2>1, <2>2, <2>3 DEF SnapCovers, ActiveHolds, ShownIn
<1>3. CASE Starts(p) \/ Ends(p)
  BY <1>3 DEF Starts, Ends
<1> QED
  BY <1>1, <1>2, <1>3, OwnStep

LEMMA InitCovers == Init => SnapCovers
  BY DEF Init, SnapCovers

LEMMA NextCovers == IInv /\ AskInv /\ SnapCovers /\ OneHoldAtATime /\ [Next]_vars => SnapCovers'
<1> SUFFICES ASSUME IInv, AskInv, SnapCovers, OneHoldAtATime, [Next]_vars PROVE SnapCovers'
  OBVIOUS
<1>1. CASE Tick \/ UNCHANGED vars
  BY <1>1 DEF Tick, vars, tables, session, SnapCovers, ActiveHolds, ReadsHolds, ShownIn
<1>2. ASSUME NEW p \in Procs, Step(p) PROVE SnapCovers'
  <2> SUFFICES ASSUME NEW q \in Procs, pc'[q] = "locking", ReadsHolds(call'[q])
      PROVE  /\ \A h \in ActiveHolds(res', call'[q].from) \ {call'[q].hold} :
                  ShownIn(snap'[q], res', h, call'[q].from)
             /\ call'[q].op = "increase" =>
                  \/ call'[q].hold \in stale'[q] \cap todo'[q]
                  \/ snap'[q][call'[q].hold] = res'[call'[q].hold]
    BY DEF SnapCovers, ActiveHolds, ReadsHolds, ShownIn
  <2>1. CASE q = p
    BY <1>2, <2>1, OwnCovers
  <2>2. CASE q # p
    <3>1. /\ pc'[q] = pc[q] /\ call'[q] = call[q] /\ snap'[q] = snap[q] /\ todo'[q] = todo[q]
      BY <1>2, <2>2, OtherStep DEF Untouched
    <3> QED
      BY <1>2, <2>2, <3>1, OthersCover
  <2> QED
    BY <2>1, <2>2
<1> QED
  BY <1>1, <1>2 DEF Next, Step

LEMMA SerialCovers == Spec /\ []OneHoldAtATime => []SnapCovers
  BY InitCovers, NextCovers, Invariance, CallsAskWell, PTL DEF Spec

LEMMA StepImplementsStrictly ==
  ASSUME IInv, AskInv, SnapCovers, NEW p \in Procs, Step(p)
  PROVE  Ledger!StrictNext \/ UNCHANGED tables
<1>0. \A w : Ledger!Available(w) = Total(acct[w]) - HoldTotal(res, w)
  BY SameOperators, SameTotal DEF Ledger!Available
<1>1. CASE ReserveInsert(p)
  <2> DEFINE c == call[p]
  <2>1. /\ OneHold(p, c.hold, [status |-> "active", wallet |-> c.from, amount |-> c.amt])
        /\ res[c.hold].status = "none" /\ c.from \in Players /\ c.op = "reserve"
        /\ seen[p][c.from] = acct[c.from] /\ c.amt <= AvailableTo(p)
        /\ UNCHANGED <<acct, ledger, outbox>>
    BY <1>1, Inserts
  <2>2. c.amt \in Amounts /\ c.amt \in Nat /\ c.hold \in Holds
    BY <2>1, AmountsPositive DEF AskInv, AskedWell, OneHold
  <2>3. c.amt <= Total(acct[c.from]) /\ c.amt <= Total(acct[c.from]) - HoldTotal(res, c.from)
    BY <1>1, <2>1, <2>2, TakesHonestly
  <2> HIDE DEF c
  <2>4. Ledger!Take(c.hold, c.from, c.amt)
    BY <2>1, <2>3, SameOperators DEF Ledger!Take, OneHold
  <2> QED
    BY <1>0, <2>1, <2>2, <2>3, <2>4 DEF Ledger!StrictNext
<1>2. CASE IncreaseUpdate(p)
  <2> DEFINE c == call[p]
  <2>1. /\ Ready(p, "increase") /\ c.from \in Players
        /\ seen[p][c.from] = acct[c.from] /\ c.amt <= AvailableTo(p)
        /\ UNCHANGED <<acct, ledger, outbox>>
    BY <1>2, Raises
  <2>2. c.amt \in Amounts /\ c.amt \in Nat /\ c.from = res[c.hold].wallet
    BY <2>1, AmountsPositive DEF AskInv, AskedWell, Ready
  <2>3. c.hold \in Holds /\ res[c.hold].status = "active"
    BY <2>1, HoldIsOwned
  <2>4. c.amt <= Total(acct[c.from]) /\ c.amt <= Total(acct[c.from]) - HoldTotal(res, c.from)
    BY <1>2, <2>1, <2>2, TakesHonestly
  <2>5. res' = [res EXCEPT ![c.hold].amount = @ + c.amt]
    BY <1>2 DEF IncreaseUpdate
  <2> HIDE DEF c
  <2>6. Ledger!Increase(c.hold, c.amt)
    BY <2>1, <2>2, <2>3, <2>4, <2>5, SameOperators DEF Ledger!Increase
  <2> QED
    BY <1>0, <2>2, <2>3, <2>4, <2>6 DEF Ledger!StrictNext
<1>3. CASE ReleaseUpdate(p) \/ ExpireUpdate(p) \/ CommitHold(p) \/ MoveMoney(p)
  BY <1>3, ReleaseIsRelease, ExpireIsExpire, CommitIsSettle, MoveIsMove DEF Ledger!StrictNext
<1> QED
  BY <1>1, <1>2, <1>3, OtherwiseStutters DEF Rewrites

(* While the holds of a wallet are taken for one reservation at a time,    *)
(* every reserve and every increase takes only what the other holds leave  *)
(* of the balance.                                                         *)
THEOREM SerialHoldsAreStrict == Spec /\ []OneHoldAtATime => ImplementsStrictLedger
<1>1. IInv /\ AskInv /\ SnapCovers /\ [Next]_vars => [Ledger!StrictNext]_(Ledger!vars)
  <2> SUFFICES ASSUME IInv, AskInv, SnapCovers, [Next]_vars
               PROVE  [Ledger!StrictNext]_(Ledger!vars)
    OBVIOUS
  <2>1. CASE Tick \/ UNCHANGED vars
    BY <2>1 DEF Tick, vars, tables, Ledger!vars
  <2>2. ASSUME NEW p \in Procs, Step(p) PROVE [Ledger!StrictNext]_(Ledger!vars)
    BY <2>2, StepImplementsStrictly DEF tables, Ledger!vars
  <2> QED
    BY <2>1, <2>2 DEF Next, Step
<1> QED
  BY <1>1, InitImplements, Invariance, CallsAskWell, SerialCovers, PTL
     DEF Spec, ImplementsStrictLedger, Ledger!StrictSpec

-----------------------------------------------------------------------------
(* Covered holds.                                                          *)

(* Nothing is moved out of a wallet that has active holds but by settling  *)
(* one of them.                                                            *)
NoHoldUnderDebit ==
  \A p \in Procs :
    call[p].op \in {"transfer", "debit"} => ActiveHolds(res, call[p].from) = {}

HeldIn(row, w) == IF row.status = "active" /\ row.wallet = w THEN row.amount ELSE 0

(* What rewriting one reservation changes in what is held of a wallet.     *)
LEMMA OneHoldChanges ==
  ASSUME NEW r \in [Holds -> Hold], FiniteRows(r), NEW s \in [Holds -> Hold], FiniteRows(s),
         NEW h \in Holds, \A g \in Holds \ {h} : s[g] = r[g], NEW w
  PROVE  HoldTotal(s, w) = HoldTotal(r, w) - HeldIn(r[h], w) + HeldIn(s[h], w)
<1> DEFINE f == [g \in Holds |-> r[g].amount]
           k == [g \in Holds |-> s[g].amount]
           S == ActiveHolds(r, w)
           T == ActiveHolds(s, w)
<1>1. IsFiniteSet(S) /\ IsFiniteSet(T)
  BY ActiveIsFinite
<1>2. HoldTotal(r, w) = SumOver(f, S) /\ HoldTotal(s, w) = SumOver(k, T)
  BY <1>1, HoldTotalIsSum
<1>3. S \ {h} = T \ {h} /\ \A g \in S \ {h} : f[g] = k[g]
  BY DEF ActiveHolds
<1>4. \A g \in Holds : f[g] \in Nat /\ k[g] \in Nat
  BY DEF Hold
<1>5. /\ h \in S => HeldIn(r[h], w) = f[h]
      /\ h \notin S => HeldIn(r[h], w) = 0
      /\ h \in T => HeldIn(s[h], w) = k[h]
      /\ h \notin T => HeldIn(s[h], w) = 0
  BY DEF ActiveHolds, HeldIn
<1>6. S \subseteq Holds /\ T \subseteq Holds
  BY DEF ActiveHolds
<1> HIDE DEF f, k, S, T
<1>7. IsFiniteSet(S \ {h})
  BY <1>1, FS_RemoveElement, FS_Subset
<1>8. SumOver(f, S \ {h}) = SumOver(k, T \ {h}) /\ SumOver(f, S \ {h}) \in Nat
  <2>1. SumOver(f, S \ {h}) = SumOver(k, S \ {h})
    BY <1>3, <1>7, SumSame
  <2>2. \A g \in S \ {h} : f[g] \in Nat
    BY <1>4, <1>6
  <2>3. SumOver(f, S \ {h}) \in Nat
    BY <1>7, <2>2, SumTyped
  <2> QED
    BY <1>3, <2>1, <2>3
<1>9. SumOver(f, S) = HeldIn(r[h], w) + SumOver(f, S \ {h})
  <2>1. CASE h \in S
    <3>1. \A g \in S : f[g] \in Int
      BY <1>4, <1>6
    <3>2. SumOver(f, S) = f[h] + SumOver(f, S \ {h})
      BY <1>1, <2>1, <3>1, SumWithout
    <3> QED
      BY <1>5, <2>1, <3>2
  <2>2. CASE h \notin S
    <3>1. S \ {h} = S
      BY <2>2
    <3>2. SumOver(f, S) = SumOver(f, S \ {h})
      BY <3>1, Zenon
    <3> QED
      BY <1>5, <1>8, <2>2, <3>2
  <2> QED
    BY <2>1, <2>2
<1>10. SumOver(k, T) = HeldIn(s[h], w) + SumOver(k, T \ {h})
  <2>1. CASE h \in T
    <3>1. \A g \in T : k[g] \in Int
      BY <1>4, <1>6
    <3>2. SumOver(k, T) = k[h] + SumOver(k, T \ {h})
      BY <1>1, <2>1, <3>1, SumWithout
    <3> QED
      BY <1>5, <2>1, <3>2
  <2>2. CASE h \notin T
    <3>1. T \ {h} = T
      BY <2>2
    <3>2. SumOver(k, T) = SumOver(k, T \ {h})
      BY <3>1, Zenon
    <3> QED
      BY <1>5, <1>8, <2>2, <3>2
  <2> QED
    BY <2>1, <2>2
<1>11. HeldIn(r[h], w) \in Nat /\ HeldIn(s[h], w) \in Nat
  BY <1>4, <1>5
<1> QED
  BY <1>2, <1>8, <1>9, <1>10, <1>11

LEMMA NothingHeld ==
  ASSUME NEW r, NEW w, ActiveHolds(r, w) = {}
  PROVE  HoldTotal(r, w) = 0
<1>1. IsFiniteSet(ActiveHolds(r, w))
  BY FS_EmptySet
<1> QED
  BY <1>1, HoldTotalIsSum, SumNothing

(* What a posting does to the sum of both sides.                           *)
LEMMA PostedTotals ==
  ASSUME IInv, NEW p \in Procs, NEW via \in Holds \cup {None}, Posted(p, via)
  PROVE  /\ Moved(p) \in Nat /\ call[p].from # call[p].to
         /\ Total(acct'[call[p].from]) = Total(acct[call[p].from]) - Moved(p)
         /\ Total(acct'[call[p].to]) = Total(acct[call[p].to]) + Moved(p)
         /\ \A a \in Accounts \ {call[p].from, call[p].to} : acct'[a] = acct[a]
<1>1. PICK e \in LedgerRow :
        /\ e.from = call[p].from /\ e.to = call[p].to /\ e.amount = Moved(p)
        /\ e.from \in Accounts /\ e.to \in Accounts /\ e.from # e.to
        /\ acct'[e.from].dep = acct[e.from].dep - (e.amount - e.fromWin)
        /\ acct'[e.from].win = acct[e.from].win - e.fromWin
        /\ acct'[e.to].dep = acct[e.to].dep + (IF e.side = "deposit" THEN e.amount ELSE 0)
        /\ acct'[e.to].win = acct[e.to].win + (IF e.side = "winnings" THEN e.amount ELSE 0)
        /\ \A a \in Accounts \ {e.from, e.to} : acct'[a] = acct[a]
  BY PostedBooks
<1>2. e.amount \in Nat /\ e.fromWin \in Nat /\ e.side \in {"deposit", "winnings"}
  BY DEF LedgerRow, Sides
<1>3. acct[e.from] \in Balance /\ acct[e.to] \in Balance
  BY <1>1 DEF IInv, TypeOK
<1>4. Total(acct'[e.from]) = Total(acct[e.from]) - e.amount
  BY <1>1, <1>2, <1>3 DEF Total, Balance
<1>5. Total(acct'[e.to]) = Total(acct[e.to]) + e.amount
  BY <1>1, <1>2, <1>3 DEF Total, Balance
<1> QED
  BY <1>1, <1>2, <1>4, <1>5

(* One reservation rewritten, the accounts as they were.                   *)
LEMMA TakingCovers ==
  ASSUME IInv, AskInv, HoldsCovered, SnapCovers, NEW p \in Procs,
         IncreaseUpdate(p) \/ ReserveInsert(p), NEW w \in Players
  PROVE  HoldTotal(res', w) <= Total(acct'[w])
<1> DEFINE c == call[p]
           h == c.hold
<1>0. Step(p)
  BY DEF Step, WriteStep
<1>1. IInv' /\ FiniteRows(res') /\ FiniteRows(res)
  BY <1>0, NextIInv, RowsKept DEF Next, Step, AskInv
<1>2. res \in [Holds -> Hold] /\ res' \in [Holds -> Hold] /\ acct[w] \in Balance
  BY <1>1 DEF IInv, TypeOK, Accounts
<1>3. /\ h \in Holds /\ \A g \in Holds \ {h} : res'[g] = res[g]
      /\ c.amt <= AvailableTo(p) /\ UNCHANGED acct
  BY Inserts, Raises DEF OneHold
<1>4. HoldTotal(res', w) = HoldTotal(res, w) - HeldIn(res[h], w) + HeldIn(res'[h], w)
  BY <1>1, <1>2, <1>3, OneHoldChanges
<1>5. HoldTotal(res, w) \in Nat /\ HoldTotal(res, w) <= Total(acct[w]) /\ Total(acct[w]) \in Int
  BY <1>1, <1>2, HoldTotalNat DEF HoldsCovered, Total, Balance
<1>6. c.amt \in Nat
  <2>1. c \in Call
    BY DEF IInv, TypeOK
  <2> QED
    BY <2>1 DEF Call
<1>7. HeldIn(res[h], w) \in Nat
  BY <1>2, <1>3 DEF HeldIn, Hold
<1>8. HeldIn(res'[h], w) = HeldIn(res[h], w) + (IF c.from = w THEN c.amt ELSE 0)
  <2>1. CASE ReserveInsert(p)
    <3>1. /\ res'[h] = [status |-> "active", wallet |-> c.from, amount |-> c.amt]
          /\ res[h].status = "none"
      BY <2>1, Inserts DEF OneHold
    <3> QED
      BY <1>6, <3>1 DEF HeldIn
  <2>2. CASE IncreaseUpdate(p)
    <3>1. /\ res'[h] = [res[h] EXCEPT !.amount = @ + c.amt] /\ Ready(p, "increase")
      BY <2>2, Raises DEF OneHold
    <3>2. res[h] \in Hold /\ res[h].status = "active" /\ c.from = res[h].wallet
      BY <3>1, HoldIsOwned DEF AskInv, AskedWell, Ready
    <3> HIDE DEF c, h
    <3>3. /\ res'[h].status = "active" /\ res'[h].wallet = c.from
          /\ res'[h].amount = res[h].amount + c.amt /\ res[h].amount \in Nat
      BY <3>1, <3>2 DEF Hold
    <3> QED
      BY <3>2, <3>3 DEF HeldIn
  <2> QED
    BY <2>1, <2>2
<1>9. c.from = w => c.amt <= Total(acct[w]) - HoldTotal(res, w)
  BY <1>3, <1>6, TakesHonestly
<1> HIDE DEF c, h
<1> QED
  BY <1>3, <1>4, <1>5, <1>6, <1>7, <1>8, <1>9

LEMMA FreeingCovers ==
  ASSUME IInv, AskInv, HoldsCovered, NEW p \in Procs, ReleaseUpdate(p) \/ ExpireUpdate(p),
         NEW w \in Players
  PROVE  HoldTotal(res', w) <= Total(acct'[w])
<1>0. Step(p) /\ Rewrites(p) /\ ~ReserveInsert(p) /\ ~IncreaseUpdate(p)
  <2>1. call[p].op \in {"release", "expire"}
    BY DEF ReleaseUpdate, ExpireUpdate, Ready
  <2> QED
    BY <2>1 DEF Step, WriteStep, Rewrites, ReserveInsert, IncreaseUpdate, Ready
<1>1. IInv' /\ FiniteRows(res') /\ FiniteRows(res)
  BY <1>0, NextIInv, RowsKept DEF Next, Step, AskInv
<1>2. res \in [Holds -> Hold] /\ res' \in [Holds -> Hold] /\ acct[w] \in Balance
  BY <1>1 DEF IInv, TypeOK, Accounts
<1>3. \A h \in ActiveHolds(res', w) : ShownIn(res, res', h, w)
  <2> SUFFICES ASSUME NEW h \in ActiveHolds(res', w) PROVE ShownIn(res, res', h, w)
    OBVIOUS
  <2>1. h \in ActiveHolds(res, w) /\ res'[h].amount <= res[h].amount
    BY <1>0, ActiveAfter
  <2>2. res[h].amount \in Nat /\ res'[h].amount \in Nat
    BY <1>2, <2>1 DEF ActiveHolds, Hold
  <2> QED
    BY <2>1, <2>2 DEF ActiveHolds, ShownIn
<1>4. HoldTotal(res', w) <= HoldTotal(res, w)
  BY <1>1, <1>2, <1>3, LessHeld
<1>5. HoldTotal(res', w) \in Nat /\ HoldTotal(res, w) \in Nat /\ Total(acct[w]) \in Int
  BY <1>1, <1>2, HoldTotalNat DEF Total, Balance
<1>6. UNCHANGED acct
  BY Frees, Expires
<1> QED
  BY <1>4, <1>5, <1>6 DEF HoldsCovered

LEMMA MovingCovers ==
  ASSUME IInv, AskInv, HoldsCovered, NoHoldUnderDebit, NEW p \in Procs, MoveMoney(p),
         NEW w \in Players
  PROVE  HoldTotal(res', w) <= Total(acct'[w])
<1>1. Posting(p) /\ ExecuteLedger(p, None) /\ UNCHANGED res
      /\ call[p].op \in {"transfer", "debit", "credit"}
  BY DEF MoveMoney, Posting, Ready
<1>2. Posted(p, None)
  BY <1>1, ExecutePosts
<1>3. w \in Accounts /\ acct[w] \in Balance
  BY DEF IInv, TypeOK, Accounts
<1>4. HoldTotal(res, w) \in Nat /\ HoldTotal(res, w) <= Total(acct[w]) /\ Total(acct[w]) \in Int
  <2>1. res \in [Holds -> Hold] /\ FiniteRows(res)
    BY DEF IInv, TypeOK, AskInv
  <2>2. HoldTotal(res, w) \in Nat
    BY <2>1, HoldTotalNat
  <2> QED
    BY <1>3, <2>2 DEF HoldsCovered, Total, Balance
<1>5. CASE w = call[p].from
  <2>1. call[p].op \in {"transfer", "debit"}
    BY <1>1, <1>5, KindsDisjoint DEF AskInv, AskedWell
  <2>2. HoldTotal(res, w) = 0
    BY <1>5, <2>1, NothingHeld DEF NoHoldUnderDebit
  <2>3. acct'[w].dep >= 0 /\ acct'[w].win >= 0 /\ acct' \in [Accounts -> Balance]
    BY <1>2, PostedTables DEF NonNegative
  <2>4. Total(acct'[w]) >= 0
    BY <1>3, <2>3 DEF Total, Balance
  <2> QED
    BY <1>1, <2>2, <2>4
<1>6. CASE w = call[p].to
  BY <1>1, <1>2, <1>4, <1>6, PostedTotals
<1>7. CASE w \notin {call[p].from, call[p].to}
  BY <1>1, <1>2, <1>3, <1>4, <1>7, PostedTotals
<1> QED
  BY <1>5, <1>6, <1>7

LEMMA SettlingCovers ==
  ASSUME IInv, AskInv, HoldsCovered, NEW p \in Procs, CommitHold(p), NEW w \in Players
  PROVE  HoldTotal(res', w) <= Total(acct'[w])
<1> DEFINE c == call[p]
           h == c.hold
<1>0. Step(p)
  BY DEF Step, WriteStep
<1>1. IInv' /\ FiniteRows(res') /\ FiniteRows(res)
  BY <1>0, NextIInv, RowsKept DEF Next, Step, AskInv
<1>2. res \in [Holds -> Hold] /\ res' \in [Holds -> Hold] /\ acct[w] \in Balance /\ w \in Accounts
  BY <1>1 DEF IInv, TypeOK, Accounts
<1>3. /\ h \in Holds /\ \A g \in Holds \ {h} : res'[g] = res[g]
      /\ res'[h] = [res[h] EXCEPT !.status = "committed"]
      /\ Ready(p, "commit") /\ Posted(p, h) /\ Moved(p) = res[h].amount
      /\ c.from = res[h].wallet
  BY Settles DEF OneHold
<1>4. res[h].status = "active" /\ res[h] \in Hold
  BY <1>3, HoldIsOwned
<1>5. HoldTotal(res', w) = HoldTotal(res, w) - HeldIn(res[h], w) + HeldIn(res'[h], w)
  BY <1>1, <1>2, <1>3, OneHoldChanges
<1>6. HoldTotal(res, w) \in Nat /\ HoldTotal(res, w) <= Total(acct[w]) /\ Total(acct[w]) \in Int
  BY <1>1, <1>2, HoldTotalNat DEF HoldsCovered, Total, Balance
<1>7. /\ Moved(p) \in Nat /\ c.from # c.to
      /\ Total(acct'[c.from]) = Total(acct[c.from]) - Moved(p)
      /\ Total(acct'[c.to]) = Total(acct[c.to]) + Moved(p)
      /\ \A a \in Accounts \ {c.from, c.to} : acct'[a] = acct[a]
  BY <1>3, PostedTotals
<1>8. HeldIn(res'[h], w) = 0 /\ HeldIn(res[h], w) = IF w = c.from THEN Moved(p) ELSE 0
  BY <1>3, <1>4 DEF HeldIn, Hold
<1> HIDE DEF c, h
<1>9. CASE w = c.from
  BY <1>5, <1>6, <1>7, <1>8, <1>9
<1>10. CASE w = c.to
  BY <1>5, <1>6, <1>7, <1>8, <1>10
<1>11. CASE w \notin {c.from, c.to}
  BY <1>2, <1>5, <1>6, <1>7, <1>8, <1>11
<1> QED
  BY <1>9, <1>10, <1>11

LEMMA InitHolds == Init => HoldsCovered
<1> SUFFICES ASSUME Init, NEW w \in Players PROVE HoldTotal(res, w) <= Total(acct[w])
  BY DEF HoldsCovered
<1>1. ActiveHolds(res, w) = {}
  BY DEF Init, ActiveHolds, NoHold
<1>2. HoldTotal(res, w) = 0
  BY <1>1, NothingHeld
<1>3. acct[w] = [dep |-> OpeningDep[w], win |-> OpeningWin[w], chain |-> 0]
  BY DEF Init, Accounts, OpeningBalance
<1> QED
  BY <1>2, <1>3, OpeningBalances DEF Total

LEMMA NextHolds ==
  IInv /\ AskInv /\ SnapCovers /\ HoldsCovered /\ NoHoldUnderDebit /\ [Next]_vars => HoldsCovered'
<1> SUFFICES ASSUME IInv, AskInv, SnapCovers, HoldsCovered, NoHoldUnderDebit, [Next]_vars
             PROVE  HoldsCovered'
  OBVIOUS
<1>1. ASSUME UNCHANGED tables PROVE HoldsCovered'
  BY <1>1 DEF tables, HoldsCovered
<1>2. ASSUME NEW p \in Procs, Step(p) PROVE HoldsCovered'
  <2>1. CASE Rewrites(p) \/ MoveMoney(p)
    BY <2>1, TakingCovers, FreeingCovers, MovingCovers, SettlingCovers
       DEF Rewrites, HoldsCovered
  <2> QED
    BY <1>1, <1>2, <2>1, OtherwiseStutters
<1>3. CASE Tick \/ UNCHANGED vars
  BY <1>1, <1>3 DEF Tick, vars
<1> QED
  BY <1>2, <1>3 DEF Next, Step

(* While the holds of a wallet are taken for one reservation at a time and *)
(* nothing but a commit takes money from under them, the active holds of   *)
(* every wallet are covered by its balance.                                *)
THEOREM SerialHoldsAreCovered ==
  Spec /\ []OneHoldAtATime /\ []NoHoldUnderDebit => []HoldsCovered
  BY InitHolds, NextHolds, Invariance, CallsAskWell, SerialCovers, PTL DEF Spec

-----------------------------------------------------------------------------
(* No money is made and none is lost.                                      *)

Balances(b) == [a \in Accounts |-> Total(b[a])]
AllMoney(b) == MapThenSumSet(LAMBDA a : Total(b[a]), Accounts)

LEMMA AllMoneyIsSum ==
  ASSUME NEW b, IsFiniteSet(Accounts)
  PROVE  AllMoney(b) = SumOver(Balances(b), Accounts)
<1> DEFINE IsFold(F) == F = [s \in SUBSET Accounts |->
                             IF s = {} THEN 0
                             ELSE Total(b[CHOOSE x \in s : TRUE])
                                    + F[s \ {CHOOSE x \in s : TRUE}]]
           H == CHOOSE F : IsFold(F)
<1>1. AllMoney(b) = H[Accounts]
  BY DEF AllMoney, MapThenSumSet, MapThenFoldSet
<1>2. ASSUME NEW F PROVE IsFold(F) <=> Sums(Balances(b), Accounts, F)
  <2>1. \A s \in SUBSET Accounts : s # {} =>
          Total(b[CHOOSE x \in s : TRUE]) = Balances(b)[Pick1(s)]
    BY PickIn DEF Pick1, Balances
  <2> QED
    BY <2>1 DEF Sums, Pick1
<1> HIDE DEF IsFold
<1>3. Sums(Balances(b), Accounts, H)
  <2>1. \E F : IsFold(F)
    BY <1>2, SumsExist
  <2>2. IsFold(H)
    BY <2>1, Zenon
  <2> QED
    BY <1>2, <2>2
<1> HIDE DEF H
<1> QED
  BY <1>1, <1>3, SumOverIs

(* Two accounts change by opposite amounts, the others do not.             *)
LEMMA SumOfTwo ==
  ASSUME NEW f, NEW g, NEW S, IsFiniteSet(S), \A x \in S : f[x] \in Int /\ g[x] \in Int,
         NEW x \in S, NEW y \in S, x # y, f[x] + f[y] = g[x] + g[y],
         \A z \in S \ {x, y} : f[z] = g[z]
  PROVE  SumOver(f, S) = SumOver(g, S)
<1> DEFINE R == (S \ {x}) \ {y}
<1>1. IsFiniteSet(S \ {x}) /\ IsFiniteSet(R) /\ y \in S \ {x}
  BY FS_RemoveElement
<1>2. /\ SumOver(f, S) = f[x] + SumOver(f, S \ {x})
      /\ SumOver(g, S) = g[x] + SumOver(g, S \ {x})
  BY SumWithout
<1>3. /\ SumOver(f, S \ {x}) = f[y] + SumOver(f, R)
      /\ SumOver(g, S \ {x}) = g[y] + SumOver(g, R)
  BY <1>1, SumWithout
<1>4. SumOver(f, R) = SumOver(g, R)
  BY <1>1, SumSame
<1>5. SumOver(f, R) \in Int
  BY <1>1, SumTyped
<1> HIDE DEF R
<1> QED
  BY <1>2, <1>3, <1>4, <1>5

LEMMA StepConserves ==
  ASSUME IsFiniteSet(Accounts), IInv, [Next]_vars
  PROVE  AllMoney(acct') = AllMoney(acct)
<1>1. CASE UNCHANGED acct
  BY <1>1, Zenon
<1>2. ASSUME NEW p \in Procs, NEW via \in Holds \cup {None}, Posted(p, via)
      PROVE  AllMoney(acct') = AllMoney(acct)
  <2> DEFINE x == call[p].from
             y == call[p].to
  <2>1. /\ Moved(p) \in Nat /\ x # y
        /\ Total(acct'[x]) = Total(acct[x]) - Moved(p)
        /\ Total(acct'[y]) = Total(acct[y]) + Moved(p)
        /\ \A a \in Accounts \ {x, y} : acct'[a] = acct[a]
    BY <1>2, PostedTotals
  <2>2. x \in Accounts /\ y \in Accounts
    BY <1>2, PostedBooks
  <2>3. IInv'
    BY NextIInv
  <2>4. \A a \in Accounts : Total(acct[a]) \in Int /\ Total(acct'[a]) \in Int
    BY <2>3 DEF IInv, TypeOK, Total, Balance
  <2> HIDE DEF x, y
  <2>5. SumOver(Balances(acct'), Accounts) = SumOver(Balances(acct), Accounts)
    <3> DEFINE f == Balances(acct')
               g == Balances(acct)
    <3>1. \A a \in Accounts : /\ f[a] \in Int /\ g[a] \in Int
                              /\ f[a] = Total(acct'[a]) /\ g[a] = Total(acct[a])
      BY <2>4 DEF Balances
    <3> HIDE DEF f, g
    <3>2. f[x] + f[y] = g[x] + g[y]
      BY <2>1, <2>2, <3>1
    <3>3. \A a \in Accounts \ {x, y} : f[a] = g[a]
      BY <2>1, <3>1
    <3>4. SumOver(f, Accounts) = SumOver(g, Accounts)
      BY <2>1, <2>2, <3>1, <3>2, <3>3, SumOfTwo
    <3> QED
      BY <3>4 DEF f, g
  <2> QED
    BY <2>5, AllMoneyIsSum
<1> QED
  BY <1>1, <1>2, OnlyPostingsBook

MoneyKept == AllMoney(acct) = AllMoney([a \in Accounts |-> OpeningBalance(a)])

(* The money of all accounts together, those of the houses included, is    *)
(* what it was when observation started: every interleaving of postings,   *)
(* retries, rollbacks and lost connections only moves it about.            *)
THEOREM MoneyIsConserved == ASSUME IsFiniteSet(Accounts) PROVE Spec => []MoneyKept
<1>1. Init => MoneyKept
  BY DEF Init, MoneyKept
<1>2. IInv /\ MoneyKept /\ [Next]_vars => MoneyKept'
  BY StepConserves DEF MoneyKept
<1> QED
  BY <1>1, <1>2, Invariance, PTL DEF Spec
==============================================================================
