--------------------------- MODULE PostgresWallet ---------------------------
(***************************************************************************)
(* apps/backend/src/adapters/PostgresWalletAdapter.ts and                  *)
(* apps/backend/src/wallet/walletTxRetry.ts over PostgreSQL: concurrent    *)
(* backend calls, each one database transaction with its snapshot, its row *)
(* locks, its serialization failures, deadlocks and retries.               *)
(*                                                                         *)
(* A call runs through pc "idle" -> "begin" -> "locking" -> "idle":        *)
(*   begin    the arguments are known, no statement was sent (a retry      *)
(*            after ROLLBACK comes back here);                             *)
(*   locking  the first SELECT ... FOR UPDATE fixed the snapshot (the      *)
(*            isolation level is REPEATABLE READ, READ COMMITTED for       *)
(*            commitReservation and the expiry sweep); todo holds the rows *)
(*            still to be locked.                                          *)
(* When todo is empty the rest of the transaction (reads of the snapshot,  *)
(* writes of locked rows, inserts, COMMIT) is one step: nothing it reads   *)
(* can change before it commits, and nothing it writes is seen before.     *)
(***************************************************************************)
EXTENDS WalletBase

CONSTANTS
  Procs,        \* calls in flight: one per pool connection in use
  CallsOf,      \* [Procs -> SUBSET Operations]: what each of them may be asked
  MaxRetries,   \* withWalletTx: DEFAULT_MAX_RETRIES
  TargetSides   \* the sides callers ask a credit to land on

Operations ==
  {"reserve", "increase", "release", "commit", "transfer", "debit", "credit", "expire"}

ASSUME CallsOfType    == CallsOf \in [Procs -> SUBSET Operations]
ASSUME MaxRetriesType == MaxRetries \in Nat
ASSUME TargetSidesType == TargetSides \subseteq Sides
ASSUME NoneNotProc    == None \notin Procs

VARIABLES
  acct, res, ledger, outbox,   \* committed rows of the database
  due,      \* SUBSET Holds: rows whose expires_at has passed
  lock,     \* [Rows -> Procs \cup {None}]: FOR UPDATE locks
  pc,       \* [Procs -> {"idle", "begin", "locking"}]
  call,     \* [Procs -> the arguments of the call]
  todo,     \* [Procs -> SUBSET Rows]: rows still to lock
  snap,     \* [Procs -> the snapshot of wallet_reservations]
  stale,    \* [Procs -> SUBSET Rows]: todo rows rewritten since the snapshot
  seen,     \* [Procs -> [Accounts -> Balance]]: rows as read under the lock
  tries     \* [Procs -> 0..MaxRetries]: retries already spent

tables  == <<acct, res, ledger, outbox>>
session == <<pc, call, todo, snap, stale, seen, tries>>
vars    == <<tables, due, lock, session>>

Rows == Accounts \cup Holds

Call == [op : Operations \cup {"none"}, hold : Holds \cup {None},
         from : Accounts \cup {None}, to : Accounts \cup {None},
         amt : Nat, side : Sides, key : Keys \cup {None}]

NoCall == [op |-> "none", hold |-> None, from |-> None, to |-> None,
           amt |-> 0, side |-> "deposit", key |-> None]

NoSnap == [h \in Holds |-> NoHold]
Unread == [a \in Accounts |-> [dep |-> 0, win |-> 0, chain |-> 0]]

Init ==
  /\ acct   = [a \in Accounts |-> OpeningBalance(a)]
  /\ res    = [h \in Holds |-> NoHold]
  /\ ledger = {}
  /\ outbox = {}
  /\ due    = {}
  /\ lock   = [r \in Rows |-> None]
  /\ pc     = [p \in Procs |-> "idle"]
  /\ call   = [p \in Procs |-> NoCall]
  /\ todo   = [p \in Procs |-> {}]
  /\ snap   = [p \in Procs |-> NoSnap]
  /\ stale  = [p \in Procs |-> {}]
  /\ seen   = [p \in Procs |-> Unread]
  /\ tries  = [p \in Procs |-> 0]

-----------------------------------------------------------------------------
(* The calls callers make.                                                 *)

Start(p, c) ==
  /\ pc[p] = "idle"
  /\ c.op \in CallsOf[p]
  /\ pc'     = [pc EXCEPT ![p] = "begin"]
  /\ call'   = [call EXCEPT ![p] = c]
  /\ tries'  = [tries EXCEPT ![p] = 0]
  /\ UNCHANGED <<tables, due, lock, todo, snap, stale, seen>>

Reserve(p) ==
  \E h \in Holds, w \in Players, a \in Amounts :
    Start(p, [NoCall EXCEPT !.op = "reserve", !.hold = h, !.from = w, !.amt = a])

(* Callers hold the id reserve returned, so the row exists.                *)
IncreaseReservation(p) ==
  \E h \in Holds, a \in Amounts :
    /\ res[h].status # "none"
    /\ Start(p, [NoCall EXCEPT !.op = "increase", !.hold = h,
                               !.from = res[h].wallet, !.amt = a])

(* amount = undefined frees all, like any amount >= the reserved one.      *)
ReleaseReservation(p) ==
  \E h \in Holds, a \in Amounts :
    /\ res[h].status # "none"
    /\ Start(p, [NoCall EXCEPT !.op = "release", !.hold = h, !.amt = a])

CommitReservation(p) ==
  \E h \in Holds, to \in Players, s \in TargetSides, k \in Keys :
    /\ res[h].status # "none"
    /\ res[h].wallet # to
    /\ Start(p, [NoCall EXCEPT !.op = "commit", !.hold = h, !.from = res[h].wallet,
                               !.to = to, !.side = s, !.key = k])

Transfer(p) ==
  \E from, to \in Players, a \in Amounts, s \in TargetSides, k \in Keys :
    /\ from # to
    /\ Start(p, [NoCall EXCEPT !.op = "transfer", !.from = from, !.to = to,
                               !.amt = a, !.side = s, !.key = k])

(* debit and withdraw: singleAccountMovement returns the earlier           *)
(* transaction when findByIdempotencyKey, on a connection of its own,      *)
(* already finds the key; only otherwise does it open a transaction.       *)
Debit(p) ==
  \E w \in Players, y \in System, a \in Amounts, k \in Keys :
    /\ ~KeyUsed(ledger, k)
    /\ Start(p, [NoCall EXCEPT !.op = "debit", !.from = w, !.to = y, !.amt = a, !.key = k])

(* credit and topUp, with the same check.                                  *)
Credit(p) ==
  \E w \in Players, y \in System, a \in Amounts, s \in TargetSides, k \in Keys :
    /\ ~KeyUsed(ledger, k)
    /\ Start(p, [NoCall EXCEPT !.op = "credit", !.from = y, !.to = w,
                               !.amt = a, !.side = s, !.key = k])

ExpireStaleReservations(p) == due # {} /\ Start(p, [NoCall EXCEPT !.op = "expire"])

(* expires_at of an active row passes.                                     *)
Tick ==
  /\ \E h \in Holds \ due : res[h].status = "active" /\ due' = due \cup {h}
  /\ UNCHANGED <<tables, lock, session>>

-----------------------------------------------------------------------------
(* The end of a transaction.                                               *)

RepeatableRead(c) == c.op \notin {"commit", "expire"}

Unlocked(p) == [r \in Rows |-> IF lock[r] = p THEN None ELSE lock[r]]

(* COMMIT or ROLLBACK and return to the caller: what it is told is named   *)
(* where a transaction ends, and is not state.                             *)
Return(p) ==
  /\ lock'   = Unlocked(p)
  /\ pc'     = [pc EXCEPT ![p] = "idle"]
  /\ call'   = [call EXCEPT ![p] = NoCall]
  /\ todo'   = [todo EXCEPT ![p] = {}]
  /\ snap'   = [snap EXCEPT ![p] = NoSnap]
  /\ seen'   = [seen EXCEPT ![p] = Unread]
  /\ tries'  = [tries EXCEPT ![p] = 0]

Fail(p) ==
  /\ Return(p)
  /\ stale' = [stale EXCEPT ![p] = {}]
  /\ UNCHANGED <<tables, due>>

(* A commit that rewrote the rows W makes them stale for every open        *)
(* transaction that has yet to lock them.                                  *)
Committed(p, W) ==
  /\ Return(p)
  /\ stale' = [q \in Procs |-> IF q = p THEN {} ELSE stale[q] \cup (W \cap todo[q])]

(* Mutant of NextTry: the loop forgets to count the attempt.               *)
SameTry(p) == tries[p]

NextTry(p) == tries[p] + 1

(* SQLSTATE 40001 or 40P01: ROLLBACK; withWalletTx starts over up to       *)
(* MaxRetries times, then WALLET_SERIALIZATION_FAILURE; commitReservation  *)
(* gives up at once with WALLET_DB_ERROR.                                  *)
RollbackAndRetry(p) ==
  IF RepeatableRead(call[p]) /\ tries[p] < MaxRetries
  THEN /\ lock'  = Unlocked(p)
       /\ pc'    = [pc EXCEPT ![p] = "begin"]
       /\ todo'  = [todo EXCEPT ![p] = {}]
       /\ snap'  = [snap EXCEPT ![p] = NoSnap]
       /\ stale' = [stale EXCEPT ![p] = {}]
       /\ seen'  = [seen EXCEPT ![p] = Unread]
       /\ tries' = [tries EXCEPT ![p] = NextTry(p)]
       /\ UNCHANGED <<tables, due, call>>
  ELSE Fail(p)

-----------------------------------------------------------------------------
(* Snapshot and row locks.                                                 *)

(* Mutant of RowsToLock: commitReservation as it was before PR #513,       *)
(* without SELECT ... FOR UPDATE on the reservation.                       *)
RowsToLockNoHold(c) ==
  CASE c.op = "reserve"  -> {c.from}
    [] c.op = "increase" -> {c.hold, c.from}
    [] c.op = "release"  -> {c.hold}
    [] c.op \in {"commit", "transfer", "debit", "credit"} -> {c.from, c.to}
    [] OTHER -> {}

(* The rows a call locks before it writes.                                 *)
RowsToLock(c) ==
  CASE c.op = "reserve"  -> {c.from}
    [] c.op = "increase" -> {c.hold, c.from}
    [] c.op = "release"  -> {c.hold}
    [] c.op = "commit"   -> {c.hold, c.from, c.to}
    [] c.op \in {"transfer", "debit", "credit"} -> {c.from, c.to}
    [] OTHER -> {}

(* The rows the sweep's WHERE clause finds.                                *)
StaleHolds == {h \in due : res[h].status = "active"}

ReadsHolds(c) == c.op \in {"reserve", "increase"}

Begin(p) ==
  /\ pc[p] = "begin"
  /\ pc'   = [pc EXCEPT ![p] = "locking"]
  /\ todo' = [todo EXCEPT ![p] = IF call[p].op = "expire" THEN StaleHolds ELSE RowsToLock(call[p])]
  /\ snap' = [snap EXCEPT ![p] = IF ReadsHolds(call[p]) THEN res ELSE NoSnap]
  /\ UNCHANGED <<tables, due, lock, call, stale, seen, tries>>

(* Reservation first, then payer, then payee; credit locks its two         *)
(* accounts with one id = ANY(...) FOR UPDATE, in the order of the scan.   *)
NextRows(p) ==
  IF todo[p] \cap Holds # {} THEN todo[p] \cap Holds
  ELSE IF call[p].op # "credit" /\ call[p].from \in todo[p] THEN {call[p].from}
  ELSE todo[p]

(* Mutant of Free: account rows are read without FOR UPDATE.               *)
FreePlainSelect(r) == r \in Accounts \/ lock[r] = None

(* SELECT ... FOR UPDATE waits for the transaction that holds the row.     *)
Free(r) == lock[r] = None

Refused(p, r) == RepeatableRead(call[p]) /\ r \in stale[p]

(* Mutant of Inactive: the status check after the lock is forgotten.       *)
InactiveUnchecked(r) == r \in Holds /\ res[r].status = "none"

Inactive(r) == r \in Holds /\ res[r].status # "active"

Acquire(p, r) ==
  /\ lock' = [lock EXCEPT ![r] = p]
  /\ todo' = [todo EXCEPT ![p] = @ \ {r}]
  /\ seen' = [seen EXCEPT ![p] = [a \in Accounts |-> IF a = r THEN acct[a] ELSE @[a]]]
  /\ UNCHANGED <<tables, due, pc, call, snap, stale, tries>>

LockRow(p) ==
  \E r \in NextRows(p) :
    /\ pc[p] = "locking"
    /\ Free(r) /\ ~Refused(p, r) /\ ~Inactive(r)
    /\ Acquire(p, r)

(* The reservation is no longer active: INVALID_STATE.                     *)
RejectInactive(p) ==
  \E r \in NextRows(p) :
    /\ pc[p] = "locking" /\ call[p].op # "expire"
    /\ Free(r) /\ ~Refused(p, r) /\ Inactive(r)
    /\ Fail(p)

(* The sweep's UPDATE ... WHERE status = 'active' checks the row again     *)
(* after waiting for its lock, and passes over it.                         *)
SkipInactive(p) ==
  \E r \in NextRows(p) :
    /\ pc[p] = "locking" /\ call[p].op = "expire"
    /\ Free(r) /\ Inactive(r)
    /\ todo' = [todo EXCEPT ![p] = @ \ {r}]
    /\ UNCHANGED <<tables, due, lock, pc, call, snap, stale, seen, tries>>

(* 40001: the row was rewritten after the snapshot.                        *)
SerializationFailure(p) ==
  \E r \in NextRows(p) :
    /\ pc[p] = "locking"
    /\ Free(r) /\ Refused(p, r)
    /\ RollbackAndRetry(p)

Blocked(p) == pc[p] = "locking" /\ todo[p] # {} /\ \A r \in NextRows(p) : ~Free(r)

WaitsFor(p) == {lock[r] : r \in NextRows(p)}

OnCycle(p) ==
  \E S \in SUBSET Procs :
    /\ p \in S
    /\ \A q \in S : /\ Blocked(q)
                    /\ WaitsFor(q) \cap S # {}
                    /\ \E o \in S : q \in WaitsFor(o)

(* The connection breaks: PostgreSQL rolls back, WALLET_DB_ERROR.          *)
ConnectionLost(p) == pc[p] # "idle" /\ Fail(p)

(* 40P01: the deadlock detector picks a victim on the cycle.               *)
DeadlockVictim(p) == OnCycle(p) /\ RollbackAndRetry(p)

-----------------------------------------------------------------------------
(* With every row locked: read, check, write, COMMIT.                      *)

Ready(p, op) == pc[p] = "locking" /\ todo[p] = {} /\ call[p].op = op

(* Mutant of AvailableTo: active holds are not subtracted.                 *)
AvailableIgnoringHolds(p) == Total(seen[p][call[p].from])

(* available_balance as reserve and increaseReservation compute it: the    *)
(* locked account row less the active holds of the snapshot.               *)
AvailableTo(p) == Total(seen[p][call[p].from]) - HoldTotal(snap[p], call[p].from)

ReserveInsert(p) ==
  LET c == call[p] IN
    /\ Ready(p, "reserve")
    /\ snap[p][c.hold].status = "none"
    /\ c.amt <= AvailableTo(p)
    /\ res[c.hold].status = "none"
    /\ res' = [res EXCEPT ![c.hold] = [status |-> "active", wallet |-> c.from, amount |-> c.amt]]
    /\ Committed(p, {})
    /\ UNCHANGED <<acct, ledger, outbox, due>>

(* Same key and amount, still active: the existing row is returned.        *)
ReserveExisting(p) ==
  LET old == snap[p][call[p].hold] IN
    /\ Ready(p, "reserve")
    /\ old.status = "active" /\ old.amount = call[p].amt
    /\ Committed(p, {})
    /\ UNCHANGED <<tables, due>>

(* IDEMPOTENCY_MISMATCH, INVALID_STATE, INSUFFICIENT_FUNDS, or the UNIQUE  *)
(* constraint met by a key another transaction inserted meanwhile.         *)
ReserveReject(p) ==
  LET c == call[p]
      old == snap[p][c.hold]
  IN
    /\ Ready(p, "reserve")
    /\ \/ old.status = "active" /\ old.amount # c.amt
       \/ old.status \in TerminalStatus
       \/ old.status = "none" /\ c.amt > AvailableTo(p)
       \/ old.status = "none" /\ res[c.hold].status # "none"
    /\ Fail(p)

IncreaseUpdate(p) ==
  LET c == call[p] IN
    /\ Ready(p, "increase")
    /\ c.amt <= AvailableTo(p)
    /\ res' = [res EXCEPT ![c.hold].amount = @ + c.amt]
    /\ Committed(p, {c.hold})
    /\ UNCHANGED <<acct, ledger, outbox, due>>

(* INSUFFICIENT_FUNDS                                                      *)
IncreaseReject(p) ==
  /\ Ready(p, "increase")
  /\ call[p].amt > AvailableTo(p)
  /\ Fail(p)

(* Mutant of ReleaseUpdate: > for >=, a full release leaves an empty hold. *)
ReleaseOffByOne(p) ==
  LET c == call[p] IN
    /\ Ready(p, "release")
    /\ res' = IF c.amt > res[c.hold].amount
              THEN [res EXCEPT ![c.hold].status = "released"]
              ELSE [res EXCEPT ![c.hold].amount = @ - c.amt]
    /\ Committed(p, {c.hold})
    /\ UNCHANGED <<acct, ledger, outbox, due>>

ReleaseUpdate(p) ==
  LET c == call[p] IN
    /\ Ready(p, "release")
    /\ res' = IF c.amt >= res[c.hold].amount
              THEN [res EXCEPT ![c.hold].status = "released"]
              ELSE [res EXCEPT ![c.hold].amount = @ - c.amt]
    /\ Committed(p, {c.hold})
    /\ UNCHANGED <<acct, ledger, outbox, due>>

(* UPDATE ... SET status = 'expired': the rows the sweep locked.           *)
ExpireUpdate(p) ==
  LET S == {h \in Holds : lock[h] = p} IN
    /\ Ready(p, "expire")
    /\ res' = [h \in Holds |-> IF h \in S THEN [res[h] EXCEPT !.status = "expired"] ELSE res[h]]
    /\ Committed(p, S)
    /\ UNCHANGED <<acct, ledger, outbox, due>>

(* The amount a posting moves: commitReservation takes it from the row.    *)
Moved(p) == IF call[p].op = "commit" THEN res[call[p].hold].amount ELSE call[p].amt

(* executeLedger: new balances are computed from the rows read under the   *)
(* lock and written back whole; transaction, entries and outbox rows are   *)
(* inserted in the same transaction.                                       *)
ExecuteLedger(p, via) ==
  LET c   == call[p]
      amt == Moved(p)
      bf  == seen[p][c.from]
      bt  == seen[p][c.to]
  IN
    /\ Covers(c.from, bf, amt)
    /\ ~KeyUsed(ledger, c.key)
    /\ acct' = [acct EXCEPT ![c.from] = Debited(c.from, bf, amt),
                            ![c.to]   = Credited(c.to, bt, amt, c.side)]
    /\ ledger' = ledger \cup {LedgerEntry(c.key, c.from, bf, c.to, bt, amt, c.side, via)}
    /\ outbox' = outbox \cup OutboxRows(c.key, c.from, c.to)

Posting(p) == \E op \in {"commit", "transfer", "debit", "credit"} : Ready(p, op)

MoveMoney(p) ==
  /\ Posting(p) /\ call[p].op # "commit"
  /\ ExecuteLedger(p, None)
  /\ Committed(p, {call[p].from, call[p].to})
  /\ UNCHANGED <<res, due>>

CommitHold(p) ==
  /\ Ready(p, "commit")
  /\ ExecuteLedger(p, call[p].hold)
  /\ res' = [res EXCEPT ![call[p].hold].status = "committed"]
  /\ Committed(p, {call[p].hold, call[p].from, call[p].to})
  /\ UNCHANGED due

(* INSUFFICIENT_FUNDS                                                      *)
PostingReject(p) ==
  /\ Posting(p)
  /\ ~Covers(call[p].from, seen[p][call[p].from], Moved(p))
  /\ Fail(p)

(* 23505 on wallet_transactions.idempotency_key: WALLET_DB_ERROR.          *)
DuplicateKey(p) ==
  /\ Posting(p)
  /\ Covers(call[p].from, seen[p][call[p].from], Moved(p))
  /\ KeyUsed(ledger, call[p].key)
  /\ Fail(p)

-----------------------------------------------------------------------------

CallStep(p) ==
  \/ Reserve(p) \/ IncreaseReservation(p) \/ ReleaseReservation(p) \/ CommitReservation(p)
  \/ Transfer(p) \/ Debit(p) \/ Credit(p) \/ ExpireStaleReservations(p)

LockStep(p) ==
  \/ Begin(p) \/ LockRow(p) \/ RejectInactive(p) \/ SkipInactive(p)
  \/ SerializationFailure(p) \/ DeadlockVictim(p)

WriteStep(p) ==
  \/ ReserveInsert(p) \/ ReserveExisting(p) \/ ReserveReject(p)
  \/ IncreaseUpdate(p) \/ IncreaseReject(p) \/ ReleaseUpdate(p) \/ ExpireUpdate(p)
  \/ MoveMoney(p) \/ CommitHold(p) \/ PostingReject(p) \/ DuplicateKey(p)

Next ==
  \/ Tick
  \/ \E p \in Procs : CallStep(p) \/ LockStep(p) \/ WriteStep(p) \/ ConnectionLost(p)

Spec == Init /\ [][Next]_vars

(* PostgreSQL serves the waiters of a row in the order they came, so a     *)
(* waiter that finds the row free again and again gets it; every other     *)
(* step of an open transaction only needs to be executed at all.           *)
FairSpec == Spec /\ \A p \in Procs : SF_vars(LockStep(p) \/ WriteStep(p))

-----------------------------------------------------------------------------
(* Properties.                                                             *)

(* Types of all variables.                                                 *)
TypeOK ==
  /\ acct   \in [Accounts -> Balance]
  /\ res    \in [Holds -> Hold]
  /\ ledger \subseteq LedgerRow
  /\ outbox \subseteq Keys \X Players
  /\ due    \subseteq Holds
  /\ lock   \in [Rows -> Procs \cup {None}]
  /\ pc     \in [Procs -> {"idle", "begin", "locking"}]
  /\ call   \in [Procs -> Call]
  /\ todo   \in [Procs -> SUBSET Rows]
  /\ snap   \in [Procs -> [Holds -> Hold]]
  /\ stale  \in [Procs -> SUBSET Rows]
  /\ seen   \in [Procs -> [Accounts -> Balance]]
  /\ tries  \in [Procs -> 0..MaxRetries]

(* No interleaving of postings drives a player's deposit or winnings below *)
(* zero: executeLedger's check is made on the row it holds locked.         *)
NonNegative == \A w \in Players : acct[w].dep >= 0 /\ acct[w].win >= 0

(* The nightly reconciliation never finds a difference: each side of each  *)
(* account is its opening balance plus the credits minus the debits of the *)
(* ledger.  executeLedger writes balances back whole, so one lost update   *)
(* under concurrent postings would show here.                              *)
LedgerExplainsBalances ==
  \A a \in Accounts :
    acct[a].dep = LedgerDep(ledger, a) /\ acct[a].win = LedgerWin(ledger, a)

(* The hash chain of an account never forks: no two ledger operations on   *)
(* one account hash over the same previous entry (the comment in           *)
(* executeLedger relies on the account lock for this).                     *)
HashChainUnforked ==
  \A t, u \in ledger :
    t # u => /\ (t.from = u.from => t.prevFrom # u.prevFrom)
             /\ (t.to = u.to     => t.prevTo # u.prevTo)
             /\ (t.from = u.to   => t.prevFrom # u.prevTo)

(* A reservation is committed exactly when one ledger operation debited    *)
(* its wallet for it, by its final amount: the race of commitReservation   *)
(* with the expiry sweep, with release and with increase that the comment  *)
(* on PR #513 section 1.2 describes leaves no trace.                       *)
CommittedIffDebited ==
  \A h \in Holds :
    LET paid == {t \in ledger : t.via = h} IN
      IF res[h].status = "committed"
      THEN \E t \in paid : paid = {t} /\ t.from = res[h].wallet /\ t.amount = res[h].amount
      ELSE paid = {}

(* One idempotency key buys one ledger operation, whatever the retries and *)
(* the gap between findByIdempotencyKey and the INSERT.                    *)
OncePerKey == \A t, u \in ledger : t.key = u.key => t = u

(* A released, committed or expired reservation never changes again.       *)
TerminalIsFinal ==
  [][\A h \in Holds : res[h].status \in TerminalStatus => res'[h] = res[h]]_vars

(* Active holds of a wallet never exceed its balance: what reserve and     *)
(* increaseReservation check available_balance for.                        *)
HoldsCovered == \A w \in Players : HoldTotal(res, w) <= Total(acct[w])

(* Every call returns: lock waits, deadlocks and serialization failures    *)
(* end in a result or in one of MaxRetries bounded retries.                *)
CallsReturn == \A p \in Procs : pc[p] # "idle" ~> pc[p] = "idle"

(* The adapter implements the atomic wallet ...                            *)
Ledger == INSTANCE WalletLedger
ImplementsLedger == Ledger!Spec

(* ... and, when holds of a wallet are taken one at a time, the one whose  *)
(* holds are covered by what other holds leave.                            *)
ImplementsStrictLedger == Ledger!StrictSpec

-----------------------------------------------------------------------------
(* The strengthening that makes the safety properties inductive.           *)

PostingOps == {"commit", "transfer", "debit", "credit"}

(* The arguments of a call fit its operation; a reservation named by a     *)
(* call in flight exists and keeps its wallet.                             *)
CallFits(p) ==
  LET c == call[p] IN
    /\ (pc[p] = "idle") <=> (c.op = "none")
    /\ c.op \in {"reserve", "increase", "release", "commit"} => c.hold \in Holds
    /\ c.op \in {"reserve", "increase"} => c.from \in Players
    /\ c.op \in {"increase", "release", "commit"} => res[c.hold].status # "none"
    /\ c.op = "commit" => c.from = res[c.hold].wallet
    /\ c.op \in PostingOps => /\ c.from \in Accounts /\ c.to \in Accounts
                              /\ c.from # c.to /\ c.key \in Keys

CallShape == \A p \in Procs : CallFits(p)

HoldShape == \A h \in Holds : res[h].status # "none" => res[h].wallet \in Players

(* Locks belong to open transactions, which have locked all they planned   *)
(* to lock except what is still in todo.                                   *)
LocksHeld ==
  \A p \in Procs :
    /\ pc[p] # "locking" => todo[p] = {}
    /\ \A r \in Rows : lock[r] = p => pc[p] = "locking" /\ r \notin todo[p]
    /\ pc[p] = "locking" /\ call[p].op # "expire" =>
         \A r \in RowsToLock(call[p]) : r \in todo[p] \/ lock[r] = p

(* What a transaction holds locked is what it last saw: accounts still     *)
(* have the balances it read, reservations are still active.               *)
ReadsAreCurrent ==
  \A p \in Procs :
    /\ \A a \in Accounts : lock[a] = p => seen[p][a] = acct[a]
    /\ \A h \in Holds : lock[h] = p => res[h].status = "active"

(* The inductive invariant.                                                *)
IInv ==
  /\ TypeOK /\ CallShape /\ HoldShape /\ LocksHeld /\ ReadsAreCurrent
  /\ NonNegative /\ CommittedIffDebited /\ OncePerKey
=============================================================================
