----------------------------- MODULE WalletBase -----------------------------
(***************************************************************************)
(* The data of the wallet: what the tables wallet_accounts,                *)
(* wallet_reservations, wallet_transactions (with its wallet_entries and   *)
(* wallet_outbox rows) hold, and the pure computations of                  *)
(* apps/backend/src/adapters/PostgresWalletAdapter.ts over them.  No       *)
(* state: WalletLedger and PostgresWallet both extend this module.         *)
(*                                                                         *)
(* Money is counted in small integers.  A reservation is named by its      *)
(* idempotency key (UNIQUE, and rows are never deleted); a ledger          *)
(* operation is named by its idempotency key.                              *)
(***************************************************************************)
EXTENDS Integers, FiniteSets, FiniteSetsExt

CONSTANTS
  Players,      \* wallet_accounts with is_system = false (house wallets of halls too)
  System,       \* wallet_accounts with is_system = true (__system_house__, ...)
  Holds,        \* idempotency keys of reservations
  Keys,         \* idempotency keys of ledger operations
  Amounts,      \* the amounts callers ask for
  OpeningDep,   \* [Players -> Nat]: deposit balance when observation starts
  OpeningWin,   \* [Players -> Nat]: winnings balance when observation starts
  None          \* "no row"

ASSUME AmountsPositive == Amounts \subseteq Nat \ {0}
ASSUME OpeningBalances == OpeningDep \in [Players -> Nat] /\ OpeningWin \in [Players -> Nat]
ASSUME KindsDisjoint   == Players \cap System = {} /\ (Players \cup System) \cap Holds = {}
ASSUME NoneIsNothing   == None \notin (Players \cup System \cup Holds \cup Keys)

Accounts == Players \cup System

Sides == {"deposit", "winnings"}

(* An account row, with the length of the account's chain of hashed wallet_entries. *)
Balance == [dep : Int, win : Int, chain : Nat]

OpeningBalance(a) ==
  IF a \in Players THEN [dep |-> OpeningDep[a], win |-> OpeningWin[a], chain |-> 0]
                   ELSE [dep |-> 0, win |-> 0, chain |-> 0]

Total(b) == b.dep + b.win

(* wallet_reservations.status; "none" is the absence of the row.           *)
HoldStatus     == {"none", "active", "released", "committed", "expired"}
TerminalStatus == {"released", "committed", "expired"}

Hold   == [status : HoldStatus, wallet : Players \cup {None}, amount : Nat]
NoHold == [status |-> "none", wallet |-> None, amount |-> 0]

ActiveHolds(r, w) == {h \in Holds : r[h].status = "active" /\ r[h].wallet = w}

(* SUM(amount_cents) WHERE wallet_id = w AND status = 'active'.            *)
HoldTotal(r, w) == MapThenSumSet(LAMBDA h : r[h].amount, ActiveHolds(r, w))

(* splitDebitFromAccount: winnings first, the rest from deposit; a system  *)
(* account keeps everything on its deposit side.                           *)
SplitDebit(a, b, amt) ==
  LET w == IF a \in System THEN 0 ELSE IF b.win < amt THEN b.win ELSE amt
  IN  [dep |-> amt - w, win |-> w]

CreditSide(a, side) == IF a \in System THEN "deposit" ELSE side

Debited(a, b, amt) ==
  [dep |-> b.dep - SplitDebit(a, b, amt).dep,
   win |-> b.win - SplitDebit(a, b, amt).win,
   chain |-> b.chain + 1]

Credited(a, b, amt, side) ==
  [dep |-> IF CreditSide(a, side) = "deposit"  THEN b.dep + amt ELSE b.dep,
   win |-> IF CreditSide(a, side) = "winnings" THEN b.win + amt ELSE b.win,
   chain |-> b.chain + 1]

(* Mutant of Covers: only the winnings side is checked.                    *)
CoversWinningsOnly(a, b, amt) == a \in System \/ Debited(a, b, amt).win >= 0

(* executeLedger refuses a debit that would leave a non-system side negative. *)
Covers(a, b, amt) ==
  a \in System \/ (Debited(a, b, amt).dep >= 0 /\ Debited(a, b, amt).win >= 0)

(* One ledger operation: its debit and credit entries, the previous entry  *)
(* each hashes over, and the reservation it settles, if any.               *)
LedgerRow ==
  [key : Keys, from : Accounts, to : Accounts, amount : Nat, fromWin : Nat,
   side : Sides, via : Holds \cup {None}, prevFrom : Nat, prevTo : Nat]

LedgerEntry(k, from, bf, to, bt, amt, side, via) ==
  [key |-> k, from |-> from, to |-> to, amount |-> amt,
   fromWin |-> SplitDebit(from, bf, amt).win,
   side |-> CreditSide(to, side), via |-> via,
   prevFrom |-> bf.chain, prevTo |-> bt.chain]

(* Mutant of KeyUsed: no UNIQUE constraint on idempotency_key.             *)
KeyNeverUsed(l, k) == FALSE

KeyUsed(l, k) == \E t \in l : t.key = k

(* The outbox rows executeLedger enqueues: one per non-system transaction. *)
OutboxRows(k, from, to) == {k} \X ({from, to} \ System)

(* What the ledger says an account should hold (the reconciliation query). *)
LedgerDep(l, a) ==
  OpeningBalance(a).dep
    + MapThenSumSet(LAMBDA t : t.amount, {t \in l : t.to = a /\ t.side = "deposit"})
    - MapThenSumSet(LAMBDA t : t.amount - t.fromWin, {t \in l : t.from = a})

LedgerWin(l, a) ==
  OpeningBalance(a).win
    + MapThenSumSet(LAMBDA t : t.amount, {t \in l : t.to = a /\ t.side = "winnings"})
    - MapThenSumSet(LAMBDA t : t.fromWin, {t \in l : t.from = a})
=============================================================================
