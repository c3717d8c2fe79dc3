# Spillorama: models and proofs of the money paths

Spillorama runs live bingo for Norwegian halls: a TypeScript backend
(`src/apps/backend`) on Node.js with PostgreSQL, Redis and Socket.IO, browser
clients (`src/packages/game-client`) and an administration site
(`src/apps/admin-web`). This directory holds TLA+ modules of the parts of the
backend that move money, the TLC configurations that check them on small
instances, and TLAPS proofs of what matters most for instances of every size.

All source paths below are relative to `src/apps/backend/src/` unless they
begin with `src/`.

```
tlc -workers 2 -config MCOutbox_outbox.cfg MCOutbox.tla     # one run
tlapm Payments_proofs.tla                                   # one module of proofs
```

`PROJECT.json` lists the runs, one mutant of the code per checked property,
the source lines of every definition, the hazards and the theorems.

## 1. Inventory

One backend process is a single JavaScript thread: code between two `await`s
is not interrupted, and every `await` (a query, a Redis call, an HTTP request)
is a point where other handlers, timers and callbacks run. Several processes
share one PostgreSQL database and one Redis.

Components in bold have a module, the others have none yet.

| component | state it keeps | operations | hard because |
| --- | --- | --- | --- |
| **Wallet adapter** `adapters/PostgresWalletAdapter.ts`, `wallet/walletTxRetry.ts` | accounts, reservations, ledger with hash chain, outbox rows | reserve, increase, release, commit, transfer, debit/withdraw, credit/topUp, expiry sweep | concurrent transactions, snapshots, row locks, 40001/40P01 retries |
| **Circuit breaker** `util/CircuitBreaker.ts` | failure counter, open window, probe flag, gauge | execute; assertClosed/onSuccess/onFailure | answers of calls admitted in an earlier window |
| **Outboxes** `wallet/WalletOutbox*`, `compliance/ComplianceOutbox*` | queue rows with attempts | enqueue, claim, dispatch, mark | several workers, crashes between dispatch and mark |
| **Compliance ledger port** `compliance/ComplianceOutboxComplianceLedgerPort.ts`, `game/ComplianceLedger.ts` | section 71 ledger | record a STAKE | four transactions where one is meant |
| **Arming and buy-in** `sockets/gameEvents/*`, `util/roomState.ts`, `game/BingoEngine.ts` startGame | armed tickets and reservation ids in memory | bet:arm, ticket:cancel, startGame, refunds | handlers interleave at awaits; restarts forget memory, not money |
| **Game 1 life cycle** `game/Game1MasterControlService.ts`, `game/Game1ScheduleTickService.ts`, `game/Game1AutoDrawTickService.ts` and the services for automatic resume, stuck games and recovery | row of the scheduled game, engine state | start, exclude a hall, pause, resume, stop, ticks, drawNext | two rows written by six actors, in two lock orders; engine calls after the commit |
| **Game 1 tickets** `game/Game1TicketPurchaseService.ts`, `game/Game1ArmedToPurchaseConversionService.ts` | purchases | purchase, convert a reservation, refund, refund a whole game | the debit, the INSERT and the status of the game are on three connections |
| **Game 1 prizes** `game/Game1DrawEngineService.ts`, `game/Game1PayoutService.ts`, `game/pot/PotEvaluator.ts` | winners' rows, pots, daily jackpot | evaluate and pay a phase, win a pot, daily jackpot | wallet and pots commit inside a transaction that may still roll back |
| **Payments** `payments/*`, `jobs/swedbankPaymentSync.ts` | payment intents, requests | create, reconcile, accept, reject | callback, job and player reconcile the same intent |
| Hall readiness, master transfer, plan runs `game/Game1HallReadyService.ts`, `game/Game1TransferHallService.ts`, `game/GamePlan*` | ready flags, transfer requests, position in the plan | ready, unready, request and approve a transfer, advance | operators of several halls at once |
| Perpetual rounds `game/PerpetualRoundService.ts`, Games 2 and 3 | room in memory, pending restarts | spawn, carry over, draw | timers against players' events |
| Draw scheduler `draw-engine/*`, `store/RedisSchedulerLock.ts` | timers, locks with a lease | schedule, lock, watchdog | work that outlives its lease (`RedisSchedulerLock.ts:119`) |
| Compliance manager `game/ComplianceManager.ts` | loss limits, pauses, self-exclusion in memory and database | record loss, change limits | a cache per process (`ComplianceManager.ts:849`) |
| Regulatory ledger and daily reports `compliance/regulatory/*` | hash-chained rows, report chain | append, close a day | order of appends |
| Agents, physical tickets, vouchers | shifts, cash balances, ranges, voucher counters | open, sell, settle, redeem | row locks taken in several orders |
| Socket event idempotency, room store | keys of handled events, room state in Redis | claim, answer | lost replies and repeats |
| Platform, administration, notifications, observability, clients, migrations | records, logs, presentation | CRUD | not concurrent in a way a model adds to |

How they interact: socket handlers and game services call the **wallet
adapter**; every write goes through the **breaker**, then one database
transaction with retries; the same transaction enqueues a **wallet outbox**
row, which a worker publishes. **Game 1 tickets** are sold while the **life
cycle** says so, and call the **compliance port** after their wallet
transaction has committed; a stop refunds them. The draw tick calls
`drawNext`, which pays **prizes** through the wallet and may end the game.
**Payments** top up the wallet. **startGame** is called by the scheduler's
callback (`util/schedulerSetup.ts`), by the perpetual service and by the event
`game:start`, and turns the reservations of `bet:arm` into debits; for Game 1
the conversion turns them into purchases. A sweep
(`wallet/WalletReservationExpiryService.ts`) expires reservations that nobody
settled.

What makes each part correct: the wallet overdraws nobody, explains every
balance by its ledger, spends an idempotency key and a reservation once; the
breaker's counter, window, flag and gauge agree and it closes again; an outbox
loses no row and finishes every row; a paid ticket reaches the compliance
ledger; nobody plays unpaid, pays twice for a round or keeps money locked by
a round that is over; row and engine of a Game 1 never contradict each other
and a game ends; money taken for a ticket has a ticket or goes back; prizes
go to winners, once, and are recorded as paid; what is paid in is credited,
for orders that are paid, and once unless a call is torn.

## 2. Modules

```
WalletBase ── WalletLedger (abstract, atomic) ◄── implemented by ── PostgresWallet
                    ▲
                    └── INSTANCE ── PreRoundArming
CircuitBreaker
Outbox ◄── EXTENDS ── ComplianceOutbox
Game1Lifecycle (abstract) ◄── implemented by ── Game1Schedule
       ▲
       └── INSTANCE ── Game1Tickets ── implements, per purchase ──► TicketSale (abstract)
PrizeSettlement (abstract) ◄── implemented by ── Game1Payouts
Payments
```

Each component has a module, an `MC...` module with the small instance, and a
`..._proofs` module (the proofs of both outboxes are in one).

**WalletBase** has the data and the arithmetic: split of a debit into winnings
and deposit (`SplitDebit`), the balance check of `executeLedger` (`Covers`),
the reservation total (`HoldTotal`).

**WalletLedger** is what callers may rely on: each operation is one atomic
step. Its `Spec` only wants a hold to be covered by the balance, `StrictSpec`
by what other holds leave of it.

**PostgresWallet** is the adapter. A call goes `idle`, `begin` (arguments
known), `locking` (the first `SELECT ... FOR UPDATE` has fixed the snapshot,
rows are locked one at a time in the code's order) and is finished by one step
that stands for the remaining statements and COMMIT; that is one step because
what it reads is either locked by it or in its snapshot, and what it writes is
invisible before COMMIT. `stale` records which rows were rewritten since a
snapshot, so that locking one of them under REPEATABLE READ is the 40001 of
PostgreSQL; `OnCycle` is the deadlock detector; `RollbackAndRetry` is
`withWalletTx`. `commitReservation` and the sweep run in READ COMMITTED
without a retry, as in the code. `seen` holds the rows as read, because
`executeLedger` writes balances computed in memory back whole. A lost
connection can end a call at every point before COMMIT.

**CircuitBreaker** has both users of the class: `execute` around PostgreSQL
calls, `assertClosed`/`onSuccess`/`onFailure` around HTTP requests; the
variable `adapter` is the choice made at boot. The clock is abstracted to the
state getter: `window` goes from open to half-open at any time (`CoolDown`).

**Outbox** is one table with its workers; one step is one SQL statement or one
call of the dispatcher. A claim takes no lease, so rows being dispatched are
still pending. `SKIP LOCKED` passes over some of the rows others work on, any
of them. **ComplianceOutbox** extends it: the dispatcher is the ledger, and
each step of `recordComplianceLedgerEvent` (INSERT of the row, inline
dispatch, mark, and each of their failures) is an action of the caller. The
key of a ledger row keeps apart the event as passed (`call`) and as read back
from JSONB (`jsonb`), because the hash in the key differs.

**PreRoundArming** has the handlers of `bet:arm` and `ticket:cancel`, cut at
their awaits, and the whole of `startGame` from the snapshot of the armed
players to `room.currentGame = game`, with its fallback from commit to
transfer, rollback, refunds and the release of the reservations of players who
are not in the round. The wallet is an instance of WalletLedger. A call of the
adapter fails without effect, or takes effect and loses its reply, where
`Faulty` allows it. `Crash` is a restart: memory is gone, money is not.

**Game1Lifecycle** is what players, halls and reports see of a scheduled game:
its status and the number of balls. A start may be undone before the first
ball; balls fall only in a running game; the end is final.

**Game1Schedule** has the row in `app_game1_scheduled_games` (`status`,
`resumable` for `auto_resume_eligible_at`, `late` for the end time) and the
row in `app_game1_game_state` (`engine`), and everybody who writes them:
requests of masters, the schedule tick, draw ticks with `drawNext`, the
automatic resume, the watchdog and the recovery at boot. A transaction that
waits for its second row lock takes two steps (`rowLock`, `stateLock`). The
code takes the two locks in both orders, and `DeadlockVictim` is PostgreSQL
breaking the circle. What a request does to the engine after its commit is a
step of its own, which may fail, or not come because of a `Crash`. When halls
are ready is left open: the tick may find them ready at any time.

**TicketSale** is one purchase as its buyer sees it: paid, sold, returned as a
compensation or a refund, withdrawn. **Game1Tickets** has purchases and
conversions, each cut where it changes connection: status read, debit, INSERT,
compensation; conversion, commit of the reservation, INSERT, release. `posted`
is the ledger as a set of postings (a posting is made once for its key, as
WalletLedger promises); the game is Game1Lifecycle and moves on between all
these steps. `refundPurchase` is called by administrators and by
`refundAllForGame` after a stop, possibly for one row at a time by both. A
call for a key in `Unreliable` fails with or without effect; `cut` remembers
the keys for which a step failed that the code does not make up for.

**PrizeSettlement** says what auditors rely on: phases in order, one payment
per prize, and no winner left out of a record. **Game1Payouts** is `drawNext`
from the ball to its commit. `attempt.at` is the place in the transaction:
`winners` (credits one by one in the order of the code), `pots` and `credit`
(the pots of the halls that have a winner, each emptied by `tryWin`'s own
commit and then credited), `daily`, `commit`. `paid` and `pot` are written by
commits of their own, so `RollBack`, which takes back everything of the draw,
leaves them; the next attempt draws the same ball and uses the same keys
(`Credit` finds the earlier posting). `JackpottFails` is the policy of the
pot type `jackpott`, whose errors are logged and swallowed. Between two draws
purchases are refunded or arrive late (`IncomeChanges`), pots fill, the game
is cancelled; a draw reads each of these once, so a change during a draw is
as good as one before or after it.

**Payments** has intents and requests as *items*: a worker (a request, the
callback, the job) asks Swedbank (`fetch`), and by the answer notes it,
refuses the card and cancels the order, or settles: lock the row and look
again (`Lock`), call the wallet (`Move`, its own commit), write the row and
commit (`Settle`). A call that ends between the last two is torn. A payment
request has an idempotency key in the wallet, a top-up has none (`Movements`).

## 3. Runs

Bounds are constants of the modules (`MaxRetries`, `MaxErrors`, `MaxCrashes`,
`MaxFaults`, `MaxTorn`, `MaxCycles`, `MaxTickets`, `MaxIncome`, `MaxDraws`,
`MaxIntents`); every run finishes the state space.

| run | instance | shows |
| --- | --- | --- |
| `wallet_postings` | 2 calls in flight, a player with one unit on each side, a house account, a system account, 1 reservation, 2 keys, no retry; all operations but increase; 722,880 states | `IInv`, `NonNegative`, `OncePerKey`, `LedgerExplainsBalances`, `HashChainUnforked`, and `ImplementsLedger`: every transaction is one step of the atomic wallet |
| `wallet_holds` | 2 calls, 1 reservation, 1 retry; all operations but transfer and debit; 89,883 states | `CommittedIffDebited`, `HoldsCovered`, `TerminalIsFinal`, `ImplementsStrictLedger`, and `CallsReturn` (liveness) with deadlocks and 40001 on the way |
| `breaker` | 3 callers, threshold 3, both adapters | `ClosedBelowThreshold`, `GaugeLagsByCoolDown`, `Recovers` (liveness) |
| `outbox` | 2 rows, 2 workers, 1 failing statement, 1 crash, 2 attempts; 243,171 states | `ProcessedWasDelivered`, `Settles` (liveness) |
| `compliance_port` | 3 purchases, two with one key, 1 caller, 1 worker, 1 failing statement, 1 crash; 254,533 states | `ProcessedIsInLedger`, `ReturnedIsKept`, `EnqueuedIsRecorded` (liveness) |
| `arming` | 2 players with two units and one, 2 handlers, up to 2 tickets, a start by the scheduler, 1 fault of a handler, the booking or the caller, 1 restart, the sweep; 755,531 states | `ArmedIsCovered`, `RoundSettlesHolds`, `HoldsEnd` (liveness) |
| `rounds` | 2 players, 2 overlapping starts, 1 fault of commit, transfer, booking or release; 744,180 states | `OneDebitPerGame`, `RoundPaid`, `RefundedWasDebited` |
| `schedule` | 2 requests, 1 draw tick, 2 phases, 2 balls, every call of the engine may fail, 1 restart; 59,602 states | `IInv` (with `EngineMatchesRow`), `FollowsLifecycle` (refinement), `GameEnds` (liveness) |
| `tickets` | 2 players with one unit each, 2 client keys (one sent again, one whose INSERT may fail), 1 conversion, 2 purchase requests, 1 administrator, a stop, restarts at any time; 430,521 states | `TicketsArePaid`, `NoMoneyLost`, `StopRefundsAll`, `SalesAreFair` (refinement) |
| `payments` | 2 intents with a batch of one, 1 payment request, 2 calls and the job, 1 torn call per item, 1 restart; 64,918 states | `MoneyIsExplained`, `OnlyPaidOrdersCredited`, `PaidIsCredited` (liveness) |
| `double_credit` | 1 intent, 1 call and the job, 1 torn call | violates `NoDoubleCredit` |
| `payouts` | 3 tickets of 2 colors and 2 halls, 2 phases, 2 balls, income of 0 or 1, 2 pots in the hall of the pair, 1 fault; 488,133 states | `OnlyWinnersPaid`, `RecordedIsPaid`, `PotNeverOverpaid`, `PrizesSettle` (refinement), `PaidIsRecorded` (liveness) |

Why the bounds are enough for the cases that matter: two calls make every
pair of conflicting transactions, a deadlock cycle and a stale snapshot; one
retry distinguishes the first try from the last; two keys and one reservation
let a key or a reservation be used again; two outbox rows in batches of two
make a batch in which one row succeeds and one fails, with a crash or a failed
mark between; two players are one debited and one failing player of the same
buy-in. Two requests beside the jobs let one act between the commit and the
engine call of the other; two phases are one that pauses the game and one
that ends it. Two winners of one color share a prize, the third is a group of
its own; one fault is one draw that is rolled back and drawn again, at each
of its steps; an income that changes by one changes a percentage prize
between two attempts; of the two pots one is won by its target and loses the
draw when it fails, and one is won at once and swallows its errors. Two
intents and a batch of one make an intent wait for an older one. More parties,
balls, phases and amounts are covered by the proofs for the safety
properties, not by the runs.

In `payments` the constraint `Apart` keeps intents and payment requests in
different behaviours: they share nothing but the calls. No fair action leaves
it (only creating an item and accepting a request do, and nothing makes these
happen), so `PaidIsCredited` is not weakened by it.

Symmetry is used in `wallet_postings` and `tickets` only (keys, reservations
and calls are interchangeable there and no liveness is checked). Deadlock
checking is off where the modelled instance ends: all purchases made, all
cycles used, the game over.

### Fairness

- `PostgresWallet`: strong fairness of the lock and write steps of a call.
  PostgreSQL queues the waiters of a row, so a call for which the row is free
  again and again is served. Nothing makes callers start calls.
- `CircuitBreaker`: the clock runs, an admitted call ends (`CallsReturn` for
  PostgreSQL, the abort timer of `HttpWalletAdapter`), and callers keep
  calling: games and clients retry. `Recovers` is conditional on the
  dependency being well and on business errors ending.
- `Outbox`, `ComplianceOutbox`: `setInterval` fires again and an await ends.
  The dispatcher may fail every time; failing statements and crashes are
  bounded.
- `PreRoundArming`: awaits end, and the sweep comes round for every active
  reservation. No fairness makes a player or a scheduler act.
- `Game1Schedule`: transactions that wait for a row are served (strong
  fairness, as above), the watchdog runs again and again, PostgreSQL breaks
  every deadlock and not always at the watchdog's cost, time passes. No
  master acts and no ball has to fall: `GameEnds` rests on the watchdog.
- `Payments`: the job runs every hour, what is not stopped goes on; the
  request to Swedbank, the lock and the wallet call of the job, tried again
  and again for one intent, succeed some time (strong fairness); an intent
  nobody is owed for grows old. A paid intent may grow old first, which
  `PaidIsCredited` allows: after 24 hours the job no longer looks.
- `Game1Payouts`: the draw tick comes again and every await ends. Faults are
  bounded, as a draw that fails for ever pays nobody.

## 4. Proofs

All are for every number of players, callers, rows, keys, tickets, phases and
amounts. Assumptions on constants are the named `ASSUME`s of the modules
(amounts positive, sets of names disjoint, finite outbox rows and the like).

**PostgresWallet_proofs.** `Invariance` shows `IInv` inductive; it gives
`TypeCorrect`, `NeverOverdrawn`, `CommitExactlyOnce`, `KeySpentOnce` and
`TerminalForever` (an action property). The safety properties are not
inductive by themselves: that a committed reservation has exactly one debit of
its amount needs that the reservation read as active is still active when
`commitReservation` writes. `IInv` adds the reason: an open transaction holds
the locks of every row it planned to lock and has left its list
(`LocksHeld`), what it read under a lock is still what the table holds
(`ReadsAreCurrent`), and the arguments of a call fit its operation
(`CallShape`). The proof has one lemma per kind of write and per way a
transaction ends.

The books follow: `BooksKept`, and from it `BalancesReconcile` (every balance
is its opening value plus what the ledger says) and `ChainNeverForks`.
`BooksInv` adds to the two properties that the ledger is finite and that an
entry follows a state its account has left behind (`ChainsGrow`): with the
account lock held from read to write, two entries cannot follow the same one.
Balances are sums over the ledger, and the library's induction over finite sets
cannot be used; the module proves what it needs of sums (empty set, one
element more, one changed, monotone) by taking a smallest counterexample:
the subsets of a finite set are well-founded, so a set with a counterexample
has a least one, and that one is refuted directly.

`AdapterImplementsLedger` is the refinement of WalletLedger: every step of a
session (start, lock, read, write, commit of the transaction, loss of the
connection) is one step of the ledger or leaves it alone, and a write is the
step its call is for. It needs that a call in flight asks for what its method
accepts and that reservations are finitely many (`CallsAskWell`). Two
promises of the ledger then hold of the adapter: the outbox has exactly the
events of the postings (`EveryPostingIsAnnounced`), and no entry of the ledger
is taken back (`LedgerOnlyGrows`). `MoneyIsConserved`, for finitely many
accounts, is proved from `IInv`: what all accounts hold together, those of the
system included, is what they opened with. A posting writes two balances, and
both are those the transaction read under their locks, so the sum keeps its
value although other sessions, retries and rollbacks come in between.

Two results hold under hypotheses the code does not establish, and say so in
their statement. `SerialHoldsAreStrict`: the adapter implements the strict
ledger, which never reserves more than is available, as long as no two calls
that reserve or increase for different holds of one wallet are in flight
together (`OneHoldAtATime`). The reason it is needed is in the code: the sum
of active holds is read from a snapshot older than the account lock, so two
reservations can each miss the other. `SnapCovers` says what the snapshot is
good for then: it shows every other hold that is still active, at no less than
its present amount. `SerialHoldsAreCovered`: active holds never exceed the
balance, if in addition a transfer or debit of a wallet is in flight only
while the wallet has no active hold (`NoHoldUnderDebit`): debits look at the
balance and not at the holds. Both hypotheses hold on the run `wallet_holds`,
which checks the two properties on one reservation.

**CircuitBreaker_proofs.** `BreakerInvariance` with the consequences
`OneProbeAtATime`, `CounterInStep`, `GaugeInStep`.

**ComplianceOutbox_proofs.** First the table alone: `OutboxInvariance`,
`NothingLost`, `NothingGivenUpEarly` (a row is dead only after all its
attempts). The strengthening: the attempts a worker carries are at most those
of the row, and what it is about to mark was delivered. Then the port:
`PortInvariance` reuses the typing lemmas step by step; `ProcessedIsRecorded`
and `ReturnedAreKept` follow, the latter with a lemma that what is kept stays
kept. `ComplianceRowsGivenUpLate` carries the count of attempts over to the
port. It does not follow from the table, because calls of the port settle rows
by their key, without a claim, while a worker holds them; what a worker
carries still never exceeds what the row has counted (`AttemptsCounted`),
because a row only counts upward (`CountsOn`).

**PreRoundArming_proofs.** `Invariance`, then `NobodyPaysTwice`,
`NobodyPlaysForFree`, `NobodyIsGivenMoney`. The argument: a key is used once
and names the posting it is used for (`KeysNamePostings`), a reservation is
filed under the player whose wallet it holds (`OwnHolds`), and every debit a
start remembers is in the ledger (`DebitsAreInLedger`). With these, a commit
that lost its reply and the transfer that follows it cannot both debit.

`ArmedTicketsAreCovered` assumes `OneCallEach`, as the run does: events of one
player come one at a time. With it, in a state with no start in progress, an
armed player who is not being disarmed has a reservation that pays for his
tickets, whatever wallet calls fail, lose their reply or are cut short by a
restart. `ArmInv` says what each handler step knows: which call is the
player's only one, and that the reservation it read is still the one he has,
of the amount it computed from.

`StartedRoundsSettleHolds` assumes `ScheduledAndAnswered` (starts come from
the scheduler, and commits and releases are answered; socket calls, transfers
and refunds may still fail) and that no two starts take buy-ins at the same
time (`OneStartBuys`). Each part is needed: the other callers of startGame pass
no reservations; a commit whose reply is lost, or a release that fails, leaves
what the round does not come back to; and a second start may take the balance
under a hold. The argument (`SettleInv`): a start keeps the reservations it
was given (`StartRecords`), the money keys it has still to use are fresh, the
balance of a player not yet debited covers each of his active holds, so a
commit cannot be refused for lack of money, and behind the cursor every
reservation is over. It covers several rounds one after the other, which is
more than the run has.

`RoundsUseStrictWallet` composes arming with the wallet: every step of arming,
whatever fails, is a step of the strict ledger or leaves it alone, when that
ledger takes amounts above zero only. What has to be shown is that nobody asks
for nothing (`CallsAskForSomething`): no hold, call in flight or buy-in of a
round is of amount zero, although a player may disarm, arm again and change
his tickets while a call is on its way. `SerialHoldsAreStrict` is the other
side: the adapter keeps that ledger's promise while holds of a wallet are
taken one at a time.

**Game1Schedule_proofs.** `Invariance`, `EngineAndRowAgree`, `GamesStayFinished`
(an action property that follows from the refinement: a completed or cancelled
game keeps its state and its balls, and balls fall one at a time, in a running
game only) and
`ImplementsLifecycle`, the refinement of Game1Lifecycle, for any number of
requests and draw processes, phases and balls, and for both kinds of master
hall. The strengthening says who is where: one start at a time, and the row it
would go back to (`OneStart`); who stands between two statements holds the
lock and what he has read under it still holds (`LocksMatch`); what exists
when he writes (`EngineShape`).

**Game1Tickets_proofs.** `Invariance`, `NobodyPlaysUnpaid`,
`ImplementsSales` (every purchase follows TicketSale), `MoneyIsAccountedFor`,
`StopsRefund`. The first three assume `NoRetryAfterFailure`: a client does not
send a key again whose INSERT may fail. The code needs this: a compensated
debit keeps its key, so the same key sent again finds the old debit, takes
nothing and writes a ticket (section 6). The run makes the same assumption
through its constants. With it, a key that is not sent again has one call and
no call after its compensation (`CallsKnowTheirKey`).

`MoneyIsAccountedFor` and `StopsRefund` need no such assumption: whatever keys
are sent again, the money of a game is accounted for and a stopped game's
tickets are refunded. Their invariant is the weaker `MoneyInv`
(`MoneyInvariance`), which leaves out what relates a ticket to the debit of
its own key.

**Payments_proofs.** `Invariance`, `NoMovementUnexplained`,
`OnlyDebitCardsCredited`. The argument: one worker holds the row of an item
and the item is still open (`OneHolder`), and the answer a worker acts on is
still true, as a paid order stays paid (`WorkersKnowTheirItem`).
`CreditedAgainOnlyAfterATear` bounds the double credit of section 6: an intent
is credited once, and once more for each call whose UPDATE was lost after the
wallet had answered. `SettledForGood` (an action property): a credited intent
and an accepted request are never opened again, and the wallet moves nothing
more for them.

**Game1Payouts_proofs.** `Invariance`, `OnlyWinnersArePaid`, `RecordsAreTrue`,
`NoPotIsOverpaid`, `SettledForGood` (an action property: payments and records
are never taken back, and nobody is paid for a phase that is recorded or lies
before one that is, whatever a draw repeats after a rollback), and `DrawsSettlePrizes`, the refinement of
PrizeSettlement. The strengthening: what was paid for the phase that is played
is nothing or the share, for those an attempt has passed it is not nothing
(`SharesArePaid`), also after a draw was rolled back, because winners, ball
and share are the same in the next attempt when no prize depends on refunds;
recorded phases lie before the played one (`RowsInOrder`); a pot this game has
not come to yet has given nothing, and what an attempt is about to credit is
what was just taken (`PotsAreCurrent`).

Proved and not checked by a run of their own: the inductive invariants of the
breaker, the outboxes, arming, tickets, payments and payouts, the
strengthenings `BooksInv`, `AskInv`, `SnapCovers`, `ArmInv`, `SettleInv`,
`MoneyInv`, `AttemptsCounted` and `SomethingInv`, `DeadAfterMaxAttempts`, and
what `EveryPostingIsAnnounced`, `LedgerOnlyGrows`, `MoneyIsConserved`,
`RoundsUseStrictWallet`, `CreditedAgainOnlyAfterATear`, `GamesStayFinished`
and the two `SettledForGood` state. TLC checked each of them on the instance of
its component's run; `SnapCovers`, `ArmInv`, `SettleInv` and `MoneyInv` also on
larger ones, with several holds of a wallet, three tickets, two faults and two
starts, or a key sent again whose INSERT may fail (up to three and a half
million states).

Only model-checked: all liveness (`CallsReturn`, `Recovers`, `Settles`,
`EnqueuedIsRecorded`, `HoldsEnd`, `GameEnds`, `PaidIsCredited`,
`PaidIsRecorded`), which is beyond the prover, as is ENABLED. Every safety
invariant, action property and refinement of a passing run has its theorem.
`NoDoubleCredit` is violated by the code (section 6) and has none.

## 5. What the models leave out

- Wallet: `creditWithClient` in a caller's transaction, account creation,
  schema bootstrap, read-only queries, the connection pool (a commit asks for a
  second connection while it holds a lock: a module of its own is planned). A
  failed statement has no effect. House accounts of halls are players.
- Compliance: the copy of the ledger in memory and the regulatory sink. A
  purchase is the call it makes after its own commit.
- Arming: a ticket costs one unit; no price change (`room:configure`,
  multipliers), no free play, loss limits, duplicate delivery of a socket
  event, eviction of idle players, minimum round interval. `ArmedIsCovered` is
  checked with one event of a player at a time (`OneCallEach`), before a start
  begins, and a reservation that expired counts as cover; the first assumption
  is needed (section 6).
- Game 1 schedule: the readiness of halls, transfer of the master role, plan
  runs, and the room in memory. The run has a master hall that is not for
  tests; the proofs cover both. A finished game is not cleaned up.
- Game 1 tickets: a purchase costs one unit; sales by agents (rows without
  money), the checks of hall and price, the calls after the INSERT (compliance
  ledger, pots, loss limits), and who plays with which assignment.
- Payments: amounts and currencies, the order of statements when the INSERT of
  a new intent fails after the order was made at Swedbank, the UPDATE of the
  order id in `processCallback`, reminders.
- Game 1 prizes: patterns and colors are reduced to the draw by which a ticket
  has the rows of a phase; winners have the same color and size where the code
  groups them by either (the daily jackpot groups more coarsely); the prize of
  one configuration without colors is the case of one color. Left out: lucky
  bonus, tickets on paper, mini-games, the resolution of the side games
  (oddsen, trafikklys), loyalty, compliance events, pots that count only some
  ticket colors or cap the total, a reset of a pot by an administrator. The
  pause after a phase is in Game1Schedule.
- Everything else in section 1 that has no module: see `PROJECT.json` for each
  part and its reason.

## 6. Where code and text disagree

Shown by a run:

- `double_credit`: `reconcileRow` credits through `topUp`, which commits on its
  own connection and is given no key, before the UPDATE and COMMIT of the
  intent (`payments/SwedbankPayService.ts:843`). If these fail, the next
  callback or job credits again. `src/docs/architecture/payments-flows.md:226`
  and 232 promise that no double credit is possible and no key is needed.

Met while modelling, visible in the modules, without a run of their own.

Wallet, breaker, outboxes:

- `reserveImpl` sums reservations in a REPEATABLE READ snapshot taken before
  the account lock is granted, and locks without writing, so the second of two
  parallel reserves sees neither the first one's row nor a 40001
  (`adapters/PostgresWalletAdapter.ts:1974`, test
  `adapters/PostgresWalletAdapter.isolation.test.ts:117`).
- `transfer` and `debit` look at the balance only, so they spend money a
  reservation holds (`PostgresWalletAdapter.ts:1276`, the same test at 170):
  `wallet_holds` leaves them out of its calls.
- `transfer` never looks its key up: a repeat fails on the UNIQUE constraint
  (`DuplicateKey`; `src/docs/architecture/modules/backend/WalletService.md:89`
  promises the original transaction).
- Business errors count as failures for `execute`: three
  `INSUFFICIENT_FUNDS` in a row open the breaker (`Refuse`; WalletService.md:125
  speaks of a write side that has failed). A success of a call admitted
  earlier closes an open breaker (`Succeed`). Over HTTP, the answer in an
  `{ok: true, data}` envelope never reaches `onSuccess`
  (`EnvelopeOrRefusal`).
- `SKIP LOCKED` protects the claiming statement only; two workers dispatch the
  same row (`wallet/WalletOutboxRepo.ts:138`), and a late `markFailed` puts a
  processed row back (`WalletOutboxRepo.ts:204`, comment at 149). `Settles`
  holds because attempts are bounded.
- Two purchases of one player for the same total in one game have one outbox
  key; on the conflict the port returns without a dispatch
  (`compliance/ComplianceOutboxComplianceLedgerPort.ts:188`, against its
  comment at line 110).
- A redispatch from JSONB has another ledger key and inserts a second row
  (`game/ComplianceLedger.ts:155`, port comment at 39); the regulatory sink is
  called again (`ComplianceLedger.ts:307`); the entry is put into memory again
  (line 276). A crash between the commit of a purchase and the outbox INSERT
  leaves nothing (`game/Game1TicketPurchaseService.ts:660`).

Arming:

- `disarmPlayer` forgets the reservation id before the handler of
  `ticket:cancel` looks it up (`sockets/gameEvents/ticketEvents.ts:262`,
  comment at 258); the money stays held until the sweep, as `HoldsEnd` shows.
- A `bet:arm` that awaits `increaseReservation` arms the player although his
  last ticket was cancelled meanwhile (`sockets/gameEvents/roomEvents.ts:200`,
  comment at 137-139); two of them can open two reservations.
- The perpetual service passes no reservation ids, so rounds are paid by
  transfer and the reservations stay (`game/PerpetualRoundService.ts:832`);
  the funds filter counts the player's own reservation against him
  (`game/BingoEngine.ts:4290`); a second start passes `assertNotRunning` and
  replaces the running round (line 1628); the refund returns the price of the
  snapshot, the commit takes what the reservation has by then (line 1285); a
  failed start leaves players armed with settled reservations
  (`util/schedulerSetup.ts:226`); a transfer that replaces a commit leaves the
  reservation active, and after a commit with a lost reply it meets the used
  key, so that the start fails without refunding this player
  (`BingoEngine.ts:1257-1281`).

Game 1 schedule:

- A pause that commits between the commit of a start and `engine.startGame`
  makes the engine refuse, and the rollback skips the row because it is no
  longer running: a paused game without an engine
  (`game/Game1MasterControlService.ts:776-788`).
- The engine calls of pause and resume carry no condition: a late
  `resumeGame` lifts the pause of a newer phase (`PauseEngine`,
  `ResumeEngine`; line 1297), a late `pauseGame` leaves a running game with a
  paused engine, which only a master, the watchdog or the end time gets out of.
- The automatic resume clears `auto_resume_eligible_at` of a pause that came
  after the one it saw (`WakerCommits`).
- The watchdog, the recovery and the tick cancel a game without refunding it;
  a stop whose `engine.stopGame` throws skips `refundAllForGame`.
- `drawNext` and the automatic resume lock engine state, then row; resume and
  the watchdog the reverse (`DeadlockVictim`).

Game 1 tickets:

- After a debit, a failed INSERT and a compensation, the same key sent again
  finds the old debit and gets a ticket for nothing
  (`game/Game1TicketPurchaseService.ts:489-510`); the proofs assume it away by
  `NoRetryAfterFailure`.
- A conversion whose INSERT fails after the commit of the reservation keeps the
  money: the reservation cannot be released any more, and a retry is refused
  because it is not active, where the comment in
  `game/Game1ArmedToPurchaseConversionService.ts:453-457` expects the retry to
  get the same transfer (`InsertConvertedFails`, `ReleaseHold`).
- A purchase that has read the status before a start or a stop is inserted
  after it, and then is not among those the stop refunds; a refund leaves the
  assignments in play.

Payments:

- An answer of Swedbank is written by id, so a late one replaces `CREDITED`
  (`Record`; `credited_at` stays and protects the money). An intent refused
  because of its card is picked by the job again and ends `CANCELLED`.
- An accept that is torn and then a reject leave the money moved and the
  request `REJECTED` (`payments-flows.md:114` says the wallet is never
  touched).

Game 1 prizes:

- `tryWin` empties a pot in a transaction of its own. When the draw is rolled
  back after it, the balance is gone and the next attempt finds the pot below
  its target or its key used: the winner gets less than the pot, or nothing
  (`TryWin`, `RollBack`; `PotNeverOverpaid` states an upper bound for this
  reason). `src/docs/architecture/modules/backend/Game1DrawEngineService.md:95`
  says a rollback leaves no partial state. Credits of winners survive it as
  well; a comment in `game/Game1PayoutService.test.ts:564-574` expects them to
  be rolled back.
- A percentage prize paid before a rollback and recorded after a refund is
  recorded with another amount than was paid (`RecordedIsPaid` excepts it).
- Each attempt reports its prizes to the compliance ledger under a new random
  claim id, so a repeated draw reports a prize twice. If the game is stopped
  after a rollback, prizes stay paid that no record names (`PaidIsRecorded`
  excepts it).
- Two pots of type `jackpott` in one hall share a key (`OneJackpottAssumption`
  excludes it). The cap on single prizes is applied to pots, and not by
  `payoutPhase`, against the same document at line 100.

## 7. Plan

In order; done: 1 to 7.

1. PostgresWallet and WalletLedger.
2. CircuitBreaker.
3. Outbox and ComplianceOutbox.
4. PreRoundArming over WalletLedger.
5. Game1Schedule with Game1Lifecycle; Game1Tickets with TicketSale.
6. Payments.
7. Game1Payouts with PrizeSettlement.
8. Hall readiness, transfer of the master role and plan runs beside
   Game1Schedule; the draw scheduler with its locks and leases.
9. Perpetual rounds; loss limits; regulatory ledger and daily reports.
10. Agents, ticket ranges and vouchers as single-table state machines; the
    socket idempotency store and the connection pool.

Proof work left: the hypotheses of `SerialHoldsAreStrict` from the callers of
the wallet (events of one player come one at a time in arming, but other
callers of the adapter reserve as well); the action properties of the breaker;
and the components of steps 8 to 10 as they are modelled.
