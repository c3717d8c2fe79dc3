--------------------------- MODULE PreRoundArming ---------------------------
(***************************************************************************)
(* Buying tickets before a round: the socket events bet:arm and            *)
(* ticket:cancel of sockets/gameEvents, the armed state the process keeps  *)
(* in memory (util/roomState.ts), the wallet reservations it takes, and    *)
(* BingoEngine.startGame, which turns them into debits.  The wallet is     *)
(* WalletLedger: every call of the adapter is one of its atomic            *)
(* operations, fails without effect, or takes effect and loses its reply.  *)
(*                                                                         *)
(* One room; a ticket costs one unit.  A handler runs alone between its    *)
(* awaits, and every await is a point where other handlers run.            *)
(***************************************************************************)
EXTENDS Integers, FiniteSets

CONSTANTS
  Players,      \* players of the room, each with a wallet of the same name
  House,        \* the house account of the hall
  Opening,      \* [Players \cup {House} -> Nat]: balances when observation starts
  MaxTickets,   \* 30 in the code
  MaxCycles,    \* bound: arm cycles in which tickets are armed
  Calls,        \* socket events being handled at the same time
  OneCallEach,  \* TRUE: a player has one socket event in progress at a time
  Starts,       \* runs of startGame; also the id of the game each one makes
  Path,         \* [Starts -> Paths]: who called it
  Faulty,       \* the calls that may fail, see Fault
  MaxFaults,    \* bound: how many of them do
  MaxCrashes,   \* bound: restarts of the process
  Expiry,       \* TRUE: the sweep expires reservations
  None

(* onAutoStart, the perpetual service, the event game:start.               *)
Paths == {"scheduler", "perpetual", "host"}

ASSUME TicketsAssumption == MaxTickets \in Nat /\ MaxCycles \in Nat
ASSUME PathAssumption    == Path \in [Starts -> Paths]
ASSUME NamesAssumption   == House \notin Players /\ None \notin Players \cup {House}
ASSUME OpeningAssumption == Opening \in [Players \cup {House} -> Nat]

(* The reservation of "arm-room-player-cycle-total", and the keys of the   *)
(* buy-in and of its refund (adhocBuyIn, adhocRefund).                     *)
HoldKeys == Players \X (1..MaxCycles) \X (1..MaxTickets)
PostingKeys == {"buyin", "refund", "fallback"} \X Starts \X Players
ArmKey(p, cyc, total) == <<p, cyc, total>>
BuyInKey(s, p)  == <<"buyin", s, p>>
RefundKey(s, p) == <<"refund", s, p>>

ASSUME NoneIsNoHold == None \notin HoldKeys

VARIABLES
  acct, res, ledger, outbox,   \* the wallet
  armed,      \* armedPlayerIdsByRoom: tickets armed, 0 if none
  held,       \* reservationIdByPlayerByRoom
  cycle,      \* armCycleByRoom
  call,       \* what a socket event handler in progress knows
  start,      \* what a startGame in progress knows
  game,       \* room.currentGame while it is RUNNING
  faults, crashes

wallet == <<acct, res, ledger, outbox>>
room   == <<armed, held, cycle>>
budget == <<faults, crashes>>
vars   == <<wallet, room, call, start, game, budget>>

W == INSTANCE WalletLedger WITH
       Players    <- Players \cup {House},
       System     <- {},
       Holds      <- HoldKeys,
       Keys       <- PostingKeys,
       Amounts    <- 1..MaxTickets,
       OpeningDep <- Opening,
       OpeningWin <- [a \in Players \cup {House} |-> 0]

Idle == [pc |-> "idle", player |-> None, total |-> 0, hold |-> None, amt |-> 0]

NotStarted ==
  [pc |-> "idle", todo |-> {}, want |-> [p \in Players |-> 0],
   had |-> [p \in Players |-> None], map |-> [p \in Players |-> None],
   eligible |-> {}, debited |-> {}, fallback |-> {}]

Init ==
  /\ W!Init
  /\ armed = [p \in Players |-> 0]
  /\ held  = [p \in Players |-> None]
  /\ cycle = 1
  /\ call  = [c \in Calls |-> Idle]
  /\ start = [s \in Starts |-> NotStarted]
  /\ game  = None
  /\ faults = 0 /\ crashes = 0

(* A call of this kind fails without effect or loses its reply, or the     *)
(* code after it throws.                                                   *)
Fault(kind) ==
  /\ kind \in Faulty
  /\ faults < MaxFaults
  /\ faults' = faults + 1
  /\ UNCHANGED crashes

-----------------------------------------------------------------------------
(* bet:arm and ticket:cancel                                               *)

(* A fresh UUID at the next arming; capped past the last modelled cycle.   *)
BumpArmCycle == cycle' = IF cycle > MaxCycles THEN cycle ELSE cycle + 1

MayCall(c, p) ==
  /\ call[c].pc = "idle"
  /\ OneCallEach => \A d \in Calls : call[d].player # p

Wait(c, pc, p, total, h, amt) ==
  call' = [call EXCEPT ![c] = [pc |-> pc, player |-> p, total |-> total, hold |-> h, amt |-> amt]]
Done(c) == call' = [call EXCEPT ![c] = Idle]

(* The request for n more tickets, up to the call of the wallet.           *)
BetArm(c, p, total) ==
  /\ MayCall(c, p)
  /\ total > armed[p] /\ total <= MaxTickets
  /\ \/ /\ held[p] # None
        /\ Wait(c, "increase", p, total, held[p], total - armed[p])
     \/ /\ held[p] = None /\ cycle <= MaxCycles
        /\ Wait(c, "reserve", p, total, ArmKey(p, cycle, total), total - armed[p])
  /\ UNCHANGED <<wallet, room, start, game, budget>>

(* The effect of the call on the wallet, if it has one.                    *)
TakesHold(c) ==
  /\ call[c].pc = "reserve"
  /\ call[c].amt <= W!Available(call[c].player)
  /\ W!Take(call[c].hold, call[c].player, call[c].amt)

FindsHold(c) ==
  /\ call[c].pc = "reserve"
  /\ res[call[c].hold].status = "active"
  /\ res[call[c].hold].amount = call[c].amt
  /\ UNCHANGED wallet

RaisesHold(c) ==
  /\ call[c].pc = "increase"
  /\ res[call[c].hold].status = "active"
  /\ call[c].amt <= W!Available(res[call[c].hold].wallet)
  /\ W!Increase(call[c].hold, call[c].amt)

HoldIsReserved(c) == TakesHold(c) \/ FindsHold(c) \/ RaisesHold(c)

Reserved(c) ==
  /\ HoldIsReserved(c)
  /\ call' = [call EXCEPT ![c].pc = IF @ = "reserve" THEN "reserved" ELSE "increased"]
  /\ UNCHANGED <<room, start, game, budget>>

(* INSUFFICIENT_FUNDS, IDEMPOTENCY_MISMATCH or INVALID_STATE: the handler  *)
(* answers with an error and arms nothing.                                 *)
Refused(c) ==
  \/ /\ call[c].pc = "reserve"
     /\ \/ res[call[c].hold].status = "none" /\ call[c].amt > W!Available(call[c].player)
        \/ res[call[c].hold].status \in W!TerminalStatus
        \/ res[call[c].hold].status = "active" /\ res[call[c].hold].amount # call[c].amt
  \/ /\ call[c].pc = "increase"
     /\ \/ res[call[c].hold].status # "active"
        \/ call[c].amt > W!Available(res[call[c].hold].wallet)

ReserveRefused(c) ==
  /\ Refused(c)
  /\ Done(c)
  /\ UNCHANGED <<wallet, room, start, game, budget>>

(* Mutant of ArmsAfter: armPlayer runs although the reserve failed.        *)
ArmsAnyway(c) == call[c].pc \in {"reserved", "increased", "reserve", "increase"}

ArmsAfter(c) == call[c].pc \in {"reserved", "increased"}

(* setReservationId (only when the reservation is new), then armPlayer.    *)
ArmPlayer(c) ==
  LET p == call[c].player
  IN  /\ ArmsAfter(c)
      /\ armed' = [armed EXCEPT ![p] = call[c].total]
      /\ held'  = IF call[c].pc = "reserved" THEN [held EXCEPT ![p] = call[c].hold] ELSE held
      /\ Done(c)
      /\ UNCHANGED <<wallet, cycle, start, game, budget>>

(* bet:arm with armed = false.                                             *)
Disarm(c, p) ==
  /\ MayCall(c, p)
  /\ \/ /\ held[p] # None
        /\ Wait(c, "release", p, 0, held[p], 0)
        /\ UNCHANGED armed
     \/ /\ held[p] = None /\ armed[p] > 0
        /\ armed' = [armed EXCEPT ![p] = 0]
        /\ UNCHANGED call
  /\ UNCHANGED <<wallet, held, cycle, start, game, budget>>

ReleaseAll(h) == W!Release(h, res[h].amount)

(* The whole reservation is released; an error is ignored.                 *)
Released(c) ==
  /\ call[c].pc = "release"
  /\ \/ ReleaseAll(call[c].hold)
     \/ res[call[c].hold].status # "active" /\ UNCHANGED wallet
  /\ call' = [call EXCEPT ![c].pc = "released"]
  /\ UNCHANGED <<room, start, game, budget>>

(* clearReservationId, bumpArmCycle and disarmPlayer.                      *)
DisarmPlayer(c) ==
  LET p == call[c].player
  IN  /\ call[c].pc = "released"
      /\ held'  = [held EXCEPT ![p] = None]
      /\ armed' = [armed EXCEPT ![p] = 0]
      /\ BumpArmCycle
      /\ Done(c)
      /\ UNCHANGED <<wallet, start, game, budget>>

HasTicket(p) == armed[p] > 0

(* ticket:cancel of one ticket.  cancelPreRoundTicket disarms the player   *)
(* with the last ticket, and disarmPlayer forgets the reservation before   *)
(* the handler looks it up: nothing is released then.                      *)
CancelTicket(c, p) ==
  /\ MayCall(c, p)
  /\ HasTicket(p)
  /\ armed' = [armed EXCEPT ![p] = @ - 1]
  /\ \/ /\ armed[p] <= 1
        /\ held' = [held EXCEPT ![p] = None]
        /\ BumpArmCycle
        /\ UNCHANGED call
     \/ /\ armed[p] > 1
        /\ IF held[p] = None THEN UNCHANGED call
                             ELSE Wait(c, "cancel", p, 0, held[p], 1)
        /\ UNCHANGED <<held, cycle>>
  /\ UNCHANGED <<wallet, start, game, budget>>

(* The part of the reservation is released; an error is ignored.           *)
ReleasedPart(c) ==
  /\ call[c].pc = "cancel"
  /\ \/ W!Release(call[c].hold, call[c].amt)
     \/ res[call[c].hold].status # "active" /\ UNCHANGED wallet
  /\ Done(c)
  /\ UNCHANGED <<room, start, game, budget>>

(* The wallet call fails without effect, or its reply is lost.             *)
CallFails(c) ==
  /\ Fault("socket")
  /\ \/ /\ call[c].pc \in {"reserve", "increase"}
        /\ UNCHANGED wallet \/ HoldIsReserved(c)
        /\ Done(c)
     \/ call[c].pc = "cancel" /\ UNCHANGED wallet /\ Done(c)
     \/ /\ call[c].pc = "release" /\ UNCHANGED wallet
        /\ call' = [call EXCEPT ![c].pc = "released"]
  /\ UNCHANGED <<room, start, game>>

SocketStep(c) ==
  \/ Reserved(c) \/ ReserveRefused(c) \/ ArmPlayer(c)
  \/ Released(c) \/ DisarmPlayer(c) \/ ReleasedPart(c)
-----------------------------------------------------------------------------
(* BingoEngine.startGame                                                   *)

(* The synchronous part: the armed players are read, and so are their      *)
(* reservations if the caller passes them (only the scheduler does).       *)
StartGame(s) ==
  /\ start[s].pc = "idle"
  /\ game = None
  /\ start' = [start EXCEPT ![s].pc = "filter", ![s].want = armed, ![s].had = held,
                            ![s].map = IF Path[s] = "scheduler" THEN held ELSE @]
  /\ UNCHANGED <<wallet, room, call, game, budget>>

(* refreshPlayerObjectsFromWallet and filterEligiblePlayers.               *)
CanPay(p) == W!Available(p) >= 1

CheckFunds(s) ==
  /\ start[s].pc = "filter"
  /\ LET able == {p \in Players : start[s].want[p] > 0 /\ CanPay(p)}
     IN  start' = [start EXCEPT ![s].pc = "buyin", ![s].eligible = able, ![s].todo = able]
  /\ UNCHANGED <<wallet, room, call, game, budget>>

Buying(s, p) == start[s].pc = "buyin" /\ p \in start[s].todo
Debited(s, p) ==
  start' = [start EXCEPT ![s].debited = @ \cup {p}, ![s].todo = @ \ {p}, ![s].fallback = {}]

(* The wallet accepts a posting under a new key that the balance covers.   *)
Payable(k, from, amt) == ~W!KeyUsed(ledger, k) /\ W!Covers(from, acct[from], amt)

(* The buy-in commits the player's reservation, whatever amount it has by  *)
(* now.                                                                    *)
Committing(s, p) == Buying(s, p) /\ start[s].fallback = {} /\ start[s].map[p] # None
CommitEffect(s, p) == W!Settle(start[s].map[p], BuyInKey(s, p), House, "deposit")

CommitReservation(s, p) ==
  /\ Committing(s, p)
  /\ CommitEffect(s, p)
  /\ Debited(s, p)
  /\ UNCHANGED <<room, call, game, budget>>

(* Any error, a lost reply too: the player is to pay by transfer instead.  *)
CommitFails(s, p) ==
  /\ Committing(s, p)
  /\ \/ /\ \/ res[start[s].map[p]].status # "active"
           \/ ~Payable(BuyInKey(s, p), p, res[start[s].map[p]].amount)
        /\ UNCHANGED <<wallet, budget>>
     \/ Fault("commit") /\ (UNCHANGED wallet \/ CommitEffect(s, p))
  /\ start' = [start EXCEPT ![s].fallback = {p}]
  /\ UNCHANGED <<room, call, game>>

(* Mutant of TransferKey: the fallback has a key of its own.               *)
KeyOfItsOwn(s, p) ==
  IF p \in start[s].fallback THEN <<"fallback", s, p>> ELSE BuyInKey(s, p)

(* The key of the transfer: the one the commit used.                       *)
TransferKey(s, p) == BuyInKey(s, p)

Transferring(s, p) ==
  /\ Buying(s, p)
  /\ IF start[s].fallback = {} THEN start[s].map[p] = None ELSE start[s].fallback = {p}
TransferEffect(s, p) == W!Move(TransferKey(s, p), p, House, start[s].want[p], "deposit")

TransferBuyIn(s, p) ==
  /\ Transferring(s, p)
  /\ TransferEffect(s, p)
  /\ Debited(s, p)
  /\ UNCHANGED <<room, call, game, budget>>

(* Mutant of RollBack: the loop ends at the first error, the round starts. *)
CarryOn(s) == start' = [start EXCEPT ![s].todo = {}, ![s].fallback = {}]

(* The refunds begin; todo keeps the eligible players not yet debited.     *)
RollBack(s) == start' = [start EXCEPT ![s].pc = "refund", ![s].fallback = {}]

(* A used key is an error for the adapter, like a missing balance.         *)
TransferFails(s, p) ==
  /\ Transferring(s, p)
  /\ \/ ~Payable(TransferKey(s, p), p, start[s].want[p]) /\ UNCHANGED <<wallet, budget>>
     \/ Fault("transfer") /\ (UNCHANGED wallet \/ TransferEffect(s, p))
  /\ RollBack(s)
  /\ UNCHANGED <<room, call, game>>

(* Mutant of Orphans: nothing is released for players who are not eligible. *)
NoOrphans(s) == {}

(* Armed players who are not in the round keep their reservation no longer. *)
Orphans(s) == {p \in Players : start[s].map[p] # None} \ start[s].eligible

BuyInsDone(s) ==
  /\ start[s].pc = "buyin" /\ start[s].todo = {}
  /\ start' = [start EXCEPT ![s].pc = "orphans", ![s].todo = Orphans(s)]
  /\ UNCHANGED <<wallet, room, call, game, budget>>

(* A loss-limit or ledger entry after a debit, or the making of the        *)
(* tickets, fails.                                                         *)
BookingFails(s) ==
  /\ \/ start[s].pc = "buyin" /\ start[s].debited # {} /\ start[s].fallback = {}
     \/ start[s].pc = "orphans" /\ start[s].todo = {}
  /\ Fault("booking")
  /\ RollBack(s)
  /\ UNCHANGED <<wallet, room, call, game>>

(* Reservations of armed players who are not in the round are released,    *)
(* and after a failure those of the players who were not debited.          *)
ReleaseRest(s, p) ==
  /\ start[s].pc \in {"orphans", "release"} /\ p \in start[s].todo
  /\ LET h == start[s].map[p]
         releasable == IF h = None THEN FALSE ELSE res[h].status = "active"
     IN  \/ releasable /\ ReleaseAll(h) /\ UNCHANGED budget
         \/ ~releasable /\ UNCHANGED <<wallet, budget>>
         \/ releasable /\ Fault("release") /\ UNCHANGED wallet
  /\ start' = [start EXCEPT ![s].todo = @ \ {p}]
  /\ UNCHANGED <<room, call, game>>

(* room.currentGame = game.                                                *)
Install(s) ==
  /\ start[s].pc = "orphans" /\ start[s].todo = {}
  /\ game' = s
  /\ start' = [start EXCEPT ![s].pc = "installed"]
  /\ UNCHANGED <<wallet, room, call, budget>>

(* The caller of startGame: the scheduler and the event disarm all         *)
(* players, the perpetual service does not, and nobody does if startGame   *)
(* threw.                                                                  *)
Return(s) ==
  /\ start[s].pc = "installed"
  /\ \/ /\ Path[s] # "perpetual"
        /\ armed' = [p \in Players |-> 0]
        /\ held'  = [p \in Players |-> None]
        /\ BumpArmCycle
        /\ UNCHANGED budget
     \/ Path[s] = "perpetual" /\ UNCHANGED <<room, budget>>
     \/ Path[s] # "perpetual" /\ Fault("caller") /\ UNCHANGED room
  /\ start' = [start EXCEPT ![s].pc = "done"]
  /\ UNCHANGED <<wallet, call, game>>

(* Mutant of ToRefund: every eligible player is refunded.                  *)
RefundAll(s) == start[s].eligible

(* refundDebitedPlayers: what the player was to pay, back from the house.  *)
ToRefund(s) == start[s].debited

RefundEffect(s, p) == W!Move(RefundKey(s, p), House, p, start[s].want[p], "deposit")

Refund(s, p) ==
  /\ start[s].pc = "refund" /\ p \in ToRefund(s)
  /\ \/ RefundEffect(s, p) /\ UNCHANGED budget
     \/ ~Payable(RefundKey(s, p), House, start[s].want[p]) /\ UNCHANGED <<wallet, budget>>
     \/ Fault("refund") /\ (UNCHANGED wallet \/ RefundEffect(s, p))
  /\ start' = [start EXCEPT ![s].debited = @ \ {p}, ![s].eligible = @ \ {p}]
  /\ UNCHANGED <<room, call, game>>

RefundsDone(s) ==
  /\ \/ start[s].pc = "refund" /\ ToRefund(s) = {}
        /\ start' = [start EXCEPT ![s].pc = "release"]
     \/ start[s].pc = "release" /\ start[s].todo = {}
        /\ start' = [start EXCEPT ![s].pc = "failed"]
  /\ UNCHANGED <<wallet, room, call, game, budget>>

EndGame ==
  /\ game # None
  /\ game' = None
  /\ UNCHANGED <<wallet, room, call, start, budget>>

StartStep(s) ==
  \/ CheckFunds(s) \/ BuyInsDone(s) \/ Install(s) \/ Return(s) \/ RefundsDone(s)
  \/ \E p \in Players :
        \/ CommitReservation(s, p) \/ CommitFails(s, p)
        \/ TransferBuyIn(s, p) \/ TransferFails(s, p)
        \/ ReleaseRest(s, p) \/ Refund(s, p)
-----------------------------------------------------------------------------
(* WalletReservationExpiryService, and the restart of the process.         *)

(* Mutant of Stale: only reservations a player still knows are swept.      *)
StaleAndKnown(h) == res[h].status = "active" /\ \E p \in Players : held[p] = h

(* Past expires_at: any active reservation is, some time.                  *)
Stale(h) == res[h].status = "active"

ExpireHold(h) ==
  /\ Expiry
  /\ Stale(h)
  /\ W!Expire({h})
  /\ UNCHANGED <<room, call, start, game, budget>>

Open == {s \in Starts : start[s].pc \notin {"idle", "done", "failed", "crashed"}}

(* Armed players and their reservations are in memory only; a game that    *)
(* has a checkpoint is restored.                                           *)
Crash ==
  /\ crashes < MaxCrashes
  /\ crashes' = crashes + 1
  /\ armed' = [p \in Players |-> 0]
  /\ held'  = [p \in Players |-> None]
  /\ BumpArmCycle
  /\ call'  = [c \in Calls |-> Idle]
  /\ start' = [s \in Starts |-> IF s \in Open THEN [start[s] EXCEPT !.pc = "crashed"] ELSE start[s]]
  /\ game' \in {None, game}
  /\ UNCHANGED <<wallet, faults>>

Next ==
  \/ \E c \in Calls :
       \/ SocketStep(c) \/ CallFails(c)
       \/ \E p \in Players :
            \/ \E n \in 1..MaxTickets : BetArm(c, p, n)
            \/ Disarm(c, p) \/ CancelTicket(c, p)
  \/ \E s \in Starts : StartGame(s) \/ StartStep(s) \/ BookingFails(s)
  \/ \E h \in HoldKeys : ExpireHold(h)
  \/ EndGame \/ Crash

Spec == Init /\ [][Next]_vars

(* The database answers, an await goes on, and the sweep comes round.      *)
Fairness ==
  /\ \A c \in Calls  : WF_vars(SocketStep(c))
  /\ \A s \in Starts : WF_vars(StartStep(s))
  /\ \A h \in HoldKeys : WF_vars(ExpireHold(h))

FairSpec == Spec /\ Fairness
-----------------------------------------------------------------------------
(* Properties.                                                             *)

CallPc  == {"idle", "reserve", "reserved", "increase", "increased", "release", "released", "cancel"}
StartPc == {"idle", "filter", "buyin", "orphans", "installed", "done",
            "refund", "release", "failed", "crashed"}
HoldOrNone == HoldKeys \cup {None}

CallState ==
  [pc : CallPc, player : Players \cup {None}, total : 0..MaxTickets,
   hold : HoldOrNone, amt : 0..MaxTickets]

StartState ==
  [pc : StartPc, todo : SUBSET Players, want : [Players -> 0..MaxTickets],
   had : [Players -> HoldOrNone], map : [Players -> HoldOrNone],
   eligible : SUBSET Players, debited : SUBSET Players, fallback : SUBSET Players]

(* Types of all variables.                                                 *)
TypeOK ==
  /\ acct \in [Players \cup {House} -> W!Balance]
  /\ res \in [HoldKeys -> W!Hold]
  /\ outbox \subseteq PostingKeys \X (Players \cup {House})
  /\ \A e \in ledger : e.key \in PostingKeys /\ {e.from, e.to} \subseteq Players \cup {House}
  /\ armed \in [Players -> 0..MaxTickets] /\ held \in [Players -> HoldOrNone]
  /\ cycle \in 1..(MaxCycles + 1)
  /\ call \in [Calls -> CallState] /\ start \in [Starts -> StartState]
  /\ game \in Starts \cup {None}
  /\ faults \in Nat /\ crashes \in Nat

Covered(p) ==
  /\ held[p] # None
  /\ \/ res[held[p]].status = "active" /\ res[held[p]].amount >= armed[p]
     \/ res[held[p]].status = "expired"

Disarming(p) == \E c \in Calls : call[c].player = p /\ call[c].pc = "released"

(* No ticket is armed that no reservation pays for, whatever a call of the *)
(* wallet answers and in whatever order tickets are added and cancelled,   *)
(* as long as a player's events come one at a time, unless the sweep has   *)
(* taken the reservation, which the memory does not learn.  It is the state*)
(* startGame relies on when it reads the armed players: the start itself   *)
(* then commits the reservations one by one.                               *)
ArmedIsCovered ==
  (\A s \in Starts : start[s].pc = "idle") =>
    \A p \in Players : armed[p] > 0 /\ ~Disarming(p) => Covered(p)

BuyIns(s, p)  == {e \in ledger : e.from = p /\ e.to = House /\ e.key[2] = s}
Refunds(s, p) == {e \in ledger : e.from = House /\ e.to = p /\ e.key[2] = s}

(* A player is debited at most once for a game, although a commit that     *)
(* lost its reply is followed by a transfer.                               *)
OneDebitPerGame == \A s \in Starts, p \in Players : \A d, e \in BuyIns(s, p) : d = e

(* Every player in an installed round has paid for it.                     *)
RoundPaid ==
  \A s \in Starts : start[s].pc \in {"installed", "done"} =>
    \A p \in start[s].eligible : BuyIns(s, p) # {}

(* Nobody is refunded what he never paid.                                  *)
RefundedWasDebited ==
  \A s \in Starts, p \in Players : Refunds(s, p) # {} => BuyIns(s, p) # {}

(* A round that has started leaves none of the reservations its armed      *)
(* players had: they are committed, or released with the player dropped.   *)
RoundSettlesHolds ==
  \A s \in Starts : start[s].pc \in {"installed", "done"} =>
    \A p \in Players : start[s].had[p] # None => res[start[s].had[p]].status # "active"

(* A reservation no memory knows any more ends all the same (none becomes  *)
(* active twice, so that in the end there are none).                       *)
HoldsEnd == []<>(\A h \in HoldKeys : res[h].status # "active")

(* The strengthening that makes the three properties of the buy-ins        *)
(* inductive: a reservation is filed under the player whose wallet it      *)
(* holds, wherever its id is kept; a key is used once, by the posting it   *)
(* names; and the debits a start remembers are in the ledger.              *)
OwnHolds ==
  /\ \A h \in HoldKeys  : res[h].status # "none" => res[h].wallet = h[1]
  /\ \A p \in Players   : held[p] # None => held[p][1] = p
  /\ \A c \in Calls     : call[c].pc # "idle" =>
       call[c].hold # None /\ call[c].hold[1] = call[c].player
  /\ \A s \in Starts, p \in Players : start[s].map[p] # None => start[s].map[p][1] = p

KeysNamePostings ==
  /\ \A d, e \in ledger : d.key = e.key => d = e
  /\ \A e \in ledger :
       \/ e.key = BuyInKey(e.key[2], e.from) /\ e.from \in Players /\ e.to = House
       \/ /\ e.key = RefundKey(e.key[2], e.to) /\ e.from = House
          /\ BuyIns(e.key[2], e.to) # {}

DebitsAreInLedger ==
  \A s \in Starts, p \in Players :
    \/ p \in start[s].debited
    \/ start[s].pc = "buyin" /\ p \in start[s].eligible \ start[s].todo
    \/ start[s].pc \in {"orphans", "installed", "done"} /\ p \in start[s].eligible
    => BuyIns(s, p) # {}

IInv == TypeOK /\ OwnHolds /\ KeysNamePostings /\ DebitsAreInLedger
=============================================================================
