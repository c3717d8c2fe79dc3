------------------------ MODULE PreRoundArming_proofs ------------------------
(***************************************************************************)
(* Nobody pays twice for a round, nobody plays it without having paid,     *)
(* nobody is refunded what he never paid, what is armed is covered, and a  *)
(* round that started settled the reservations of its players: for every   *)
(* number of players, socket events, starts, failing calls and restarts.   *)
(***************************************************************************)
EXTENDS PreRoundArming, TLAPS, FiniteSetTheorems, WellFoundedInduction

(* The part of the invariant that is about the wallet alone.               *)
WalletOK ==
  /\ acct \in [Players \cup {House} -> W!Balance]
  /\ res \in [HoldKeys -> W!Hold]
  /\ outbox \subseteq PostingKeys \X (Players \cup {House})
  /\ \A e \in ledger : e.key \in PostingKeys /\ {e.from, e.to} \subseteq Players \cup {House}
  /\ \A h \in HoldKeys : res[h].status # "none" => res[h].wallet = h[1]

(* What a posting adds to the ledger.                                      *)
Posts(k, from, to) ==
  \E e : /\ e.key = k /\ e.from = from /\ e.to = to
         /\ ~W!KeyUsed(ledger, k)
         /\ ledger' = ledger \cup {e}

LEMMA HoldOwner ==
  ASSUME NEW h \in HoldKeys PROVE h[1] \in Players
BY DEF HoldKeys

LEMMA HoldOps ==
  ASSUME WalletOK, NEW h \in HoldKeys, NEW amt \in Nat,
         \/ W!Take(h, h[1], amt) \/ W!Increase(h, amt)
         \/ W!Release(h, amt) \/ W!Expire({h})
  PROVE  WalletOK' /\ ledger' = ledger
<1>1. UNCHANGED <<acct, ledger, outbox>>
  BY DEF W!Take, W!Increase, W!Release, W!Expire
<1>2. res[h] \in W!Hold
  BY DEF WalletOK
<1>3. PICK r \in W!Hold : /\ res' = [res EXCEPT ![h] = r]
                          /\ r.status # "none" => r.wallet = h[1]
  <2>1. CASE W!Take(h, h[1], amt)
    <3>1. [status |-> "active", wallet |-> h[1], amount |-> amt] \in W!Hold
      BY HoldOwner DEF W!Hold, W!HoldStatus
    <3> QED
      BY <2>1, <3>1 DEF W!Take
  <2>2. CASE W!Increase(h, amt)
    <3>1. [res[h] EXCEPT !.amount = @ + amt] \in W!Hold
      BY <1>2 DEF W!Hold
    <3> QED
      BY <2>2, <3>1, <1>2 DEF W!Increase, W!Hold, WalletOK
  <2>3. CASE W!Release(h, amt)
    <3>1. CASE amt >= res[h].amount
      <4>1. [res[h] EXCEPT !.status = "released"] \in W!Hold
        BY <1>2 DEF W!Hold, W!HoldStatus
      <4> QED
        BY <2>3, <3>1, <4>1, <1>2 DEF W!Release, W!Hold, WalletOK
    <3>2. CASE ~(amt >= res[h].amount)
      <4>1. [res[h] EXCEPT !.amount = @ - amt] \in W!Hold
        BY <1>2, <3>2 DEF W!Hold
      <4> QED
        BY <2>3, <3>2, <4>1, <1>2 DEF W!Release, W!Hold, WalletOK
    <3> QED
      BY <3>1, <3>2
  <2>4. CASE W!Expire({h})
    <3>1. [res[h] EXCEPT !.status = "expired"] \in W!Hold
      BY <1>2 DEF W!Hold, W!HoldStatus
    <3>2. res' = [res EXCEPT ![h] = [res[h] EXCEPT !.status = "expired"]]
      BY <2>4 DEF W!Expire, WalletOK
    <3>3. res[h].wallet = h[1]
      BY <2>4 DEF W!Expire, WalletOK
    <3> QED
      BY <3>1, <3>2, <3>3, <1>2 DEF W!Hold
  <2> QED
    BY <2>1, <2>2, <2>3, <2>4
<1> QED
  BY <1>1, <1>3 DEF WalletOK

LEMMA DebitIsBalance ==
  ASSUME NEW a, NEW b \in W!Balance, NEW amt \in Nat
  PROVE  W!Debited(a, b, amt) \in W!Balance
<1>1. b.dep \in Int /\ b.win \in Int /\ b.chain + 1 \in Nat
  BY DEF W!Balance
<1>2. W!SplitDebit(a, b, amt).dep \in Int /\ W!SplitDebit(a, b, amt).win \in Int
  BY <1>1 DEF W!SplitDebit
<1> QED
  BY <1>1, <1>2 DEF W!Debited, W!Balance

LEMMA CreditIsBalance ==
  ASSUME NEW a, NEW b \in W!Balance, NEW amt \in Nat
  PROVE  W!Credited(a, b, amt, "deposit") \in W!Balance
<1>1. b.dep \in Int /\ b.win \in Int /\ b.chain + 1 \in Nat /\ b.dep + amt \in Int
  BY DEF W!Balance
<1> QED
  BY <1>1 DEF W!Credited, W!CreditSide, W!Balance

(* A posting: a row under a new key, and balances that stay balances.      *)
LEMMA PostOps ==
  ASSUME WalletOK, NEW k \in PostingKeys, NEW via, NEW amt \in Nat,
         NEW from \in Players \cup {House}, NEW to \in Players \cup {House},
         W!Post(k, from, to, amt, "deposit", via)
  PROVE  /\ Posts(k, from, to)
         /\ acct' \in [Players \cup {House} -> W!Balance]
         /\ outbox' \subseteq PostingKeys \X (Players \cup {House})
         /\ \A e \in ledger' : e.key \in PostingKeys /\ {e.from, e.to} \subseteq Players \cup {House}
<1>1. Posts(k, from, to)
  <2> DEFINE e == W!LedgerEntry(k, from, acct[from], to, acct[to], amt, "deposit", via)
  <2>1. e.key = k /\ e.from = from /\ e.to = to
    BY DEF W!LedgerEntry
  <2>2. ledger' = ledger \cup {e} /\ ~W!KeyUsed(ledger, k)
    BY DEF W!Post
  <2> QED
    BY <2>1, <2>2 DEF Posts
<1>2. acct' \in [Players \cup {House} -> W!Balance]
  <2>1. /\ W!Debited(from, acct[from], amt) \in W!Balance
        /\ W!Credited(to, acct[to], amt, "deposit") \in W!Balance
    BY DebitIsBalance, CreditIsBalance DEF WalletOK
  <2>2. acct' = [acct EXCEPT ![from] = W!Debited(from, acct[from], amt),
                             ![to]   = W!Credited(to, acct[to], amt, "deposit")]
    BY DEF W!Post, WalletOK
  <2> QED
    BY <2>1, <2>2 DEF WalletOK
<1>3. outbox' \subseteq PostingKeys \X (Players \cup {House})
  BY DEF W!Post, W!OutboxRows, WalletOK
<1>4. \A e \in ledger' : e.key \in PostingKeys /\ {e.from, e.to} \subseteq Players \cup {House}
  BY <1>1 DEF Posts, WalletOK
<1> QED
  BY <1>1, <1>2, <1>3, <1>4

LEMMA MoveOps ==
  ASSUME WalletOK, NEW k \in PostingKeys, NEW amt \in Nat,
         NEW from \in Players \cup {House}, NEW to \in Players \cup {House},
         W!Move(k, from, to, amt, "deposit")
  PROVE  WalletOK' /\ Posts(k, from, to)
<1>1. W!Post(k, from, to, amt, "deposit", None) /\ res' = res
  BY DEF W!Move
<1> QED
  BY <1>1, PostOps DEF WalletOK

LEMMA SettleOps ==
  ASSUME WalletOK, NEW h \in HoldKeys, NEW k \in PostingKeys,
         W!Settle(h, k, House, "deposit")
  PROVE  WalletOK' /\ Posts(k, h[1], House)
<1>1. /\ W!Post(k, res[h].wallet, House, res[h].amount, "deposit", h)
      /\ res' = [res EXCEPT ![h].status = "committed"]
      /\ res[h].status = "active"
  BY DEF W!Settle
<1>2. res[h] \in W!Hold /\ res[h].wallet = h[1] /\ res[h].amount \in Nat
  BY <1>1 DEF WalletOK, W!Hold
<1>3. [res[h] EXCEPT !.status = "committed"] \in W!Hold
  BY <1>2 DEF W!Hold, W!HoldStatus
<1>4. /\ res' \in [HoldKeys -> W!Hold]
      /\ \A g \in HoldKeys : res'[g].status # "none" => res'[g].wallet = g[1]
  BY <1>1, <1>2, <1>3 DEF WalletOK, W!Hold
<1>5. h[1] \in Players \cup {House} /\ House \in Players \cup {House}
  BY HoldOwner
<1>6. /\ Posts(k, h[1], House)
      /\ acct' \in [Players \cup {House} -> W!Balance]
      /\ outbox' \subseteq PostingKeys \X (Players \cup {House})
      /\ \A e \in ledger' : e.key \in PostingKeys /\ {e.from, e.to} \subseteq Players \cup {House}
  BY <1>1, <1>2, <1>5, PostOps
<1> QED
  BY <1>4, <1>6 DEF WalletOK

-----------------------------------------------------------------------------
(* The rest of the invariant: what the process keeps in memory.            *)

HandlersOK ==
  /\ armed \in [Players -> 0..MaxTickets] /\ held \in [Players -> HoldOrNone]
  /\ cycle \in 1..(MaxCycles + 1)
  /\ call \in [Calls -> CallState]
  /\ \A p \in Players   : held[p] # None => held[p][1] = p
  /\ \A c \in Calls     : call[c].pc # "idle" =>
       call[c].hold # None /\ call[c].hold[1] = call[c].player

StartsOK ==
  /\ start \in [Starts -> StartState]
  /\ game \in Starts \cup {None}
  /\ faults \in Nat /\ crashes \in Nat
  /\ \A s \in Starts, p \in Players : start[s].map[p] # None => start[s].map[p][1] = p

LEMMA InvParts ==
  IInv <=> WalletOK /\ HandlersOK /\ StartsOK /\ KeysNamePostings /\ DebitsAreInLedger
BY DEF IInv, TypeOK, OwnHolds, WalletOK, HandlersOK, StartsOK

(* The same of the next state.                                             *)
LEMMA InvPartsNext ==
  IInv' <=> WalletOK' /\ HandlersOK' /\ StartsOK' /\ KeysNamePostings' /\ DebitsAreInLedger'
BY DEF IInv, TypeOK, OwnHolds, WalletOK, HandlersOK, StartsOK

(* The wallet is used through its operations on reservations, if at all.   *)
Quiet == WalletOK' /\ ledger' = ledger

LEMMA UntouchedIsQuiet ==
  ASSUME WalletOK, UNCHANGED wallet PROVE Quiet
BY DEF Quiet, WalletOK, wallet

LEMMA CallFacts ==
  ASSUME HandlersOK, NEW c \in Calls, call[c].pc # "idle"
  PROVE  /\ call[c] \in CallState /\ call[c].hold \in HoldKeys
         /\ call[c].hold[1] = call[c].player /\ call[c].player \in Players
         /\ call[c].amt \in Nat /\ call[c].total \in 0..MaxTickets
<1>1. call[c] \in CallState /\ call[c].hold # None /\ call[c].hold[1] = call[c].player
  BY DEF HandlersOK
<1>2. call[c].hold \in HoldKeys /\ call[c].total \in 0..MaxTickets /\ call[c].amt \in 0..MaxTickets
  BY <1>1 DEF CallState, HoldOrNone
<1> QED
  BY <1>1, <1>2, HoldOwner, TicketsAssumption

LEMMA HoldIsReservedQuiet ==
  ASSUME WalletOK, HandlersOK, NEW c \in Calls, HoldIsReserved(c) PROVE Quiet
<1>1. CASE TakesHold(c)
  <2>1. call[c].pc # "idle" /\ W!Take(call[c].hold, call[c].player, call[c].amt)
    BY <1>1 DEF TakesHold
  <2> QED
    BY <2>1, CallFacts, HoldOps DEF Quiet
<1>2. CASE FindsHold(c)
  BY <1>2, UntouchedIsQuiet DEF FindsHold
<1>3. CASE RaisesHold(c)
  <2>1. call[c].pc # "idle" /\ W!Increase(call[c].hold, call[c].amt)
    BY <1>3 DEF RaisesHold
  <2> QED
    BY <2>1, CallFacts, HoldOps DEF Quiet
<1> QED
  BY <1>1, <1>2, <1>3 DEF HoldIsReserved

LEMMA ReleaseAllQuiet ==
  ASSUME WalletOK, NEW h \in HoldKeys, ReleaseAll(h) PROVE Quiet
<1>1. res[h].amount \in Nat
  BY DEF WalletOK, W!Hold
<1> QED
  BY <1>1, HoldOps DEF ReleaseAll, Quiet

Handler(c) ==
  \/ SocketStep(c) \/ CallFails(c)
  \/ \E p \in Players :
       \/ \E n \in 1..MaxTickets : BetArm(c, p, n)
       \/ Disarm(c, p) \/ CancelTicket(c, p)

LEMMA HandlerQuiet ==
  ASSUME WalletOK, HandlersOK, NEW c \in Calls, Handler(c) PROVE Quiet
<1>1. CASE Reserved(c)
  BY <1>1, HoldIsReservedQuiet DEF Reserved
<1>2. CASE Released(c)
  <2>1. call[c].hold \in HoldKeys
    BY <1>2, CallFacts DEF Released
  <2> QED
    BY <1>2, <2>1, ReleaseAllQuiet, UntouchedIsQuiet DEF Released
<1>3. CASE ReleasedPart(c)
  <2>1. call[c].hold \in HoldKeys /\ call[c].amt \in Nat
    BY <1>3, CallFacts DEF ReleasedPart
  <2> QED
    BY <1>3, <2>1, HoldOps, UntouchedIsQuiet DEF ReleasedPart, Quiet
<1>4. CASE CallFails(c)
  BY <1>4, HoldIsReservedQuiet, UntouchedIsQuiet DEF CallFails
<1>5. CASE ReserveRefused(c) \/ ArmPlayer(c) \/ DisarmPlayer(c)
  BY <1>5, UntouchedIsQuiet DEF ReserveRefused, ArmPlayer, DisarmPlayer
<1>6. CASE \E p \in Players :
             \/ \E n \in 1..MaxTickets : BetArm(c, p, n)
             \/ Disarm(c, p) \/ CancelTicket(c, p)
  BY <1>6, UntouchedIsQuiet DEF BetArm, Disarm, CancelTicket
<1> QED
  BY <1>1, <1>2, <1>3, <1>4, <1>5, <1>6 DEF Handler, SocketStep

(* The steps of a handler keep what handlers know about reservations.      *)
LEMMA CycleBumps ==
  ASSUME HandlersOK, BumpArmCycle PROVE cycle' \in 1..(MaxCycles + 1)
BY TicketsAssumption DEF HandlersOK, BumpArmCycle

LEMMA IdleIsCall == Idle \in CallState
BY TicketsAssumption DEF Idle, CallState, CallPc, HoldOrNone

LEMMA DoneKeepsCalls ==
  ASSUME HandlersOK, NEW c \in Calls, Done(c)
  PROVE  /\ call' \in [Calls -> CallState]
         /\ \A d \in Calls : call'[d].pc # "idle" =>
              call'[d].hold # None /\ call'[d].hold[1] = call'[d].player
<1>1. Idle.pc = "idle"
  BY DEF Idle
<1>2. call' = [call EXCEPT ![c] = Idle]
  BY DEF Done
<1> QED
  BY <1>1, <1>2, IdleIsCall DEF HandlersOK

LEMMA WaitKeepsCalls ==
  ASSUME HandlersOK, NEW c \in Calls, NEW p \in Players, NEW h \in HoldKeys, h[1] = p,
         NEW pc \in CallPc, NEW total \in 0..MaxTickets, NEW amt \in 0..MaxTickets,
         Wait(c, pc, p, total, h, amt)
  PROVE  /\ call' \in [Calls -> CallState]
         /\ \A d \in Calls : call'[d].pc # "idle" =>
              call'[d].hold # None /\ call'[d].hold[1] = call'[d].player
<1> DEFINE w == [pc |-> pc, player |-> p, total |-> total, hold |-> h, amt |-> amt]
<1>1. w \in CallState /\ w.hold # None /\ w.hold[1] = w.player
  BY NoneIsNoHold DEF CallState, HoldOrNone
<1>2. call' = [call EXCEPT ![c] = w]
  BY DEF Wait
<1> HIDE DEF w
<1> QED
  BY <1>1, <1>2 DEF HandlersOK

LEMMA PcKeepsCalls ==
  ASSUME HandlersOK, NEW c \in Calls, NEW pc \in CallPc, call[c].pc # "idle",
         call' = [call EXCEPT ![c].pc = pc]
  PROVE  /\ call' \in [Calls -> CallState]
         /\ \A d \in Calls : call'[d].pc # "idle" =>
              call'[d].hold # None /\ call'[d].hold[1] = call'[d].player
<1>1. call[c] \in CallState /\ call[c].hold # None /\ call[c].hold[1] = call[c].player
  BY DEF HandlersOK
<1>2. [call[c] EXCEPT !.pc = pc] \in CallState
  BY <1>1 DEF CallState
<1>3. call' = [call EXCEPT ![c] = [call[c] EXCEPT !.pc = pc]]
  BY DEF HandlersOK
<1>4. [call[c] EXCEPT !.pc = pc].hold = call[c].hold /\ [call[c] EXCEPT !.pc = pc].player = call[c].player
  BY <1>1 DEF CallState
<1> QED
  BY <1>1, <1>2, <1>3, <1>4 DEF HandlersOK

LEMMA BetArmKeepsHandlers ==
  ASSUME HandlersOK, NEW c \in Calls, NEW p \in Players, NEW n \in 1..MaxTickets, BetArm(c, p, n)
  PROVE  HandlersOK'
<1>1. armed[p] \in 0..MaxTickets /\ n - armed[p] \in 0..MaxTickets /\ n \in 0..MaxTickets
  BY TicketsAssumption DEF BetArm, HandlersOK
<1>2. PICK h \in HoldKeys, pc \in CallPc : h[1] = p /\ Wait(c, pc, p, n, h, n - armed[p])
  <2>1. CASE held[p] # None /\ Wait(c, "increase", p, n, held[p], n - armed[p])
    <3>1. held[p] \in HoldKeys /\ held[p][1] = p
      BY <2>1 DEF HandlersOK, HoldOrNone
    <3> QED
      BY <2>1, <3>1 DEF CallPc
  <2>2. CASE cycle <= MaxCycles /\ Wait(c, "reserve", p, n, ArmKey(p, cycle, n), n - armed[p])
    <3>1. ArmKey(p, cycle, n) \in HoldKeys /\ ArmKey(p, cycle, n)[1] = p
      BY <2>2, TicketsAssumption DEF ArmKey, HoldKeys, HandlersOK
    <3> QED
      BY <2>2, <3>1 DEF CallPc
  <2> QED
    BY <2>1, <2>2 DEF BetArm
<1> QED
  BY <1>1, <1>2, WaitKeepsCalls DEF BetArm, HandlersOK, room

LEMMA DisarmKeepsHandlers ==
  ASSUME HandlersOK, NEW c \in Calls, NEW p \in Players, Disarm(c, p)
  PROVE  HandlersOK'
<1>1. CASE held[p] # None /\ Wait(c, "release", p, 0, held[p], 0) /\ UNCHANGED armed
  <2>1. held[p] \in HoldKeys /\ held[p][1] = p /\ "release" \in CallPc /\ 0 \in 0..MaxTickets
    BY <1>1, TicketsAssumption DEF HandlersOK, HoldOrNone, CallPc
  <2> QED
    BY <1>1, <2>1, WaitKeepsCalls DEF Disarm, HandlersOK
<1>2. CASE armed' = [armed EXCEPT ![p] = 0] /\ UNCHANGED call
  BY <1>2, TicketsAssumption DEF Disarm, HandlersOK
<1> QED
  BY <1>1, <1>2 DEF Disarm

LEMMA CancelKeepsHandlers ==
  ASSUME HandlersOK, NEW c \in Calls, NEW p \in Players, CancelTicket(c, p)
  PROVE  HandlersOK'
<1>1. armed' \in [Players -> 0..MaxTickets]
  BY TicketsAssumption DEF CancelTicket, HasTicket, HandlersOK
<1>2. CASE held' = [held EXCEPT ![p] = None] /\ BumpArmCycle /\ UNCHANGED call
  BY <1>1, <1>2, CycleBumps DEF HandlersOK, HoldOrNone
<1>3. CASE armed[p] > 1 /\ held[p] = None /\ UNCHANGED <<call, held, cycle>>
  BY <1>1, <1>3 DEF HandlersOK
<1>4. CASE /\ armed[p] > 1 /\ held[p] # None /\ UNCHANGED <<held, cycle>>
           /\ Wait(c, "cancel", p, 0, held[p], 1)
  <2>1. /\ held[p] \in HoldKeys /\ held[p][1] = p /\ "cancel" \in CallPc
        /\ 0 \in 0..MaxTickets /\ 1 \in 0..MaxTickets
    BY <1>4, TicketsAssumption DEF HandlersOK, HoldOrNone, CallPc
  <2> QED
    BY <1>1, <1>4, <2>1, WaitKeepsCalls DEF HandlersOK
<1> QED
  BY <1>2, <1>3, <1>4 DEF CancelTicket

LEMMA HandlerKeepsHandlers ==
  ASSUME HandlersOK, NEW c \in Calls, Handler(c) PROVE HandlersOK'
<1>1. CASE Reserved(c)
  <2>1. call[c].pc # "idle"
    BY <1>1 DEF Reserved, HoldIsReserved, TakesHold, FindsHold, RaisesHold
  <2>2. PICK pc \in CallPc : call' = [call EXCEPT ![c].pc = pc]
    <3>1. (IF call[c].pc = "reserve" THEN "reserved" ELSE "increased") \in CallPc
      BY DEF CallPc
    <3> QED
      BY <1>1, <3>1 DEF Reserved, HandlersOK
  <2> QED
    BY <1>1, <2>1, <2>2, PcKeepsCalls DEF Reserved, HandlersOK, room
<1>2. CASE ReserveRefused(c) \/ ReleasedPart(c)
  BY <1>2, DoneKeepsCalls DEF ReserveRefused, ReleasedPart, HandlersOK, room
<1>3. CASE ArmPlayer(c)
  <2>1. call[c].pc # "idle"
    BY <1>3 DEF ArmPlayer, ArmsAfter
  <2>2. armed' \in [Players -> 0..MaxTickets]
    BY <1>3, <2>1, CallFacts DEF ArmPlayer, HandlersOK
  <2>3. held' \in [Players -> HoldOrNone] /\ \A p \in Players : held'[p] # None => held'[p][1] = p
    <3>1. CASE held' = held
      BY <3>1 DEF HandlersOK
    <3>2. CASE held' = [held EXCEPT ![call[c].player] = call[c].hold]
      BY <3>2, <2>1, CallFacts DEF HandlersOK, HoldOrNone
    <3> QED
      BY <1>3, <3>1, <3>2 DEF ArmPlayer
  <2> QED
    BY <1>3, <2>2, <2>3, DoneKeepsCalls DEF ArmPlayer, HandlersOK
<1>4. CASE Released(c)
  <2>1. call[c].pc # "idle" /\ "released" \in CallPc /\ call' = [call EXCEPT ![c].pc = "released"]
    BY <1>4 DEF Released, CallPc
  <2> QED
    BY <1>4, <2>1, PcKeepsCalls DEF Released, HandlersOK, room
<1>5. CASE DisarmPlayer(c)
  <2>1. call[c].player \in Players
    BY <1>5, CallFacts DEF DisarmPlayer
  <2>2. held' = [held EXCEPT ![call[c].player] = None] /\ armed' = [armed EXCEPT ![call[c].player] = 0]
    BY <1>5 DEF DisarmPlayer
  <2> QED
    BY <1>5, <2>1, <2>2, DoneKeepsCalls, CycleBumps, TicketsAssumption
    DEF DisarmPlayer, HandlersOK, HoldOrNone
<1>6. CASE CallFails(c)
  <2>1. CASE Done(c)
    BY <1>6, <2>1, DoneKeepsCalls DEF CallFails, HandlersOK, room
  <2>2. CASE call[c].pc = "release" /\ call' = [call EXCEPT ![c].pc = "released"]
    <3>1. call[c].pc # "idle" /\ "released" \in CallPc
      BY <2>2 DEF CallPc
    <3> QED
      BY <1>6, <2>2, <3>1, PcKeepsCalls DEF CallFails, HandlersOK, room
  <2> QED
    BY <1>6, <2>1, <2>2 DEF CallFails
<1> QED
  BY <1>1, <1>2, <1>3, <1>4, <1>5, <1>6,
     BetArmKeepsHandlers, DisarmKeepsHandlers, CancelKeepsHandlers DEF Handler, SocketStep

-----------------------------------------------------------------------------
(* The ledger.                                                             *)

(* What is in the ledger stays there, and its keys name its rows.          *)
LedgerKeeps ==
  /\ KeysNamePostings'
  /\ \A s \in Starts, p \in Players : BuyIns(s, p) # {} => BuyIns(s, p)' # {}

LEMMA QuietKeepsLedger ==
  ASSUME KeysNamePostings, ledger' = ledger PROVE LedgerKeeps
BY DEF KeysNamePostings, LedgerKeeps, BuyIns

LEMMA KeysDiffer ==
  ASSUME NEW s, NEW p
  PROVE  /\ BuyInKey(s, p)[1] = "buyin" /\ BuyInKey(s, p)[2] = s /\ BuyInKey(s, p)[3] = p
         /\ RefundKey(s, p)[1] = "refund" /\ RefundKey(s, p)[2] = s /\ RefundKey(s, p)[3] = p
BY DEF BuyInKey, RefundKey

LEMMA BuyInKeepsLedger ==
  ASSUME KeysNamePostings, NEW s \in Starts, NEW p \in Players, Posts(BuyInKey(s, p), p, House)
  PROVE  LedgerKeeps /\ BuyIns(s, p)' # {}
<1>1. PICK e : /\ e.key = BuyInKey(s, p) /\ e.from = p /\ e.to = House
               /\ ~W!KeyUsed(ledger, BuyInKey(s, p)) /\ ledger' = ledger \cup {e}
  BY DEF Posts
<1>2. e.key[2] = s
  BY <1>1, KeysDiffer
<1>3. \A t, q : BuyIns(t, q) \subseteq BuyIns(t, q)'
  BY <1>1 DEF BuyIns
<1>4. BuyIns(s, p)' # {}
  BY <1>1, <1>2 DEF BuyIns
<1>5. \A d, f \in ledger' : d.key = f.key => d = f
  BY <1>1 DEF KeysNamePostings, W!KeyUsed
<1>6. ASSUME NEW f \in ledger'
      PROVE  \/ f.key = BuyInKey(f.key[2], f.from) /\ f.from \in Players /\ f.to = House
             \/ /\ f.key = RefundKey(f.key[2], f.to) /\ f.from = House
                /\ BuyIns(f.key[2], f.to)' # {}
  <2>1. CASE f = e
    BY <1>1, <1>2, <2>1
  <2>2. CASE f \in ledger
    BY <1>3, <2>2 DEF KeysNamePostings
  <2> QED
    BY <1>1, <2>1, <2>2
<1> QED
  BY <1>3, <1>4, <1>5, <1>6 DEF LedgerKeeps, KeysNamePostings

LEMMA RefundKeepsLedger ==
  ASSUME KeysNamePostings, NEW s \in Starts, NEW p \in Players,
         BuyIns(s, p) # {}, Posts(RefundKey(s, p), House, p)
  PROVE  LedgerKeeps
<1>1. PICK e : /\ e.key = RefundKey(s, p) /\ e.from = House /\ e.to = p
               /\ ~W!KeyUsed(ledger, RefundKey(s, p)) /\ ledger' = ledger \cup {e}
  BY DEF Posts
<1>2. e.key[2] = s
  BY <1>1, KeysDiffer
<1>3. \A t, q : BuyIns(t, q) \subseteq BuyIns(t, q)'
  BY <1>1 DEF BuyIns
<1>4. \A d, f \in ledger' : d.key = f.key => d = f
  BY <1>1 DEF KeysNamePostings, W!KeyUsed
<1>5. ASSUME NEW f \in ledger'
      PROVE  \/ f.key = BuyInKey(f.key[2], f.from) /\ f.from \in Players /\ f.to = House
             \/ /\ f.key = RefundKey(f.key[2], f.to) /\ f.from = House
                /\ BuyIns(f.key[2], f.to)' # {}
  <2>1. CASE f = e
    BY <1>1, <1>2, <1>3, <2>1
  <2>2. CASE f \in ledger
    BY <1>3, <2>2 DEF KeysNamePostings
  <2> QED
    BY <1>1, <2>1, <2>2
<1> QED
  BY <1>3, <1>4, <1>5 DEF LedgerKeeps, KeysNamePostings

-----------------------------------------------------------------------------
(* The steps of a start.                                                   *)

(* The players a start in state r counts as debited.                       *)
Counted(r) ==
  r.debited \cup (IF r.pc = "buyin" THEN r.eligible \ r.todo ELSE {})
            \cup (IF r.pc \in {"orphans", "installed", "done"} THEN r.eligible ELSE {})

Paid(s, p) == BuyIns(s, p) # {}

LEMMA CountedIsPaid ==
  DebitsAreInLedger <=> \A s \in Starts : \A p \in Players : p \in Counted(start[s]) => Paid(s, p)
BY DEF DebitsAreInLedger, Counted, Paid

LEMMA CountedIsPaidNext ==
  DebitsAreInLedger' <=> \A s \in Starts : \A p \in Players : p \in Counted(start'[s]) => Paid(s, p)'
BY DEF DebitsAreInLedger, Counted, Paid

OwnMap(r) == \A p \in Players : r.map[p] # None => r.map[p][1] = p

(* A start goes from one state to another, and whom it counts as debited   *)
(* is in the ledger by then.                                               *)
LEMMA StartMoves ==
  ASSUME StartsOK, DebitsAreInLedger, LedgerKeeps,
         NEW s \in Starts, NEW r \in StartState, OwnMap(r),
         start' = [start EXCEPT ![s] = r],
         \A p \in Counted(r) : p \in Counted(start[s]) \/ Paid(s, p)'
  PROVE  /\ start' \in [Starts -> StartState]
         /\ \A t \in Starts, p \in Players : start'[t].map[p] # None => start'[t].map[p][1] = p
         /\ DebitsAreInLedger'
<1>1. start' \in [Starts -> StartState] /\ start'[s] = r /\ \A t \in Starts : t # s => start'[t] = start[t]
  BY DEF StartsOK
<1>2. \A t \in Starts, p \in Players : start'[t].map[p] # None => start'[t].map[p][1] = p
  BY <1>1 DEF StartsOK, OwnMap
<1>3. \A t \in Starts, p \in Players : Paid(t, p) => Paid(t, p)'
  BY DEF LedgerKeeps, Paid
<1>4. ASSUME NEW t \in Starts, NEW p \in Players, p \in Counted(start'[t]) PROVE Paid(t, p)'
  <2>1. CASE t = s
    BY <1>1, <1>3, <1>4, <2>1, CountedIsPaid
  <2>2. CASE t # s
    BY <1>1, <1>3, <1>4, <2>2, CountedIsPaid
  <2> QED
    BY <2>1, <2>2
<1> QED
  BY <1>1, <1>2, <1>4, CountedIsPaidNext

LEMMA StartFacts ==
  ASSUME StartsOK, NEW s \in Starts
  PROVE  start[s] \in StartState /\ OwnMap(start[s])
BY DEF StartsOK, OwnMap

LEMMA FaultCounts ==
  ASSUME StartsOK, UNCHANGED budget \/ \E kind : Fault(kind)
  PROVE  faults' \in Nat /\ crashes' \in Nat
BY DEF StartsOK, budget, Fault

LEMMA HandlersUnchanged ==
  ASSUME HandlersOK, UNCHANGED <<room, call>> PROVE HandlersOK'
BY DEF HandlersOK, room

(* The steps of a start that take no money.                                *)
LEMMA StartGameInv ==
  ASSUME IInv, NEW s \in Starts, StartGame(s) PROVE IInv'
<1> USE InvParts
<1> DEFINE m == IF Path[s] = "scheduler" THEN held ELSE start[s].map
           r == [start[s] EXCEPT !.pc = "filter", !.want = armed, !.had = held, !.map = m]
<1>1. WalletOK' /\ LedgerKeeps /\ HandlersOK'
  BY UntouchedIsQuiet, QuietKeepsLedger, HandlersUnchanged DEF StartGame, Quiet
<1>2. start' = [start EXCEPT ![s] = r]
  BY DEF StartGame, StartsOK
<1>3. r \in StartState /\ r.map = m /\ r.pc = "filter" /\ r.debited = start[s].debited
  <2>1. /\ armed \in [Players -> 0..MaxTickets] /\ held \in [Players -> HoldOrNone]
        /\ m \in [Players -> HoldOrNone] /\ start[s] \in StartState
    BY StartFacts DEF HandlersOK, StartState
  <2> HIDE DEF m
  <2> QED
    BY <2>1 DEF StartState, StartPc
<1>4. OwnMap(r)
  BY <1>3, StartFacts DEF OwnMap, HandlersOK
<1>5. \A p \in Counted(r) : p \in Counted(start[s])
  BY <1>3 DEF Counted
<1> HIDE DEF r
<1> QED
  BY <1>1, <1>2, <1>3, <1>4, <1>5, StartMoves, FaultCounts, InvPartsNext
  DEF StartGame, StartsOK, budget, LedgerKeeps

LEMMA CheckFundsInv ==
  ASSUME IInv, NEW s \in Starts, CheckFunds(s) PROVE IInv'
<1> USE InvParts
<1> DEFINE able == {p \in Players : start[s].want[p] > 0 /\ CanPay(p)}
           r == [start[s] EXCEPT !.pc = "buyin", !.eligible = able, !.todo = able]
<1>1. WalletOK' /\ LedgerKeeps /\ HandlersOK'
  BY UntouchedIsQuiet, QuietKeepsLedger, HandlersUnchanged DEF CheckFunds, Quiet
<1>2. start' = [start EXCEPT ![s] = r]
  BY DEF CheckFunds, StartsOK
<1>3. /\ r \in StartState /\ r.map = start[s].map /\ r.pc = "buyin" /\ r.debited = start[s].debited
      /\ r.eligible \ r.todo = {}
  BY StartFacts DEF StartState, StartPc
<1>4. OwnMap(r)
  BY <1>3, StartFacts DEF OwnMap
<1>5. \A p \in Counted(r) : p \in Counted(start[s])
  BY <1>3 DEF Counted
<1> HIDE DEF r
<1> QED
  BY <1>1, <1>2, <1>3, <1>4, <1>5, StartMoves, FaultCounts, InvPartsNext
  DEF CheckFunds, StartsOK, budget, LedgerKeeps

(* What a start learns from the balances.                                  *)
LEMMA FundsAside ==
  ASSUME NEW s \in Starts, CheckFunds(s)
  PROVE  start[s].pc = "filter" /\ UNCHANGED wallet /\ call' = call
BY Zenon DEF CheckFunds

LEMMA FundsAreChecked ==
  ASSUME StartsOK, NEW s \in Starts, CheckFunds(s)
  PROVE  \E r : /\ start' = [start EXCEPT ![s] = r]
                /\ r.pc = "buyin" /\ r.debited = start[s].debited /\ r.want = start[s].want
                /\ \A p \in r.todo : r.want[p] > 0
<1> DEFINE able == {p \in Players : start[s].want[p] > 0 /\ CanPay(p)}
           r == [start[s] EXCEPT !.pc = "buyin", !.eligible = able, !.todo = able]
<1>0. start' = [start EXCEPT ![s].pc = "buyin", ![s].eligible = able, ![s].todo = able]
  BY Zenon DEF CheckFunds
<1>1. start' = [start EXCEPT ![s] = r]
  <2> HIDE DEF able
  <2> QED
    BY <1>0 DEF StartsOK
<1>2. /\ r.pc = "buyin" /\ r.debited = start[s].debited /\ r.want = start[s].want
      /\ r.todo = able
  BY StartFacts DEF StartState
<1>3. \A p \in able : start[s].want[p] > 0
  OBVIOUS
<1> HIDE DEF able, r
<1> QED
  BY <1>1, <1>2, <1>3

LEMMA BuyInsDoneInv ==
  ASSUME IInv, NEW s \in Starts, BuyInsDone(s) PROVE IInv'
<1> USE InvParts
<1> DEFINE r == [start[s] EXCEPT !.pc = "orphans", !.todo = Orphans(s)]
<1>1. WalletOK' /\ LedgerKeeps /\ HandlersOK'
  BY UntouchedIsQuiet, QuietKeepsLedger, HandlersUnchanged DEF BuyInsDone, Quiet
<1>2. start' = [start EXCEPT ![s] = r]
  BY DEF BuyInsDone, StartsOK
<1>3. /\ r \in StartState /\ r.map = start[s].map /\ r.pc = "orphans"
      /\ r.debited = start[s].debited /\ r.eligible = start[s].eligible
  BY StartFacts DEF StartState, StartPc, Orphans
<1>4. OwnMap(r)
  BY <1>3, StartFacts DEF OwnMap
<1>5. \A p \in Counted(r) : p \in Counted(start[s])
  BY <1>3 DEF Counted, BuyInsDone
<1> HIDE DEF r
<1> QED
  BY <1>1, <1>2, <1>3, <1>4, <1>5, StartMoves, FaultCounts, InvPartsNext
  DEF BuyInsDone, StartsOK, budget, LedgerKeeps

LEMMA InstallInv ==
  ASSUME IInv, NEW s \in Starts, Install(s) PROVE IInv'
<1> USE InvParts
<1> DEFINE r == [start[s] EXCEPT !.pc = "installed"]
<1>1. WalletOK' /\ LedgerKeeps /\ HandlersOK'
  BY UntouchedIsQuiet, QuietKeepsLedger, HandlersUnchanged DEF Install, Quiet
<1>2. start' = [start EXCEPT ![s] = r] /\ start[s].pc = "orphans"
  BY DEF Install, StartsOK
<1>3. /\ r \in StartState /\ r.map = start[s].map /\ r.pc = "installed"
      /\ r.debited = start[s].debited /\ r.eligible = start[s].eligible
  BY StartFacts DEF StartState, StartPc
<1>4. OwnMap(r)
  BY <1>3, StartFacts DEF OwnMap
<1>5. \A p \in Counted(r) : p \in Counted(start[s])
  BY <1>2, <1>3 DEF Counted
<1> HIDE DEF r
<1> QED
  BY <1>1, <1>2, <1>3, <1>4, <1>5, StartMoves, FaultCounts, InvPartsNext
  DEF Install, StartsOK, budget, LedgerKeeps

LEMMA ReturnInv ==
  ASSUME IInv, NEW s \in Starts, Return(s) PROVE IInv'
<1> USE InvParts
<1> DEFINE r == [start[s] EXCEPT !.pc = "done"]
<1>1. WalletOK' /\ LedgerKeeps
  BY UntouchedIsQuiet, QuietKeepsLedger DEF Return, Quiet
<1>2. HandlersOK'
  <2>1. CASE UNCHANGED room
    BY <2>1, HandlersUnchanged DEF Return
  <2>2. CASE /\ armed' = [p \in Players |-> 0] /\ held' = [p \in Players |-> None]
             /\ BumpArmCycle
    <3>1. UNCHANGED call
      BY DEF Return
    <3> QED
      BY <2>2, <3>1, CycleBumps, TicketsAssumption DEF HandlersOK, HoldOrNone
  <2> QED
    BY <2>1, <2>2 DEF Return
<1>3. start' = [start EXCEPT ![s] = r] /\ start[s].pc = "installed"
  BY DEF Return, StartsOK
<1>4. /\ r \in StartState /\ r.map = start[s].map /\ r.pc = "done"
      /\ r.debited = start[s].debited /\ r.eligible = start[s].eligible
  BY StartFacts DEF StartState, StartPc
<1>5. OwnMap(r)
  BY <1>4, StartFacts DEF OwnMap
<1>6. \A p \in Counted(r) : p \in Counted(start[s])
  BY <1>3, <1>4 DEF Counted
<1>7. UNCHANGED budget \/ \E kind : Fault(kind)
  BY DEF Return
<1> HIDE DEF r
<1> QED
  BY <1>1, <1>2, <1>3, <1>4, <1>5, <1>6, <1>7, StartMoves, FaultCounts, InvPartsNext
  DEF Return, StartsOK, LedgerKeeps

LEMMA RefundsDoneInv ==
  ASSUME IInv, NEW s \in Starts, RefundsDone(s) PROVE IInv'
<1> USE InvParts
<1>1. WalletOK' /\ LedgerKeeps /\ HandlersOK'
  BY UntouchedIsQuiet, QuietKeepsLedger, HandlersUnchanged DEF RefundsDone, Quiet
<1>2. PICK x \in {"release", "failed"} : start' = [start EXCEPT ![s].pc = x]
  BY DEF RefundsDone
<1> DEFINE r == [start[s] EXCEPT !.pc = x]
<1>3. start' = [start EXCEPT ![s] = r]
  BY <1>2 DEF StartsOK
<1>4. r \in StartState /\ r.map = start[s].map /\ r.pc = x /\ r.debited = start[s].debited
  BY StartFacts DEF StartState, StartPc
<1>5. OwnMap(r)
  BY <1>4, StartFacts DEF OwnMap
<1>6. \A p \in Counted(r) : p \in Counted(start[s])
  BY <1>2, <1>4 DEF Counted
<1> HIDE DEF r
<1> QED
  BY <1>1, <1>3, <1>4, <1>5, <1>6, StartMoves, FaultCounts, InvPartsNext
  DEF RefundsDone, StartsOK, budget, LedgerKeeps

-----------------------------------------------------------------------------
(* The steps of a start that post to the ledger.                           *)

LEMMA KeysArePostings ==
  ASSUME NEW s \in Starts, NEW p \in Players
  PROVE  BuyInKey(s, p) \in PostingKeys /\ RefundKey(s, p) \in PostingKeys
BY DEF BuyInKey, RefundKey, PostingKeys

LEMMA WantIsNat ==
  ASSUME StartsOK, NEW s \in Starts, NEW p \in Players PROVE start[s].want[p] \in Nat
<1>1. start[s].want \in [Players -> 0..MaxTickets]
  BY StartFacts DEF StartState
<1> QED
  BY <1>1, TicketsAssumption

LEMMA CommitPays ==
  ASSUME IInv, NEW s \in Starts, NEW p \in Players, start[s].map[p] # None, CommitEffect(s, p)
  PROVE  WalletOK' /\ LedgerKeeps /\ Paid(s, p)'
<1> USE InvParts
<1>1. start[s].map[p] \in HoldKeys /\ start[s].map[p][1] = p
  BY StartFacts DEF StartState, HoldOrNone, OwnMap
<1>2. WalletOK' /\ Posts(BuyInKey(s, p), p, House)
  BY <1>1, SettleOps, KeysArePostings DEF CommitEffect
<1> QED
  BY <1>2, BuyInKeepsLedger DEF Paid

LEMMA TransferPays ==
  ASSUME IInv, NEW s \in Starts, NEW p \in Players, TransferEffect(s, p)
  PROVE  WalletOK' /\ LedgerKeeps /\ Paid(s, p)'
<1> USE InvParts
<1>1. WalletOK' /\ Posts(BuyInKey(s, p), p, House)
  BY MoveOps, KeysArePostings, WantIsNat DEF TransferEffect, TransferKey
<1> QED
  BY <1>1, BuyInKeepsLedger DEF Paid

LEMMA RefundReturns ==
  ASSUME IInv, NEW s \in Starts, NEW p \in Players, p \in start[s].debited, RefundEffect(s, p)
  PROVE  WalletOK' /\ LedgerKeeps
<1> USE InvParts
<1>1. WalletOK' /\ Posts(RefundKey(s, p), House, p)
  BY MoveOps, KeysArePostings, WantIsNat DEF RefundEffect
<1>2. BuyIns(s, p) # {}
  BY DEF DebitsAreInLedger
<1> QED
  BY <1>1, <1>2, RefundKeepsLedger

LEMMA NothingPosted ==
  ASSUME IInv, UNCHANGED wallet PROVE WalletOK' /\ LedgerKeeps
BY InvParts, UntouchedIsQuiet, QuietKeepsLedger DEF Quiet

LEMMA DebitedInv ==
  ASSUME IInv, NEW s \in Starts, NEW p \in Players,
         WalletOK', LedgerKeeps, Paid(s, p)', Debited(s, p),
         UNCHANGED <<room, call, game, budget>>
  PROVE  IInv'
<1> USE InvParts
<1> DEFINE r == [start[s] EXCEPT !.debited = @ \cup {p}, !.todo = @ \ {p}, !.fallback = {}]
<1>1. start' = [start EXCEPT ![s] = r]
  BY DEF Debited, StartsOK
<1>2. /\ r \in StartState /\ r.map = start[s].map /\ r.pc = start[s].pc
      /\ r.debited = start[s].debited \cup {p} /\ r.eligible = start[s].eligible
      /\ r.todo = start[s].todo \ {p}
  BY StartFacts DEF StartState
<1>3. OwnMap(r)
  BY <1>2, StartFacts DEF OwnMap
<1>4. \A q \in Counted(r) : q \in Counted(start[s]) \/ Paid(s, q)'
  BY <1>2 DEF Counted
<1> HIDE DEF r
<1> QED
  BY <1>1, <1>2, <1>3, <1>4, HandlersUnchanged, StartMoves, FaultCounts, InvPartsNext
  DEF StartsOK, budget, LedgerKeeps

LEMMA RollBackInv ==
  ASSUME IInv, NEW s \in Starts, WalletOK', LedgerKeeps, RollBack(s),
         UNCHANGED <<room, call, game>>, UNCHANGED budget \/ \E kind : Fault(kind)
  PROVE  IInv'
<1> USE InvParts
<1> DEFINE r == [start[s] EXCEPT !.pc = "refund", !.fallback = {}]
<1>1. start' = [start EXCEPT ![s] = r]
  BY DEF RollBack, StartsOK
<1>2. /\ r \in StartState /\ r.map = start[s].map /\ r.pc = "refund"
      /\ r.debited = start[s].debited
  BY StartFacts DEF StartState, StartPc
<1>3. OwnMap(r)
  BY <1>2, StartFacts DEF OwnMap
<1>4. \A q \in Counted(r) : q \in Counted(start[s])
  BY <1>2 DEF Counted
<1> HIDE DEF r
<1> QED
  BY <1>1, <1>2, <1>3, <1>4, HandlersUnchanged, StartMoves, FaultCounts, InvPartsNext
  DEF StartsOK, LedgerKeeps

LEMMA CommitFailsInv ==
  ASSUME IInv, NEW s \in Starts, NEW p \in Players, CommitFails(s, p) PROVE IInv'
<1> USE InvParts
<1> DEFINE r == [start[s] EXCEPT !.fallback = {p}]
<1>1. WalletOK' /\ LedgerKeeps
  <2>1. start[s].map[p] # None
    BY DEF CommitFails, Committing
  <2> QED
    BY <2>1, NothingPosted, CommitPays DEF CommitFails
<1>2. start' = [start EXCEPT ![s] = r]
  BY DEF CommitFails, StartsOK
<1>3. /\ r \in StartState /\ r.map = start[s].map /\ r.pc = start[s].pc
      /\ r.debited = start[s].debited /\ r.eligible = start[s].eligible /\ r.todo = start[s].todo
  BY StartFacts DEF StartState
<1>4. OwnMap(r)
  BY <1>3, StartFacts DEF OwnMap
<1>5. \A q \in Counted(r) : q \in Counted(start[s])
  BY <1>3 DEF Counted
<1>6. UNCHANGED budget \/ \E kind : Fault(kind)
  BY DEF CommitFails
<1> HIDE DEF r
<1> QED
  BY <1>1, <1>2, <1>3, <1>4, <1>5, <1>6, HandlersUnchanged, StartMoves, FaultCounts, InvPartsNext
  DEF CommitFails, StartsOK, LedgerKeeps

LEMMA ReleaseRestInv ==
  ASSUME IInv, NEW s \in Starts, NEW p \in Players, ReleaseRest(s, p) PROVE IInv'
<1> USE InvParts
<1> DEFINE r == [start[s] EXCEPT !.todo = @ \ {p}]
<1>1. WalletOK' /\ ledger' = ledger /\ LedgerKeeps
  <2>1. CASE start[s].map[p] # None /\ ReleaseAll(start[s].map[p])
    <3>1. start[s].map[p] \in HoldKeys
      BY <2>1, StartFacts DEF StartState, HoldOrNone
    <3> QED
      BY <2>1, <3>1, ReleaseAllQuiet, QuietKeepsLedger DEF Quiet
  <2>2. CASE UNCHANGED wallet
    BY <2>2, UntouchedIsQuiet, QuietKeepsLedger DEF Quiet
  <2> QED
    BY <2>1, <2>2 DEF ReleaseRest
<1>2. start' = [start EXCEPT ![s] = r] /\ start[s].pc \in {"orphans", "release"}
  BY DEF ReleaseRest, StartsOK
<1>3. /\ r \in StartState /\ r.map = start[s].map /\ r.pc = start[s].pc
      /\ r.debited = start[s].debited /\ r.eligible = start[s].eligible
  BY StartFacts DEF StartState
<1>4. OwnMap(r)
  BY <1>3, StartFacts DEF OwnMap
<1>5. \A q \in Counted(r) : q \in Counted(start[s])
  BY <1>2, <1>3 DEF Counted
<1>6. UNCHANGED budget \/ \E kind : Fault(kind)
  BY DEF ReleaseRest
<1> HIDE DEF r
<1> QED
  BY <1>1, <1>2, <1>3, <1>4, <1>5, <1>6, HandlersUnchanged, StartMoves, FaultCounts, InvPartsNext
  DEF ReleaseRest, StartsOK, LedgerKeeps

LEMMA RefundInv ==
  ASSUME IInv, NEW s \in Starts, NEW p \in Players, Refund(s, p) PROVE IInv'
<1> USE InvParts
<1> DEFINE r == [start[s] EXCEPT !.debited = @ \ {p}, !.eligible = @ \ {p}]
<1>1. WalletOK' /\ LedgerKeeps
  BY NothingPosted, RefundReturns DEF Refund, ToRefund
<1>2. start' = [start EXCEPT ![s] = r]
  BY DEF Refund, StartsOK
<1>3. /\ r \in StartState /\ r.map = start[s].map /\ r.pc = start[s].pc
      /\ r.debited = start[s].debited \ {p} /\ r.eligible = start[s].eligible \ {p}
      /\ r.todo = start[s].todo
  BY StartFacts DEF StartState
<1>4. OwnMap(r)
  BY <1>3, StartFacts DEF OwnMap
<1>5. \A q \in Counted(r) : q \in Counted(start[s])
  BY <1>3 DEF Counted
<1>6. UNCHANGED budget \/ \E kind : Fault(kind)
  BY DEF Refund
<1> HIDE DEF r
<1> QED
  BY <1>1, <1>2, <1>3, <1>4, <1>5, <1>6, HandlersUnchanged, StartMoves, FaultCounts, InvPartsNext
  DEF Refund, StartsOK, LedgerKeeps

LEMMA StartStepInv ==
  ASSUME IInv, NEW s \in Starts, StartStep(s) \/ BookingFails(s) PROVE IInv'
<1> USE InvParts
<1>1. CASE BookingFails(s)
  BY <1>1, NothingPosted, RollBackInv DEF BookingFails
<1>2. ASSUME NEW p \in Players, CommitReservation(s, p) PROVE IInv'
  <2>1. start[s].map[p] # None
    BY <1>2 DEF CommitReservation, Committing
  <2> QED
    BY <1>2, <2>1, CommitPays, DebitedInv DEF CommitReservation
<1>3. ASSUME NEW p \in Players, TransferBuyIn(s, p) PROVE IInv'
  BY <1>3, TransferPays, DebitedInv DEF TransferBuyIn
<1>4. ASSUME NEW p \in Players, TransferFails(s, p) PROVE IInv'
  <2>1. WalletOK' /\ LedgerKeeps
    BY <1>4, NothingPosted, TransferPays DEF TransferFails
  <2> QED
    BY <1>4, <2>1, RollBackInv DEF TransferFails
<1> QED
  BY <1>1, <1>2, <1>3, <1>4, CheckFundsInv, BuyInsDoneInv, InstallInv, ReturnInv, RefundsDoneInv,
     CommitFailsInv, ReleaseRestInv, RefundInv DEF StartStep

-----------------------------------------------------------------------------
(* The other steps.                                                        *)

LEMMA StartsUnchanged ==
  ASSUME IInv, LedgerKeeps, UNCHANGED start PROVE DebitsAreInLedger'
BY DEF IInv, DebitsAreInLedger, LedgerKeeps

LEMMA HandlerInv ==
  ASSUME IInv, NEW c \in Calls, Handler(c) PROVE IInv'
<1> USE InvParts
<1>1. WalletOK' /\ LedgerKeeps
  BY HandlerQuiet, QuietKeepsLedger DEF Quiet
<1>2. UNCHANGED <<start, game>> /\ (UNCHANGED budget \/ \E kind : Fault(kind))
  BY DEF Handler, SocketStep, Reserved, ReserveRefused, ArmPlayer, Released, DisarmPlayer,
         ReleasedPart, CallFails, BetArm, Disarm, CancelTicket
<1> QED
  BY <1>1, <1>2, HandlerKeepsHandlers, StartsUnchanged, FaultCounts, InvPartsNext
  DEF StartsOK, LedgerKeeps

LEMMA ExpireHoldInv ==
  ASSUME IInv, NEW h \in HoldKeys, ExpireHold(h) PROVE IInv'
<1> USE InvParts
<1>1. WalletOK' /\ LedgerKeeps
  BY HoldOps, QuietKeepsLedger DEF ExpireHold
<1> QED
  BY <1>1, HandlersUnchanged, StartsUnchanged, InvPartsNext
  DEF ExpireHold, StartsOK, budget, LedgerKeeps

LEMMA EndGameInv ==
  ASSUME IInv, EndGame PROVE IInv'
<1> USE InvParts
<1>1. WalletOK' /\ LedgerKeeps
  BY NothingPosted DEF EndGame
<1> QED
  BY <1>1, HandlersUnchanged, StartsUnchanged, InvPartsNext
  DEF EndGame, StartsOK, budget, LedgerKeeps

LEMMA CrashInv ==
  ASSUME IInv, Crash PROVE IInv'
<1> USE InvParts
<1>1. WalletOK' /\ LedgerKeeps
  BY NothingPosted DEF Crash
<1>2. HandlersOK'
  <2>1. call' = [c \in Calls |-> Idle] /\ Idle.pc = "idle"
    BY DEF Crash, Idle
  <2> QED
    BY <2>1, IdleIsCall, CycleBumps, TicketsAssumption DEF Crash, HandlersOK, HoldOrNone
<1>3. /\ start' \in [Starts -> StartState]
      /\ \A s \in Starts : /\ start'[s].map = start[s].map
                           /\ Counted(start'[s]) \subseteq Counted(start[s])
  <2>1. ASSUME NEW s \in Starts
        PROVE  /\ [start[s] EXCEPT !.pc = "crashed"] \in StartState
               /\ [start[s] EXCEPT !.pc = "crashed"].map = start[s].map
               /\ Counted([start[s] EXCEPT !.pc = "crashed"]) \subseteq Counted(start[s])
    <3> DEFINE r == [start[s] EXCEPT !.pc = "crashed"]
    <3>1. /\ r \in StartState /\ r.map = start[s].map
          /\ r.pc = "crashed" /\ r.debited = start[s].debited
      BY StartFacts DEF StartState, StartPc
    <3>2. Counted(r) \subseteq Counted(start[s])
      BY <3>1 DEF Counted
    <3> QED
      BY <3>1, <3>2
  <2>2. \A s \in Starts : start'[s] \in {start[s], [start[s] EXCEPT !.pc = "crashed"]}
    BY DEF Crash
  <2>3. start' = [s \in Starts |-> start'[s]]
    BY DEF Crash
  <2> QED
    BY <2>1, <2>2, <2>3, StartFacts
<1>4. DebitsAreInLedger'
  <2>1. \A s \in Starts, p \in Players : Paid(s, p) => Paid(s, p)'
    BY <1>1 DEF LedgerKeeps, Paid
  <2> QED
    BY <1>3, <2>1, CountedIsPaid, CountedIsPaidNext
<1>5. game' \in Starts \cup {None} /\ faults' \in Nat /\ crashes' \in Nat
  BY DEF Crash, StartsOK
<1> QED
  BY <1>1, <1>2, <1>3, <1>4, <1>5, InvPartsNext DEF StartsOK, LedgerKeeps

LEMMA InitInv ==
  ASSUME Init PROVE IInv
<1>1. WalletOK
  <2>1. W!NoHold \in W!Hold /\ W!NoHold.status = "none"
    BY DEF W!NoHold, W!Hold, W!HoldStatus
  <2>2. \A a \in Players \cup {House} : W!OpeningBalance(a) \in W!Balance
    BY OpeningAssumption DEF W!OpeningBalance, W!Balance
  <2> QED
    BY <2>1, <2>2 DEF Init, W!Init, W!Accounts, WalletOK
<1>2. HandlersOK
  <2>1. Idle.pc = "idle"
    BY DEF Idle
  <2> QED
    BY <2>1, IdleIsCall, TicketsAssumption DEF Init, HandlersOK, HoldOrNone
<1>3. StartsOK /\ DebitsAreInLedger
  <2>1. /\ NotStarted \in StartState /\ NotStarted.map = [p \in Players |-> None]
        /\ Counted(NotStarted) = {}
    BY TicketsAssumption DEF NotStarted, StartState, StartPc, HoldOrNone, Counted
  <2> QED
    BY <2>1, CountedIsPaid DEF Init, StartsOK
<1>4. KeysNamePostings
  BY DEF Init, W!Init, KeysNamePostings
<1> QED
  BY <1>1, <1>2, <1>3, <1>4, InvParts

LEMMA NextInv ==
  ASSUME IInv, [Next]_vars PROVE IInv'
<1>1. CASE UNCHANGED vars
  <2>1. UNCHANGED <<wallet, room, call, start, game, budget, acct, res, ledger, outbox,
                    armed, held, cycle, faults, crashes>>
    BY <1>1 DEF vars, wallet, room, budget
  <2> QED
    BY <2>1 DEF IInv, TypeOK, OwnHolds, KeysNamePostings, DebitsAreInLedger, BuyIns
<1>2. CASE Next
  BY <1>2, HandlerInv, StartGameInv, StartStepInv, ExpireHoldInv, EndGameInv, CrashInv
  DEF Next, Handler
<1> QED
  BY <1>1, <1>2

(* The invariant of the wallet, the handlers and the starts together.      *)
THEOREM Invariance == Spec => []IInv
<1> QED
  BY InitInv, NextInv, PTL DEF Spec

(* Types of all variables.                                                 *)
THEOREM TypeCorrect == Spec => []TypeOK
<1>1. IInv => TypeOK
  BY DEF IInv
<1> QED
  BY <1>1, Invariance, PTL

(* The key of a row from a player to the house is that of his buy-in.      *)
LEMMA BuyInsHaveBuyInKeys ==
  ASSUME KeysNamePostings, NEW s \in Starts, NEW p \in Players, NEW e \in BuyIns(s, p)
  PROVE  e \in ledger /\ e.key = BuyInKey(s, p)
BY NamesAssumption DEF KeysNamePostings, BuyIns

(* A player is debited at most once for a game: the commit, the transfer   *)
(* that replaces it and a retry use one key.                               *)
THEOREM NobodyPaysTwice == Spec => []OneDebitPerGame
<1>1. IInv => OneDebitPerGame
  BY BuyInsHaveBuyInKeys DEF IInv, KeysNamePostings, OneDebitPerGame
<1> QED
  BY <1>1, Invariance, PTL

(* Every player of a round that started has paid for it.                   *)
THEOREM NobodyPlaysForFree == Spec => []RoundPaid
<1>1. IInv => RoundPaid
  <2> SUFFICES ASSUME IInv, NEW s \in Starts, start[s].pc \in {"installed", "done"},
                      NEW p \in start[s].eligible
               PROVE  BuyIns(s, p) # {}
    BY DEF RoundPaid
  <2>1. p \in Players
    BY InvParts, StartFacts DEF StartState
  <2> QED
    BY <2>1 DEF IInv, DebitsAreInLedger
<1> QED
  BY <1>1, Invariance, PTL

(* A refund goes to a player who was debited for that game.                *)
THEOREM NobodyIsGivenMoney == Spec => []RefundedWasDebited
<1>1. IInv => RefundedWasDebited
  <2> SUFFICES ASSUME IInv, NEW s \in Starts, NEW p \in Players, NEW e \in Refunds(s, p)
               PROVE  BuyIns(s, p) # {}
    BY DEF RefundedWasDebited
  <2>1. e \in ledger /\ e.from = House /\ e.to = p /\ e.key[2] = s
    BY DEF Refunds
  <2> QED
    BY <2>1, NamesAssumption DEF IInv, KeysNamePostings
<1> QED
  BY <1>1, Invariance, PTL

-----------------------------------------------------------------------------
(* What is armed is covered.  While no round is starting, a handler knows  *)
(* of its reservation what the next call needs: nobody else touches the    *)
(* reservations, the tickets or the memory of its player, as long as a     *)
(* player's events come one at a time; only the sweep does.                *)

AllIdle == \A s \in Starts : start[s].pc = "idle"

Pays(h, n) ==
  \/ res[h].status = "expired"
  \/ res[h].status = "active" /\ res[h].amount >= n

Knows(c) ==
  LET p == call[c].player  h == call[c].hold
  IN  /\ call[c].pc = "reserve"   => call[c].amt = call[c].total
      /\ call[c].pc = "reserved"  => Pays(h, call[c].total)
      /\ call[c].pc = "increase"  =>
           held[p] = h /\ (res[h].status = "active" => res[h].amount + call[c].amt >= call[c].total)
      /\ call[c].pc = "increased" => held[p] = h /\ Pays(h, call[c].total)
      /\ call[c].pc = "cancel"    =>
           /\ held[p] = h /\ armed[p] > 0 /\ call[c].amt = 1
           /\ res[h].status = "active" => res[h].amount >= armed[p] + 1

ArmedOK(p) == armed[p] > 0 /\ ~Disarming(p) => Covered(p)

OneCall ==
  /\ \A c \in Calls : call[c].pc = "idle" => call[c].player = None
  /\ \A c, d \in Calls : call[c].player \in Players /\ call[c].player = call[d].player => c = d

ArmInv ==
  /\ OneCall
  /\ AllIdle => (\A p \in Players : ArmedOK(p)) /\ (\A c \in Calls : Knows(c))

(* A step of the handler c for the player p.                               *)
Local(c, p) ==
  /\ \A d \in Calls : d # c => call'[d] = call[d] /\ call[d].player # p
  /\ call[c].pc = "idle" \/ call[c].player = p
  /\ \/ call'[c].pc = "idle" /\ call'[c].player = None
     \/ call'[c].pc # "idle" /\ call'[c].player = p
  /\ \A q \in Players : q # p => armed'[q] = armed[q] /\ held'[q] = held[q]
  /\ \A h \in HoldKeys : h[1] # p => res'[h] = res[h]
  /\ UNCHANGED start

LEMMA CoveredPays ==
  ASSUME NEW p PROVE Covered(p) <=> held[p] # None /\ Pays(held[p], armed[p])
BY DEF Covered, Pays

LEMMA CoveredPaysNext ==
  ASSUME NEW p PROVE Covered(p)' <=> held'[p] # None /\ Pays(held[p], armed[p])'
BY DEF Covered, Pays

(* The handlers of the other players know what they knew.                  *)
LEMMA OthersKnow ==
  ASSUME HandlersOK, NEW c \in Calls, NEW p \in Players, Local(c, p),
         NEW d \in Calls, d # c, Knows(d)
  PROVE  Knows(d)'
<1>1. call'[d] = call[d] /\ call[d].player # p
  BY DEF Local
<1>2. CASE call[d].pc = "idle"
  BY <1>1, <1>2 DEF Knows
<1>3. CASE call[d].pc # "idle"
  <2>1. /\ call[d].hold \in HoldKeys /\ call[d].hold[1] = call[d].player /\ call[d].player \in Players
    BY <1>3, CallFacts
  <2>2. /\ res'[call[d].hold] = res[call[d].hold]
        /\ armed'[call[d].player] = armed[call[d].player] /\ held'[call[d].player] = held[call[d].player]
    BY <1>1, <2>1 DEF Local
  <2> QED
    BY <1>1, <2>2 DEF Knows, Pays
<1> QED
  BY <1>2, <1>3

LEMMA OthersCovered ==
  ASSUME HandlersOK, NEW c \in Calls, NEW p \in Players, Local(c, p),
         NEW q \in Players, q # p, ArmedOK(q)
  PROVE  ArmedOK(q)'
<1>1. Disarming(q) => Disarming(q)'
  <2> SUFFICES ASSUME NEW d \in Calls, call[d].player = q, call[d].pc = "released" PROVE Disarming(q)'
    BY DEF Disarming
  <2>1. d # c
    BY DEF Local
  <2> QED
    BY <2>1 DEF Local, Disarming
<1>2. armed'[q] = armed[q] /\ held'[q] = held[q]
  BY DEF Local
<1>3. Covered(q) => Covered(q)'
  <2>1. held[q] # None => held[q] \in HoldKeys /\ held[q][1] = q
    BY DEF HandlersOK, HoldOrNone
  <2> QED
    BY <1>2, <2>1, CoveredPays, CoveredPaysNext DEF Local, Pays
<1> QED
  BY <1>1, <1>2, <1>3 DEF ArmedOK

LEMMA OneCallStays ==
  ASSUME OneCall, NEW c \in Calls, NEW p \in Players, Local(c, p) PROVE OneCall'
<1>1. p # None
  BY NamesAssumption
<1>2. ASSUME NEW d \in Calls, call'[d].pc = "idle" PROVE call'[d].player = None
  BY <1>2 DEF Local, OneCall
<1>3. ASSUME NEW d \in Calls, NEW e \in Calls, call'[d].player \in Players,
             call'[d].player = call'[e].player
      PROVE  d = e
  <2>1. CASE d = c /\ e # c
    BY <1>3, <2>1, NamesAssumption DEF Local
  <2>2. CASE d # c /\ e = c
    BY <1>3, <2>2, NamesAssumption DEF Local
  <2>3. CASE d # c /\ e # c
    BY <1>3, <2>3 DEF Local, OneCall
  <2> QED
    BY <2>1, <2>2, <2>3
<1> QED
  BY <1>2, <1>3 DEF OneCall

LEMMA LocalKeeps ==
  ASSUME HandlersOK, ArmInv, NEW c \in Calls, NEW p \in Players, Local(c, p),
         AllIdle => Knows(c)' /\ ArmedOK(p)'
  PROVE  ArmInv'
<1>1. OneCall'
  BY OneCallStays DEF ArmInv
<1>2. AllIdle' => AllIdle
  BY DEF Local, AllIdle
<1>3. ASSUME AllIdle, NEW q \in Players PROVE ArmedOK(q)'
  BY <1>3, OthersCovered DEF ArmInv
<1>4. ASSUME AllIdle, NEW d \in Calls PROVE Knows(d)'
  BY <1>4, OthersKnow DEF ArmInv
<1> QED
  BY <1>1, <1>2, <1>3, <1>4 DEF ArmInv

LEMMA MayCallAlone ==
  ASSUME OneCallEach, NEW c \in Calls, NEW p \in Players, MayCall(c, p)
  PROVE  /\ ~Disarming(p) /\ call[c].pc = "idle" /\ \A d \in Calls : call[d].player # p
BY DEF MayCall, Disarming

LEMMA CallAlone ==
  ASSUME HandlersOK, OneCall, NEW c \in Calls, call[c].pc # "idle"
  PROVE  /\ call[c].player \in Players /\ \A d \in Calls : d # c => call[d].player # call[c].player
BY CallFacts DEF OneCall

LEMMA HeldIsHold ==
  ASSUME HandlersOK, NEW p \in Players, held[p] # None PROVE held[p] \in HoldKeys /\ held[p][1] = p
BY DEF HandlersOK, HoldOrNone

(* What the handler waits with.                                            *)
LEMMA WaitLocal ==
  ASSUME HandlersOK, NEW c \in Calls, NEW p \in Players, NEW pc, NEW n, NEW h, NEW amt,
         pc # "idle", \A d \in Calls : call[d].player # p, call[c].pc = "idle",
         Wait(c, pc, p, n, h, amt),
         UNCHANGED <<wallet, held, start>>,
         \A q \in Players : q # p => armed'[q] = armed[q]
  PROVE  /\ Local(c, p)
         /\ call'[c].pc = pc /\ call'[c].player = p /\ call'[c].total = n
         /\ call'[c].hold = h /\ call'[c].amt = amt
<1> DEFINE w == [pc |-> pc, player |-> p, total |-> n, hold |-> h, amt |-> amt]
<1>1. w.pc = pc /\ w.player = p /\ w.total = n /\ w.hold = h /\ w.amt = amt
  OBVIOUS
<1>2. call'[c] = w /\ \A d \in Calls : d # c => call'[d] = call[d]
  BY DEF Wait, HandlersOK
<1> HIDE DEF w
<1> QED
  BY <1>1, <1>2 DEF Local, wallet

LEMMA BetArmKeepsArmInv ==
  ASSUME OneCallEach, WalletOK, HandlersOK, ArmInv, NEW c \in Calls, NEW p \in Players,
         NEW n \in 1..MaxTickets, BetArm(c, p, n)
  PROVE  ArmInv'
<1>1. ~Disarming(p) /\ call[c].pc = "idle" /\ \A d \in Calls : call[d].player # p
  BY MayCallAlone DEF BetArm
<1>2. armed[p] \in Nat /\ n \in Nat
  BY TicketsAssumption DEF HandlersOK
<1>3. UNCHANGED <<wallet, armed, held, cycle, start>>
  BY DEF BetArm, room
<1>4. AllIdle => ArmedOK(p)'
  BY <1>1, <1>3, CoveredPays, CoveredPaysNext DEF ArmInv, ArmedOK, Pays, wallet
<1>5. CASE held[p] # None /\ Wait(c, "increase", p, n, held[p], n - armed[p])
  <2>1. /\ Local(c, p)
        /\ call'[c].pc = "increase" /\ call'[c].player = p /\ call'[c].total = n
        /\ call'[c].hold = held[p] /\ call'[c].amt = n - armed[p]
    BY <1>1, <1>3, <1>5, WaitLocal
  <2>2. res[held[p]].amount \in Nat
    BY <1>5, HeldIsHold DEF WalletOK, W!Hold
  <2>3. ASSUME AllIdle, res[held[p]].status = "active"
        PROVE  res[held[p]].amount + (n - armed[p]) >= n
    <3>1. CASE armed[p] = 0
      BY <1>2, <2>2, <3>1
    <3>2. CASE armed[p] > 0
      <4>1. Pays(held[p], armed[p])
        BY <1>1, <2>3, <3>2, CoveredPays DEF ArmInv, ArmedOK
      <4> QED
        BY <1>2, <2>2, <2>3, <4>1 DEF Pays
    <3> QED
      BY <1>2, <3>1, <3>2
  <2>4. AllIdle => Knows(c)'
    BY <1>3, <2>1, <2>3 DEF Knows, wallet
  <2> QED
    BY <1>4, <2>1, <2>4, LocalKeeps
<1>6. CASE held[p] = None /\ Wait(c, "reserve", p, n, ArmKey(p, cycle, n), n - armed[p])
  <2> DEFINE h == ArmKey(p, cycle, n)
  <2>1. /\ Local(c, p)
        /\ call'[c].pc = "reserve" /\ call'[c].total = n /\ call'[c].amt = n - armed[p]
    <3> HIDE DEF h
    <3> QED
      BY <1>1, <1>3, <1>6, WaitLocal DEF h
  <2>2. AllIdle => armed[p] = 0
    BY <1>1, <1>2, <1>6, CoveredPays DEF ArmInv, ArmedOK
  <2>3. AllIdle => Knows(c)'
    BY <1>2, <2>1, <2>2 DEF Knows
  <2> QED
    BY <1>4, <2>1, <2>3, LocalKeeps
<1> QED
  BY <1>5, <1>6 DEF BetArm

(* The wallet has taken the reservation, or raised it.                     *)
LEMMA ReservedPays ==
  ASSUME WalletOK, HandlersOK, NEW c \in Calls, HoldIsReserved(c)
  PROVE  /\ call[c].pc \in {"reserve", "increase"}
         /\ \A h \in HoldKeys : h # call[c].hold => res'[h] = res[h]
         /\ res'[call[c].hold].status = "active"
         /\ call[c].pc = "reserve" => res'[call[c].hold].amount = call[c].amt
         /\ call[c].pc = "reserve" => res[call[c].hold].status = "none" \/ res' = res
         /\ call[c].pc = "increase" => /\ res[call[c].hold].status = "active"
                                       /\ res'[call[c].hold].amount = res[call[c].hold].amount + call[c].amt
<1> DEFINE h == call[c].hold
<1>1. call[c].pc \in {"reserve", "increase"}
  BY DEF HoldIsReserved, TakesHold, FindsHold, RaisesHold
<1>2. h \in HoldKeys /\ res \in [HoldKeys -> W!Hold] /\ res[h] \in W!Hold
  BY <1>1, CallFacts DEF WalletOK
<1>3. CASE TakesHold(c)
  <2>1. /\ res' = [res EXCEPT ![h] = [status |-> "active", wallet |-> call[c].player, amount |-> call[c].amt]]
        /\ res[h].status = "none" /\ call[c].pc = "reserve"
    BY <1>3 DEF TakesHold, W!Take
  <2> QED
    BY <1>2, <2>1
<1>4. CASE FindsHold(c)
  BY <1>4 DEF FindsHold, wallet
<1>5. CASE RaisesHold(c)
  <2>1. /\ res' = [res EXCEPT ![h].amount = @ + call[c].amt]
        /\ res[h].status = "active" /\ call[c].pc = "increase"
    BY <1>5 DEF RaisesHold, W!Increase
  <2>2. /\ res'[h].amount = res[h].amount + call[c].amt /\ res'[h].status = res[h].status
        /\ \A g \in HoldKeys : g # h => res'[g] = res[g]
    BY <1>2, <2>1 DEF W!Hold
  <2> HIDE DEF h
  <2> QED
    BY <2>1, <2>2 DEF h
<1> QED
  BY <1>3, <1>4, <1>5 DEF HoldIsReserved

(* A covered player stays covered.                                         *)
LEMMA ReservedCovers ==
  ASSUME WalletOK, HandlersOK, NEW c \in Calls, HoldIsReserved(c),
         NEW p \in Players, p = call[c].player,
         UNCHANGED <<armed, held>>, Covered(p)
  PROVE  Covered(p)'
<1>1. held[p] # None /\ held[p] \in HoldKeys /\ Pays(held[p], armed[p])
  BY CoveredPays, HeldIsHold
<1>2. Pays(held[p], armed[p])'
  <2>1. CASE held[p] # call[c].hold \/ res' = res
    <3>1. res'[held[p]] = res[held[p]]
      BY <1>1, <2>1, ReservedPays
    <3> QED
      BY <1>1, <3>1 DEF Pays
  <2>2. CASE held[p] = call[c].hold /\ res' # res
    <3>1. call[c].pc = "increase"
      BY <1>1, <2>2, ReservedPays DEF Pays
    <3>2. /\ res[held[p]].status = "active" /\ res'[held[p]].status = "active"
          /\ res'[held[p]].amount = res[held[p]].amount + call[c].amt
      BY <2>2, <3>1, ReservedPays
    <3>3. res[held[p]].amount \in Nat /\ call[c].amt \in Nat /\ armed[p] \in Nat
      BY <1>1, <3>1, CallFacts, TicketsAssumption DEF WalletOK, W!Hold, HandlersOK
    <3> QED
      BY <1>1, <3>2, <3>3 DEF Pays
  <2> QED
    BY <2>1, <2>2
<1> QED
  BY <1>1, <1>2, CoveredPaysNext

LEMMA ReservedKeepsArmInv ==
  ASSUME WalletOK, HandlersOK, ArmInv, NEW c \in Calls, Reserved(c)
  PROVE  ArmInv'
<1>1. PICK p \in Players : p = call[c].player /\ \A d \in Calls : d # c => call[d].player # p
  BY ReservedPays, CallAlone DEF Reserved, ArmInv
<1>2. HoldIsReserved(c) /\ UNCHANGED <<armed, held, cycle, start>> /\ call[c].pc \in {"reserve", "increase"}
  BY ReservedPays DEF Reserved, room
<1>3. call[c] \in CallState /\ call[c].hold \in HoldKeys /\ call[c].hold[1] = p
  BY <1>1, <1>2, CallFacts
<1>4. /\ call'[c].pc = (IF call[c].pc = "reserve" THEN "reserved" ELSE "increased")
      /\ call'[c].player = p /\ call'[c].total = call[c].total /\ call'[c].hold = call[c].hold
      /\ \A d \in Calls : d # c => call'[d] = call[d]
  <2>1. call' = [call EXCEPT ![c].pc = IF @ = "reserve" THEN "reserved" ELSE "increased"]
    BY DEF Reserved
  <2> QED
    BY <1>1, <1>3, <2>1 DEF CallState, HandlersOK
<1>5. Local(c, p)
  BY <1>1, <1>2, <1>3, <1>4, ReservedPays DEF Local
<1>6. AllIdle => ArmedOK(p)'
  <2>1. Disarming(p) => Disarming(p)'
    BY <1>1, <1>2, <1>4 DEF Disarming
  <2> QED
    BY <1>1, <1>2, <2>1, ReservedCovers DEF ArmInv, ArmedOK
<1>7. AllIdle => Knows(c)'
  <2> SUFFICES ASSUME AllIdle PROVE Knows(c)'
    OBVIOUS
  <2>0. Knows(c)
    BY DEF ArmInv
  <2>1. Pays(call[c].hold, call[c].total)'
    <3>1. CASE call[c].pc = "reserve"
      <4>1. call[c].amt = call[c].total /\ call[c].total \in Nat
        BY <2>0, <3>1, <1>3, TicketsAssumption DEF Knows, CallState
      <4>2. res'[call[c].hold].status = "active" /\ res'[call[c].hold].amount = call[c].amt
        BY <3>1, <1>2, ReservedPays
      <4> QED
        BY <1>4, <4>1, <4>2 DEF Pays
    <3>2. CASE call[c].pc = "increase"
      <4>1. /\ res[call[c].hold].status = "active" /\ res'[call[c].hold].status = "active"
            /\ res'[call[c].hold].amount = res[call[c].hold].amount + call[c].amt
        BY <3>2, <1>2, ReservedPays
      <4> QED
        BY <1>4, <2>0, <3>2, <4>1 DEF Pays, Knows
    <3> QED
      BY <1>2, <3>1, <3>2
  <2>2. call[c].pc = "increase" => held[p] = call[c].hold
    BY <1>1, <2>0 DEF Knows
  <2> QED
    BY <1>2, <1>4, <2>1, <2>2 DEF Knows, Pays
<1> QED
  BY <1>5, <1>6, <1>7, LocalKeeps

LEMMA DoneIsIdle ==
  ASSUME HandlersOK, NEW c \in Calls, Done(c)
  PROVE  /\ call'[c].pc = "idle" /\ call'[c].player = None
         /\ \A d \in Calls : d # c => call'[d] = call[d]
<1>1. Idle.pc = "idle" /\ Idle.player = None
  BY DEF Idle
<1> QED
  BY <1>1 DEF Done, HandlersOK

LEMMA IdleKnows ==
  ASSUME NEW c, call'[c].pc = "idle" PROVE Knows(c)'
BY DEF Knows

LEMMA ReserveRefusedKeepsArmInv ==
  ASSUME WalletOK, HandlersOK, ArmInv, NEW c \in Calls, ReserveRefused(c)
  PROVE  ArmInv'
<1>1. call[c].pc \in {"reserve", "increase"} /\ Done(c) /\ UNCHANGED <<wallet, armed, held, cycle, start>>
  BY DEF ReserveRefused, Refused, room
<1>2. PICK p \in Players : p = call[c].player /\ \A d \in Calls : d # c => call[d].player # p
  BY <1>1, CallAlone DEF ArmInv
<1>3. Local(c, p)
  BY <1>1, <1>2, DoneIsIdle DEF Local, wallet
<1>4. AllIdle => ArmedOK(p)'
  <2>1. Disarming(p) => Disarming(p)'
    BY <1>1, <1>2, DoneIsIdle DEF Disarming
  <2> QED
    BY <1>1, <2>1, CoveredPays, CoveredPaysNext DEF ArmInv, ArmedOK, Pays, wallet
<1> QED
  BY <1>1, <1>3, <1>4, DoneIsIdle, IdleKnows, LocalKeeps

LEMMA ArmPlayerKeepsArmInv ==
  ASSUME WalletOK, HandlersOK, ArmInv, NEW c \in Calls, ArmPlayer(c)
  PROVE  ArmInv'
<1>1. call[c].pc \in {"reserved", "increased"} /\ Done(c) /\ UNCHANGED <<wallet, cycle, start>>
  BY DEF ArmPlayer, ArmsAfter
<1>2. PICK p \in Players : p = call[c].player /\ \A d \in Calls : d # c => call[d].player # p
  BY <1>1, CallAlone DEF ArmInv
<1>3. /\ armed' = [armed EXCEPT ![p] = call[c].total]
      /\ held'  = IF call[c].pc = "reserved" THEN [held EXCEPT ![p] = call[c].hold] ELSE held
  BY <1>2 DEF ArmPlayer
<1>4. Local(c, p)
  BY <1>1, <1>2, <1>3, DoneIsIdle DEF Local, wallet, HandlersOK
<1>5. call[c].hold # None
  BY <1>1, CallFacts, NoneIsNoHold
<1>6. AllIdle => ArmedOK(p)'
  <2> SUFFICES ASSUME AllIdle PROVE Covered(p)'
    BY DEF ArmedOK
  <2>1. Knows(c)
    BY DEF ArmInv
  <2>2. armed'[p] = call[c].total /\ held'[p] = call[c].hold
    BY <1>1, <1>2, <1>3, <2>1 DEF Knows, HandlersOK
  <2>3. Pays(call[c].hold, call[c].total) /\ res' = res
    BY <1>1, <2>1 DEF Knows, wallet
  <2> QED
    BY <1>5, <2>2, <2>3, CoveredPaysNext DEF Pays
<1> QED
  BY <1>1, <1>4, <1>6, DoneIsIdle, IdleKnows, LocalKeeps

(* What is not touched stays covered.                                      *)
LEMMA SameCovered ==
  ASSUME NEW p, res' = res, held'[p] = held[p], armed'[p] = armed[p], Covered(p)
  PROVE  Covered(p)'
BY CoveredPays, CoveredPaysNext DEF Pays

LEMMA DisarmKeepsArmInv ==
  ASSUME OneCallEach, WalletOK, HandlersOK, ArmInv, NEW c \in Calls, NEW p \in Players, Disarm(c, p)
  PROVE  ArmInv'
<1>1. ~Disarming(p) /\ call[c].pc = "idle" /\ \A d \in Calls : call[d].player # p
  BY MayCallAlone DEF Disarm
<1>2. UNCHANGED <<wallet, held, cycle, start>>
  BY DEF Disarm
<1>3. CASE Wait(c, "release", p, 0, held[p], 0) /\ UNCHANGED armed
  <2>1. Local(c, p) /\ call'[c].pc = "release"
    BY <1>1, <1>2, <1>3, WaitLocal
  <2>2. Knows(c)'
    BY <2>1 DEF Knows
  <2>3. AllIdle => ArmedOK(p)'
    BY <1>1, <1>2, <1>3, SameCovered DEF ArmInv, ArmedOK, wallet
  <2> QED
    BY <2>1, <2>2, <2>3, LocalKeeps
<1>4. CASE armed' = [armed EXCEPT ![p] = 0] /\ UNCHANGED call
  <2>1. armed'[p] = 0 /\ \A q \in Players : q # p => armed'[q] = armed[q]
    BY <1>4 DEF HandlersOK
  <2>2. call[c].player = None
    BY <1>1 DEF ArmInv, OneCall
  <2>3. Local(c, p)
    BY <1>1, <1>2, <1>4, <2>1, <2>2 DEF Local, wallet
  <2>4. Knows(c)' /\ ArmedOK(p)'
    BY <1>1, <1>4, <2>1 DEF Knows, ArmedOK
  <2> QED
    BY <2>3, <2>4, LocalKeeps
<1> QED
  BY <1>3, <1>4 DEF Disarm

LEMMA CancelTicketKeepsArmInv ==
  ASSUME OneCallEach, WalletOK, HandlersOK, ArmInv, NEW c \in Calls, NEW p \in Players, CancelTicket(c, p)
  PROVE  ArmInv'
<1>1. ~Disarming(p) /\ call[c].pc = "idle" /\ \A d \in Calls : call[d].player # p
  BY MayCallAlone DEF CancelTicket
<1>2. UNCHANGED <<wallet, start>> /\ armed[p] > 0 /\ armed[p] \in Nat
  BY TicketsAssumption DEF CancelTicket, HasTicket, HandlersOK
<1>3. armed'[p] = armed[p] - 1 /\ \A q \in Players : q # p => armed'[q] = armed[q]
  BY DEF CancelTicket, HandlersOK
<1>4. call[c].player = None
  BY <1>1 DEF ArmInv, OneCall
<1>5. CASE armed[p] <= 1 /\ held' = [held EXCEPT ![p] = None] /\ UNCHANGED call
  <2>1. armed'[p] = 0 /\ \A q \in Players : q # p => held'[q] = held[q]
    BY <1>2, <1>3, <1>5 DEF HandlersOK
  <2>2. Local(c, p)
    BY <1>1, <1>2, <1>3, <1>4, <1>5, <2>1 DEF Local, wallet
  <2>3. Knows(c)' /\ ArmedOK(p)'
    BY <1>1, <1>5, <2>1 DEF Knows, ArmedOK
  <2> QED
    BY <2>2, <2>3, LocalKeeps
<1>6. CASE armed[p] > 1 /\ UNCHANGED held
  <2>1. AllIdle => held[p] # None /\ Pays(held[p], armed[p])
    BY <1>1, <1>2, CoveredPays DEF ArmInv, ArmedOK
  <2>2. AllIdle => ArmedOK(p)'
    <3>1. held[p] # None => res[held[p]].amount \in Nat
      BY HeldIsHold DEF WalletOK, W!Hold
    <3> QED
      BY <1>2, <1>3, <1>6, <2>1, <3>1, CoveredPaysNext DEF ArmedOK, Pays, wallet
  <2>3. CASE held[p] = None /\ UNCHANGED call
    <3>1. Local(c, p)
      BY <1>1, <1>2, <1>3, <1>4, <1>6, <2>3 DEF Local, wallet
    <3>2. Knows(c)'
      BY <1>1, <2>3 DEF Knows
    <3> QED
      BY <2>2, <3>1, <3>2, LocalKeeps
  <2>4. CASE Wait(c, "cancel", p, 0, held[p], 1)
    <3>1. /\ Local(c, p) /\ call'[c].pc = "cancel" /\ call'[c].player = p
          /\ call'[c].hold = held[p] /\ call'[c].amt = 1
      BY <1>1, <1>2, <1>3, <1>6, <2>4, WaitLocal
    <3>2. AllIdle => Knows(c)'
      BY <1>2, <1>3, <1>6, <2>1, <3>1 DEF Knows, Pays, wallet
    <3> QED
      BY <2>2, <3>1, <3>2, LocalKeeps
  <2> QED
    BY <1>2, <1>6, <2>3, <2>4 DEF CancelTicket
<1> QED
  BY <1>2, <1>5, <1>6 DEF CancelTicket

(* A release touches one reservation, and leaves it active only with the   *)
(* rest of its amount.                                                     *)
LEMMA ReleaseLeaves ==
  ASSUME WalletOK, NEW h \in HoldKeys, NEW amt \in Nat, W!Release(h, amt)
  PROVE  /\ \A g \in HoldKeys : g # h => res'[g] = res[g]
         /\ res[h].status = "active"
         /\ res[h].amount > amt => res'[h].status = "active" /\ res'[h].amount = res[h].amount - amt
<1>1. res \in [HoldKeys -> W!Hold] /\ res[h] \in W!Hold /\ res[h].amount \in Nat
  BY DEF WalletOK, W!Hold
<1>2. CASE amt >= res[h].amount
  BY <1>1, <1>2 DEF W!Release, W!Hold
<1>3. CASE ~(amt >= res[h].amount)
  BY <1>1, <1>3 DEF W!Release, W!Hold
<1> QED
  BY <1>2, <1>3

LEMMA ReleasedKeepsArmInv ==
  ASSUME WalletOK, HandlersOK, ArmInv, NEW c \in Calls, NEW p \in Players, p = call[c].player,
         call[c].pc = "release",
         \A h \in HoldKeys : h # call[c].hold => res'[h] = res[h],
         call' = [call EXCEPT ![c].pc = "released"], UNCHANGED <<armed, held, start>>
  PROVE  ArmInv'
<1>1. \A d \in Calls : d # c => call[d].player # p
  BY CallAlone DEF ArmInv
<1>2. call[c] \in CallState /\ call[c].hold \in HoldKeys /\ call[c].hold[1] = p
  BY CallFacts
<1>3. /\ call'[c].pc = "released" /\ call'[c].player = p
      /\ \A d \in Calls : d # c => call'[d] = call[d]
  BY <1>2 DEF CallState, HandlersOK
<1>4. Local(c, p)
  BY <1>1, <1>2, <1>3 DEF Local
<1>5. Knows(c)' /\ ArmedOK(p)'
  BY <1>3 DEF Knows, ArmedOK, Disarming
<1> QED
  BY <1>4, <1>5, LocalKeeps

LEMMA DisarmPlayerKeepsArmInv ==
  ASSUME WalletOK, HandlersOK, ArmInv, NEW c \in Calls, DisarmPlayer(c)
  PROVE  ArmInv'
<1>1. call[c].pc = "released" /\ Done(c) /\ UNCHANGED <<wallet, start>>
  BY DEF DisarmPlayer
<1>2. PICK p \in Players : p = call[c].player /\ \A d \in Calls : d # c => call[d].player # p
  BY <1>1, CallAlone DEF ArmInv
<1>3. /\ armed'[p] = 0
      /\ \A q \in Players : q # p => armed'[q] = armed[q] /\ held'[q] = held[q]
  BY <1>2 DEF DisarmPlayer, HandlersOK
<1>4. Local(c, p)
  BY <1>1, <1>2, <1>3, DoneIsIdle DEF Local, wallet
<1>5. Knows(c)' /\ ArmedOK(p)'
  BY <1>1, <1>3, DoneIsIdle, IdleKnows DEF ArmedOK
<1> QED
  BY <1>4, <1>5, LocalKeeps

LEMMA ReleasedPartKeepsArmInv ==
  ASSUME WalletOK, HandlersOK, ArmInv, NEW c \in Calls, ReleasedPart(c)
  PROVE  ArmInv'
<1>1. call[c].pc = "cancel" /\ Done(c) /\ UNCHANGED <<armed, held, start>>
  BY DEF ReleasedPart, room
<1>2. PICK p \in Players : p = call[c].player /\ \A d \in Calls : d # c => call[d].player # p
  BY <1>1, CallAlone DEF ArmInv
<1>3. call[c].hold \in HoldKeys /\ call[c].hold[1] = p /\ call[c].amt \in Nat
  BY <1>1, <1>2, CallFacts
<1>4. \A g \in HoldKeys : g # call[c].hold => res'[g] = res[g]
  BY <1>3, ReleaseLeaves DEF ReleasedPart, wallet
<1>5. Local(c, p)
  BY <1>1, <1>2, <1>3, <1>4, DoneIsIdle DEF Local
<1>6. AllIdle => ArmedOK(p)'
  <2> SUFFICES ASSUME AllIdle, ~Disarming(p)' PROVE Covered(p)'
    BY DEF ArmedOK
  <2>1. ~Disarming(p)
    BY <1>1, <1>2, DoneIsIdle DEF Disarming
  <2>2. /\ held[p] = call[c].hold /\ armed[p] > 0 /\ call[c].amt = 1
        /\ res[held[p]].status = "active" => res[held[p]].amount >= armed[p] + 1
    BY <1>1, <1>2 DEF ArmInv, Knows
  <2>3. Covered(p)
    BY <2>1, <2>2 DEF ArmInv, ArmedOK
  <2>4. CASE W!Release(call[c].hold, call[c].amt)
    <3>1. armed[p] \in Nat /\ res[held[p]].amount \in Nat /\ res[held[p]].status = "active"
      BY <1>3, <2>2, <2>4, ReleaseLeaves, TicketsAssumption DEF HandlersOK, WalletOK, W!Hold
    <3>2. res[held[p]].amount > 1
      BY <2>2, <3>1
    <3>3. res'[held[p]].status = "active" /\ res'[held[p]].amount = res[held[p]].amount - 1
      BY <1>3, <2>2, <2>4, <3>2, ReleaseLeaves
    <3> QED
      BY <1>1, <2>2, <2>3, <3>1, <3>3, CoveredPays, CoveredPaysNext DEF Pays
  <2>5. CASE UNCHANGED wallet
    BY <1>1, <2>3, <2>5, SameCovered DEF wallet
  <2> QED
    BY <2>4, <2>5 DEF ReleasedPart
<1> QED
  BY <1>1, <1>5, <1>6, DoneIsIdle, IdleKnows, LocalKeeps

LEMMA CallFailsKeepsArmInv ==
  ASSUME WalletOK, HandlersOK, ArmInv, NEW c \in Calls, CallFails(c)
  PROVE  ArmInv'
<1>1. call[c].pc \in {"reserve", "increase", "cancel", "release"} /\ UNCHANGED <<armed, held, start>>
  BY DEF CallFails, room
<1>2. PICK p \in Players : p = call[c].player /\ \A d \in Calls : d # c => call[d].player # p
  BY <1>1, CallAlone DEF ArmInv
<1>3. call[c].hold \in HoldKeys /\ call[c].hold[1] = p
  BY <1>1, <1>2, CallFacts
<1>4. CASE call[c].pc # "release" /\ Done(c) /\ (UNCHANGED wallet \/ HoldIsReserved(c))
  <2>1. \A g \in HoldKeys : g # call[c].hold => res'[g] = res[g]
    BY <1>4, ReservedPays DEF wallet
  <2>2. Local(c, p)
    BY <1>1, <1>2, <1>3, <1>4, <2>1, DoneIsIdle DEF Local
  <2>3. Covered(p) => Covered(p)'
    BY <1>1, <1>2, <1>4, ReservedCovers, SameCovered DEF wallet
  <2>4. Disarming(p) => Disarming(p)'
    BY <1>1, <1>2, <1>4, DoneIsIdle DEF Disarming
  <2>5. AllIdle => ArmedOK(p)'
    BY <1>1, <1>2, <2>3, <2>4 DEF ArmInv, ArmedOK
  <2> QED
    BY <1>4, <2>2, <2>5, DoneIsIdle, IdleKnows, LocalKeeps
<1>5. CASE call[c].pc = "release" /\ UNCHANGED wallet /\ call' = [call EXCEPT ![c].pc = "released"]
  BY <1>1, <1>2, <1>5, ReleasedKeepsArmInv DEF wallet
<1> QED
  BY <1>4, <1>5 DEF CallFails

LEMMA HandlerKeepsArmInv ==
  ASSUME OneCallEach, WalletOK, HandlersOK, ArmInv, NEW c \in Calls, Handler(c)
  PROVE  ArmInv'
<1>1. CASE Released(c)
  <2>1. call[c].player \in Players /\ call[c].hold \in HoldKeys /\ res[call[c].hold].amount \in Nat
    BY <1>1, CallFacts DEF Released, WalletOK, W!Hold
  <2>2. \A h \in HoldKeys : h # call[c].hold => res'[h] = res[h]
    BY <1>1, <2>1, ReleaseLeaves DEF Released, ReleaseAll, wallet
  <2> QED
    BY <1>1, <2>1, <2>2, ReleasedKeepsArmInv DEF Released, room
<1> QED
  BY <1>1, BetArmKeepsArmInv, ReservedKeepsArmInv, ReserveRefusedKeepsArmInv, ArmPlayerKeepsArmInv,
     DisarmKeepsArmInv, CancelTicketKeepsArmInv, DisarmPlayerKeepsArmInv, ReleasedPartKeepsArmInv,
     CallFailsKeepsArmInv
  DEF Handler, SocketStep

(* The sweep takes the reservation of a covered player as a whole.         *)
LEMMA ExpireHoldKeepsArmInv ==
  ASSUME WalletOK, HandlersOK, ArmInv, NEW h \in HoldKeys, ExpireHold(h)
  PROVE  ArmInv'
<1>1. /\ UNCHANGED <<armed, held, call, start>> /\ res[h].status = "active"
      /\ res' = [g \in HoldKeys |-> IF g \in {h} THEN [res[g] EXCEPT !.status = "expired"] ELSE res[g]]
  BY DEF ExpireHold, Stale, W!Expire, room
<1>2. ASSUME NEW g \in HoldKeys
      PROVE  res'[g] = res[g] \/ res'[g].status = "expired"
  BY <1>1 DEF WalletOK, W!Hold
<1>3. OneCall' /\ (AllIdle' => AllIdle)
  BY <1>1 DEF ArmInv, OneCall, AllIdle
<1>4. ASSUME AllIdle, NEW p \in Players PROVE ArmedOK(p)'
  <2>1. held[p] # None => held[p] \in HoldKeys
    BY HeldIsHold
  <2>2. Covered(p) => Covered(p)'
    <3>1. ASSUME Covered(p) PROVE held[p] # None /\ Pays(held[p], armed[p])'
      <4>1. held[p] \in HoldKeys /\ Pays(held[p], armed[p])
        BY <2>1, <3>1, CoveredPays
      <4>2. res'[held[p]] = res[held[p]] \/ res'[held[p]].status = "expired"
        BY <1>2, <4>1
      <4> QED
        BY <1>1, <3>1, <4>1, <4>2, CoveredPays DEF Pays
    <3> QED
      BY <1>1, <3>1, CoveredPaysNext
  <2>3. Disarming(p)' <=> Disarming(p)
    BY <1>1 DEF Disarming
  <2> QED
    BY <1>1, <1>4, <2>2, <2>3 DEF ArmInv, ArmedOK
<1>5. ASSUME AllIdle, NEW c \in Calls PROVE Knows(c)'
  <2>1. CASE call[c].pc = "idle"
    BY <1>1, <2>1 DEF Knows
  <2>2. CASE call[c].pc # "idle"
    <3>1. call[c].hold \in HoldKeys
      BY <2>2, CallFacts
    <3>2. res'[call[c].hold] = res[call[c].hold] \/ res'[call[c].hold].status = "expired"
      BY <1>2, <3>1
    <3>3. Knows(c)
      BY <1>5 DEF ArmInv
    <3> QED
      BY <1>1, <3>2, <3>3 DEF Knows, Pays
  <2> QED
    BY <2>1, <2>2
<1> QED
  BY <1>3, <1>4, <1>5 DEF ArmInv

LEMMA CrashKeepsArmInv ==
  ASSUME ArmInv, Crash PROVE ArmInv'
<1>1. call' = [c \in Calls |-> Idle] /\ Idle.pc = "idle" /\ Idle.player = None
  BY DEF Crash, Idle
<1>2. OneCall'
  BY <1>1, NamesAssumption DEF OneCall
<1>3. \A c \in Calls : Knows(c)'
  BY <1>1, IdleKnows
<1>4. \A p \in Players : ArmedOK(p)'
  BY DEF Crash, ArmedOK
<1> QED
  BY <1>2, <1>3, <1>4 DEF ArmInv

(* A start that has begun is never idle again.                             *)
LEMMA StartsAreNotIdle ==
  ASSUME StartsOK, NEW s \in Starts, StartGame(s) \/ StartStep(s) \/ BookingFails(s)
  PROVE  UNCHANGED call /\ ~AllIdle'
<1>1. start[s] \in StartState /\ start \in [Starts -> StartState]
  BY DEF StartsOK
<1>2. start'[s].pc # "idle" => ~AllIdle'
  BY DEF AllIdle
<1>3. CASE StartGame(s)
  BY <1>1, <1>2, <1>3 DEF StartGame, StartState
<1>4. CASE CheckFunds(s) \/ BuyInsDone(s) \/ Install(s) \/ Return(s) \/ RefundsDone(s)
  <2>1. CASE CheckFunds(s)
    BY <1>1, <1>2, <2>1 DEF CheckFunds, StartState
  <2>2. CASE BuyInsDone(s)
    BY <1>1, <1>2, <2>2 DEF BuyInsDone, StartState
  <2>3. CASE Install(s)
    BY <1>1, <1>2, <2>3 DEF Install, StartState
  <2>4. CASE Return(s)
    BY <1>1, <1>2, <2>4 DEF Return, StartState
  <2>5. CASE RefundsDone(s)
    BY <1>1, <1>2, <2>5 DEF RefundsDone, StartState
  <2> QED
    BY <1>4, <2>1, <2>2, <2>3, <2>4, <2>5
<1>5. CASE BookingFails(s)
  BY <1>1, <1>2, <1>5 DEF BookingFails, RollBack, StartState
<1>6. ASSUME NEW p \in Players,
             \/ CommitReservation(s, p) \/ CommitFails(s, p)
             \/ TransferBuyIn(s, p) \/ ReleaseRest(s, p) \/ Refund(s, p)
      PROVE  UNCHANGED call /\ ~AllIdle'
  <2>1. CASE CommitReservation(s, p)
    BY <1>1, <1>2, <2>1 DEF CommitReservation, Committing, Buying, Debited, StartState
  <2>2. CASE CommitFails(s, p)
    BY <1>1, <1>2, <2>2 DEF CommitFails, Committing, Buying, StartState
  <2>3. CASE TransferBuyIn(s, p)
    BY <1>1, <1>2, <2>3 DEF TransferBuyIn, Transferring, Buying, Debited, StartState
  <2>4. CASE ReleaseRest(s, p)
    BY <1>1, <1>2, <2>4 DEF ReleaseRest, StartState
  <2>5. CASE Refund(s, p)
    BY <1>1, <1>2, <2>5 DEF Refund, StartState
  <2> QED
    BY <1>6, <2>1, <2>2, <2>3, <2>4, <2>5
<1>7. ASSUME NEW p \in Players, TransferFails(s, p)
      PROVE  UNCHANGED call /\ ~AllIdle'
  BY <1>1, <1>2, <1>7 DEF TransferFails, RollBack, StartState
<1> QED
  BY <1>3, <1>4, <1>5, <1>6, <1>7 DEF StartStep

LEMMA NextKeepsArmInv ==
  ASSUME OneCallEach, IInv, ArmInv, [Next]_vars PROVE ArmInv'
<1>1. WalletOK /\ HandlersOK /\ StartsOK
  BY InvParts
<1>2. CASE UNCHANGED <<res, armed, held, call, start>>
  BY <1>2 DEF ArmInv, OneCall, AllIdle, ArmedOK, Disarming, Covered, Knows, Pays
<1>3. CASE \E c \in Calls : Handler(c)
  BY <1>1, <1>3, HandlerKeepsArmInv
<1>4. CASE \E s \in Starts : StartGame(s) \/ StartStep(s) \/ BookingFails(s)
  <2>1. UNCHANGED call /\ ~AllIdle'
    BY <1>1, <1>4, StartsAreNotIdle
  <2> QED
    BY <2>1 DEF ArmInv, OneCall
<1>5. CASE \E h \in HoldKeys : ExpireHold(h)
  BY <1>1, <1>5, ExpireHoldKeepsArmInv
<1>6. CASE Crash
  BY <1>6, CrashKeepsArmInv
<1> QED
  BY <1>2, <1>3, <1>4, <1>5, <1>6 DEF Next, Handler, EndGame, vars, wallet, room

(* What startGame relies on: while no start is running, nothing is armed   *)
(* that no reservation pays for, whatever the wallet answers, for any      *)
(* number of players, handlers, tickets, failing calls and restarts.  The  *)
(* hypothesis is the one the run makes: a player's events come one at a    *)
(* time.                                                                   *)
THEOREM ArmedTicketsAreCovered ==
  ASSUME OneCallEach PROVE Spec => []ArmedIsCovered
<1>1. Init => ArmInv
  <2> SUFFICES ASSUME Init PROVE ArmInv
    OBVIOUS
  <2>1. Idle.pc = "idle" /\ Idle.player = None
    BY DEF Idle
  <2> QED
    BY <2>1, NamesAssumption DEF Init, ArmInv, OneCall, ArmedOK, Knows
<1>2. IInv /\ ArmInv /\ [Next]_vars => ArmInv'
  BY NextKeepsArmInv
<1>3. ArmInv => ArmedIsCovered
  BY DEF ArmInv, ArmedIsCovered, AllIdle, ArmedOK
<1> QED
  BY <1>1, <1>2, <1>3, Invariance, PTL DEF Spec

-----------------------------------------------------------------------------
(* What is held of a balance: sums over finite sets, as MapThenSumSet of   *)
(* the community modules computes them, by the least-element principle.    *)

(* The least-element principle, which replaces induction. *)
LEMMA AllNaturals ==
  ASSUME NEW M \in SUBSET Nat, 0 \in M, \A n \in M : n + 1 \in M
  PROVE  M = Nat
<1> DEFINE R == OpToRel(<, Nat)
           T == Nat \ M
<1>1. SUFFICES ASSUME T # {} PROVE FALSE
  OBVIOUS
<1>2. PICK x \in T : \A y \in T : ~ (<<y, x>> \in R)
  <2>1. IsWellFoundedOn(R, Nat)
    BY NatLessThanWellFounded
  <2> HIDE DEF R
  <2> QED
    BY <1>1, <2>1, WFMin
<1>3. x # 0 /\ x - 1 \in Nat /\ x - 1 < x
  OBVIOUS
<1>4. <<x - 1, x>> \in R
  BY <1>3 DEF OpToRel
<1>5. x - 1 \in M
  BY <1>2, <1>3, <1>4
<1> QED
  BY <1>3, <1>5

(* What a recursive sum of f over the subsets of S is. *)
Pick1(s) == CHOOSE x \in s : TRUE
Sums(f, S, F) ==
  F = [s \in SUBSET S |-> IF s = {} THEN 0 ELSE f[Pick1(s)] + F[s \ {Pick1(s)}]]

(* The element taken first is one of the set.                              *)
LEMMA PickIn == ASSUME NEW s, s # {} PROVE Pick1(s) \in s
BY DEF Pick1

(* What the table of such sums says of {} and of every other subset.       *)
LEMMA SumsOf ==
  ASSUME NEW f, NEW S, NEW F, Sums(f, S, F)
  PROVE  /\ F[{}] = 0
         /\ \A s \in SUBSET S : s # {} => F[s] = f[Pick1(s)] + F[s \ {Pick1(s)}]
<1>1. \A s \in SUBSET S : F[s] = IF s = {} THEN 0 ELSE f[Pick1(s)] + F[s \ {Pick1(s)}]
  BY DEF Sums
<1> QED
  BY <1>1

(* Taking an element away makes a finite set smaller.                      *)
LEMMA Smaller ==
  ASSUME NEW s, IsFiniteSet(s), NEW x \in s, NEW n \in Nat, Cardinality(s) <= n + 1
  PROVE  IsFiniteSet(s \ {x}) /\ Cardinality(s \ {x}) <= n
<1>1. IsFiniteSet(s \ {x}) /\ Cardinality(s \ {x}) = Cardinality(s) - 1
  BY FS_RemoveElement
<1>2. Cardinality(s) \in Nat
  BY FS_CardinalityType
<1> QED
  BY <1>1, <1>2

Upto(f, S, n, F) ==
  \A s \in SUBSET S : Cardinality(s) <= n =>
    F[s] = IF s = {} THEN 0 ELSE f[Pick1(s)] + F[s \ {Pick1(s)}]

(* Every finite set has such a table: built size by size.                  *)
LEMMA SumsExist ==
  ASSUME NEW f, NEW S, IsFiniteSet(S)
  PROVE  \E F : Sums(f, S, F)
<1> DEFINE M == {n \in Nat : \E F : Upto(f, S, n, F)}
<1>0. \A s \in SUBSET S : IsFiniteSet(s) /\ Cardinality(s) \in Nat /\ (Cardinality(s) = 0 <=> s = {})
  BY FS_Subset, FS_CardinalityType, FS_EmptySet
<1>1. 0 \in M
  <2> DEFINE F == [s \in SUBSET S |-> 0]
  <2>1. \A s \in SUBSET S : Cardinality(s) <= 0 => s = {}
    BY <1>0
  <2>2. Upto(f, S, 0, F)
    BY <2>1 DEF Upto
  <2> QED
    BY <2>2
<1>2. ASSUME NEW n \in M PROVE n + 1 \in M
  <2>1. PICK F : Upto(f, S, n, F)
    BY <1>2
  <2> DEFINE G == [s \in SUBSET S |->
               IF Cardinality(s) <= n THEN F[s]
               ELSE f[Pick1(s)] + F[s \ {Pick1(s)}]]
  <2>2. ASSUME NEW s \in SUBSET S, s # {}, Cardinality(s) <= n + 1
        PROVE  G[s] = f[Pick1(s)] + G[s \ {Pick1(s)}]
    <3>1. Pick1(s) \in s /\ s \ {Pick1(s)} \in SUBSET S
      BY <2>2, PickIn
    <3>2. Cardinality(s \ {Pick1(s)}) <= n
      BY <1>0, <2>2, <3>1, Smaller
    <3>3. G[s \ {Pick1(s)}] = F[s \ {Pick1(s)}]
      BY <3>1, <3>2
    <3>4. Cardinality(s) <= n => F[s] = f[Pick1(s)] + F[s \ {Pick1(s)}]
      BY <2>1, <2>2 DEF Upto
    <3> QED
      BY <3>3, <3>4
  <2>3. G[{}] = 0
    <3>1. Cardinality({}) <= n /\ {} \in SUBSET S
      BY <1>0, FS_EmptySet
    <3> QED
      BY <2>1, <3>1 DEF Upto
  <2> HIDE DEF G
  <2>4. Upto(f, S, n + 1, G)
    BY <2>2, <2>3 DEF Upto
  <2> QED
    BY <1>2, <2>4
<1>3. Cardinality(S) \in M
  <2> HIDE DEF M
  <2>1. M = Nat
    <3>1. M \in SUBSET Nat
      BY DEF M
    <3> QED
      BY <1>1, <1>2, <3>1, AllNaturals
  <2> QED
    BY <2>1, FS_CardinalityType
<1>4. PICK F : Upto(f, S, Cardinality(S), F)
  BY <1>3
<1> DEFINE G == [s \in SUBSET S |-> F[s]]
<1>5. \A s \in SUBSET S : Cardinality(s) <= Cardinality(S)
  BY FS_Subset
<1>6. \A s \in SUBSET S : F[s] = IF s = {} THEN 0 ELSE f[Pick1(s)] + F[s \ {Pick1(s)}]
  BY <1>4, <1>5 DEF Upto
<1>7. Sums(f, S, G)
  BY <1>6 DEF Sums
<1> QED
  BY <1>7

(* A set of subsets that has {} and whatever has all its one-smaller subsets. *)
LEMMA AllSubsets ==
  ASSUME NEW S, IsFiniteSet(S), NEW M, {} \in M,
         \A s \in SUBSET S : s # {} /\ (\A x \in s : s \ {x} \in M) => s \in M
  PROVE  \A s \in SUBSET S : s \in M
<1> DEFINE T == (SUBSET S) \ M
           R == StrictSubsetOrdering(S)
<1>1. SUFFICES ASSUME T # {} PROVE FALSE
  OBVIOUS
<1>2. T \subseteq FiniteSubsetsOf(S)
  BY FS_Subset DEF FiniteSubsetsOf
<1>3. PICK s \in T : \A t \in T : <<t, s>> \notin R
  <2>1. IsWellFoundedOn(R, FiniteSubsetsOf(S))
    BY FS_StrictSubsetOrderingWellFounded
  <2> HIDE DEF R, T
  <2> QED
    BY <1>1, <1>2, <2>1, WFMin
<1>4. ASSUME NEW x \in s PROVE s \ {x} \in M
  <2>1. <<s \ {x}, s>> \in R
    BY <1>2 DEF StrictSubsetOrdering
  <2> QED
    BY <1>3, <2>1
<1> HIDE DEF R
<1>5. s \in SUBSET S /\ s \notin M
  BY <1>3
<1> HIDE DEF T
<1>6. s # {}
  BY <1>5
<1> QED
  BY <1>4, <1>5, <1>6

(* A sum of naturals is a natural, and none of them is more.               *)
LEMMA SumsBound ==
  ASSUME NEW f, NEW S, NEW F, Sums(f, S, F), IsFiniteSet(S), \A x \in S : f[x] \in Nat
  PROVE  F[S] \in Nat /\ \A x \in S : f[x] <= F[S]
<1> DEFINE M == {s \in SUBSET S : F[s] \in Nat /\ \A x \in s : f[x] <= F[s]}
<1>1. {} \in M
  BY SumsOf
<1>2. ASSUME NEW s \in SUBSET S, s # {}, \A x \in s : s \ {x} \in M PROVE s \in M
  <2> DEFINE c == Pick1(s)
             r == s \ {Pick1(s)}
  <2>1. c \in s /\ c \in S /\ r \in M
    BY <1>2, PickIn
  <2>2. F[s] = f[c] + F[r]
    BY <1>2, SumsOf
  <2>3. \A x \in s : x # c => x \in r
    OBVIOUS
  <2> HIDE DEF c, r
  <2>4. f[c] \in Nat /\ F[r] \in Nat /\ \A x \in r : f[x] <= F[r]
    BY <2>1
  <2>5. ASSUME NEW x \in s PROVE f[x] <= F[s]
    <3>1. f[x] \in Nat
      OBVIOUS
    <3>2. CASE x = c
      BY <2>2, <2>4, <3>2
    <3>3. CASE x # c
      <4>1. f[x] <= F[r]
        BY <2>3, <2>4, <3>3
      <4> QED
        BY <2>2, <2>4, <3>1, <4>1
    <3> QED
      BY <3>2, <3>3
  <2> QED
    BY <2>2, <2>4, <2>5
<1> HIDE DEF M
<1>3. \A s \in SUBSET S : s \in M
  BY <1>1, <1>2, AllSubsets
<1> QED
  BY <1>3 DEF M

(* The active reservations of a player are among those of his name.        *)
LEMMA ActiveHoldsAre ==
  ASSUME WalletOK, NEW p \in Players
  PROVE  W!ActiveHolds(res, p) = {h \in HoldKeys : res[h].status = "active" /\ h[1] = p}
BY DEF W!ActiveHolds, WalletOK

LEMMA ActiveHoldsAreFew ==
  ASSUME WalletOK, NEW p \in Players
  PROVE  IsFiniteSet(W!ActiveHolds(res, p))
<1> DEFINE S == W!ActiveHolds(res, p)
           T == (1..MaxCycles) \X (1..MaxTickets)
           f == [h \in S |-> <<h[2], h[3]>>]
<1>1. IsFiniteSet(T)
  <2>1. IsFiniteSet(1..MaxCycles) /\ IsFiniteSet(1..MaxTickets)
    BY FS_Interval, TicketsAssumption
  <2> QED
    BY <2>1, FS_Product
<1>2. \A h \in S : h[1] = p /\ h \in HoldKeys
  BY ActiveHoldsAre
<1>3. \A h \in S : <<h[2], h[3]>> \in T /\ h = <<p, h[2], h[3]>>
  BY <1>2 DEF HoldKeys
<1> HIDE DEF S, T
<1>4. \A g, h \in S : f[g] = f[h] => g = h
  <2> SUFFICES ASSUME NEW g \in S, NEW h \in S, f[g] = f[h] PROVE g = h
    OBVIOUS
  <2>1. g[2] = h[2] /\ g[3] = h[3]
    OBVIOUS
  <2> QED
    BY <1>3, <2>1
<1>5. f \in Injection(S, T)
  BY <1>3, <1>4 DEF Injection, IsInjective
<1> HIDE DEF f
<1> QED
  BY <1>1, <1>5, FS_Injection DEF S

(* What is held of a player's balance: at least each of his reservations.  *)
LEMMA HeldInTotal ==
  ASSUME WalletOK, NEW p \in Players
  PROVE  /\ W!HoldTotal(res, p) \in Nat
         /\ \A h \in W!ActiveHolds(res, p) : res[h].amount <= W!HoldTotal(res, p)
<1> DEFINE S == W!ActiveHolds(res, p)
           f == [h \in HoldKeys |-> res[h].amount]
           Step(F) == F = [s \in SUBSET S |->
                             IF s = {} THEN 0
                             ELSE res[CHOOSE x \in s : TRUE].amount
                                    + F[s \ {CHOOSE x \in s : TRUE}]]
           H == CHOOSE F : Step(F)
<1>1. W!HoldTotal(res, p) = H[S]
  BY DEF W!HoldTotal, W!MapThenSumSet, W!MapThenFoldSet
<1>2. S \subseteq HoldKeys /\ IsFiniteSet(S) /\ \A h \in S : f[h] \in Nat /\ f[h] = res[h].amount
  BY ActiveHoldsAre, ActiveHoldsAreFew DEF WalletOK, W!Hold
<1>3. ASSUME NEW F PROVE Step(F) <=> Sums(f, S, F)
  <2>1. \A s \in SUBSET S : s # {} => res[CHOOSE x \in s : TRUE].amount = f[Pick1(s)]
    BY <1>2, PickIn DEF Pick1
  <2> HIDE DEF f, S
  <2> QED
    BY <2>1 DEF Sums, Pick1
<1> HIDE DEF Step, S, f
<1>4. Sums(f, S, H)
  <2>1. \E F : Step(F)
    BY <1>2, <1>3, SumsExist
  <2>2. Step(H)
    BY <2>1, Zenon
  <2> QED
    BY <1>3, <2>2
<1> HIDE DEF H
<1>5. H[S] \in Nat /\ \A h \in S : f[h] <= H[S]
  BY <1>2, <1>4, SumsBound
<1> QED
  BY <1>1, <1>2, <1>5 DEF S

-----------------------------------------------------------------------------
(* A round settles the reservations its armed players had.  When it begins *)
(* to take the buy-ins, every reservation of an eligible player is covered *)
(* by his balance, and it stays so until he is debited: the commit of his  *)
(* reservation then fails only if the reservation is no longer active.     *)

Over(x) == x.status \notin {"none", "active"}

(* No reservation of p holds more than his balance.                        *)
Cov(p, rs, ac) ==
  \A h \in HoldKeys : h[1] = p /\ rs[h].status = "active" => rs[h].amount <= W!Total(ac[p])

Fresh(s, p, lg) == ~W!KeyUsed(lg, BuyInKey(s, p))

(* The buy-in or the release of p is behind a start in state r.            *)
Behind(r, p) ==
  \/ r.pc = "buyin" /\ p \in (r.eligible \ r.todo) \cup r.fallback
  \/ r.pc = "orphans" /\ p \notin r.todo
  \/ r.pc \in {"installed", "done"}

(* A start s in state r, with the reservations rs, ledger lg, accounts ac. *)
RecOK(s, r, rs, lg, ac) ==
  /\ r.pc # "idle" => r.map = r.had
  /\ r.pc \in {"idle", "filter"} => r.fallback = {}
  /\ \A p \in Players :
       /\ r.map[p] # None => rs[r.map[p]].status # "none"
       /\ r.pc \in {"idle", "filter"} => Fresh(s, p, lg)
       /\ r.pc = "buyin" /\ p \in r.todo => Fresh(s, p, lg) /\ Cov(p, rs, ac)
       /\ Behind(r, p) /\ r.map[p] # None => Over(rs[r.map[p]])

NonNegative(ac) == \A a \in Players \cup {House} : ac[a].dep >= 0 /\ ac[a].win >= 0

(* What the memory knows of has been a reservation.                        *)
KnownHolds ==
  /\ \A p \in Players : held[p] # None => res[held[p]].status # "none"
  /\ \A c \in Calls : call[c].pc = "reserved" => res[call[c].hold].status # "none"

StartRecords == \A s \in Starts : RecOK(s, start[s], res, ledger, acct)

SettleInv == NonNegative(acct) /\ KnownHolds /\ StartRecords

(* No row of a reservation goes away, and what is over stays over.         *)
HoldsAge ==
  \A h \in HoldKeys :
    /\ res[h].status # "none" => res'[h].status # "none"
    /\ Over(res[h]) => Over(res'[h])

(* A step that moves no money and covers what it reserves.                 *)
Calm ==
  /\ HoldsAge /\ UNCHANGED <<acct, ledger>>
  /\ \A p \in Players : Cov(p, res, acct) => Cov(p, res', acct')

LEMMA UntouchedIsCalm == ASSUME UNCHANGED wallet PROVE Calm
BY DEF Calm, HoldsAge, wallet

LEMMA TotalIsInt ==
  ASSUME WalletOK, NEW a \in Players \cup {House}
  PROVE  W!Total(acct[a]) \in Int /\ acct[a].dep \in Int /\ acct[a].win \in Int
<1>1. acct[a] \in W!Balance
  BY DEF WalletOK
<1> QED
  BY <1>1 DEF W!Total, W!Balance

(* One reservation changes, and is covered if it is active.                *)
LEMMA OneHoldCalm ==
  ASSUME WalletOK, NEW h \in HoldKeys, UNCHANGED <<acct, ledger>>,
         \A g \in HoldKeys : g # h => res'[g] = res[g],
         res'[h].status # "none", Over(res[h]) => Over(res'[h]),
         res'[h].status = "active" /\ Cov(h[1], res, acct) => res'[h].amount <= W!Total(acct[h[1]])
  PROVE  Calm
<1>1. HoldsAge
  BY DEF HoldsAge
<1>2. ASSUME NEW p \in Players, Cov(p, res, acct) PROVE Cov(p, res', acct')
  <2> SUFFICES ASSUME NEW g \in HoldKeys, g[1] = p, res'[g].status = "active"
               PROVE  res'[g].amount <= W!Total(acct[p])
    BY DEF Cov
  <2>1. CASE g = h
    BY <1>2, <2>1
  <2>2. CASE g # h
    <3>1. res'[g] = res[g]
      BY <2>2
    <3> QED
      BY <1>2, <3>1 DEF Cov
  <2> QED
    BY <2>1, <2>2
<1> QED
  BY <1>1, <1>2 DEF Calm

LEMMA TakeCalm ==
  ASSUME WalletOK, NEW h \in HoldKeys, NEW amt \in Nat,
         W!Take(h, h[1], amt), amt <= W!Available(h[1])
  PROVE  Calm
<1>1. /\ res' = [res EXCEPT ![h] = [status |-> "active", wallet |-> h[1], amount |-> amt]]
      /\ res[h].status = "none" /\ UNCHANGED <<acct, ledger>>
  BY DEF W!Take
<1>2. /\ res'[h].status = "active" /\ res'[h].amount = amt
      /\ \A g \in HoldKeys : g # h => res'[g] = res[g]
  BY <1>1 DEF WalletOK
<1>3. h[1] \in Players /\ W!Total(acct[h[1]]) \in Int
  BY HoldOwner, TotalIsInt
<1>4. amt <= W!Total(acct[h[1]])
  BY <1>3, HeldInTotal DEF W!Available
<1> QED
  BY <1>1, <1>2, <1>4, OneHoldCalm DEF Over

LEMMA IncreaseCalm ==
  ASSUME WalletOK, NEW h \in HoldKeys, NEW amt \in Nat,
         W!Increase(h, amt), amt <= W!Available(res[h].wallet)
  PROVE  Calm
<1>1. /\ res' = [res EXCEPT ![h].amount = @ + amt]
      /\ res[h].status = "active" /\ UNCHANGED <<acct, ledger>>
  BY DEF W!Increase
<1>2. res[h] \in W!Hold /\ res[h].amount \in Nat /\ res[h].wallet = h[1]
  BY <1>1 DEF WalletOK, W!Hold
<1>3. /\ res'[h].status = "active" /\ res'[h].amount = res[h].amount + amt
      /\ \A g \in HoldKeys : g # h => res'[g] = res[g]
  BY <1>1, <1>2 DEF WalletOK, W!Hold
<1>4. h[1] \in Players /\ W!Total(acct[h[1]]) \in Int
  BY HoldOwner, TotalIsInt
<1>5. res[h].amount <= W!HoldTotal(res, h[1]) /\ W!HoldTotal(res, h[1]) \in Nat
  BY <1>1, <1>4, HeldInTotal, ActiveHoldsAre
<1>6. amt <= W!Total(acct[h[1]]) - W!HoldTotal(res, h[1])
  BY <1>2 DEF W!Available
<1>7. res'[h].amount <= W!Total(acct[h[1]])
  BY <1>2, <1>3, <1>4, <1>5, <1>6
<1> QED
  BY <1>1, <1>3, <1>7, OneHoldCalm DEF Over

LEMMA ReleaseCalm ==
  ASSUME WalletOK, NEW h \in HoldKeys, NEW amt \in Nat, W!Release(h, amt)
  PROVE  Calm /\ (amt >= res[h].amount => Over(res'[h]))
<1>1. res[h].status = "active" /\ UNCHANGED <<acct, ledger>>
  BY DEF W!Release
<1>2. res[h] \in W!Hold /\ res[h].amount \in Nat /\ res \in [HoldKeys -> W!Hold]
  BY DEF WalletOK, W!Hold
<1>3. h[1] \in Players /\ W!Total(acct[h[1]]) \in Int
  BY HoldOwner, TotalIsInt
<1>4. CASE amt >= res[h].amount
  <2>1. res' = [res EXCEPT ![h].status = "released"]
    BY <1>4 DEF W!Release
  <2>2. res'[h].status = "released" /\ \A g \in HoldKeys : g # h => res'[g] = res[g]
    BY <1>2, <2>1 DEF W!Hold
  <2> QED
    BY <1>1, <2>2, OneHoldCalm DEF Over
<1>5. CASE ~(amt >= res[h].amount)
  <2>1. res' = [res EXCEPT ![h].amount = @ - amt]
    BY <1>5 DEF W!Release
  <2>2. /\ res'[h].status = "active" /\ res'[h].amount = res[h].amount - amt
        /\ \A g \in HoldKeys : g # h => res'[g] = res[g]
    BY <1>1, <1>2, <2>1 DEF W!Hold
  <2>3. Cov(h[1], res, acct) => res[h].amount <= W!Total(acct[h[1]])
    BY <1>1 DEF Cov
  <2>4. Cov(h[1], res, acct) => res'[h].amount <= W!Total(acct[h[1]])
    BY <1>2, <1>3, <2>2, <2>3
  <2> QED
    BY <1>1, <1>5, <2>2, <2>4, OneHoldCalm DEF Over
<1> QED
  BY <1>4, <1>5

LEMMA ReleaseAllCalm ==
  ASSUME WalletOK, NEW h \in HoldKeys, ReleaseAll(h)
  PROVE  Calm /\ Over(res'[h])
<1>1. res[h].amount \in Nat
  BY DEF WalletOK, W!Hold
<1>2. res[h].amount >= res[h].amount
  BY <1>1
<1> QED
  BY <1>1, <1>2, ReleaseCalm DEF ReleaseAll

LEMMA ExpireCalm ==
  ASSUME WalletOK, NEW h \in HoldKeys, ExpireHold(h) PROVE Calm
<1>1. /\ res[h].status = "active" /\ UNCHANGED <<acct, ledger>>
      /\ res' = [g \in HoldKeys |-> IF g \in {h} THEN [res[g] EXCEPT !.status = "expired"] ELSE res[g]]
  BY DEF ExpireHold, Stale, W!Expire
<1>2. res'[h].status = "expired" /\ \A g \in HoldKeys : g # h => res'[g] = res[g]
  BY <1>1 DEF WalletOK, W!Hold
<1> QED
  BY <1>1, <1>2, OneHoldCalm DEF Over

LEMMA HoldIsReservedCalm ==
  ASSUME WalletOK, HandlersOK, NEW c \in Calls, HoldIsReserved(c) PROVE Calm
<1>1. CASE TakesHold(c)
  <2>1. /\ call[c].pc # "idle" /\ call[c].amt <= W!Available(call[c].player)
        /\ W!Take(call[c].hold, call[c].player, call[c].amt)
    BY <1>1 DEF TakesHold
  <2> QED
    BY <2>1, CallFacts, TakeCalm
<1>2. CASE FindsHold(c)
  BY <1>2, UntouchedIsCalm DEF FindsHold
<1>3. CASE RaisesHold(c)
  <2>1. /\ call[c].pc # "idle" /\ call[c].amt <= W!Available(res[call[c].hold].wallet)
        /\ W!Increase(call[c].hold, call[c].amt)
    BY <1>3 DEF RaisesHold
  <2> QED
    BY <2>1, CallFacts, IncreaseCalm
<1> QED
  BY <1>1, <1>2, <1>3 DEF HoldIsReserved

LEMMA HandlerCalm ==
  ASSUME WalletOK, HandlersOK, NEW c \in Calls, Handler(c) PROVE Calm
<1>1. CASE Reserved(c)
  BY <1>1, HoldIsReservedCalm DEF Reserved
<1>2. CASE Released(c)
  <2>1. call[c].hold \in HoldKeys
    BY <1>2, CallFacts DEF Released
  <2> QED
    BY <1>2, <2>1, ReleaseAllCalm, UntouchedIsCalm DEF Released
<1>3. CASE ReleasedPart(c)
  <2>1. call[c].hold \in HoldKeys /\ call[c].amt \in Nat
    BY <1>3, CallFacts DEF ReleasedPart
  <2> QED
    BY <1>3, <2>1, ReleaseCalm, UntouchedIsCalm DEF ReleasedPart
<1>4. CASE CallFails(c)
  BY <1>4, HoldIsReservedCalm, UntouchedIsCalm DEF CallFails
<1>5. CASE ReserveRefused(c) \/ ArmPlayer(c) \/ DisarmPlayer(c)
  BY <1>5, UntouchedIsCalm DEF ReserveRefused, ArmPlayer, DisarmPlayer
<1>6. CASE \E p \in Players :
             \/ \E n \in 1..MaxTickets : BetArm(c, p, n)
             \/ Disarm(c, p) \/ CancelTicket(c, p)
  BY <1>6, UntouchedIsCalm DEF BetArm, Disarm, CancelTicket
<1> QED
  BY <1>1, <1>2, <1>3, <1>4, <1>5, <1>6 DEF Handler, SocketStep

(* The memory goes on knowing what has been a reservation.                 *)
LEMMA MemoryKept ==
  ASSUME HandlersOK, KnownHolds, HoldsAge,
         \A p \in Players : held'[p] # None => held'[p] = held[p],
         \A c \in Calls : call'[c].pc = "reserved" => call'[c] = call[c]
  PROVE  KnownHolds'
<1>1. ASSUME NEW p \in Players, held'[p] # None PROVE res'[held'[p]].status # "none"
  BY <1>1, HeldIsHold DEF KnownHolds, HoldsAge
<1>2. ASSUME NEW c \in Calls, call'[c].pc = "reserved" PROVE res'[call'[c].hold].status # "none"
  BY <1>2, CallFacts DEF KnownHolds, HoldsAge
<1> QED
  BY <1>1, <1>2 DEF KnownHolds

LEMMA WaitsOther ==
  ASSUME HandlersOK, NEW c \in Calls, NEW pc, pc # "reserved", NEW p, NEW n, NEW h, NEW amt,
         Wait(c, pc, p, n, h, amt)
  PROVE  \A d \in Calls : call'[d].pc = "reserved" => call'[d] = call[d]
<1> DEFINE w == [pc |-> pc, player |-> p, total |-> n, hold |-> h, amt |-> amt]
<1>1. w.pc # "reserved"
  OBVIOUS
<1>2. call' = [call EXCEPT ![c] = w]
  BY DEF Wait
<1> HIDE DEF w
<1> QED
  BY <1>1, <1>2 DEF HandlersOK

LEMMA DoneOther ==
  ASSUME HandlersOK, NEW c \in Calls, Done(c)
  PROVE  \A d \in Calls : call'[d].pc = "reserved" => call'[d] = call[d]
BY DoneIsIdle

LEMMA HandlerKnowsHolds ==
  ASSUME WalletOK, HandlersOK, KnownHolds, NEW c \in Calls, Handler(c) PROVE KnownHolds'
<1>0. HoldsAge
  BY HandlerCalm DEF Calm
<1>1. CASE Reserved(c)
  <2>1. /\ HoldIsReserved(c) /\ held' = held /\ call[c].pc # "idle"
        /\ call' = [call EXCEPT ![c].pc = IF @ = "reserve" THEN "reserved" ELSE "increased"]
    BY <1>1, ReservedPays DEF Reserved, room
  <2>2. call[c] \in CallState /\ call[c].hold \in HoldKeys
    BY <2>1, CallFacts
  <2>3. /\ call'[c].hold = call[c].hold
        /\ \A d \in Calls : d # c => call'[d] = call[d]
    BY <2>1, <2>2 DEF CallState, HandlersOK
  <2>4. res'[call[c].hold].status = "active"
    BY <2>1, ReservedPays
  <2>5. ASSUME NEW d \in Calls, call'[d].pc = "reserved" PROVE res'[call'[d].hold].status # "none"
    <3>1. CASE d = c
      BY <2>3, <2>4, <3>1
    <3>2. CASE d # c
      BY <1>0, <2>3, <2>5, <3>2, CallFacts DEF KnownHolds, HoldsAge
    <3> QED
      BY <3>1, <3>2
  <2>6. ASSUME NEW p \in Players, held'[p] # None PROVE res'[held'[p]].status # "none"
    BY <1>0, <2>1, <2>6, HeldIsHold DEF KnownHolds, HoldsAge
  <2> QED
    BY <2>5, <2>6 DEF KnownHolds
<1>2. CASE ArmPlayer(c)
  <2>1. Done(c) /\ call[c].pc # "idle" /\ UNCHANGED wallet
    BY <1>2 DEF ArmPlayer, ArmsAfter
  <2>2. call[c].pc = "reserved" => res[call[c].hold].status # "none"
    BY DEF KnownHolds
  <2>3. ASSUME NEW p \in Players, held'[p] # None PROVE res'[held'[p]].status # "none"
    <3>1. held'[p] = held[p] \/ (call[c].pc = "reserved" /\ held'[p] = call[c].hold)
      BY <1>2 DEF ArmPlayer, HandlersOK
    <3> QED
      BY <2>1, <2>2, <2>3, <3>1 DEF KnownHolds, wallet
  <2>4. ASSUME NEW d \in Calls, call'[d].pc = "reserved" PROVE res'[call'[d].hold].status # "none"
    BY <2>1, <2>4, DoneOther DEF KnownHolds, wallet
  <2> QED
    BY <2>3, <2>4 DEF KnownHolds
<1>3. CASE ReserveRefused(c) \/ ReleasedPart(c)
  BY <1>0, <1>3, DoneOther, MemoryKept DEF ReserveRefused, ReleasedPart, room
<1>4. CASE Released(c)
  <2>1. call' = [call EXCEPT ![c].pc = "released"] /\ call[c].pc # "idle" /\ held' = held
    BY <1>4 DEF Released, room
  <2>2. \A d \in Calls : call'[d].pc = "reserved" => call'[d] = call[d]
    BY <2>1, CallFacts DEF HandlersOK, CallState
  <2> QED
    BY <1>0, <2>1, <2>2, MemoryKept
<1>5. CASE DisarmPlayer(c)
  <2>1. \A p \in Players : held'[p] # None => held'[p] = held[p]
    BY <1>5 DEF DisarmPlayer, HandlersOK
  <2> QED
    BY <1>0, <1>5, <2>1, DoneOther, MemoryKept DEF DisarmPlayer
<1>6. CASE CallFails(c)
  <2>1. CASE Done(c)
    BY <1>0, <1>6, <2>1, DoneOther, MemoryKept DEF CallFails, room
  <2>2. CASE call[c].pc = "release" /\ call' = [call EXCEPT ![c].pc = "released"]
    <3>1. \A d \in Calls : call'[d].pc = "reserved" => call'[d] = call[d]
      BY <2>2, CallFacts DEF HandlersOK, CallState
    <3> QED
      BY <1>0, <1>6, <3>1, MemoryKept DEF CallFails, room
  <2> QED
    BY <1>6, <2>1, <2>2 DEF CallFails
<1>7. ASSUME NEW p \in Players, NEW n \in 1..MaxTickets, BetArm(c, p, n) PROVE KnownHolds'
  <2>1. \A d \in Calls : call'[d].pc = "reserved" => call'[d] = call[d]
    BY <1>7, WaitsOther DEF BetArm
  <2> QED
    BY <1>0, <1>7, <2>1, MemoryKept DEF BetArm, room
<1>8. ASSUME NEW p \in Players, Disarm(c, p) PROVE KnownHolds'
  <2>1. \A d \in Calls : call'[d].pc = "reserved" => call'[d] = call[d]
    BY <1>8, WaitsOther DEF Disarm
  <2> QED
    BY <1>0, <1>8, <2>1, MemoryKept DEF Disarm
<1>9. ASSUME NEW p \in Players, CancelTicket(c, p) PROVE KnownHolds'
  <2>1. \A d \in Calls : call'[d].pc = "reserved" => call'[d] = call[d]
    BY <1>9, WaitsOther DEF CancelTicket
  <2>2. \A q \in Players : held'[q] # None => held'[q] = held[q]
    BY <1>9 DEF CancelTicket, HandlersOK
  <2> QED
    BY <1>0, <2>1, <2>2, MemoryKept
<1> QED
  BY <1>1, <1>2, <1>3, <1>4, <1>5, <1>6, <1>7, <1>8, <1>9 DEF Handler, SocketStep

(* A start in state r, seen from another step.                             *)
LEMMA RecKept ==
  ASSUME NEW s \in Starts, NEW r \in StartState, RecOK(s, r, res, ledger, acct), HoldsAge,
         \A p \in Players : Fresh(s, p, ledger) => Fresh(s, p, ledger'),
         r.pc = "buyin" => \A p \in r.todo : Cov(p, res, acct) => Cov(p, res', acct')
  PROVE  RecOK(s, r, res', ledger', acct')
<1>1. ASSUME NEW p \in Players, r.map[p] # None
      PROVE  r.map[p] \in HoldKeys
  BY <1>1 DEF StartState, HoldOrNone
<1> QED
  BY <1>1 DEF RecOK, HoldsAge

LEMMA CalmKeepsRec ==
  ASSUME Calm, NEW s \in Starts, NEW r \in StartState, RecOK(s, r, res, ledger, acct)
  PROVE  RecOK(s, r, res', ledger', acct')
<1>1. r.todo \subseteq Players
  BY DEF StartState
<1> QED
  BY <1>1, RecKept DEF Calm

LEMMA CalmKeepsStarts ==
  ASSUME StartsOK, Calm, StartRecords, UNCHANGED start PROVE StartRecords'
<1>1. ASSUME NEW s \in Starts PROVE RecOK(s, start[s], res', ledger', acct')
  BY CalmKeepsRec, StartFacts DEF StartRecords
<1> QED
  BY <1>1 DEF StartRecords

LEMMA CalmKeepsMoney ==
  ASSUME Calm, NonNegative(acct) PROVE NonNegative(acct')
BY DEF Calm, NonNegative

(* A calm step of the start s, to the state r.                             *)
LEMMA CalmStart ==
  ASSUME StartsOK, SettleInv, HandlersOK, Calm, NEW s \in Starts, NEW r,
         start' = [start EXCEPT ![s] = r],
         RecOK(s, r, res', ledger', acct'),
         \A p \in Players : held'[p] # None => held'[p] = held[p], UNCHANGED call
  PROVE  SettleInv'
<1>1. KnownHolds'
  BY MemoryKept DEF SettleInv, Calm
<1>2. ASSUME NEW t \in Starts PROVE RecOK(t, start'[t], res', ledger', acct')
  <2>1. CASE t = s
    BY <2>1 DEF StartsOK
  <2>2. CASE t # s
    <3>1. start'[t] = start[t]
      BY <2>2 DEF StartsOK
    <3>2. RecOK(t, start[t], res', ledger', acct')
      BY CalmKeepsRec, StartFacts DEF SettleInv, StartRecords
    <3> QED
      BY <3>1, <3>2
  <2> QED
    BY <2>1, <2>2
<1> QED
  BY <1>1, <1>2, CalmKeepsMoney DEF SettleInv, StartRecords

(* A step of the start s that posts, to the state r.                       *)
LEMMA PostingStart ==
  ASSUME StartsOK, SettleInv, HandlersOK, HoldsAge, NonNegative(acct'), NEW s \in Starts, NEW r,
         start' = [start EXCEPT ![s] = r],
         RecOK(s, r, res', ledger', acct'), UNCHANGED <<room, call>>,
         \A t \in Starts : t # s =>
           /\ \A p \in Players : Fresh(t, p, ledger) => Fresh(t, p, ledger')
           /\ start[t].pc = "buyin" =>
                \A p \in start[t].todo : Cov(p, res, acct) => Cov(p, res', acct')
  PROVE  SettleInv'
<1>1. KnownHolds'
  BY MemoryKept DEF SettleInv, room
<1>2. ASSUME NEW t \in Starts PROVE RecOK(t, start'[t], res', ledger', acct')
  <2>1. CASE t = s
    BY <2>1 DEF StartsOK
  <2>2. CASE t # s
    <3>1. start'[t] = start[t]
      BY <2>2 DEF StartsOK
    <3>2. RecOK(t, start[t], res', ledger', acct')
      BY <2>2, RecKept, StartFacts DEF SettleInv, StartRecords
    <3> QED
      BY <3>1, <3>2
  <2> QED
    BY <2>1, <2>2
<1> QED
  BY <1>1, <1>2 DEF SettleInv, StartRecords

(* A posting leaves no balance negative and touches two of them.           *)
LEMMA PostMoney ==
  ASSUME WalletOK, NonNegative(acct), NEW k, NEW via, NEW amt \in Nat,
         NEW from \in Players \cup {House}, NEW to \in Players \cup {House},
         W!Post(k, from, to, amt, "deposit", via)
  PROVE  /\ NonNegative(acct')
         /\ \A a \in Players \cup {House} : a # from /\ a # to => acct'[a] = acct[a]
         /\ W!Total(acct'[to]) >= W!Total(acct[to])
         /\ \A key : key # k /\ ~W!KeyUsed(ledger, key) => ~W!KeyUsed(ledger', key)
<1>1. /\ acct' = [acct EXCEPT ![from] = W!Debited(from, acct[from], amt),
                              ![to]   = W!Credited(to, acct[to], amt, "deposit")]
      /\ from # to /\ W!Covers(from, acct[from], amt)
  BY DEF W!Post, WalletOK
<1>2. /\ acct'[from] = W!Debited(from, acct[from], amt)
      /\ acct'[to] = W!Credited(to, acct[to], amt, "deposit")
      /\ \A a \in Players \cup {House} : a # from /\ a # to => acct'[a] = acct[a]
  BY <1>1 DEF WalletOK
<1>3. W!Debited(from, acct[from], amt).dep >= 0 /\ W!Debited(from, acct[from], amt).win >= 0
  BY <1>1 DEF W!Covers
<1>4. /\ W!Credited(to, acct[to], amt, "deposit").dep = acct[to].dep + amt
      /\ W!Credited(to, acct[to], amt, "deposit").win = acct[to].win
  BY DEF W!Credited, W!CreditSide
<1>5. acct[to].dep \in Int /\ acct[to].win \in Int /\ acct[to].dep >= 0 /\ acct[to].win >= 0
  BY TotalIsInt DEF NonNegative
<1>6. NonNegative(acct')
  <2>1. ASSUME NEW a \in Players \cup {House} PROVE acct'[a].dep >= 0 /\ acct'[a].win >= 0
    <3>1. CASE a = from
      BY <1>2, <1>3, <3>1
    <3>2. CASE a = to
      BY <1>2, <1>4, <1>5, <3>2
    <3>3. CASE a # from /\ a # to
      BY <1>2, <3>3 DEF NonNegative
    <3> QED
      BY <3>1, <3>2, <3>3
  <2> QED
    BY <2>1 DEF NonNegative
<1>7. W!Total(acct'[to]) >= W!Total(acct[to])
  BY <1>2, <1>4, <1>5 DEF W!Total
<1>8. ASSUME NEW key, key # k, ~W!KeyUsed(ledger, key) PROVE ~W!KeyUsed(ledger', key)
  <2> DEFINE e == W!LedgerEntry(k, from, acct[from], to, acct[to], amt, "deposit", via)
  <2>1. e.key = k /\ ledger' = ledger \cup {e}
    BY DEF W!LedgerEntry, W!Post
  <2> HIDE DEF e
  <2> QED
    BY <1>8, <2>1 DEF W!KeyUsed
<1> QED
  BY <1>2, <1>6, <1>7, <1>8

(* A balance that is not negative on either side covers what it totals.    *)
LEMMA TotalCovers ==
  ASSUME WalletOK, NonNegative(acct), NEW a \in Players, NEW amt \in Nat, amt <= W!Total(acct[a])
  PROVE  W!Covers(a, acct[a], amt)
<1>1. acct[a].dep \in Int /\ acct[a].win \in Int /\ acct[a].dep >= 0 /\ acct[a].win >= 0
  BY TotalIsInt DEF NonNegative
<1>2. amt <= acct[a].dep + acct[a].win
  BY DEF W!Total
<1>3. CASE acct[a].win < amt
  <2>1. W!SplitDebit(a, acct[a], amt) = [dep |-> amt - acct[a].win, win |-> acct[a].win]
    BY <1>3 DEF W!SplitDebit
  <2>2. /\ W!Debited(a, acct[a], amt).dep = acct[a].dep - (amt - acct[a].win)
        /\ W!Debited(a, acct[a], amt).win = acct[a].win - acct[a].win
    BY <2>1 DEF W!Debited
  <2> QED
    BY <1>1, <1>2, <2>2 DEF W!Covers
<1>4. CASE ~(acct[a].win < amt)
  <2>1. W!SplitDebit(a, acct[a], amt) = [dep |-> amt - amt, win |-> amt]
    BY <1>4 DEF W!SplitDebit
  <2>2. /\ W!Debited(a, acct[a], amt).dep = acct[a].dep - (amt - amt)
        /\ W!Debited(a, acct[a], amt).win = acct[a].win - amt
    BY <2>1 DEF W!Debited
  <2> QED
    BY <1>1, <1>4, <2>2 DEF W!Covers
<1> QED
  BY <1>3, <1>4

LEMMA KeysApart ==
  ASSUME NEW s, NEW p, NEW t, NEW q
  PROVE  /\ BuyInKey(s, p) # RefundKey(t, q)
         /\ BuyInKey(s, p) = BuyInKey(t, q) => s = t /\ p = q
BY KeysDiffer

(* No two starts take buy-ins at the same time.                            *)
OneStartBuys ==
  \A s, t \in Starts : start[s].pc = "buyin" /\ start[t].pc = "buyin" => s = t

(* A debit of p by the start s: the accounts of the others stay, and their *)
(* keys stay fresh.                                                        *)
DebitOf(s, p) ==
  /\ HoldsAge /\ NonNegative(acct')
  /\ \A q \in Players : q # p => acct'[q] = acct[q]
  /\ \A h \in HoldKeys : h[1] # p => res'[h] = res[h]
  /\ \A t \in Starts, q \in Players :
       t # s \/ q # p => (Fresh(t, q, ledger) => Fresh(t, q, ledger'))

LEMMA DebitKeepsCov ==
  ASSUME NEW s \in Starts, NEW p \in Players, DebitOf(s, p), NEW q \in Players, q # p,
         Cov(q, res, acct)
  PROVE  Cov(q, res', acct')
BY DEF DebitOf, Cov

LEMMA CommitDebits ==
  ASSUME IInv, SettleInv, NEW s \in Starts, NEW p \in Players, start[s].map[p] # None,
         CommitEffect(s, p)
  PROVE  DebitOf(s, p) /\ Over(res'[start[s].map[p]])
<1> USE InvParts
<1> DEFINE h == start[s].map[p]
<1>1. h \in HoldKeys /\ h[1] = p
  BY StartFacts DEF StartState, HoldOrNone, OwnMap
<1>2. /\ W!Post(BuyInKey(s, p), res[h].wallet, House, res[h].amount, "deposit", h)
      /\ res' = [res EXCEPT ![h].status = "committed"]
      /\ res[h].status = "active"
  BY DEF CommitEffect, W!Settle
<1>3. res[h] \in W!Hold /\ res[h].wallet = p /\ res[h].amount \in Nat
  BY <1>1, <1>2 DEF WalletOK, W!Hold
<1>4. res'[h].status = "committed" /\ \A g \in HoldKeys : g # h => res'[g] = res[g]
  BY <1>1, <1>2, <1>3 DEF WalletOK, W!Hold
<1> HIDE DEF h
<1>5. /\ NonNegative(acct')
      /\ \A a \in Players \cup {House} : a # p /\ a # House => acct'[a] = acct[a]
      /\ \A key : key # BuyInKey(s, p) /\ ~W!KeyUsed(ledger, key) => ~W!KeyUsed(ledger', key)
  <2>1. W!Post(BuyInKey(s, p), p, House, res[h].amount, "deposit", h)
    BY <1>2, <1>3
  <2>2. /\ p \in Players \cup {House} /\ House \in Players \cup {House}
        /\ WalletOK /\ NonNegative(acct)
    BY DEF SettleInv
  <2> QED
    BY <1>3, <2>1, <2>2, PostMoney
<1>6. HoldsAge
  BY <1>2, <1>4 DEF HoldsAge, Over
<1>7. \A t \in Starts, q \in Players :
         t # s \/ q # p => (Fresh(t, q, ledger) => Fresh(t, q, ledger'))
  BY <1>5, KeysApart DEF Fresh
<1>8. \A g \in HoldKeys : g[1] # p => res'[g] = res[g]
  BY <1>1, <1>4
<1> QED
  BY <1>4, <1>5, <1>6, <1>7, <1>8, NamesAssumption DEF DebitOf, Over, h

LEMMA TransferDebits ==
  ASSUME IInv, SettleInv, NEW s \in Starts, NEW p \in Players, TransferEffect(s, p)
  PROVE  DebitOf(s, p)
<1> USE InvParts
<1>1. W!Post(BuyInKey(s, p), p, House, start[s].want[p], "deposit", None) /\ res' = res
  BY DEF TransferEffect, TransferKey, W!Move
<1>2. /\ NonNegative(acct')
      /\ \A a \in Players \cup {House} : a # p /\ a # House => acct'[a] = acct[a]
      /\ \A key : key # BuyInKey(s, p) /\ ~W!KeyUsed(ledger, key) => ~W!KeyUsed(ledger', key)
  <2>1. /\ p \in Players \cup {House} /\ House \in Players \cup {House}
        /\ WalletOK /\ NonNegative(acct)
    BY DEF SettleInv
  <2>2. start[s].want[p] \in Nat
    BY WantIsNat
  <2> QED
    BY <1>1, <2>1, <2>2, PostMoney
<1>3. \A t \in Starts, q \in Players :
         t # s \/ q # p => (Fresh(t, q, ledger) => Fresh(t, q, ledger'))
  BY <1>2, KeysApart DEF Fresh
<1> QED
  BY <1>1, <1>2, <1>3, NamesAssumption DEF DebitOf, HoldsAge

LEMMA NoDebit ==
  ASSUME SettleInv, UNCHANGED wallet, NEW s \in Starts, NEW p \in Players PROVE DebitOf(s, p)
BY DEF SettleInv, DebitOf, HoldsAge, wallet

(* While s takes buy-ins, no other start does: a debit of it disturbs      *)
(* nothing of theirs.                                                      *)
LEMMA DebitStart ==
  ASSUME StartsOK, SettleInv, HandlersOK, OneStartBuys, NEW s \in Starts, NEW p \in Players,
         DebitOf(s, p), start[s].pc = "buyin", NEW r, start' = [start EXCEPT ![s] = r],
         RecOK(s, r, res', ledger', acct'), UNCHANGED <<room, call>>
  PROVE  SettleInv'
<1>1. ASSUME NEW t \in Starts, t # s
      PROVE  /\ \A q \in Players : Fresh(t, q, ledger) => Fresh(t, q, ledger')
             /\ start[t].pc # "buyin"
  BY <1>1 DEF DebitOf, OneStartBuys
<1>2. HoldsAge /\ NonNegative(acct')
  BY DEF DebitOf
<1> QED
  BY <1>1, <1>2, PostingStart

(* What the theorem is about: rounds the scheduler starts, whose commits   *)
(* and releases are answered.                                              *)
ScheduledAndAnswered ==
  /\ \A s \in Starts : Path[s] = "scheduler"
  /\ "commit" \notin Faulty /\ "release" \notin Faulty

LEMMA NoFault == ASSUME NEW kind, kind \notin Faulty PROVE ~Fault(kind)
BY DEF Fault

LEMMA RecNow ==
  ASSUME SettleInv, NEW s \in Starts PROVE RecOK(s, start[s], res, ledger, acct)
BY DEF SettleInv, StartRecords

LEMMA StartGameSettles ==
  ASSUME ScheduledAndAnswered, IInv, SettleInv, NEW s \in Starts, StartGame(s) PROVE SettleInv'
<1> USE InvParts
<1> DEFINE r == [start[s] EXCEPT !.pc = "filter", !.want = armed, !.had = held, !.map = held]
<1>1. start' = [start EXCEPT ![s] = r]
  <2>1. Path[s] = "scheduler"
    BY DEF ScheduledAndAnswered
  <2> QED
    BY <2>1 DEF StartGame, StartsOK
<1>2. r.pc = "filter" /\ r.had = held /\ r.map = held /\ r.fallback = start[s].fallback
  BY StartFacts DEF StartState
<1>3. start[s].pc = "idle" /\ UNCHANGED <<wallet, room, call>>
  BY DEF StartGame
<1> HIDE DEF r
<1>4. RecOK(s, r, res, ledger, acct)
  BY <1>2, <1>3, RecNow DEF RecOK, Behind, SettleInv, KnownHolds
<1>5. RecOK(s, r, res', ledger', acct')
  <2>1. res' = res /\ ledger' = ledger /\ acct' = acct
    BY <1>3 DEF wallet
  <2> QED
    BY <1>4, <2>1
<1> QED
  BY <1>1, <1>3, <1>5, UntouchedIsCalm, CalmStart DEF room

LEMMA CheckFundsSettles ==
  ASSUME IInv, SettleInv, NEW s \in Starts, CheckFunds(s) PROVE SettleInv'
<1> USE InvParts
<1> DEFINE able == {p \in Players : start[s].want[p] > 0 /\ CanPay(p)}
           r == [start[s] EXCEPT !.pc = "buyin", !.eligible = able, !.todo = able]
<1>1. start' = [start EXCEPT ![s] = r]
  BY DEF CheckFunds, StartsOK
<1>2. /\ r.pc = "buyin" /\ r.had = start[s].had /\ r.map = start[s].map
      /\ r.fallback = start[s].fallback /\ r.eligible \ r.todo = {} /\ r.todo = able
  BY StartFacts DEF StartState
<1>3. start[s].pc = "filter" /\ UNCHANGED <<wallet, room, call>>
  BY DEF CheckFunds
<1>4. ASSUME NEW p \in able PROVE Cov(p, res, acct)
  <2>1. p \in Players /\ 1 <= W!Available(p)
    BY DEF CanPay
  <2>2. W!Total(acct[p]) \in Int
    BY <2>1, TotalIsInt
  <2>3. W!HoldTotal(res, p) \in Nat /\ W!HoldTotal(res, p) <= W!Total(acct[p])
    BY <2>1, <2>2, HeldInTotal DEF W!Available
  <2>4. ASSUME NEW h \in HoldKeys, h[1] = p, res[h].status = "active"
        PROVE  res[h].amount <= W!Total(acct[p])
    <3>1. res[h].amount <= W!HoldTotal(res, p) /\ res[h].amount \in Nat
      BY <2>1, <2>4, HeldInTotal, ActiveHoldsAre DEF WalletOK, W!Hold
    <3> QED
      BY <2>2, <2>3, <3>1
  <2> QED
    BY <2>4 DEF Cov
<1> HIDE DEF r, able
<1>5. RecOK(s, r, res, ledger, acct)
  BY <1>2, <1>3, <1>4, RecNow DEF RecOK, Behind
<1>6. RecOK(s, r, res', ledger', acct')
  <2>1. res' = res /\ ledger' = ledger /\ acct' = acct
    BY <1>3 DEF wallet
  <2> QED
    BY <1>5, <2>1
<1> QED
  BY <1>1, <1>3, <1>6, UntouchedIsCalm, CalmStart DEF room

LEMMA BuyInsDoneSettles ==
  ASSUME IInv, SettleInv, NEW s \in Starts, BuyInsDone(s) PROVE SettleInv'
<1> USE InvParts
<1> DEFINE r == [start[s] EXCEPT !.pc = "orphans", !.todo = Orphans(s)]
<1>1. start' = [start EXCEPT ![s] = r]
  BY DEF BuyInsDone, StartsOK
<1>2. /\ r.pc = "orphans" /\ r.had = start[s].had /\ r.map = start[s].map
      /\ r.todo = {p \in Players : start[s].map[p] # None} \ start[s].eligible
  BY StartFacts DEF StartState, Orphans
<1>3. start[s].pc = "buyin" /\ start[s].todo = {} /\ UNCHANGED <<wallet, room, call>>
  BY DEF BuyInsDone
<1> HIDE DEF r
<1>4. RecOK(s, r, res, ledger, acct)
  BY <1>2, <1>3, RecNow DEF RecOK, Behind
<1>5. RecOK(s, r, res', ledger', acct')
  <2>1. res' = res /\ ledger' = ledger /\ acct' = acct
    BY <1>3 DEF wallet
  <2> QED
    BY <1>4, <2>1
<1> QED
  BY <1>1, <1>3, <1>5, UntouchedIsCalm, CalmStart DEF room

(* The steps after which nothing more is asked of the reservations, or     *)
(* exactly what was asked before.                                          *)
LEMMA FinishSettles ==
  ASSUME IInv, SettleInv, NEW s \in Starts, NEW pc, UNCHANGED <<wallet, call>>,
         start' = [start EXCEPT ![s].pc = pc],
         \/ pc = "installed" /\ start[s].pc = "orphans" /\ start[s].todo = {}
         \/ pc = "done" /\ start[s].pc = "installed"
         \/ pc \in {"release", "failed"} /\ start[s].pc # "idle",
         \A p \in Players : held'[p] # None => held'[p] = held[p]
  PROVE  SettleInv'
<1> USE InvParts
<1> DEFINE r == [start[s] EXCEPT !.pc = pc]
<1>1. start' = [start EXCEPT ![s] = r]
  BY DEF StartsOK
<1>2. r.pc = pc /\ r.had = start[s].had /\ r.map = start[s].map
  BY StartFacts DEF StartState
<1> HIDE DEF r
<1>3. RecOK(s, r, res, ledger, acct)
  BY <1>2, RecNow DEF RecOK, Behind
<1>4. RecOK(s, r, res', ledger', acct')
  <2>1. res' = res /\ ledger' = ledger /\ acct' = acct
    BY DEF wallet
  <2> QED
    BY <1>3, <2>1
<1> QED
  BY <1>1, <1>4, UntouchedIsCalm, CalmStart

LEMMA ReturnSettles ==
  ASSUME IInv, SettleInv, NEW s \in Starts, Return(s) PROVE SettleInv'
<1>1. \A p \in Players : held'[p] # None => held'[p] = held[p]
  BY DEF Return, room
<1>2. UNCHANGED <<wallet, call>> /\ start' = [start EXCEPT ![s].pc = "done"] /\ start[s].pc = "installed"
  BY DEF Return
<1> QED
  BY <1>1, <1>2, FinishSettles

LEMMA InstallSettles ==
  ASSUME IInv, SettleInv, NEW s \in Starts, Install(s) PROVE SettleInv'
BY FinishSettles DEF Install, room

LEMMA RefundsDoneSettles ==
  ASSUME IInv, SettleInv, NEW s \in Starts, RefundsDone(s) PROVE SettleInv'
<1>1. PICK pc \in {"release", "failed"} : start' = [start EXCEPT ![s].pc = pc]
  BY DEF RefundsDone
<1> QED
  BY <1>1, FinishSettles DEF RefundsDone, room

(* A failed start is asked for nothing.                                    *)
LEMMA RollBackSettles ==
  ASSUME IInv, SettleInv, NEW s \in Starts, RollBack(s), start[s].pc # "idle",
         UNCHANGED <<room, call>>,
         UNCHANGED wallet \/ (OneStartBuys /\ start[s].pc = "buyin"
                                /\ \E p \in Players : DebitOf(s, p))
  PROVE  SettleInv'
<1> USE InvParts
<1> DEFINE r == [start[s] EXCEPT !.pc = "refund", !.fallback = {}]
<1>1. start' = [start EXCEPT ![s] = r]
  BY DEF RollBack, StartsOK
<1>2. r.pc = "refund" /\ r.had = start[s].had /\ r.map = start[s].map
  BY StartFacts DEF StartState
<1>3. HoldsAge
  BY DEF DebitOf, HoldsAge, wallet
<1>4. \A p \in Players : start[s].map[p] # None => start[s].map[p] \in HoldKeys
  BY StartFacts DEF StartState, HoldOrNone
<1> HIDE DEF r
<1>5. RecOK(s, r, res', ledger', acct')
  BY <1>2, <1>3, <1>4, RecNow DEF RecOK, Behind, HoldsAge
<1>6. CASE UNCHANGED wallet
  BY <1>1, <1>5, <1>6, UntouchedIsCalm, CalmStart DEF room
<1>7. CASE OneStartBuys /\ start[s].pc = "buyin" /\ \E p \in Players : DebitOf(s, p)
  BY <1>1, <1>5, <1>7, DebitStart
<1> QED
  BY <1>6, <1>7

(* The player p has been debited by the start s.                           *)
LEMMA DebitedSettles ==
  ASSUME IInv, SettleInv, OneStartBuys, NEW s \in Starts, NEW p \in Players, Buying(s, p),
         DebitOf(s, p), Debited(s, p), UNCHANGED <<room, call>>,
         start[s].fallback \subseteq {p},
         start[s].map[p] # None => Over(res'[start[s].map[p]])
  PROVE  SettleInv'
<1> USE InvParts
<1> DEFINE r == [start[s] EXCEPT !.debited = @ \cup {p}, !.todo = @ \ {p}, !.fallback = {}]
<1>1. start' = [start EXCEPT ![s] = r]
  BY DEF Debited, StartsOK
<1>2. /\ r.pc = "buyin" /\ r.had = start[s].had /\ r.map = start[s].map
      /\ r.eligible = start[s].eligible /\ r.todo = start[s].todo \ {p} /\ r.fallback = {}
      /\ start[s].pc = "buyin"
  BY StartFacts DEF StartState, Buying
<1>3. HoldsAge
  BY DEF DebitOf
<1>4. \A q \in Players : start[s].map[q] # None => start[s].map[q] \in HoldKeys
  BY StartFacts DEF StartState, HoldOrNone
<1>5. \A q \in Players : q # p =>
        /\ Fresh(s, q, ledger) => Fresh(s, q, ledger')
        /\ Cov(q, res, acct) => Cov(q, res', acct')
  BY DebitKeepsCov DEF DebitOf
<1> HIDE DEF r
<1>6. ASSUME NEW q \in Players
      PROVE  /\ r.map[q] # None => res'[r.map[q]].status # "none"
             /\ q \in r.todo => Fresh(s, q, ledger') /\ Cov(q, res', acct')
             /\ Behind(r, q) /\ r.map[q] # None => Over(res'[r.map[q]])
  <2>1. RecOK(s, start[s], res, ledger, acct)
    BY RecNow
  <2>2. r.map[q] # None => res'[r.map[q]].status # "none"
    BY <1>2, <1>3, <1>4, <2>1 DEF RecOK, HoldsAge
  <2>3. q \in r.todo => Fresh(s, q, ledger') /\ Cov(q, res', acct')
    BY <1>2, <1>5, <2>1 DEF RecOK
  <2>4. ASSUME Behind(r, q), r.map[q] # None, q # p PROVE Over(res'[r.map[q]])
    <3>1. Behind(start[s], q)
      BY <1>2, <2>4 DEF Behind
    <3> QED
      BY <1>2, <1>3, <1>4, <2>1, <2>4, <3>1 DEF RecOK, HoldsAge
  <2> QED
    BY <1>2, <2>2, <2>3, <2>4
<1>7. RecOK(s, r, res', ledger', acct')
  <2>1. r.map = r.had
    BY <1>2, RecNow DEF RecOK
  <2> QED
    BY <1>2, <1>6, <2>1 DEF RecOK
<1> QED
  BY <1>1, <1>2, <1>7, DebitStart

LEMMA CommitSettles ==
  ASSUME IInv, SettleInv, OneStartBuys, NEW s \in Starts, NEW p \in Players, CommitReservation(s, p)
  PROVE  SettleInv'
<1>1. /\ start[s].map[p] # None /\ Buying(s, p) /\ start[s].fallback = {}
      /\ CommitEffect(s, p) /\ Debited(s, p) /\ UNCHANGED <<room, call>>
  BY DEF CommitReservation, Committing
<1>2. DebitOf(s, p) /\ Over(res'[start[s].map[p]])
  BY <1>1, CommitDebits
<1> QED
  BY <1>1, <1>2, DebitedSettles

(* Where a transfer pays, no reservation is left to commit.                *)
LEMMA TransferringIsOver ==
  ASSUME SettleInv, NEW s \in Starts, NEW p \in Players, Transferring(s, p), start[s].map[p] # None
  PROVE  Over(res[start[s].map[p]])
<1>1. start[s].fallback = {p} /\ start[s].pc = "buyin"
  BY DEF Transferring, Buying
<1>2. Behind(start[s], p)
  BY <1>1 DEF Behind
<1> QED
  BY <1>2, RecNow DEF RecOK

LEMMA TransferSettles ==
  ASSUME IInv, SettleInv, OneStartBuys, NEW s \in Starts, NEW p \in Players, TransferBuyIn(s, p)
  PROVE  SettleInv'
<1>1. /\ Transferring(s, p) /\ Buying(s, p) /\ start[s].fallback \subseteq {p}
      /\ TransferEffect(s, p) /\ Debited(s, p) /\ UNCHANGED <<room, call>>
  BY DEF TransferBuyIn, Transferring
<1>2. DebitOf(s, p) /\ res' = res
  BY <1>1, TransferDebits DEF TransferEffect, W!Move
<1>3. start[s].map[p] # None => Over(res'[start[s].map[p]])
  BY <1>1, <1>2, TransferringIsOver
<1> QED
  BY <1>1, <1>2, <1>3, DebitedSettles

LEMMA TransferFailsSettles ==
  ASSUME IInv, SettleInv, OneStartBuys, NEW s \in Starts, NEW p \in Players, TransferFails(s, p)
  PROVE  SettleInv'
<1>1. /\ RollBack(s) /\ start[s].pc = "buyin" /\ UNCHANGED <<room, call>>
      /\ UNCHANGED wallet \/ TransferEffect(s, p)
  BY DEF TransferFails, Transferring, Buying
<1>2. UNCHANGED wallet \/ DebitOf(s, p)
  BY <1>1, TransferDebits
<1> QED
  BY <1>1, <1>2, RollBackSettles

(* A commit fails because the reservation is over: its key is fresh, and   *)
(* the balance covers it.                                                  *)
LEMMA CommitFailsSettles ==
  ASSUME ScheduledAndAnswered, IInv, SettleInv, NEW s \in Starts, NEW p \in Players, CommitFails(s, p)
  PROVE  SettleInv'
<1> USE InvParts
<1> DEFINE r == [start[s] EXCEPT !.fallback = {p}]
           h == start[s].map[p]
<1>1. start' = [start EXCEPT ![s] = r]
  BY DEF CommitFails, StartsOK
<1>2. /\ r.pc = "buyin" /\ r.had = start[s].had /\ r.map = start[s].map
      /\ r.eligible = start[s].eligible /\ r.todo = start[s].todo /\ r.fallback = {p}
      /\ start[s].pc = "buyin" /\ p \in start[s].todo
  BY StartFacts DEF StartState, CommitFails, Committing, Buying
<1>3. h \in HoldKeys /\ h # None /\ h[1] = p
  BY StartFacts, NoneIsNoHold DEF StartState, HoldOrNone, OwnMap, CommitFails, Committing
<1>4. /\ UNCHANGED wallet /\ UNCHANGED <<room, call>>
      /\ res[h].status # "active" \/ ~Payable(BuyInKey(s, p), p, res[h].amount)
  <2>1. ~Fault("commit")
    BY NoFault DEF ScheduledAndAnswered
  <2> QED
    BY <2>1 DEF CommitFails
<1> HIDE DEF r, h
<1>5. RecOK(s, start[s], res, ledger, acct)
  BY RecNow
<1>6. Fresh(s, p, ledger) /\ Cov(p, res, acct)
  BY <1>2, <1>5 DEF RecOK
<1>7. Over(res[h])
  <2>1. res[h].status # "none"
    BY <1>3, <1>5 DEF RecOK, h
  <2>2. ASSUME res[h].status = "active" PROVE FALSE
    <3>1. res[h].amount \in Nat /\ res[h].amount <= W!Total(acct[p])
      BY <1>3, <1>6, <2>2 DEF Cov, WalletOK, W!Hold
    <3>2. W!Covers(p, acct[p], res[h].amount)
      BY <3>1, TotalCovers DEF SettleInv
    <3> QED
      BY <1>4, <1>6, <2>2, <3>2 DEF Payable, Fresh
  <2> QED
    BY <2>1, <2>2 DEF Over
<1>8. RecOK(s, r, res, ledger, acct)
  <2>1. ASSUME NEW q \in Players, Behind(r, q), r.map[q] # None PROVE Over(res[r.map[q]])
    <3>1. CASE q = p
      BY <1>2, <1>7, <3>1 DEF h
    <3>2. CASE q # p
      <4>1. Behind(start[s], q)
        BY <1>2, <2>1, <3>2 DEF Behind
      <4> QED
        BY <1>2, <1>5, <2>1, <4>1 DEF RecOK
    <3> QED
      BY <3>1, <3>2
  <2> QED
    BY <1>2, <1>5, <2>1 DEF RecOK
<1>9. RecOK(s, r, res', ledger', acct')
  <2>1. res' = res /\ ledger' = ledger /\ acct' = acct
    BY <1>4 DEF wallet
  <2> QED
    BY <1>8, <2>1
<1> QED
  BY <1>1, <1>4, <1>9, UntouchedIsCalm, CalmStart DEF room

LEMMA ReleaseRestSettles ==
  ASSUME ScheduledAndAnswered, IInv, SettleInv, NEW s \in Starts, NEW p \in Players, ReleaseRest(s, p)
  PROVE  SettleInv'
<1> USE InvParts
<1> DEFINE r == [start[s] EXCEPT !.todo = @ \ {p}]
<1>1. start' = [start EXCEPT ![s] = r]
  BY DEF ReleaseRest, StartsOK
<1>2. /\ r.pc = start[s].pc /\ r.had = start[s].had /\ r.map = start[s].map
      /\ r.todo = start[s].todo \ {p} /\ start[s].pc \in {"orphans", "release"}
  BY StartFacts DEF StartState, ReleaseRest
<1>3. \A q \in Players : start[s].map[q] # None => start[s].map[q] \in HoldKeys
  BY StartFacts DEF StartState, HoldOrNone
<1>4. UNCHANGED <<room, call>> /\ ~Fault("release")
  BY NoFault DEF ReleaseRest, ScheduledAndAnswered
<1>5. RecOK(s, start[s], res, ledger, acct)
  BY RecNow
<1>6. Calm /\ (start[s].map[p] # None => Over(res'[start[s].map[p]]))
  <2>1. CASE start[s].map[p] # None /\ ReleaseAll(start[s].map[p])
    BY <1>3, <2>1, ReleaseAllCalm
  <2>2. CASE /\ start[s].map[p] # None => res[start[s].map[p]].status # "active"
             /\ UNCHANGED wallet
    BY <1>5, <2>2, UntouchedIsCalm DEF RecOK, Over, wallet
  <2> QED
    BY <1>4, <2>1, <2>2 DEF ReleaseRest
<1> HIDE DEF r
<1>7. RecOK(s, r, res', ledger', acct')
  <2>1. RecOK(s, start[s], res', ledger', acct')
    BY <1>5, <1>6, CalmKeepsRec, StartFacts
  <2>2. ASSUME NEW q \in Players, Behind(r, q), r.map[q] # None PROVE Over(res'[r.map[q]])
    <3>1. CASE q = p
      BY <1>2, <1>6, <2>2, <3>1
    <3>2. CASE q # p
      <4>1. Behind(start[s], q)
        BY <1>2, <2>2, <3>2 DEF Behind
      <4> QED
        BY <1>2, <2>1, <2>2, <4>1 DEF RecOK
    <3> QED
      BY <3>1, <3>2
  <2> QED
    BY <1>2, <2>1, <2>2 DEF RecOK
<1> QED
  BY <1>1, <1>4, <1>6, <1>7, CalmStart DEF room

LEMMA RefundSettles ==
  ASSUME IInv, SettleInv, NEW s \in Starts, NEW p \in Players, Refund(s, p) PROVE SettleInv'
<1> USE InvParts
<1> DEFINE r == [start[s] EXCEPT !.debited = @ \ {p}, !.eligible = @ \ {p}]
<1>1. start' = [start EXCEPT ![s] = r]
  BY DEF Refund, StartsOK
<1>2. r.pc = "refund" /\ r.had = start[s].had /\ r.map = start[s].map /\ start[s].pc = "refund"
  BY StartFacts DEF StartState, Refund
<1>3. \A q \in Players : start[s].map[q] # None => start[s].map[q] \in HoldKeys
  BY StartFacts DEF StartState, HoldOrNone
<1> HIDE DEF r
<1>4. UNCHANGED <<room, call>> /\ (UNCHANGED wallet \/ RefundEffect(s, p))
  BY DEF Refund
<1>5. ASSUME HoldsAge PROVE RecOK(s, r, res', ledger', acct')
  BY <1>2, <1>3, <1>5, RecNow DEF RecOK, Behind, HoldsAge
<1>6. CASE UNCHANGED wallet
  <2>1. Calm
    BY <1>6, UntouchedIsCalm
  <2> QED
    BY <1>1, <1>4, <1>5, <2>1, CalmStart DEF Calm, room
<1>7. CASE RefundEffect(s, p)
  <2>1. W!Post(RefundKey(s, p), House, p, start[s].want[p], "deposit", None) /\ res' = res
    BY <1>7 DEF RefundEffect, W!Move
  <2>2. /\ p \in Players \cup {House} /\ House \in Players \cup {House}
        /\ WalletOK /\ NonNegative(acct) /\ start[s].want[p] \in Nat
    BY WantIsNat DEF SettleInv
  <2>3. /\ NonNegative(acct')
        /\ \A a \in Players \cup {House} : a # House /\ a # p => acct'[a] = acct[a]
        /\ W!Total(acct'[p]) >= W!Total(acct[p])
        /\ \A key : key # RefundKey(s, p) /\ ~W!KeyUsed(ledger, key) => ~W!KeyUsed(ledger', key)
    BY <2>1, <2>2, PostMoney
  <2>4. HoldsAge
    BY <2>1 DEF HoldsAge
  <2>5. \A t \in Starts, q \in Players : Fresh(t, q, ledger) => Fresh(t, q, ledger')
    BY <2>3, KeysApart DEF Fresh
  <2>6. ASSUME NEW q \in Players, Cov(q, res, acct) PROVE Cov(q, res', acct')
    <3>1. CASE q # p
      BY <2>1, <2>3, <2>6, <3>1, NamesAssumption DEF Cov
    <3>2. CASE q = p
      <4>1. W!Total(acct[p]) \in Int /\ W!Total(acct'[p]) \in Int
        <5>1. WalletOK'
          BY <2>1, <2>2, MoveOps, KeysArePostings DEF W!Move
        <5>2. acct'[p] \in W!Balance
          BY <5>1 DEF WalletOK
        <5> QED
          BY <5>2, TotalIsInt DEF W!Total, W!Balance
      <4>2. ASSUME NEW h \in HoldKeys, h[1] = p, res[h].status = "active"
            PROVE  res[h].amount <= W!Total(acct'[p])
        <5>1. res[h].amount \in Nat /\ res[h].amount <= W!Total(acct[p])
          BY <2>6, <3>2, <4>2 DEF Cov, WalletOK, W!Hold
        <5> QED
          BY <2>3, <4>1, <5>1
      <4> QED
        BY <2>1, <3>2, <4>2 DEF Cov
    <3> QED
      BY <3>1, <3>2
  <2>7. \A t \in Starts : start[t].todo \subseteq Players
    BY StartFacts DEF StartState
  <2> QED
    BY <1>1, <1>4, <1>5, <2>3, <2>4, <2>5, <2>6, <2>7, PostingStart
<1> QED
  BY <1>4, <1>6, <1>7

LEMMA StartStepSettles ==
  ASSUME ScheduledAndAnswered, OneStartBuys, IInv, SettleInv, NEW s \in Starts,
         StartGame(s) \/ StartStep(s) \/ BookingFails(s)
  PROVE  SettleInv'
<1>1. CASE BookingFails(s)
  <2>1. RollBack(s) /\ start[s].pc # "idle" /\ UNCHANGED <<wallet, room, call>>
    BY <1>1 DEF BookingFails
  <2> QED
    BY <2>1, RollBackSettles
<1> QED
  BY <1>1, StartGameSettles, CheckFundsSettles, BuyInsDoneSettles, InstallSettles, ReturnSettles,
     RefundsDoneSettles, CommitSettles, CommitFailsSettles, TransferSettles, TransferFailsSettles,
     ReleaseRestSettles, RefundSettles DEF StartStep

LEMMA CrashSettles ==
  ASSUME IInv, SettleInv, Crash PROVE SettleInv'
<1> USE InvParts
<1>1. UNCHANGED wallet /\ Idle.pc = "idle"
  BY DEF Crash, Idle
<1>2. Calm
  BY <1>1, UntouchedIsCalm
<1>3. KnownHolds'
  <2>1. held' = [p \in Players |-> None] /\ call' = [c \in Calls |-> Idle]
    BY DEF Crash
  <2> QED
    BY <1>1, <2>1 DEF KnownHolds
<1>4. ASSUME NEW s \in Starts PROVE RecOK(s, start'[s], res', ledger', acct')
  <2> DEFINE r == [start[s] EXCEPT !.pc = "crashed"]
  <2>1. start'[s] = start[s] \/ (s \in Open /\ start'[s] = r)
    BY DEF Crash
  <2>2. RecOK(s, start[s], res', ledger', acct')
    BY <1>2, RecNow, CalmKeepsRec, StartFacts
  <2>3. r.pc = "crashed" /\ r.map = start[s].map /\ r.had = start[s].had
    BY StartFacts DEF StartState
  <2> HIDE DEF r
  <2>4. s \in Open => RecOK(s, r, res', ledger', acct')
    BY <2>2, <2>3 DEF RecOK, Behind, Open
  <2> QED
    BY <2>1, <2>2, <2>4
<1> QED
  BY <1>2, <1>3, <1>4, CalmKeepsMoney DEF SettleInv, StartRecords

LEMMA NextSettles ==
  ASSUME ScheduledAndAnswered, OneStartBuys, IInv, SettleInv, [Next]_vars PROVE SettleInv'
<1> USE InvParts
<1>1. CASE UNCHANGED <<acct, res, ledger, outbox, held, call, start>>
  BY <1>1 DEF SettleInv, KnownHolds, StartRecords
<1>2. ASSUME NEW c \in Calls, Handler(c) PROVE SettleInv'
  <2>1. Calm /\ KnownHolds' /\ UNCHANGED start
    BY <1>2, HandlerCalm, HandlerKnowsHolds
    DEF SettleInv, Handler, SocketStep, Reserved, ReserveRefused, ArmPlayer, Released, DisarmPlayer,
        ReleasedPart, CallFails, BetArm, Disarm, CancelTicket
  <2> QED
    BY <2>1, CalmKeepsStarts, CalmKeepsMoney DEF SettleInv
<1>3. ASSUME NEW h \in HoldKeys, ExpireHold(h) PROVE SettleInv'
  <2>1. Calm /\ UNCHANGED <<held, call, start>>
    BY <1>3, ExpireCalm DEF ExpireHold, room
  <2>2. KnownHolds'
    BY <2>1, MemoryKept DEF SettleInv, Calm
  <2> QED
    BY <2>1, <2>2, CalmKeepsStarts, CalmKeepsMoney DEF SettleInv
<1> QED
  BY <1>1, <1>2, <1>3, StartStepSettles, CrashSettles
  DEF Next, Handler, EndGame, vars, wallet, room

LEMMA InitSettles == Init => SettleInv
<1> SUFFICES ASSUME Init PROVE SettleInv
  OBVIOUS
<1>1. NonNegative(acct)
  <2>1. ASSUME NEW a \in Players \cup {House} PROVE acct[a].dep >= 0 /\ acct[a].win >= 0
    <3>1. acct[a] = W!OpeningBalance(a)
      BY DEF Init, W!Init, W!Accounts
    <3>2. W!OpeningBalance(a) = [dep |-> Opening[a], win |-> 0, chain |-> 0]
      BY DEF W!OpeningBalance
    <3>3. Opening[a] \in Nat
      BY OpeningAssumption
    <3> QED
      BY <3>1, <3>2, <3>3
  <2> QED
    BY <2>1 DEF NonNegative
<1>2. KnownHolds
  BY DEF Init, KnownHolds, Idle
<1>3. ASSUME NEW s \in Starts PROVE RecOK(s, start[s], res, ledger, acct)
  <2>1. start[s] = NotStarted /\ ledger = {}
    BY DEF Init, W!Init
  <2>2. /\ NotStarted.pc = "idle" /\ NotStarted.fallback = {}
        /\ \A p \in Players : NotStarted.map[p] = None
    BY DEF NotStarted
  <2> QED
    BY <2>1, <2>2 DEF RecOK, Behind, Fresh, W!KeyUsed
<1> QED
  BY <1>1, <1>2, <1>3 DEF SettleInv, StartRecords

(* A round that has started leaves none of the reservations its armed      *)
(* players had active: for any number of players, tickets and rounds, with *)
(* socket calls, transfers, refunds and bookings that fail, reservations   *)
(* that expire in the middle of the start, and restarts.  The start is one *)
(* of the scheduler (the other callers pass no reservations), and no other *)
(* start takes buy-ins of the same room meanwhile.                         *)
THEOREM StartedRoundsSettleHolds ==
  ASSUME ScheduledAndAnswered
  PROVE  Spec /\ []OneStartBuys => []RoundSettlesHolds
<1>1. IInv /\ SettleInv /\ OneStartBuys /\ [Next]_vars => SettleInv'
  BY NextSettles
<1>2. IInv /\ SettleInv => RoundSettlesHolds
  <2> SUFFICES ASSUME SettleInv, NEW s \in Starts, start[s].pc \in {"installed", "done"},
                      NEW p \in Players, start[s].had[p] # None
               PROVE  res[start[s].had[p]].status # "active"
    BY DEF RoundSettlesHolds
  <2>1. start[s].map = start[s].had /\ Behind(start[s], p)
    BY RecNow DEF RecOK, Behind
  <2> QED
    BY <2>1, RecNow DEF RecOK, Over
<1> QED
  BY <1>1, <1>2, InitSettles, Invariance, PTL DEF Spec

-----------------------------------------------------------------------------
(* The wallet arming works with is the one that the adapter is shown to    *)
(* implement when holds of one wallet are taken one at a time: each step   *)
(* is one of the wallet's atomic operations, with an amount that callers   *)
(* may ask for, or leaves the wallet alone.                                *)

Strict == INSTANCE WalletLedger WITH
            Players    <- Players \cup {House},
            System     <- {},
            Holds      <- HoldKeys,
            Keys       <- PostingKeys,
            Amounts    <- Nat \ {0},
            OpeningDep <- Opening,
            OpeningWin <- [a \in Players \cup {House} |-> 0]

UsesWallet == [Strict!StrictNext]_wallet

(* No hold, no call in flight and no debit of a start is of nothing.       *)
HoldsOfSomething == \A h \in HoldKeys : res[h].status = "active" => res[h].amount > 0

CallsForSomething ==
  \A c \in Calls : call[c].pc \in {"reserve", "increase", "cancel"} => call[c].amt > 0

WantsSomething(r) ==
  /\ r.pc = "idle" => r.debited = {}
  /\ \A p \in Players : p \in r.debited \/ (r.pc = "buyin" /\ p \in r.todo) => r.want[p] > 0

SomethingInv ==
  HoldsOfSomething /\ CallsForSomething /\ \A s \in Starts : WantsSomething(start[s])

LEMMA UntouchedUses == ASSUME UNCHANGED wallet PROVE UsesWallet
BY DEF UsesWallet

LEMMA TakeUses ==
  ASSUME NEW h \in HoldKeys, NEW p \in Players, NEW amt \in Nat, amt > 0,
         amt <= W!Available(p), W!Take(h, p, amt)
  PROVE  UsesWallet
<1>1. Strict!Take(h, p, amt)
  BY DEF W!Take, Strict!Take, W!Total, Strict!Total
<1>2. Strict!Available(p) = W!Available(p)
  BY DEF W!Available, Strict!Available, W!Total, Strict!Total, W!HoldTotal, Strict!HoldTotal,
         W!ActiveHolds, Strict!ActiveHolds, W!MapThenSumSet, Strict!MapThenSumSet,
         W!MapThenFoldSet, Strict!MapThenFoldSet
<1> QED
  BY <1>1, <1>2 DEF UsesWallet, Strict!StrictNext

LEMMA IncreaseUses ==
  ASSUME NEW h \in HoldKeys, NEW amt \in Nat, amt > 0,
         res[h].status = "active", amt <= W!Available(res[h].wallet), W!Increase(h, amt)
  PROVE  UsesWallet
<1>1. Strict!Increase(h, amt)
  BY DEF W!Increase, Strict!Increase, W!Total, Strict!Total
<1>2. Strict!Available(res[h].wallet) = W!Available(res[h].wallet)
  BY DEF W!Available, Strict!Available, W!Total, Strict!Total, W!HoldTotal, Strict!HoldTotal,
         W!ActiveHolds, Strict!ActiveHolds, W!MapThenSumSet, Strict!MapThenSumSet,
         W!MapThenFoldSet, Strict!MapThenFoldSet
<1> QED
  BY <1>1, <1>2 DEF UsesWallet, Strict!StrictNext

LEMMA ReleaseUses ==
  ASSUME NEW h \in HoldKeys, NEW amt \in Nat, amt > 0, W!Release(h, amt)
  PROVE  UsesWallet
<1>1. Strict!Release(h, amt)
  BY DEF W!Release, Strict!Release
<1> QED
  BY <1>1 DEF UsesWallet, Strict!StrictNext, Strict!Common

LEMMA ReleaseAllUses ==
  ASSUME WalletOK, HoldsOfSomething, NEW h \in HoldKeys, ReleaseAll(h)
  PROVE  UsesWallet
<1>1. res[h].amount \in Nat /\ res[h].amount > 0
  BY DEF WalletOK, HoldsOfSomething, ReleaseAll, W!Release, W!Hold
<1> QED
  BY <1>1, ReleaseUses DEF ReleaseAll

LEMMA ExpireUses ==
  ASSUME NEW h \in HoldKeys, W!Expire({h}) PROVE UsesWallet
<1>1. Strict!Expire({h})
  BY DEF W!Expire, Strict!Expire
<1> QED
  BY <1>1 DEF UsesWallet, Strict!StrictNext, Strict!Common

LEMMA PostUses ==
  ASSUME NEW k, NEW from, NEW to, NEW amt, NEW side, NEW via, W!Post(k, from, to, amt, side, via)
  PROVE  Strict!Post(k, from, to, amt, side, via)
BY DEF W!Post, Strict!Post, W!KeyUsed, Strict!KeyUsed, W!Covers, Strict!Covers,
       W!Debited, Strict!Debited, W!Credited, Strict!Credited, W!SplitDebit, Strict!SplitDebit,
       W!CreditSide, Strict!CreditSide, W!LedgerEntry, Strict!LedgerEntry,
       W!OutboxRows, Strict!OutboxRows

LEMMA MoveUses ==
  ASSUME NEW k \in PostingKeys, NEW from \in Players \cup {House}, NEW to \in Players \cup {House},
         NEW amt \in Nat, amt > 0, W!Move(k, from, to, amt, "deposit")
  PROVE  UsesWallet
<1>1. Strict!Move(k, from, to, amt, "deposit")
  BY PostUses DEF W!Move, Strict!Move
<1> QED
  BY <1>1 DEF UsesWallet, Strict!StrictNext, Strict!Common, Strict!Accounts, Strict!Sides

LEMMA SettleUses ==
  ASSUME NEW h \in HoldKeys, NEW k \in PostingKeys, W!Settle(h, k, House, "deposit")
  PROVE  UsesWallet
<1>1. Strict!Settle(h, k, House, "deposit")
  BY PostUses DEF W!Settle, Strict!Settle
<1> QED
  BY <1>1 DEF UsesWallet, Strict!StrictNext, Strict!Common, Strict!Accounts, Strict!Sides

(* The socket events.                                                      *)
LEMMA HandlerUses ==
  ASSUME IInv, SomethingInv, NEW c \in Calls, Handler(c)
  PROVE  UsesWallet
<1> USE InvParts
<1>1. CASE UNCHANGED wallet
  BY <1>1, UntouchedUses
<1>2. CASE call[c].pc = "idle"
  BY <1>1, <1>2 DEF Handler, SocketStep, CallFails, BetArm, Disarm, CancelTicket, Reserved,
     HoldIsReserved, TakesHold, FindsHold, RaisesHold, ReserveRefused, Refused, ArmPlayer,
     ArmsAfter, Released, DisarmPlayer, ReleasedPart
<1>3. CASE call[c].pc # "idle"
  <2>1. /\ call[c].hold \in HoldKeys /\ call[c].player \in Players /\ call[c].amt \in Nat
        /\ call[c].pc \in {"reserve", "increase", "cancel"} => call[c].amt > 0
    BY <1>3, CallFacts DEF SomethingInv, CallsForSomething
  <2>2. CASE HoldIsReserved(c)
    BY <1>1, <2>1, <2>2, TakeUses, IncreaseUses DEF HoldIsReserved, TakesHold, FindsHold, RaisesHold
  <2>3. CASE Released(c)
    BY <1>1, <2>1, <2>3, ReleaseAllUses DEF Released, SomethingInv
  <2>4. CASE ReleasedPart(c)
    BY <1>1, <2>1, <2>4, ReleaseUses DEF ReleasedPart
  <2> QED
    BY <1>1, <2>2, <2>3, <2>4 DEF Handler, SocketStep, CallFails, BetArm, Disarm, CancelTicket,
       Reserved, ReserveRefused, ArmPlayer, DisarmPlayer
<1> QED
  BY <1>2, <1>3

(* A start.                                                                *)
LEMMA StartUses ==
  ASSUME IInv, SomethingInv, NEW s \in Starts, StartStep(s)
  PROVE  UsesWallet
<1> USE InvParts
<1>1. CASE UNCHANGED wallet
  BY <1>1, UntouchedUses
<1>2. ASSUME NEW p \in Players
      PROVE  /\ start[s].want[p] \in Nat
             /\ start[s].map[p] # None => start[s].map[p] \in HoldKeys
             /\ BuyInKey(s, p) \in PostingKeys /\ RefundKey(s, p) \in PostingKeys
             /\ Buying(s, p) \/ p \in start[s].debited => start[s].want[p] > 0
  BY StartFacts, WantIsNat, KeysArePostings
  DEF StartState, HoldOrNone, SomethingInv, WantsSomething, Buying
<1>3. ASSUME NEW p \in Players, CommitReservation(s, p) \/ CommitFails(s, p) PROVE UsesWallet
  BY <1>1, <1>2, <1>3, SettleUses DEF CommitReservation, CommitFails, Committing, CommitEffect
<1>4. ASSUME NEW p \in Players, TransferBuyIn(s, p) \/ TransferFails(s, p) PROVE UsesWallet
  BY <1>1, <1>2, <1>4, MoveUses
  DEF TransferBuyIn, TransferFails, Transferring, TransferEffect, TransferKey
<1>5. ASSUME NEW p \in Players, Refund(s, p) PROVE UsesWallet
  BY <1>1, <1>2, <1>5, MoveUses DEF Refund, RefundEffect, ToRefund
<1>6. ASSUME NEW p \in Players, ReleaseRest(s, p) PROVE UsesWallet
  BY <1>1, <1>2, <1>6, ReleaseAllUses DEF ReleaseRest, SomethingInv
<1>7. CASE CheckFunds(s) \/ BuyInsDone(s) \/ RefundsDone(s)
  BY <1>1, <1>7, FundsAside DEF BuyInsDone, RefundsDone
<1>8. CASE Install(s) \/ Return(s)
  BY <1>1, <1>8 DEF Install, Return
<1> QED
  BY <1>3, <1>4, <1>5, <1>6, <1>7, <1>8 DEF StartStep

LEMMA NextUses ==
  ASSUME IInv, SomethingInv, [Next]_vars PROVE UsesWallet
<1>1. CASE UNCHANGED wallet
  BY <1>1, UntouchedUses
<1>2. ASSUME NEW h \in HoldKeys, ExpireHold(h) PROVE UsesWallet
  BY <1>2, ExpireUses DEF ExpireHold
<1>3. CASE UNCHANGED vars
  BY <1>1, <1>3 DEF vars
<1>4. ASSUME NEW s \in Starts, StartGame(s) \/ BookingFails(s) PROVE UsesWallet
  BY <1>1, <1>4 DEF StartGame, BookingFails
<1>5. CASE EndGame \/ Crash
  BY <1>1, <1>5 DEF EndGame, Crash
<1> QED
  BY <1>2, <1>3, <1>4, <1>5, HandlerUses, StartUses DEF Next, Handler
(* The amounts stay above nothing.                                         *)
LEMMA WalletHoldsSomething ==
  ASSUME WalletOK, HoldsOfSomething, UsesWallet PROVE HoldsOfSomething'
<1>1. CASE UNCHANGED wallet
  BY <1>1 DEF wallet, HoldsOfSomething
<1>2. \A h \in HoldKeys : res[h] \in W!Hold
  BY DEF WalletOK
<1>3. ASSUME NEW h \in HoldKeys, NEW p, NEW amt \in Nat \ {0}, Strict!Take(h, p, amt)
      PROVE  HoldsOfSomething'
  BY <1>3 DEF Strict!Take, HoldsOfSomething, WalletOK
<1>4. ASSUME NEW h \in HoldKeys, NEW amt \in Nat \ {0}, Strict!Increase(h, amt)
      PROVE  HoldsOfSomething'
  BY <1>2, <1>4 DEF Strict!Increase, HoldsOfSomething, WalletOK, W!Hold
<1>5. ASSUME NEW h \in HoldKeys, NEW amt \in Nat \ {0}, Strict!Release(h, amt)
      PROVE  HoldsOfSomething'
  <2>1. CASE amt >= res[h].amount
    BY <1>2, <1>5, <2>1 DEF Strict!Release, HoldsOfSomething, WalletOK, W!Hold
  <2>2. CASE ~(amt >= res[h].amount)
    <3>1. res' = [res EXCEPT ![h].amount = @ - amt]
      BY <1>5, <2>2 DEF Strict!Release
    <3>2. res[h].amount \in Nat /\ res[h].amount - amt > 0
      BY <1>2, <2>2 DEF W!Hold
    <3> QED
      BY <1>2, <3>1, <3>2 DEF HoldsOfSomething, WalletOK, W!Hold
  <2> QED
    BY <2>1, <2>2
<1>6. ASSUME NEW S \in SUBSET HoldKeys, Strict!Expire(S) PROVE HoldsOfSomething'
  BY <1>2, <1>6 DEF Strict!Expire, HoldsOfSomething, WalletOK, W!Hold
<1>7. ASSUME NEW h \in HoldKeys, NEW k, NEW to, NEW side, Strict!Settle(h, k, to, side)
      PROVE  HoldsOfSomething'
  BY <1>2, <1>7 DEF Strict!Settle, HoldsOfSomething, WalletOK, W!Hold
<1>8. ASSUME NEW k, NEW from, NEW to, NEW amt, NEW side, Strict!Move(k, from, to, amt, side)
      PROVE  HoldsOfSomething'
  BY <1>8 DEF Strict!Move, HoldsOfSomething
<1> QED
  BY <1>1, <1>3, <1>4, <1>5, <1>6, <1>7, <1>8 DEF UsesWallet, Strict!StrictNext, Strict!Common

LEMMA HandlerCallsSomething ==
  ASSUME HandlersOK, CallsForSomething, NEW c \in Calls, Handler(c) PROVE CallsForSomething'
<1>1. call \in [Calls -> CallState]
  BY DEF HandlersOK
<1>2. CASE Done(c)
  BY <1>1, <1>2 DEF Done, Idle, CallsForSomething
<1>3. ASSUME NEW pc, NEW p, NEW total, NEW h, NEW amt, Wait(c, pc, p, total, h, amt),
             pc = "release" \/ amt > 0
      PROVE  CallsForSomething'
  BY <1>1, <1>3 DEF Wait, CallsForSomething
<1>4. CASE UNCHANGED call
  BY <1>4 DEF CallsForSomething
<1>5. ASSUME NEW x \in {"reserved", "increased", "released"}, call' = [call EXCEPT ![c].pc = x]
      PROVE  CallsForSomething'
  BY <1>1, <1>5 DEF CallsForSomething, CallState
<1>6. CASE Reserved(c)
  <2>1. CASE call[c].pc = "reserve"
    BY <1>5, <1>6, <2>1 DEF Reserved
  <2>2. CASE call[c].pc # "reserve"
    BY <1>5, <1>6, <2>2 DEF Reserved
  <2> QED
    BY <2>1, <2>2
<1>7. CASE CallFails(c) \/ ReserveRefused(c) \/ ArmPlayer(c) \/ Released(c) \/ DisarmPlayer(c)
           \/ ReleasedPart(c)
  BY <1>2, <1>5, <1>7
  DEF CallFails, ReserveRefused, ArmPlayer, Released, DisarmPlayer, ReleasedPart
<1>8. ASSUME NEW p \in Players, NEW n \in 1..MaxTickets, BetArm(c, p, n)
      PROVE  CallsForSomething'
  <2>1. n - armed[p] > 0
    BY <1>8, TicketsAssumption DEF BetArm, HandlersOK
  <2> QED
    BY <1>3, <1>8, <2>1 DEF BetArm
<1>9. ASSUME NEW p \in Players, Disarm(c, p) \/ CancelTicket(c, p) PROVE CallsForSomething'
  BY <1>3, <1>4, <1>9 DEF Disarm, CancelTicket
<1> QED
  BY <1>6, <1>7, <1>8, <1>9 DEF Handler, SocketStep

(* What a start works on is what it set out for.                           *)
LEMMA StartWantsSomething ==
  ASSUME StartsOK, NEW s \in Starts, StartGame(s) \/ StartStep(s) \/ BookingFails(s),
         \A t \in Starts : WantsSomething(start[t])
  PROVE  \A t \in Starts : WantsSomething(start'[t])
<1>1. start[s] \in StartState /\ WantsSomething(start[s])
  BY StartFacts
<1>2. ASSUME NEW r, start' = [start EXCEPT ![s] = r], WantsSomething(r)
      PROVE  \A t \in Starts : WantsSomething(start'[t])
  BY <1>2 DEF StartsOK
<1> HIDE DEF WantsSomething
<1>3. CASE StartGame(s)
  <2> DEFINE r == [start[s] EXCEPT !.pc = "filter", !.want = armed, !.had = held,
                      !.map = IF Path[s] = "scheduler" THEN held ELSE @]
  <2>1. start' = [start EXCEPT ![s] = r]
    BY <1>3 DEF StartGame, StartsOK
  <2>2. WantsSomething(r)
    BY <1>1, <1>3 DEF StartGame, WantsSomething, StartState
  <2> HIDE DEF r
  <2> QED
    BY <1>2, <2>1, <2>2
<1>4. CASE CheckFunds(s)
  <2>1. PICK r : /\ start' = [start EXCEPT ![s] = r]
                 /\ r.pc = "buyin" /\ r.debited = start[s].debited /\ r.want = start[s].want
                 /\ \A p \in r.todo : r.want[p] > 0
    BY <1>4, FundsAreChecked
  <2>2. start[s].pc = "filter"
    BY <1>4, FundsAside
  <2>3. WantsSomething(r)
    BY <1>1, <2>1, <2>2 DEF WantsSomething
  <2> QED
    BY <1>2, <2>1, <2>3
<1>5. ASSUME NEW p \in Players, Debited(s, p), Buying(s, p)
      PROVE  \A t \in Starts : WantsSomething(start'[t])
  <2> DEFINE r == [start[s] EXCEPT !.debited = @ \cup {p}, !.todo = @ \ {p}, !.fallback = {}]
  <2>1. start' = [start EXCEPT ![s] = r]
    BY <1>5 DEF Debited, StartsOK
  <2>2. WantsSomething(r)
    BY <1>1, <1>5 DEF Buying, WantsSomething, StartState
  <2> HIDE DEF r
  <2> QED
    BY <1>2, <2>1, <2>2
<1>6. CASE RollBack(s) /\ start[s].pc # "idle"
  <2> DEFINE r == [start[s] EXCEPT !.pc = "refund", !.fallback = {}]
  <2>1. start' = [start EXCEPT ![s] = r]
    BY <1>6 DEF RollBack, StartsOK
  <2>2. WantsSomething(r)
    BY <1>1, <1>6 DEF WantsSomething, StartState
  <2> HIDE DEF r
  <2> QED
    BY <1>2, <2>1, <2>2
<1>7. ASSUME NEW x \in StartPc \ {"idle", "buyin"}, start' = [start EXCEPT ![s].pc = x]
      PROVE  \A t \in Starts : WantsSomething(start'[t])
  <2> DEFINE r == [start[s] EXCEPT !.pc = x]
  <2>1. start' = [start EXCEPT ![s] = r]
    BY <1>7 DEF StartsOK
  <2>2. WantsSomething(r)
    BY <1>1, <1>7 DEF WantsSomething, StartState
  <2> HIDE DEF r
  <2> QED
    BY <1>2, <2>1, <2>2
<1>8. ASSUME NEW p \in Players, CommitFails(s, p)
      PROVE  \A t \in Starts : WantsSomething(start'[t])
  <2> DEFINE r == [start[s] EXCEPT !.fallback = {p}]
  <2>1. start' = [start EXCEPT ![s] = r]
    BY <1>8 DEF CommitFails, StartsOK
  <2>2. WantsSomething(r)
    BY <1>1 DEF WantsSomething, StartState
  <2> HIDE DEF r
  <2> QED
    BY <1>2, <2>1, <2>2
<1>9. CASE BuyInsDone(s)
  <2> DEFINE r == [start[s] EXCEPT !.pc = "orphans", !.todo = Orphans(s)]
  <2>1. start' = [start EXCEPT ![s] = r]
    BY <1>9 DEF BuyInsDone, StartsOK
  <2>2. WantsSomething(r)
    BY <1>1 DEF WantsSomething, StartState
  <2> HIDE DEF r
  <2> QED
    BY <1>2, <2>1, <2>2
<1>10. ASSUME NEW p \in Players, ReleaseRest(s, p)
       PROVE  \A t \in Starts : WantsSomething(start'[t])
  <2> DEFINE r == [start[s] EXCEPT !.todo = @ \ {p}]
  <2>1. start' = [start EXCEPT ![s] = r]
    BY <1>10 DEF ReleaseRest, StartsOK
  <2>2. WantsSomething(r)
    BY <1>1 DEF WantsSomething, StartState
  <2> HIDE DEF r
  <2> QED
    BY <1>2, <2>1, <2>2
<1>11. ASSUME NEW p \in Players, Refund(s, p)
       PROVE  \A t \in Starts : WantsSomething(start'[t])
  <2> DEFINE r == [start[s] EXCEPT !.debited = @ \ {p}, !.eligible = @ \ {p}]
  <2>1. start' = [start EXCEPT ![s] = r]
    BY <1>11 DEF Refund, StartsOK
  <2>2. WantsSomething(r)
    BY <1>1 DEF WantsSomething, StartState
  <2> HIDE DEF r
  <2> QED
    BY <1>2, <2>1, <2>2
<1>12. ASSUME NEW p \in Players, \/ CommitReservation(s, p) \/ TransferBuyIn(s, p)
                                 \/ TransferFails(s, p)
       PROVE  \A t \in Starts : WantsSomething(start'[t])
  BY <1>5, <1>6, <1>12 DEF CommitReservation, Committing, TransferBuyIn, TransferFails,
     Transferring, Buying
<1>13. CASE Install(s) \/ Return(s) \/ RefundsDone(s)
  <2>1. PICK x \in {"installed", "done", "release", "failed"} : start' = [start EXCEPT ![s].pc = x]
    BY <1>13 DEF Install, Return, RefundsDone
  <2>2. x \in StartPc \ {"idle", "buyin"}
    BY DEF StartPc
  <2> QED
    BY <1>7, <2>1, <2>2
<1>14. CASE BookingFails(s)
  BY <1>6, <1>14 DEF BookingFails
<1> QED
  BY <1>3, <1>4, <1>8, <1>9, <1>10, <1>11, <1>12, <1>13, <1>14 DEF StartStep

LEMMA NextSomething ==
  ASSUME IInv, SomethingInv, [Next]_vars PROVE SomethingInv'
<1> USE InvParts
<1>1. HoldsOfSomething'
  BY NextUses, WalletHoldsSomething DEF SomethingInv
<1>2. ASSUME NEW c \in Calls, Handler(c) PROVE SomethingInv'
  <2>1. start' = start
    BY <1>2 DEF Handler, SocketStep, CallFails, BetArm, Disarm, CancelTicket, Reserved,
       ReserveRefused, ArmPlayer, Released, DisarmPlayer, ReleasedPart
  <2> QED
    BY <1>1, <1>2, <2>1, HandlerCallsSomething DEF SomethingInv
<1>3. ASSUME NEW s \in Starts, StartGame(s) \/ StartStep(s) \/ BookingFails(s)
      PROVE  SomethingInv'
  <2>1. call' = call
    <3>1. StartGame(s) \/ BookingFails(s) => call' = call
      BY DEF StartGame, BookingFails
    <3>2. CheckFunds(s) => call' = call
      BY FundsAside
    <3>3. BuyInsDone(s) \/ Install(s) \/ Return(s) \/ RefundsDone(s) => call' = call
      BY DEF BuyInsDone, Install, Return, RefundsDone
    <3>4. ASSUME NEW p \in Players,
                 \/ CommitReservation(s, p) \/ CommitFails(s, p) \/ TransferBuyIn(s, p)
                 \/ TransferFails(s, p) \/ ReleaseRest(s, p) \/ Refund(s, p)
          PROVE  call' = call
      BY <3>4 DEF CommitReservation, CommitFails, TransferBuyIn, TransferFails, ReleaseRest, Refund
    <3> QED
      BY <1>3, <3>1, <3>2, <3>3, <3>4 DEF StartStep
  <2>2. CallsForSomething'
    BY <2>1 DEF SomethingInv, CallsForSomething
  <2> QED
    BY <1>1, <1>3, <2>2, StartWantsSomething DEF SomethingInv
<1>4. CASE UNCHANGED <<call, start>>
  BY <1>1, <1>4 DEF SomethingInv, CallsForSomething
<1>5. CASE Crash
  <2>1. \A c \in Calls : call'[c] = Idle
    BY <1>5 DEF Crash
  <2>2. CallsForSomething'
    BY <2>1 DEF CallsForSomething, Idle
  <2>3. ASSUME NEW s \in Starts PROVE WantsSomething(start'[s])
    <3>1. start[s] \in StartState /\ WantsSomething(start[s])
      BY StartFacts DEF SomethingInv
    <3>2. start'[s] \in {start[s], [start[s] EXCEPT !.pc = "crashed"]}
      BY <1>5 DEF Crash
    <3>3. WantsSomething([start[s] EXCEPT !.pc = "crashed"])
      BY <3>1 DEF WantsSomething, StartState
    <3> QED
      BY <3>1, <3>2, <3>3
  <2> QED
    BY <1>1, <2>2, <2>3 DEF SomethingInv
<1>6. CASE UNCHANGED vars \/ EndGame \/ \E h \in HoldKeys : ExpireHold(h)
  BY <1>4, <1>6 DEF vars, EndGame, ExpireHold
<1> QED
  BY <1>2, <1>3, <1>5, <1>6 DEF Next, Handler

LEMMA InitUses == Init => Strict!Init /\ SomethingInv
<1> SUFFICES ASSUME Init PROVE Strict!Init /\ SomethingInv
  OBVIOUS
<1>1. Strict!Init
  BY DEF Init, W!Init, Strict!Init, W!Accounts, Strict!Accounts, W!OpeningBalance,
     Strict!OpeningBalance, W!NoHold, Strict!NoHold
<1>2. HoldsOfSomething /\ CallsForSomething
  BY DEF Init, W!Init, W!NoHold, HoldsOfSomething, CallsForSomething, Idle
<1>3. \A s \in Starts : WantsSomething(start[s])
  BY DEF Init, NotStarted, WantsSomething
<1> QED
  BY <1>1, <1>2, <1>3 DEF SomethingInv

(* Calls in flight, holds and debits of a start are of something.          *)
THEOREM CallsAskForSomething == Spec => []SomethingInv
<1>1. Init => SomethingInv
  BY InitUses
<1>2. IInv /\ SomethingInv /\ [Next]_vars => SomethingInv'
  BY NextSomething
<1> QED
  BY <1>1, <1>2, Invariance, PTL DEF Spec

(* Arming and starting rounds drive the wallet within its strict promise:  *)
(* whatever fails, loses its reply or restarts, the wallet only ever takes *)
(* an atomic step of WalletLedger, with a positive amount, and no hold     *)
(* that what is available does not cover.                                  *)
THEOREM RoundsUseStrictWallet == Spec => Strict!StrictSpec
<1>1. IInv /\ SomethingInv /\ [Next]_vars => [Strict!StrictNext]_(Strict!vars)
  BY NextUses DEF UsesWallet, wallet, Strict!vars
<1>2. Init => Strict!Init
  BY InitUses
<1> QED
  BY <1>1, <1>2, Invariance, CallsAskForSomething, PTL DEF Spec, Strict!StrictSpec
=============================================================================
