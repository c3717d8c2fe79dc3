---------------------------- MODULE Game1Schedule ----------------------------
(***************************************************************************)
(* The life of one scheduled Game 1: its row in app_game1_scheduled_games, *)
(* its engine state in app_game1_game_state, and everybody who changes     *)
(* them: masters' requests, the schedule tick, the draw tick, the          *)
(* automatic resume, the watchdog, and the recovery after a restart.  The  *)
(* readiness of the halls is not modelled: a start may be refused and the  *)
(* tick may find all halls ready at any time.                              *)
(*                                                                         *)
(* A step is one statement or one transaction.  A transaction that waits   *)
(* for a second row lock while it holds one takes two steps and shows in   *)
(* rowLock or stateLock.  What a request does after its commit (the call   *)
(* of the draw engine) is a step of its own: others run in between, or the *)
(* process stops there.                                                    *)
(***************************************************************************)
EXTENDS Integers

CONSTANTS
  Requests,             \* requests of masters and administrators in progress
  Drawers,              \* processes that run the draw tick
  Waker, Watchdog,      \* the automatic resume and the stuck-game detection
  Ticker,               \* the schedule tick
  LastPhase,            \* TOTAL_PHASES, 5 in the code
  MaxDraws,             \* maxDraws of the game's configuration, 75 by default
  MasterIsTestHall,     \* the master's hall is for tests: no pause after a phase
  MayFail,              \* TRUE: calls of the engine after a commit can fail
  MaxCrashes,           \* bound: restarts of the backend
  None

Procs == Requests \cup Drawers \cup {Waker, Watchdog, Ticker}

ASSUME BoundsAssumption == /\ LastPhase \in Nat \ {0} /\ MaxDraws \in Nat \ {0}
                           /\ MaxCrashes \in Nat
                           /\ MayFail \in BOOLEAN /\ MasterIsTestHall \in BOOLEAN
ASSUME ProcsAssumption ==
  /\ None \notin Procs
  /\ Requests \cap (Drawers \cup {Waker, Watchdog, Ticker}) = {}
  /\ Drawers \cap {Waker, Watchdog, Ticker} = {}
  /\ Waker # Watchdog /\ Waker # Ticker /\ Watchdog # Ticker

VARIABLES
  status,      \* app_game1_scheduled_games.status
  resumable,   \* auto_resume_eligible_at is set
  late,        \* scheduled_end_time, with every margin, has passed
  engine,      \* app_game1_game_state
  rowLock, stateLock,      \* who holds the row lock between two steps
  pc,          \* where a request, tick or operator is
  before,      \* the status a start or a stop found, while it goes on
  crashes

game   == <<status, resumable, late>>
locks  == <<rowLock, stateLock>>
vars   == <<game, engine, locks, pc, before, crashes>>

Startable == {"scheduled", "purchase_open", "ready_to_start"}
Live      == {"running", "paused"}
Terminal  == {"completed", "cancelled"}

NoEngine == [exists |-> FALSE, paused |-> FALSE, at |-> 0,
             phase |-> 1, draws |-> 0, ended |-> FALSE]

Init ==
  /\ status = "scheduled" /\ resumable = FALSE /\ late = FALSE
  /\ engine = NoEngine
  /\ rowLock = None /\ stateLock = None
  /\ pc = [p \in Procs |-> "idle"]
  /\ before = [r \in Requests |-> None]
  /\ crashes = 0

Go(p, l) == pc' = [pc EXCEPT ![p] = l]

Answers(r) == Go(r, "idle") /\ before' = [before EXCEPT ![r] = None]

-----------------------------------------------------------------------------
(* Requests of the master (Game1MasterControlService)                      *)

(* Mutant of CanStart: a paused game is started again.                     *)
CanRestart == status \in Startable \cup {"paused"}

CanStart == status \in Startable

StartCommits(r) ==
  /\ pc[r] = "idle" /\ rowLock = None
  /\ CanStart
  /\ status' = "running"
  /\ before' = [before EXCEPT ![r] = status]
  /\ Go(r, "started")
  /\ UNCHANGED <<resumable, late, engine, locks, crashes>>

(* drawEngine.startGame, after the commit of the start.                    *)
EngineStartable == status \in {"ready_to_start", "purchase_open", "running"}

EngineStarts(r) ==
  /\ pc[r] = "started" /\ rowLock = None
  /\ \/ /\ engine.exists
        /\ Answers(r) /\ UNCHANGED <<status, engine>>
     \/ /\ ~engine.exists /\ EngineStartable
        /\ engine' = [NoEngine EXCEPT !.exists = TRUE]
        /\ status' = "running"
        /\ Answers(r)
     \/ /\ ~engine.exists /\ ~EngineStartable
        /\ Go(r, "undo") /\ UNCHANGED <<status, engine, before>>
  /\ UNCHANGED <<resumable, late, locks, crashes>>

EngineStartFails(r) ==
  /\ MayFail /\ pc[r] = "started"
  /\ Go(r, "undo")
  /\ UNCHANGED <<game, engine, locks, before, crashes>>

(* Mutant of StatusAfterUndo: the rollback does not look at the status.    *)
StatusBefore(r) == before[r]

(* rollbackStartOnEngineFailure: only a row that is still running.         *)
StatusAfterUndo(r) == IF status = "running" THEN before[r] ELSE status

UndoStart(r) ==
  /\ pc[r] = "undo" /\ rowLock = None
  /\ status' = StatusAfterUndo(r)
  /\ Answers(r)
  /\ UNCHANGED <<resumable, late, engine, locks, crashes>>

(* excludeHall: without the hall the others have to be ready again.        *)
ExcludeHall(r) ==
  /\ pc[r] = "idle" /\ rowLock = None
  /\ status \in {"purchase_open", "ready_to_start"}
  /\ status' = "purchase_open"
  /\ UNCHANGED <<resumable, late, engine, locks, pc, before, crashes>>

PauseCommits(r) ==
  /\ pc[r] = "idle" /\ rowLock = None
  /\ status = "running"
  /\ status' = "paused"
  /\ Go(r, "pausing")
  /\ UNCHANGED <<resumable, late, engine, locks, before, crashes>>

(* drawEngine.pauseGame and resumeGame: one UPDATE each, no condition.     *)
PauseEngine(r) ==
  /\ pc[r] = "pausing" /\ stateLock = None
  /\ engine' = [engine EXCEPT !.paused = engine.exists]
  /\ Go(r, "idle")
  /\ UNCHANGED <<game, locks, before, crashes>>

(* resumeGame locks the row of the game, then the engine state.            *)
ResumeLocks(r) ==
  /\ pc[r] = "idle" /\ rowLock = None
  /\ status \in Live
  /\ rowLock' = r
  /\ Go(r, "resuming")
  /\ UNCHANGED <<game, engine, stateLock, before, crashes>>

ResumeCommits(r) ==
  /\ pc[r] = "resuming" /\ stateLock = None
  /\ rowLock' = None
  /\ \/ /\ status = "paused" \/ engine.paused
        /\ status' = "running" /\ resumable' = FALSE
        /\ engine' = [engine EXCEPT !.paused = FALSE, !.at = 0]
        /\ Go(r, IF status = "paused" THEN "resumed" ELSE "idle")
     \/ /\ status # "paused" /\ ~engine.paused
        /\ Go(r, "idle")
        /\ UNCHANGED <<status, resumable, engine>>
  /\ UNCHANGED <<late, stateLock, before, crashes>>

ResumeEngine(r) ==
  /\ pc[r] = "resumed" /\ stateLock = None
  /\ engine' = [engine EXCEPT !.paused = FALSE]
  /\ Go(r, "idle")
  /\ UNCHANGED <<game, locks, before, crashes>>

Stoppable == {"purchase_open", "ready_to_start", "running", "paused"}

StopCommits(r) ==
  /\ pc[r] = "idle" /\ rowLock = None
  /\ status \in Stoppable
  /\ status' = "cancelled" /\ resumable' = FALSE
  /\ before' = [before EXCEPT ![r] = status]
  /\ Go(r, "stopping")
  /\ UNCHANGED <<late, engine, locks, crashes>>

(* A game that was never live has no engine: only its room is destroyed.   *)
StopEngine(r) ==
  /\ pc[r] = "stopping"
  /\ \/ /\ before[r] \in Live /\ stateLock = None
        /\ engine' = [engine EXCEPT !.ended = engine.exists]
     \/ before[r] \notin Live /\ UNCHANGED engine
  /\ Answers(r)
  /\ UNCHANGED <<game, locks, crashes>>

(* The statement of the engine throws: the request ends with an error.     *)
EngineCallFails(r) ==
  /\ MayFail /\ pc[r] \in {"undo", "pausing", "resumed", "stopping"}
  /\ Answers(r)
  /\ UNCHANGED <<game, engine, locks, crashes>>

-----------------------------------------------------------------------------
(* The schedule tick (Game1ScheduleTickService)                            *)

OpenPurchase ==
  /\ rowLock = None /\ status = "scheduled" /\ ~late
  /\ status' = "purchase_open"
  /\ UNCHANGED <<resumable, late, engine, locks, pc, before, crashes>>

CancelUnstarted ==
  /\ rowLock = None /\ late /\ status \in Startable
  /\ status' = "cancelled"
  /\ UNCHANGED <<resumable, late, engine, locks, pc, before, crashes>>

(* transitionReadyToStartGames reads the halls, then updates the row.      *)
TickReadsHalls ==
  /\ pc[Ticker] = "idle" /\ status = "purchase_open" /\ ~late
  /\ Go(Ticker, "all_ready")
  /\ UNCHANGED <<game, engine, locks, before, crashes>>

BecomesReady ==
  /\ pc[Ticker] = "all_ready" /\ rowLock = None
  /\ status' = IF status = "purchase_open" THEN "ready_to_start" ELSE status
  /\ Go(Ticker, "idle")
  /\ UNCHANGED <<resumable, late, engine, locks, before, crashes>>

-----------------------------------------------------------------------------
(* Drawing (Game1AutoDrawTickService, Game1DrawEngineService.drawNext)     *)

(* loadRunningGames: SKIP LOCKED, and the locks are gone before the draw.  *)
TickPicks(d) ==
  /\ pc[d] = "idle" /\ stateLock = None
  /\ status = "running" /\ engine.exists /\ ~engine.paused /\ ~engine.ended
  /\ Go(d, "due")
  /\ UNCHANGED <<game, engine, locks, before, crashes>>

(* drawNext locks the engine state first, then the row of the game.        *)
DrawLocks(d) ==
  /\ pc[d] = "due" /\ stateLock = None
  /\ \/ /\ engine.paused \/ engine.ended
        /\ Go(d, "idle") /\ UNCHANGED stateLock
     \/ /\ ~engine.paused /\ ~engine.ended
        /\ Go(d, "drawing") /\ stateLock' = d
  /\ UNCHANGED <<game, engine, rowLock, before, crashes>>

Drawable == status = "running" /\ engine.draws < MaxDraws

(* The ball, whether it wins the phase or not; a phase won pauses the      *)
(* game, except in a test hall and the last one, which ends it.            *)
DrawCommits(d, win) ==
  /\ pc[d] = "drawing" /\ rowLock = None /\ Drawable
  /\ LET bingo    == win /\ engine.phase = LastPhase
         next     == win /\ ~bingo
         paused   == next /\ ~MasterIsTestHall
         finished == bingo \/ engine.draws + 1 >= MaxDraws
     IN  /\ engine' = [exists |-> TRUE,
                       draws  |-> engine.draws + 1,
                       phase  |-> IF next THEN engine.phase + 1 ELSE engine.phase,
                       ended  |-> finished,
                       paused |-> paused,
                       at     |-> IF paused THEN engine.phase ELSE engine.at]
         /\ resumable' = (resumable \/ paused)
         /\ status' = IF finished THEN "completed" ELSE status
  /\ stateLock' = None
  /\ Go(d, "idle")
  /\ UNCHANGED <<late, rowLock, before, crashes>>

(* Refused by the row, or rolled back by a payout that fails.              *)
DrawRollsBack(d) ==
  /\ pc[d] = "drawing" /\ rowLock = None
  /\ ~Drawable \/ MayFail
  /\ stateLock' = None
  /\ Go(d, "idle")
  /\ UNCHANGED <<game, engine, rowLock, before, crashes>>

-----------------------------------------------------------------------------
(* Automatic resume, watchdog, recovery                                    *)

(* Game1AutoResumePausedService: the delay is over and no master has been  *)
(* seen lately.                                                            *)
WakerPicks ==
  /\ pc[Waker] = "idle"
  /\ status = "running" /\ engine.paused /\ engine.at # 0 /\ resumable
  /\ Go(Waker, "waking")
  /\ UNCHANGED <<game, engine, locks, before, crashes>>

(* autoResumeOne: UPDATE of the engine state, where it is paused ...       *)
WakerUnpauses ==
  /\ pc[Waker] = "waking" /\ stateLock = None
  /\ \/ engine.paused /\ stateLock' = Waker /\ Go(Waker, "woken")
     \/ ~engine.paused /\ UNCHANGED stateLock /\ Go(Waker, "clearing")
  /\ UNCHANGED <<game, engine, rowLock, before, crashes>>

(* ... then of the row, whatever its status is by now.                     *)
WakerCommits ==
  /\ pc[Waker] \in {"woken", "clearing"} /\ rowLock = None
  /\ resumable' = FALSE
  /\ engine' = IF pc[Waker] = "woken" THEN [engine EXCEPT !.paused = FALSE, !.at = 0] ELSE engine
  /\ stateLock' = IF pc[Waker] = "woken" THEN None ELSE stateLock
  /\ Go(Waker, "idle")
  /\ UNCHANGED <<status, late, rowLock, before, crashes>>

(* Mutant of Stuck: the end time only counts for running games.            *)
StuckRunning == status = "running" /\ (late \/ (~engine.paused /\ engine.draws > 0))

(* Game1StuckGameDetectionService: no draw for minutes, or past its end.   *)
Stuck == late \/ (status = "running" /\ ~engine.paused /\ engine.draws > 0)

WatchdogPicks ==
  /\ pc[Watchdog] = "idle"
  /\ status \in Live /\ engine.exists /\ ~engine.ended
  /\ Stuck
  /\ Go(Watchdog, "ending")
  /\ UNCHANGED <<game, engine, locks, before, crashes>>

(* autoEndOne: UPDATE of the row where it is still live, then of the state *)
(* without a condition.                                                    *)
WatchdogLocks ==
  /\ pc[Watchdog] = "ending" /\ rowLock = None
  /\ \/ status \in Live /\ rowLock' = Watchdog /\ Go(Watchdog, "cancelling")
     \/ status \notin Live /\ UNCHANGED rowLock /\ Go(Watchdog, "mopping")
  /\ UNCHANGED <<game, engine, stateLock, before, crashes>>

WatchdogCommits ==
  /\ pc[Watchdog] \in {"cancelling", "mopping"} /\ stateLock = None
  /\ \/ /\ pc[Watchdog] = "cancelling"
        /\ status' = "cancelled" /\ resumable' = FALSE /\ rowLock' = None
     \/ pc[Watchdog] = "mopping" /\ UNCHANGED <<status, resumable, rowLock>>
  /\ engine' = [engine EXCEPT !.ended = engine.exists, !.paused = FALSE, !.at = 0]
  /\ Go(Watchdog, "idle")
  /\ UNCHANGED <<late, stateLock, before, crashes>>

(* PostgreSQL breaks a circle of two: one holds the row and waits for the  *)
(* state, the other the reverse.                                           *)
HoldsRow(p)   == rowLock = p /\ pc[p] \in {"resuming", "cancelling"}
HoldsState(p) == stateLock = p /\ pc[p] \in {"drawing", "woken"}

DeadlockVictim(p) ==
  /\ \E q, s \in Procs : HoldsRow(q) /\ HoldsState(s) /\ p \in {q, s}
  /\ rowLock'   = IF rowLock = p THEN None ELSE rowLock
  /\ stateLock' = IF stateLock = p THEN None ELSE stateLock
  /\ Go(p, "idle")
  /\ UNCHANGED <<game, engine, before, crashes>>

(* A restart: open transactions are rolled back, nobody goes on where he   *)
(* was.  Game1RecoveryService runs once, at boot.                          *)
Crash ==
  /\ crashes < MaxCrashes
  /\ crashes' = crashes + 1
  /\ rowLock' = None /\ stateLock' = None
  /\ pc' = [p \in Procs |-> IF p = Ticker THEN "booting" ELSE "idle"]
  /\ before' = [r \in Requests |-> None]
  /\ UNCHANGED <<game, engine>>

RecoveryPass ==
  /\ pc[Ticker] = "booting" /\ rowLock = None
  /\ status' = IF late /\ status \in Live THEN "cancelled" ELSE status
  /\ Go(Ticker, "idle")
  /\ UNCHANGED <<resumable, late, engine, locks, before, crashes>>

EndTimePasses ==
  /\ ~late /\ late' = TRUE
  /\ UNCHANGED <<status, resumable, engine, locks, pc, before, crashes>>

-----------------------------------------------------------------------------
(* What a request in progress does next.                                   *)
Serve(r) ==
  \/ EngineStarts(r) \/ UndoStart(r) \/ PauseEngine(r)
  \/ ResumeCommits(r) \/ ResumeEngine(r) \/ StopEngine(r)

Ask(r) ==
  \/ StartCommits(r) \/ ExcludeHall(r) \/ PauseCommits(r) \/ ResumeLocks(r) \/ StopCommits(r)

Masters == \E r \in Requests : Ask(r) \/ Serve(r) \/ EngineStartFails(r) \/ EngineCallFails(r)

Tick == OpenPurchase \/ CancelUnstarted \/ TickReadsHalls \/ BecomesReady

Draws(d)    == \E win \in BOOLEAN : DrawCommits(d, win)
DrawEnds(d) == DrawLocks(d) \/ Draws(d) \/ DrawRollsBack(d)
Drawing     == \E d \in Drawers : TickPicks(d) \/ DrawEnds(d)

Waking   == WakerPicks \/ WakerUnpauses \/ WakerCommits
Watching == WatchdogPicks \/ WatchdogLocks \/ WatchdogCommits

Next ==
  \/ Masters \/ Tick \/ Drawing \/ Waking \/ Watching
  \/ \E p \in Procs : DeadlockVictim(p)
  \/ Crash \/ RecoveryPass \/ EndTimePasses

(* A circle of the watchdog and a draw, broken at the cost of the draw.    *)
WatchdogSurvives == HoldsRow(Watchdog) /\ \E p \in Drawers \cup {Waker} : DeadlockVictim(p)

(* Jobs run again and again, awaits end, PostgreSQL queues those who wait  *)
(* for a row and breaks every deadlock, not always at the watchdog's cost, *)
(* and time passes.  Nothing makes a master act or a draw begin.           *)
Fairness ==
  /\ \A r \in Requests : SF_vars(Serve(r))
  /\ \A d \in Drawers : SF_vars(DrawEnds(d))
  /\ SF_vars(WakerUnpauses) /\ SF_vars(WakerCommits)
  /\ WF_vars(WatchdogPicks) /\ SF_vars(WatchdogLocks) /\ SF_vars(WatchdogCommits)
  /\ WF_vars(\E p \in Procs : DeadlockVictim(p)) /\ SF_vars(WatchdogSurvives)
  /\ WF_vars(RecoveryPass) /\ WF_vars(EndTimePasses)

Spec == Init /\ [][Next]_vars /\ Fairness
-----------------------------------------------------------------------------
(* Properties                                                              *)

EngineState == [exists : BOOLEAN, paused : BOOLEAN, at : 0..LastPhase,
                phase : 1..LastPhase, draws : 0..MaxDraws, ended : BOOLEAN]

TypeOK ==
  /\ status \in Startable \cup Live \cup Terminal
  /\ resumable \in BOOLEAN /\ late \in BOOLEAN
  /\ engine \in EngineState
  /\ before \in [Requests -> Startable \cup Live \cup {None}]
  /\ crashes \in Nat
  /\ pc \in [Procs -> {"idle", "booting", "all_ready",
                     "started", "undo", "pausing", "resuming", "resumed", "stopping",
                     "due", "drawing", "waking", "woken", "clearing",
                     "ending", "cancelling", "mopping"}]

(* The engine state and the row never contradict each other: an engine     *)
(* exists only for a game that was started, it is over only when the game  *)
(* is, and a completed game has a finished engine.                         *)
EngineMatchesRow ==
  /\ status \in Startable => ~engine.exists
  /\ engine.ended => status \in Terminal
  /\ status = "completed" => engine.ended

(* Row, engine and balls follow the abstract life cycle: a finished game   *)
(* stays finished, no ball falls outside a running game, a start is undone *)
(* only before the first ball.                                             *)
L == INSTANCE Game1Lifecycle WITH balls <- engine.draws
FollowsLifecycle == L!Spec

(* A game with an engine does not stay live for ever.                      *)
GameEnds == (status \in Live /\ engine.exists) ~> status \in Terminal

(* The inductive invariant: who is where, and what he holds.               *)
Starting(r) == pc[r] \in {"started", "undo"}

OneStart ==
  /\ \A r, s \in Requests : Starting(r) /\ Starting(s) => r = s
  /\ \A r \in Requests : Starting(r) => /\ status \notin Startable /\ ~engine.exists
                                        /\ before[r] \in Startable

LocksMatch ==
  /\ rowLock # None => rowLock \in Procs /\ pc[rowLock] \in {"resuming", "cancelling"}
  /\ stateLock # None => stateLock \in Procs /\ pc[stateLock] \in {"drawing", "woken"}
  /\ \A p \in Procs : pc[p] \in {"resuming", "cancelling"} => rowLock = p
  /\ \A p \in Procs : pc[p] \in {"drawing", "woken"} => stateLock = p
  /\ \A p \in Procs : pc[p] \in {"resuming", "cancelling"} => status \in Live
  /\ \A p \in Procs : pc[p] = "drawing" => engine.exists /\ ~engine.paused /\ ~engine.ended

EngineShape ==
  /\ ~engine.exists => engine.draws = 0 /\ ~engine.paused /\ ~engine.ended
  /\ \A p \in Procs : pc[p] \in {"due", "drawing", "ending", "cancelling", "mopping"} => engine.exists
  /\ \A p \in Procs : pc[p] \in {"stopping", "mopping"} => status \in Terminal

IInv == TypeOK /\ EngineMatchesRow /\ OneStart /\ LocksMatch /\ EngineShape
=============================================================================
