------------------------ MODULE Game1Schedule_proofs ------------------------
(***************************************************************************)
(* For every number of requests and drawing processes, of phases and       *)
(* balls: row and engine never contradict each other, and together they    *)
(* follow the abstract life cycle.                                         *)
(***************************************************************************)
EXTENDS Game1Schedule, TLAPS

USE BoundsAssumption, ProcsAssumption
USE DEF Procs, Go, Startable, Live, Terminal

(* What the statements of the engine make of its state.                    *)
Alike(e, f) == e.exists = f.exists /\ e.draws = f.draws

LEMMA NoEngineTyped == NoEngine \in EngineState
  BY DEF NoEngine, EngineState

LEMMA PausedTyped ==
  ASSUME NEW e \in EngineState, NEW b \in BOOLEAN
  PROVE  /\ [e EXCEPT !.paused = b] \in EngineState
         /\ Alike([e EXCEPT !.paused = b], e)
         /\ [e EXCEPT !.paused = b].ended = e.ended
         /\ [e EXCEPT !.paused = b].paused = b
  BY DEF EngineState, Alike

LEMMA EndedTyped ==
  ASSUME NEW e \in EngineState, NEW b \in BOOLEAN
  PROVE  /\ [e EXCEPT !.ended = b] \in EngineState
         /\ Alike([e EXCEPT !.ended = b], e)
         /\ [e EXCEPT !.ended = b].ended = b
         /\ [e EXCEPT !.ended = b].paused = e.paused
  BY DEF EngineState, Alike

LEMMA AtTyped ==
  ASSUME NEW e \in EngineState
  PROVE  /\ [e EXCEPT !.at = 0] \in EngineState
         /\ Alike([e EXCEPT !.at = 0], e)
         /\ [e EXCEPT !.at = 0].ended = e.ended
         /\ [e EXCEPT !.at = 0].paused = e.paused
<1>1. 0 \in 0..LastPhase  OBVIOUS
<1> QED BY <1>1 DEF EngineState, Alike

LEMMA ResumedTyped ==
  ASSUME NEW e \in EngineState, NEW f, f = [e EXCEPT !.paused = FALSE, !.at = 0]
  PROVE  f \in EngineState /\ Alike(f, e) /\ f.ended = e.ended /\ ~f.paused
<1>1. PICK g \in EngineState : g = [e EXCEPT !.paused = FALSE]  BY PausedTyped
<1>2. f = [g EXCEPT !.at = 0]  BY <1>1
<1>3. Alike(g, e) /\ g.ended = e.ended /\ g.paused = FALSE  BY <1>1, PausedTyped
<1>4. f \in EngineState /\ Alike(f, g) /\ f.ended = g.ended /\ f.paused = g.paused
      BY <1>2, AtTyped
<1> QED BY <1>3, <1>4 DEF Alike

LEMMA EndedForGood ==
  ASSUME NEW e \in EngineState, NEW f,
         f = [e EXCEPT !.ended = e.exists, !.paused = FALSE, !.at = 0]
  PROVE  f \in EngineState /\ Alike(f, e) /\ f.ended = e.exists /\ ~f.paused
<1>1. e.exists \in BOOLEAN  BY DEF EngineState
<1>2. PICK g \in EngineState : g = [e EXCEPT !.ended = e.exists]  BY <1>1, EndedTyped
<1>3. f = [g EXCEPT !.paused = FALSE, !.at = 0]  BY <1>2
<1>4. g.ended = e.exists /\ Alike(g, e)  BY <1>1, <1>2, EndedTyped
<1>5. f \in EngineState /\ Alike(f, g) /\ f.ended = g.ended /\ ~f.paused
      BY <1>2, <1>3, ResumedTyped
<1> QED BY <1>4, <1>5 DEF Alike

LEMMA InitEstablishes == Init => IInv
<1> SUFFICES ASSUME Init PROVE IInv
    OBVIOUS
<1>1. TypeOK            BY NoEngineTyped DEF Init, TypeOK
<1>2. EngineMatchesRow  BY DEF Init, EngineMatchesRow, NoEngine
<1>3. OneStart          BY DEF Init, OneStart, Starting
<1>4. LocksMatch        BY DEF Init, LocksMatch
<1>5. EngineShape       BY DEF Init, EngineShape, NoEngine
<1> QED BY <1>1, <1>2, <1>3, <1>4, <1>5 DEF IInv

-----------------------------------------------------------------------------
(* Every action keeps the invariant.                                       *)

LEMMA StartCommitsKeeps ==
  ASSUME IInv, NEW r \in Requests, StartCommits(r) PROVE IInv'
<1> USE DEF IInv, StartCommits, CanStart, game, locks
<1>1. TypeOK'            BY DEF TypeOK, OneStart, Starting
<1>2. EngineMatchesRow'  BY DEF TypeOK, EngineMatchesRow
<1>3. OneStart'          BY DEF TypeOK, EngineMatchesRow, OneStart, Starting
<1>4. LocksMatch'        BY DEF TypeOK, LocksMatch, EngineShape
<1>5. EngineShape'       BY DEF TypeOK, EngineMatchesRow, EngineShape, OneStart, Starting
<1> QED BY <1>1, <1>2, <1>3, <1>4, <1>5

LEMMA EngineStartsKeeps ==
  ASSUME IInv, NEW r \in Requests, EngineStarts(r) PROVE IInv'
<1> USE DEF IInv, EngineStarts, EngineStartable, Answers, game, locks
<1>1. CASE engine' = engine
  <2>1. TypeOK'            BY <1>1 DEF TypeOK, OneStart, Starting
  <2>2. EngineMatchesRow'  BY <1>1 DEF TypeOK, EngineMatchesRow, LocksMatch, OneStart, Starting, EngineShape
  <2>3. OneStart'          BY <1>1 DEF TypeOK, EngineMatchesRow, OneStart, Starting, LocksMatch, EngineShape
  <2>4. LocksMatch'        BY <1>1 DEF TypeOK, LocksMatch, EngineShape
  <2>5. EngineShape'       BY <1>1 DEF TypeOK, EngineMatchesRow, EngineShape, LocksMatch, OneStart, Starting
  <2> QED BY <2>1, <2>2, <2>3, <2>4, <2>5
<1>2. CASE engine' = [NoEngine EXCEPT !.exists = TRUE] /\ ~engine.exists
  <2>0. /\ engine' \in EngineState /\ engine'.exists
        /\ ~engine'.ended /\ ~engine'.paused /\ engine'.draws = 0
        BY <1>2, NoEngineTyped DEF NoEngine, EngineState
  <2>1. TypeOK'            BY <1>2, <2>0 DEF TypeOK, OneStart, Starting
  <2>2. EngineMatchesRow'  BY <1>2, <2>0 DEF TypeOK, EngineMatchesRow, LocksMatch, OneStart, Starting, EngineShape
  <2>3. OneStart'          BY <1>2, <2>0 DEF TypeOK, EngineMatchesRow, OneStart, Starting, LocksMatch, EngineShape
  <2>4. LocksMatch'        BY <1>2, <2>0 DEF TypeOK, LocksMatch, EngineShape
  <2>5. EngineShape'       BY <1>2, <2>0 DEF TypeOK, EngineMatchesRow, EngineShape, LocksMatch, OneStart, Starting
  <2> QED BY <2>1, <2>2, <2>3, <2>4, <2>5
<1> QED BY <1>1, <1>2

LEMMA EngineStartFailsKeeps ==
  ASSUME IInv, NEW r \in Requests, EngineStartFails(r) PROVE IInv'
<1> USE DEF IInv, EngineStartFails, game, locks
<1>1. TypeOK'            BY DEF TypeOK, OneStart, Starting
<1>2. EngineMatchesRow'  BY DEF TypeOK, EngineMatchesRow
<1>3. OneStart'          BY DEF TypeOK, EngineMatchesRow, OneStart, Starting
<1>4. LocksMatch'        BY DEF TypeOK, LocksMatch, EngineShape
<1>5. EngineShape'       BY DEF TypeOK, EngineMatchesRow, EngineShape, OneStart, Starting
<1> QED BY <1>1, <1>2, <1>3, <1>4, <1>5

LEMMA UndoStartKeeps ==
  ASSUME IInv, NEW r \in Requests, UndoStart(r) PROVE IInv'
<1> USE DEF IInv, UndoStart, StatusAfterUndo, Answers, game, locks
<1>1. TypeOK'            BY DEF TypeOK, OneStart, Starting
<1>2. EngineMatchesRow'  BY DEF TypeOK, EngineMatchesRow, OneStart, Starting
<1>3. OneStart'          BY DEF TypeOK, EngineMatchesRow, OneStart, Starting
<1>4. LocksMatch'        BY DEF TypeOK, LocksMatch, EngineShape
<1>5. EngineShape'       BY DEF TypeOK, EngineMatchesRow, EngineShape, OneStart, Starting
<1> QED BY <1>1, <1>2, <1>3, <1>4, <1>5

LEMMA ExcludeHallKeeps ==
  ASSUME IInv, NEW r \in Requests, ExcludeHall(r) PROVE IInv'
<1> USE DEF IInv, ExcludeHall, game, locks
<1>1. TypeOK'            BY DEF TypeOK, OneStart, Starting
<1>2. EngineMatchesRow'  BY DEF TypeOK, EngineMatchesRow
<1>3. OneStart'          BY DEF TypeOK, EngineMatchesRow, OneStart, Starting
<1>4. LocksMatch'        BY DEF TypeOK, LocksMatch, EngineShape
<1>5. EngineShape'       BY DEF TypeOK, EngineMatchesRow, EngineShape, OneStart, Starting
<1> QED BY <1>1, <1>2, <1>3, <1>4, <1>5

LEMMA PauseCommitsKeeps ==
  ASSUME IInv, NEW r \in Requests, PauseCommits(r) PROVE IInv'
<1> USE DEF IInv, PauseCommits, game, locks
<1>1. TypeOK'            BY DEF TypeOK, OneStart, Starting
<1>2. EngineMatchesRow'  BY DEF TypeOK, EngineMatchesRow
<1>3. OneStart'          BY DEF TypeOK, EngineMatchesRow, OneStart, Starting
<1>4. LocksMatch'        BY DEF TypeOK, LocksMatch, EngineShape
<1>5. EngineShape'       BY DEF TypeOK, EngineMatchesRow, EngineShape, OneStart, Starting
<1> QED BY <1>1, <1>2, <1>3, <1>4, <1>5

LEMMA PauseEngineKeeps ==
  ASSUME IInv, NEW r \in Requests, PauseEngine(r) PROVE IInv'
<1> USE DEF IInv, PauseEngine, game, locks
<1>0. engine' \in EngineState /\ Alike(engine', engine)
      /\ engine'.ended = engine.ended /\ engine'.paused = engine.exists
  <2>1. engine \in EngineState /\ engine.exists \in BOOLEAN  BY DEF TypeOK, EngineState
  <2> QED BY <2>1, PausedTyped, Zenon
<1> USE DEF Alike
<1>1. TypeOK'            BY <1>0 DEF TypeOK, OneStart, Starting
<1>2. EngineMatchesRow'  BY <1>0 DEF TypeOK, EngineMatchesRow, LocksMatch, OneStart, Starting, EngineShape
<1>3. OneStart'          BY <1>0 DEF TypeOK, EngineMatchesRow, OneStart, Starting, LocksMatch, EngineShape
<1>4. LocksMatch'        BY <1>0 DEF TypeOK, LocksMatch, EngineShape
<1>5. EngineShape'       BY <1>0 DEF TypeOK, EngineMatchesRow, EngineShape, LocksMatch, OneStart, Starting
<1> QED BY <1>1, <1>2, <1>3, <1>4, <1>5

LEMMA ResumeLocksKeeps ==
  ASSUME IInv, NEW r \in Requests, ResumeLocks(r) PROVE IInv'
<1> USE DEF IInv, ResumeLocks, game, locks
<1>1. TypeOK'            BY DEF TypeOK, OneStart, Starting
<1>2. EngineMatchesRow'  BY DEF TypeOK, EngineMatchesRow
<1>3. OneStart'          BY DEF TypeOK, EngineMatchesRow, OneStart, Starting
<1>4. LocksMatch'        BY DEF TypeOK, LocksMatch, EngineShape
<1>5. EngineShape'       BY DEF TypeOK, EngineMatchesRow, EngineShape, OneStart, Starting
<1> QED BY <1>1, <1>2, <1>3, <1>4, <1>5

LEMMA ResumeCommitsKeeps ==
  ASSUME IInv, NEW r \in Requests, ResumeCommits(r) PROVE IInv'
<1> USE DEF IInv, ResumeCommits, game, locks
<1>0. engine' \in EngineState /\ Alike(engine', engine) /\ engine'.ended = engine.ended
      /\ (engine'.paused => engine.paused)
  <2>1. engine \in EngineState  BY DEF TypeOK
  <2>2. CASE engine' = engine   BY <2>1, <2>2 DEF Alike
  <2>3. CASE engine' = [engine EXCEPT !.paused = FALSE, !.at = 0]
        BY <2>1, <2>3, ResumedTyped, Zenon
  <2> QED BY <2>2, <2>3
<1>6. /\ pc' \in {[pc EXCEPT ![r] = "idle"], [pc EXCEPT ![r] = "resumed"]} /\ pc[r] = "resuming"
      /\ rowLock' = None /\ stateLock = None /\ resumable' \in BOOLEAN
      /\ status \in Live /\ status' \in Live
      /\ UNCHANGED <<late, stateLock, before, crashes>>
      BY DEF TypeOK, LocksMatch
<1> HIDE DEF ResumeCommits
<1> USE DEF Alike
<1>1. TypeOK'            BY <1>0, <1>6 DEF TypeOK, OneStart, Starting
<1>2. EngineMatchesRow'  BY <1>0, <1>6 DEF TypeOK, EngineMatchesRow, LocksMatch, OneStart, Starting, EngineShape
<1>3. OneStart'          BY <1>0, <1>6 DEF TypeOK, EngineMatchesRow, OneStart, Starting, LocksMatch, EngineShape
<1>4. LocksMatch'        BY <1>0, <1>6 DEF TypeOK, LocksMatch, EngineShape
<1>5. EngineShape'       BY <1>0, <1>6 DEF TypeOK, EngineMatchesRow, EngineShape, LocksMatch, OneStart, Starting
<1> QED BY <1>1, <1>2, <1>3, <1>4, <1>5

LEMMA ResumeEngineKeeps ==
  ASSUME IInv, NEW r \in Requests, ResumeEngine(r) PROVE IInv'
<1> USE DEF IInv, ResumeEngine, game, locks
<1>0. engine' \in EngineState /\ Alike(engine', engine)
      /\ engine'.ended = engine.ended /\ ~engine'.paused
  <2>1. engine \in EngineState  BY DEF TypeOK
  <2> QED BY <2>1, PausedTyped, Zenon
<1> USE DEF Alike
<1>1. TypeOK'            BY <1>0 DEF TypeOK, OneStart, Starting
<1>2. EngineMatchesRow'  BY <1>0 DEF TypeOK, EngineMatchesRow, LocksMatch, OneStart, Starting, EngineShape
<1>3. OneStart'          BY <1>0 DEF TypeOK, EngineMatchesRow, OneStart, Starting, LocksMatch, EngineShape
<1>4. LocksMatch'        BY <1>0 DEF TypeOK, LocksMatch, EngineShape
<1>5. EngineShape'       BY <1>0 DEF TypeOK, EngineMatchesRow, EngineShape, LocksMatch, OneStart, Starting
<1> QED BY <1>1, <1>2, <1>3, <1>4, <1>5

LEMMA StopCommitsKeeps ==
  ASSUME IInv, NEW r \in Requests, StopCommits(r) PROVE IInv'
<1> USE DEF IInv, StopCommits, Stoppable, game, locks
<1>1. TypeOK'            BY DEF TypeOK, OneStart, Starting
<1>2. EngineMatchesRow'  BY DEF TypeOK, EngineMatchesRow
<1>3. OneStart'          BY DEF TypeOK, EngineMatchesRow, OneStart, Starting
<1>4. LocksMatch'        BY DEF TypeOK, LocksMatch, EngineShape
<1>5. EngineShape'       BY DEF TypeOK, EngineMatchesRow, EngineShape, OneStart, Starting
<1> QED BY <1>1, <1>2, <1>3, <1>4, <1>5

LEMMA StopEngineKeeps ==
  ASSUME IInv, NEW r \in Requests, StopEngine(r) PROVE IInv'
<1> USE DEF IInv, StopEngine, Answers, game, locks
<1>0. /\ engine' \in EngineState /\ Alike(engine', engine) /\ engine'.paused = engine.paused
      /\ engine' = engine \/ engine'.ended = engine.exists
      /\ engine' = engine \/ stateLock = None
  <2>1. engine \in EngineState /\ engine.exists \in BOOLEAN  BY DEF TypeOK, EngineState
  <2>2. CASE engine' = engine  BY <2>1, <2>2 DEF Alike
  <2>3. CASE engine' = [engine EXCEPT !.ended = engine.exists] /\ stateLock = None
        BY <2>1, <2>3, EndedTyped, Zenon
  <2> QED BY <2>2, <2>3
<1> USE DEF Alike
<1>1. TypeOK'            BY <1>0 DEF TypeOK, OneStart, Starting
<1>2. EngineMatchesRow'  BY <1>0 DEF TypeOK, EngineMatchesRow, LocksMatch, OneStart, Starting, EngineShape
<1>3. OneStart'          BY <1>0 DEF TypeOK, EngineMatchesRow, OneStart, Starting, LocksMatch, EngineShape
<1>4. LocksMatch'        BY <1>0 DEF TypeOK, LocksMatch, EngineShape
<1>5. EngineShape'       BY <1>0 DEF TypeOK, EngineMatchesRow, EngineShape, LocksMatch, OneStart, Starting
<1> QED BY <1>1, <1>2, <1>3, <1>4, <1>5

LEMMA EngineCallFailsKeeps ==
  ASSUME IInv, NEW r \in Requests, EngineCallFails(r) PROVE IInv'
<1> USE DEF IInv, EngineCallFails, Answers, game, locks
<1>1. TypeOK'            BY DEF TypeOK, OneStart, Starting
<1>2. EngineMatchesRow'  BY DEF TypeOK, EngineMatchesRow
<1>3. OneStart'          BY DEF TypeOK, EngineMatchesRow, OneStart, Starting
<1>4. LocksMatch'        BY DEF TypeOK, LocksMatch, EngineShape
<1>5. EngineShape'       BY DEF TypeOK, EngineMatchesRow, EngineShape, OneStart, Starting
<1> QED BY <1>1, <1>2, <1>3, <1>4, <1>5

LEMMA OpenPurchaseKeeps ==
  ASSUME IInv, OpenPurchase PROVE IInv'
<1> USE DEF IInv, OpenPurchase, game, locks
<1>1. TypeOK'            BY DEF TypeOK, OneStart, Starting
<1>2. EngineMatchesRow'  BY DEF TypeOK, EngineMatchesRow
<1>3. OneStart'          BY DEF TypeOK, EngineMatchesRow, OneStart, Starting
<1>4. LocksMatch'        BY DEF TypeOK, LocksMatch, EngineShape
<1>5. EngineShape'       BY DEF TypeOK, EngineMatchesRow, EngineShape, OneStart, Starting
<1> QED BY <1>1, <1>2, <1>3, <1>4, <1>5

LEMMA CancelUnstartedKeeps ==
  ASSUME IInv, CancelUnstarted PROVE IInv'
<1> USE DEF IInv, CancelUnstarted, game, locks
<1>1. TypeOK'            BY DEF TypeOK, OneStart, Starting
<1>2. EngineMatchesRow'  BY DEF TypeOK, EngineMatchesRow
<1>3. OneStart'          BY DEF TypeOK, EngineMatchesRow, OneStart, Starting
<1>4. LocksMatch'        BY DEF TypeOK, LocksMatch, EngineShape
<1>5. EngineShape'       BY DEF TypeOK, EngineMatchesRow, EngineShape, OneStart, Starting
<1> QED BY <1>1, <1>2, <1>3, <1>4, <1>5

LEMMA TickReadsHallsKeeps ==
  ASSUME IInv, TickReadsHalls PROVE IInv'
<1> USE DEF IInv, TickReadsHalls, game, locks
<1>1. TypeOK'            BY DEF TypeOK, OneStart, Starting
<1>2. EngineMatchesRow'  BY DEF TypeOK, EngineMatchesRow
<1>3. OneStart'          BY DEF TypeOK, EngineMatchesRow, OneStart, Starting
<1>4. LocksMatch'        BY DEF TypeOK, LocksMatch, EngineShape
<1>5. EngineShape'       BY DEF TypeOK, EngineMatchesRow, EngineShape, OneStart, Starting
<1> QED BY <1>1, <1>2, <1>3, <1>4, <1>5

LEMMA BecomesReadyKeeps ==
  ASSUME IInv, BecomesReady PROVE IInv'
<1> USE DEF IInv, BecomesReady, game, locks
<1>1. TypeOK'            BY DEF TypeOK, OneStart, Starting
<1>2. EngineMatchesRow'  BY DEF TypeOK, EngineMatchesRow
<1>3. OneStart'          BY DEF TypeOK, EngineMatchesRow, OneStart, Starting
<1>4. LocksMatch'        BY DEF TypeOK, LocksMatch, EngineShape
<1>5. EngineShape'       BY DEF TypeOK, EngineMatchesRow, EngineShape, OneStart, Starting
<1> QED BY <1>1, <1>2, <1>3, <1>4, <1>5

LEMMA TickPicksKeeps ==
  ASSUME IInv, NEW d \in Drawers, TickPicks(d) PROVE IInv'
<1> USE DEF IInv, TickPicks, game, locks
<1>1. TypeOK'            BY DEF TypeOK, OneStart, Starting
<1>2. EngineMatchesRow'  BY DEF TypeOK, EngineMatchesRow
<1>3. OneStart'          BY DEF TypeOK, EngineMatchesRow, OneStart, Starting
<1>4. LocksMatch'        BY DEF TypeOK, LocksMatch, EngineShape
<1>5. EngineShape'       BY DEF TypeOK, EngineMatchesRow, EngineShape, OneStart, Starting
<1> QED BY <1>1, <1>2, <1>3, <1>4, <1>5

LEMMA DrawLocksKeeps ==
  ASSUME IInv, NEW d \in Drawers, DrawLocks(d) PROVE IInv'
<1> USE DEF IInv, DrawLocks, game, locks
<1>1. TypeOK'            BY DEF TypeOK, OneStart, Starting
<1>2. EngineMatchesRow'  BY DEF TypeOK, EngineMatchesRow
<1>3. OneStart'          BY DEF TypeOK, EngineMatchesRow, OneStart, Starting
<1>4. LocksMatch'        BY DEF TypeOK, LocksMatch, EngineShape
<1>5. EngineShape'       BY DEF TypeOK, EngineMatchesRow, EngineShape, OneStart, Starting
<1> QED BY <1>1, <1>2, <1>3, <1>4, <1>5

LEMMA DrawCommitsKeeps ==
  ASSUME IInv, NEW d \in Drawers, NEW win \in BOOLEAN, DrawCommits(d, win) PROVE IInv'
<1> USE DEF IInv, DrawCommits, Drawable, game, locks
<1>0. /\ engine' \in EngineState /\ engine'.exists
      /\ engine'.ended => status' = "completed"
      /\ status' = "completed" => engine'.ended
  <2>1. engine \in EngineState  BY DEF TypeOK
  <2>2. engine.draws + 1 \in 0..MaxDraws /\ engine.phase \in 0..LastPhase
        BY <2>1 DEF EngineState
  <2>3. engine.phase # LastPhase => engine.phase + 1 \in 1..LastPhase  BY <2>1 DEF EngineState
  <2>4. status' = "completed" <=> engine'.ended  OBVIOUS
  <2>5. engine'.exists /\ DOMAIN engine' = {"exists", "draws", "phase", "ended", "paused", "at"}  OBVIOUS
  <2> QED BY <2>1, <2>2, <2>3, <2>4 DEF EngineState
<1> HIDE DEF DrawCommits
<1>6. /\ pc' = [pc EXCEPT ![d] = "idle"] /\ pc[d] = "drawing" /\ rowLock = None /\ stateLock' = None
      /\ status = "running" /\ status' \in {"running", "completed"}
      /\ resumable' \in BOOLEAN
      /\ UNCHANGED <<late, rowLock, before, crashes>>
      BY DEF DrawCommits, TypeOK
<1>1. TypeOK'            BY <1>0, <1>6 DEF TypeOK, OneStart, Starting
<1>2. EngineMatchesRow'  BY <1>0, <1>6 DEF TypeOK, EngineMatchesRow, LocksMatch, OneStart, Starting, EngineShape
<1>3. OneStart'          BY <1>0, <1>6 DEF TypeOK, EngineMatchesRow, OneStart, Starting, LocksMatch, EngineShape
<1>4. LocksMatch'        BY <1>0, <1>6 DEF TypeOK, LocksMatch, EngineShape
<1>5. EngineShape'       BY <1>0, <1>6 DEF TypeOK, EngineMatchesRow, EngineShape, LocksMatch, OneStart, Starting
<1> QED BY <1>1, <1>2, <1>3, <1>4, <1>5

LEMMA DrawRollsBackKeeps ==
  ASSUME IInv, NEW d \in Drawers, DrawRollsBack(d) PROVE IInv'
<1> USE DEF IInv, DrawRollsBack, game, locks
<1>1. TypeOK'            BY DEF TypeOK, OneStart, Starting
<1>2. EngineMatchesRow'  BY DEF TypeOK, EngineMatchesRow
<1>3. OneStart'          BY DEF TypeOK, EngineMatchesRow, OneStart, Starting
<1>4. LocksMatch'        BY DEF TypeOK, LocksMatch, EngineShape
<1>5. EngineShape'       BY DEF TypeOK, EngineMatchesRow, EngineShape, OneStart, Starting
<1> QED BY <1>1, <1>2, <1>3, <1>4, <1>5

LEMMA WakerPicksKeeps ==
  ASSUME IInv, WakerPicks PROVE IInv'
<1> USE DEF IInv, WakerPicks, game, locks
<1>1. TypeOK'            BY DEF TypeOK, OneStart, Starting
<1>2. EngineMatchesRow'  BY DEF TypeOK, EngineMatchesRow
<1>3. OneStart'          BY DEF TypeOK, EngineMatchesRow, OneStart, Starting
<1>4. LocksMatch'        BY DEF TypeOK, LocksMatch, EngineShape
<1>5. EngineShape'       BY DEF TypeOK, EngineMatchesRow, EngineShape, OneStart, Starting
<1> QED BY <1>1, <1>2, <1>3, <1>4, <1>5

LEMMA WakerUnpausesKeeps ==
  ASSUME IInv, WakerUnpauses PROVE IInv'
<1> USE DEF IInv, WakerUnpauses, game, locks
<1>1. TypeOK'            BY DEF TypeOK, OneStart, Starting
<1>2. EngineMatchesRow'  BY DEF TypeOK, EngineMatchesRow
<1>3. OneStart'          BY DEF TypeOK, EngineMatchesRow, OneStart, Starting
<1>4. LocksMatch'        BY DEF TypeOK, LocksMatch, EngineShape
<1>5. EngineShape'       BY DEF TypeOK, EngineMatchesRow, EngineShape, OneStart, Starting
<1> QED BY <1>1, <1>2, <1>3, <1>4, <1>5

LEMMA WakerCommitsKeeps ==
  ASSUME IInv, WakerCommits PROVE IInv'
<1> USE DEF IInv, WakerCommits, game, locks
<1>0. engine' \in EngineState /\ Alike(engine', engine) /\ engine'.ended = engine.ended
      /\ (engine'.paused => engine.paused)
  <2>1. engine \in EngineState  BY DEF TypeOK
  <2>2. CASE engine' = engine   BY <2>1, <2>2 DEF Alike
  <2>3. CASE engine' = [engine EXCEPT !.paused = FALSE, !.at = 0]
        BY <2>1, <2>3, ResumedTyped, Zenon
  <2> QED BY <2>2, <2>3
<1>6. /\ pc' = [pc EXCEPT ![Waker] = "idle"] /\ pc[Waker] \in {"woken", "clearing"}
      /\ stateLock' = (IF pc[Waker] = "woken" THEN None ELSE stateLock)
      /\ rowLock = None /\ resumable' = FALSE
      /\ UNCHANGED <<status, late, rowLock, before, crashes>>
      OBVIOUS
<1> HIDE DEF WakerCommits
<1> USE DEF Alike
<1>1. TypeOK'            BY <1>0, <1>6 DEF TypeOK, OneStart, Starting
<1>2. EngineMatchesRow'  BY <1>0, <1>6 DEF TypeOK, EngineMatchesRow, LocksMatch, OneStart, Starting, EngineShape
<1>3. OneStart'          BY <1>0, <1>6 DEF TypeOK, EngineMatchesRow, OneStart, Starting, LocksMatch, EngineShape
<1>4. LocksMatch'        BY <1>0, <1>6 DEF TypeOK, LocksMatch, EngineShape
<1>5. EngineShape'       BY <1>0, <1>6 DEF TypeOK, EngineMatchesRow, EngineShape, LocksMatch, OneStart, Starting
<1> QED BY <1>1, <1>2, <1>3, <1>4, <1>5

LEMMA WatchdogPicksKeeps ==
  ASSUME IInv, WatchdogPicks PROVE IInv'
<1> USE DEF IInv, WatchdogPicks, Stuck, game, locks
<1>1. TypeOK'            BY DEF TypeOK, OneStart, Starting
<1>2. EngineMatchesRow'  BY DEF TypeOK, EngineMatchesRow
<1>3. OneStart'          BY DEF TypeOK, EngineMatchesRow, OneStart, Starting
<1>4. LocksMatch'        BY DEF TypeOK, LocksMatch, EngineShape
<1>5. EngineShape'       BY DEF TypeOK, EngineMatchesRow, EngineShape, OneStart, Starting
<1> QED BY <1>1, <1>2, <1>3, <1>4, <1>5

LEMMA WatchdogLocksKeeps ==
  ASSUME IInv, WatchdogLocks PROVE IInv'
<1> USE DEF IInv, WatchdogLocks, game, locks
<1>1. TypeOK'            BY DEF TypeOK, OneStart, Starting
<1>2. EngineMatchesRow'  BY DEF TypeOK, EngineMatchesRow
<1>3. OneStart'          BY DEF TypeOK, EngineMatchesRow, OneStart, Starting
<1>4. LocksMatch'        BY DEF TypeOK, LocksMatch, EngineShape
<1>5. EngineShape'       BY DEF TypeOK, EngineMatchesRow, EngineShape, OneStart, Starting
<1> QED BY <1>1, <1>2, <1>3, <1>4, <1>5

LEMMA WatchdogCommitsKeeps ==
  ASSUME IInv, WatchdogCommits PROVE IInv'
<1> USE DEF IInv, WatchdogCommits, game, locks
<1>0. engine' \in EngineState /\ Alike(engine', engine) /\ engine'.ended = engine.exists
      /\ ~engine'.paused
  <2>1. engine \in EngineState  BY DEF TypeOK
  <2> QED BY <2>1, EndedForGood, Zenon
<1> USE DEF Alike
<1>1. TypeOK'            BY <1>0 DEF TypeOK, OneStart, Starting
<1>2. EngineMatchesRow'  BY <1>0 DEF TypeOK, EngineMatchesRow, LocksMatch, OneStart, Starting, EngineShape
<1>3. OneStart'          BY <1>0 DEF TypeOK, EngineMatchesRow, OneStart, Starting, LocksMatch, EngineShape
<1>4. LocksMatch'        BY <1>0 DEF TypeOK, LocksMatch, EngineShape
<1>5. EngineShape'       BY <1>0 DEF TypeOK, EngineMatchesRow, EngineShape, LocksMatch, OneStart, Starting
<1> QED BY <1>1, <1>2, <1>3, <1>4, <1>5

LEMMA DeadlockVictimKeeps ==
  ASSUME IInv, NEW p \in Procs, DeadlockVictim(p) PROVE IInv'
<1> USE DEF IInv, DeadlockVictim, HoldsRow, HoldsState, game, locks
<1>1. TypeOK'            BY DEF TypeOK, OneStart, Starting
<1>2. EngineMatchesRow'  BY DEF TypeOK, EngineMatchesRow
<1>3. OneStart'          BY DEF TypeOK, EngineMatchesRow, OneStart, Starting
<1>4. LocksMatch'        BY DEF TypeOK, LocksMatch, EngineShape
<1>5. EngineShape'       BY DEF TypeOK, EngineMatchesRow, EngineShape, OneStart, Starting
<1> QED BY <1>1, <1>2, <1>3, <1>4, <1>5

LEMMA CrashKeeps ==
  ASSUME IInv, Crash PROVE IInv'
<1> USE DEF IInv, Crash, game, locks
<1>1. TypeOK'            BY DEF TypeOK, OneStart, Starting
<1>2. EngineMatchesRow'  BY DEF TypeOK, EngineMatchesRow
<1>3. OneStart'          BY DEF TypeOK, EngineMatchesRow, OneStart, Starting
<1>4. LocksMatch'        BY DEF TypeOK, LocksMatch, EngineShape
<1>5. EngineShape'       BY DEF TypeOK, EngineMatchesRow, EngineShape, OneStart, Starting
<1> QED BY <1>1, <1>2, <1>3, <1>4, <1>5

LEMMA RecoveryPassKeeps ==
  ASSUME IInv, RecoveryPass PROVE IInv'
<1> USE DEF IInv, RecoveryPass, game, locks
<1>1. TypeOK'            BY DEF TypeOK, OneStart, Starting
<1>2. EngineMatchesRow'  BY DEF TypeOK, EngineMatchesRow
<1>3. OneStart'          BY DEF TypeOK, EngineMatchesRow, OneStart, Starting
<1>4. LocksMatch'        BY DEF TypeOK, LocksMatch, EngineShape
<1>5. EngineShape'       BY DEF TypeOK, EngineMatchesRow, EngineShape, OneStart, Starting
<1> QED BY <1>1, <1>2, <1>3, <1>4, <1>5

LEMMA EndTimePassesKeeps ==
  ASSUME IInv, EndTimePasses PROVE IInv'
<1> USE DEF IInv, EndTimePasses, game, locks
<1>1. TypeOK'            BY DEF TypeOK, OneStart, Starting
<1>2. EngineMatchesRow'  BY DEF TypeOK, EngineMatchesRow
<1>3. OneStart'          BY DEF TypeOK, EngineMatchesRow, OneStart, Starting
<1>4. LocksMatch'        BY DEF TypeOK, LocksMatch, EngineShape
<1>5. EngineShape'       BY DEF TypeOK, EngineMatchesRow, EngineShape, OneStart, Starting
<1> QED BY <1>1, <1>2, <1>3, <1>4, <1>5

LEMMA StutterKeeps == ASSUME IInv, UNCHANGED vars PROVE IInv'
BY DEF IInv, TypeOK, EngineMatchesRow, OneStart, Starting, LocksMatch, EngineShape, vars, game, locks

LEMMA NextKeeps == ASSUME IInv, [Next]_vars PROVE IInv'
<1>1. CASE Masters  BY <1>1, StartCommitsKeeps, EngineStartsKeeps, EngineStartFailsKeeps, UndoStartKeeps, ExcludeHallKeeps, PauseCommitsKeeps, PauseEngineKeeps, ResumeLocksKeeps, ResumeCommitsKeeps, ResumeEngineKeeps, StopCommitsKeeps, StopEngineKeeps, EngineCallFailsKeeps DEF Masters, Ask, Serve
<1>2. CASE Tick     BY <1>2, OpenPurchaseKeeps, CancelUnstartedKeeps, TickReadsHallsKeeps, BecomesReadyKeeps DEF Tick
<1>3. CASE Drawing  BY <1>3, TickPicksKeeps, DrawLocksKeeps, DrawCommitsKeeps, DrawRollsBackKeeps DEF Drawing, DrawEnds, Draws
<1>4. CASE Waking   BY <1>4, WakerPicksKeeps, WakerUnpausesKeeps, WakerCommitsKeeps DEF Waking
<1>5. CASE Watching BY <1>5, WatchdogPicksKeeps, WatchdogLocksKeeps, WatchdogCommitsKeeps DEF Watching
<1>6. CASE \E p \in Procs : DeadlockVictim(p)  BY <1>6, DeadlockVictimKeeps
<1>7. CASE Crash \/ RecoveryPass \/ EndTimePasses
      BY <1>7, CrashKeeps, RecoveryPassKeeps, EndTimePassesKeeps
<1>8. CASE UNCHANGED vars  BY <1>8, StutterKeeps
<1> QED BY <1>1, <1>2, <1>3, <1>4, <1>5, <1>6, <1>7, <1>8 DEF Next

(* Who waits for what and what it has found is consistent at all times.    *)
THEOREM Invariance == Spec => []IInv
  BY InitEstablishes, NextKeeps, PTL DEF Spec

(* All variables keep their types.                                         *)
THEOREM TypeCorrect == Spec => []TypeOK
<1>1. IInv => TypeOK  BY DEF IInv
<1> QED BY <1>1, Invariance, PTL

(* No engine without a start, no finished engine in a live game, and no    *)
(* completed game with an engine that goes on.                             *)
THEOREM EngineAndRowAgree == Spec => []EngineMatchesRow
<1>1. IInv => EngineMatchesRow  BY DEF IInv
<1> QED BY <1>1, Invariance, PTL

-----------------------------------------------------------------------------
(* Every step is a step of the abstract life cycle, or none.               *)
Follows == [L!Next]_<<status, engine.draws>>

USE DEF L!Startable, L!Live, L!Terminal

LEMMA StartCommitsFollows == ASSUME IInv, NEW r \in Requests, StartCommits(r) PROVE Follows
  BY DEF StartCommits, CanStart, Follows, game, locks, L!Next, L!Start, IInv, TypeOK, EngineMatchesRow, OneStart, Starting, LocksMatch, EngineShape, EngineState

LEMMA EngineStartsFollows == ASSUME IInv, NEW r \in Requests, EngineStarts(r) PROVE Follows
  BY DEF EngineStarts, EngineStartable, Answers, Follows, game, locks, IInv, TypeOK, EngineMatchesRow, OneStart, Starting, LocksMatch, EngineShape, EngineState, NoEngine

LEMMA EngineStartFailsFollows == ASSUME IInv, NEW r \in Requests, EngineStartFails(r) PROVE Follows
  BY DEF EngineStartFails, Follows, game, locks, IInv, TypeOK, EngineMatchesRow, OneStart, Starting, LocksMatch, EngineShape, EngineState

LEMMA UndoStartFollows == ASSUME IInv, NEW r \in Requests, UndoStart(r) PROVE Follows
  BY DEF UndoStart, StatusAfterUndo, Answers, Follows, game, locks, L!Next, L!Undo, IInv, TypeOK, EngineMatchesRow, OneStart, Starting, LocksMatch, EngineShape, EngineState

LEMMA ExcludeHallFollows == ASSUME IInv, NEW r \in Requests, ExcludeHall(r) PROVE Follows
  BY DEF ExcludeHall, Follows, game, locks, L!Next, L!Prepare, IInv, TypeOK, EngineMatchesRow, OneStart, Starting, LocksMatch, EngineShape, EngineState

LEMMA PauseCommitsFollows == ASSUME IInv, NEW r \in Requests, PauseCommits(r) PROVE Follows
  BY DEF PauseCommits, Follows, game, locks, L!Next, L!Pause, IInv, TypeOK, EngineMatchesRow, OneStart, Starting, LocksMatch, EngineShape, EngineState

LEMMA PauseEngineFollows == ASSUME IInv, NEW r \in Requests, PauseEngine(r) PROVE Follows
  BY DEF PauseEngine, Follows, game, locks, IInv, TypeOK, EngineMatchesRow, OneStart, Starting, LocksMatch, EngineShape, EngineState

LEMMA ResumeLocksFollows == ASSUME IInv, NEW r \in Requests, ResumeLocks(r) PROVE Follows
  BY DEF ResumeLocks, Follows, game, locks, IInv, TypeOK, EngineMatchesRow, OneStart, Starting, LocksMatch, EngineShape, EngineState

LEMMA ResumeCommitsFollows == ASSUME IInv, NEW r \in Requests, ResumeCommits(r) PROVE Follows
  BY DEF ResumeCommits, Follows, game, locks, L!Next, L!Resume, IInv, TypeOK, EngineMatchesRow, OneStart, Starting, LocksMatch, EngineShape, EngineState

LEMMA ResumeEngineFollows == ASSUME IInv, NEW r \in Requests, ResumeEngine(r) PROVE Follows
  BY DEF ResumeEngine, Follows, game, locks, IInv, TypeOK, EngineMatchesRow, OneStart, Starting, LocksMatch, EngineShape, EngineState

LEMMA StopCommitsFollows == ASSUME IInv, NEW r \in Requests, StopCommits(r) PROVE Follows
  BY DEF StopCommits, Stoppable, Follows, game, locks, L!Next, L!Cancel, IInv, TypeOK, EngineMatchesRow, OneStart, Starting, LocksMatch, EngineShape, EngineState

LEMMA StopEngineFollows == ASSUME IInv, NEW r \in Requests, StopEngine(r) PROVE Follows
  BY DEF StopEngine, Answers, Follows, game, locks, IInv, TypeOK, EngineMatchesRow, OneStart, Starting, LocksMatch, EngineShape, EngineState

LEMMA EngineCallFailsFollows == ASSUME IInv, NEW r \in Requests, EngineCallFails(r) PROVE Follows
  BY DEF EngineCallFails, Answers, Follows, game, locks, IInv, TypeOK, EngineMatchesRow, OneStart, Starting, LocksMatch, EngineShape, EngineState

LEMMA OpenPurchaseFollows == ASSUME IInv, OpenPurchase PROVE Follows
  BY DEF OpenPurchase, Follows, game, locks, L!Next, L!Prepare, IInv, TypeOK, EngineMatchesRow, OneStart, Starting, LocksMatch, EngineShape, EngineState

LEMMA CancelUnstartedFollows == ASSUME IInv, CancelUnstarted PROVE Follows
  BY DEF CancelUnstarted, Follows, game, locks, L!Next, L!Cancel, IInv, TypeOK, EngineMatchesRow, OneStart, Starting, LocksMatch, EngineShape, EngineState

LEMMA TickReadsHallsFollows == ASSUME IInv, TickReadsHalls PROVE Follows
  BY DEF TickReadsHalls, Follows, game, locks, IInv, TypeOK, EngineMatchesRow, OneStart, Starting, LocksMatch, EngineShape, EngineState

LEMMA BecomesReadyFollows == ASSUME IInv, BecomesReady PROVE Follows
  BY DEF BecomesReady, Follows, game, locks, L!Next, L!Prepare, IInv, TypeOK, EngineMatchesRow, OneStart, Starting, LocksMatch, EngineShape, EngineState

LEMMA TickPicksFollows == ASSUME IInv, NEW d \in Drawers, TickPicks(d) PROVE Follows
  BY DEF TickPicks, Follows, game, locks, IInv, TypeOK, EngineMatchesRow, OneStart, Starting, LocksMatch, EngineShape, EngineState

LEMMA DrawLocksFollows == ASSUME IInv, NEW d \in Drawers, DrawLocks(d) PROVE Follows
  BY DEF DrawLocks, Follows, game, locks, IInv, TypeOK, EngineMatchesRow, OneStart, Starting, LocksMatch, EngineShape, EngineState

LEMMA DrawCommitsFollows == ASSUME IInv, NEW d \in Drawers, NEW win \in BOOLEAN, DrawCommits(d, win) PROVE Follows
  BY DEF DrawCommits, Drawable, Follows, game, locks, L!Next, L!Draw, IInv, TypeOK, EngineMatchesRow, OneStart, Starting, LocksMatch, EngineShape, EngineState

LEMMA DrawRollsBackFollows == ASSUME IInv, NEW d \in Drawers, DrawRollsBack(d) PROVE Follows
  BY DEF DrawRollsBack, Follows, game, locks, IInv, TypeOK, EngineMatchesRow, OneStart, Starting, LocksMatch, EngineShape, EngineState

LEMMA WakerPicksFollows == ASSUME IInv, WakerPicks PROVE Follows
  BY DEF WakerPicks, Follows, game, locks, IInv, TypeOK, EngineMatchesRow, OneStart, Starting, LocksMatch, EngineShape, EngineState

LEMMA WakerUnpausesFollows == ASSUME IInv, WakerUnpauses PROVE Follows
  BY DEF WakerUnpauses, Follows, game, locks, IInv, TypeOK, EngineMatchesRow, OneStart, Starting, LocksMatch, EngineShape, EngineState

LEMMA WakerCommitsFollows == ASSUME IInv, WakerCommits PROVE Follows
  BY DEF WakerCommits, Follows, game, locks, IInv, TypeOK, EngineMatchesRow, OneStart, Starting, LocksMatch, EngineShape, EngineState

LEMMA WatchdogPicksFollows == ASSUME IInv, WatchdogPicks PROVE Follows
  BY DEF WatchdogPicks, Stuck, Follows, game, locks, IInv, TypeOK, EngineMatchesRow, OneStart, Starting, LocksMatch, EngineShape, EngineState

LEMMA WatchdogLocksFollows == ASSUME IInv, WatchdogLocks PROVE Follows
  BY DEF WatchdogLocks, Follows, game, locks, IInv, TypeOK, EngineMatchesRow, OneStart, Starting, LocksMatch, EngineShape, EngineState

LEMMA WatchdogCommitsFollows == ASSUME IInv, WatchdogCommits PROVE Follows
  BY DEF WatchdogCommits, Follows, game, locks, L!Next, L!Cancel, IInv, TypeOK, EngineMatchesRow, OneStart, Starting, LocksMatch, EngineShape, EngineState

LEMMA DeadlockVictimFollows == ASSUME IInv, NEW p \in Procs, DeadlockVictim(p) PROVE Follows
  BY DEF DeadlockVictim, HoldsRow, HoldsState, Follows, game, locks, IInv, TypeOK, EngineMatchesRow, OneStart, Starting, LocksMatch, EngineShape, EngineState

LEMMA CrashFollows == ASSUME IInv, Crash PROVE Follows
  BY DEF Crash, Follows, game, locks, IInv, TypeOK, EngineMatchesRow, OneStart, Starting, LocksMatch, EngineShape, EngineState

LEMMA RecoveryPassFollows == ASSUME IInv, RecoveryPass PROVE Follows
  BY DEF RecoveryPass, Follows, game, locks, L!Next, L!Cancel, IInv, TypeOK, EngineMatchesRow, OneStart, Starting, LocksMatch, EngineShape, EngineState

LEMMA EndTimePassesFollows == ASSUME IInv, EndTimePasses PROVE Follows
  BY DEF EndTimePasses, Follows, game, locks, IInv, TypeOK, EngineMatchesRow, OneStart, Starting, LocksMatch, EngineShape, EngineState

LEMMA NextFollows == ASSUME IInv, [Next]_vars PROVE Follows
<1>1. CASE Masters  BY <1>1, StartCommitsFollows, EngineStartsFollows, EngineStartFailsFollows, UndoStartFollows, ExcludeHallFollows, PauseCommitsFollows, PauseEngineFollows, ResumeLocksFollows, ResumeCommitsFollows, ResumeEngineFollows, StopCommitsFollows, StopEngineFollows, EngineCallFailsFollows DEF Masters, Ask, Serve
<1>2. CASE Tick     BY <1>2, OpenPurchaseFollows, CancelUnstartedFollows, TickReadsHallsFollows, BecomesReadyFollows DEF Tick
<1>3. CASE Drawing  BY <1>3, TickPicksFollows, DrawLocksFollows, DrawCommitsFollows, DrawRollsBackFollows DEF Drawing, DrawEnds, Draws
<1>4. CASE Waking   BY <1>4, WakerPicksFollows, WakerUnpausesFollows, WakerCommitsFollows DEF Waking
<1>5. CASE Watching BY <1>5, WatchdogPicksFollows, WatchdogLocksFollows, WatchdogCommitsFollows DEF Watching
<1>6. CASE \E p \in Procs : DeadlockVictim(p)  BY <1>6, DeadlockVictimFollows
<1>7. CASE Crash \/ RecoveryPass \/ EndTimePasses
      BY <1>7, CrashFollows, RecoveryPassFollows, EndTimePassesFollows
<1>8. CASE UNCHANGED vars  BY <1>8 DEF Follows, vars, game
<1> QED BY <1>1, <1>2, <1>3, <1>4, <1>5, <1>6, <1>7, <1>8 DEF Next

(* Row, engine and draws implement the life cycle that players and reports *)
(* rely on, for any number of masters, processes and restarts.             *)
THEOREM ImplementsLifecycle == Spec => FollowsLifecycle
<1>1. Init => L!Init  BY DEF Init, L!Init, NoEngine
<1> QED BY <1>1, Invariance, NextFollows, PTL DEF Spec, FollowsLifecycle, L!Spec, Follows

(* A game that is over stays as it is, and balls fall one at a time and in *)
(* a running game only.                                                    *)
EndsForGood ==
  /\ status \in Terminal => status' = status /\ engine'.draws = engine.draws
  /\ engine'.draws # engine.draws => status = "running" /\ engine'.draws = engine.draws + 1

LEMMA FollowsEnds == ASSUME Follows PROVE EndsForGood
BY DEF Follows, EndsForGood, Terminal, L!Next, L!Prepare, L!Start, L!Undo,
       L!Pause, L!Resume, L!Draw, L!Cancel

(* No late draw, resume, watchdog or recovery touches a game that is over, *)
(* whatever of it was in progress when it ended.                           *)
THEOREM GamesStayFinished == Spec => [][EndsForGood]_vars
<1>1. IInv /\ [Next]_vars => [EndsForGood]_vars  BY NextFollows, FollowsEnds
<1> QED BY <1>1, Invariance, PTL DEF Spec
=============================================================================
