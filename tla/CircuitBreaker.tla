--------------------------- MODULE CircuitBreaker ---------------------------
(***************************************************************************)
(* apps/backend/src/util/CircuitBreaker.ts and its two users: execute, as  *)
(* PostgresWalletAdapter.withBreaker calls it around every wallet write,   *)
(* and assertClosed / onSuccess / onFailure, as HttpWalletAdapter.request  *)
(* calls them around every HTTP request.  A process has one of the two     *)
(* adapters, chosen at boot (WALLET_PROVIDER), and its one breaker.        *)
(*                                                                         *)
(* The wall clock is abstracted to what the code compares it with: window  *)
(* is the state getter, "open" turning into "half" when resetMs is over.   *)
(***************************************************************************)
EXTENDS Integers, FiniteSets

CONSTANTS
  Callers,     \* concurrent wallet calls of one backend process
  Threshold    \* consecutive failures that open the breaker

ASSUME ThresholdPositive == Threshold \in Nat \ {0}

VARIABLES
  adapter,         \* createWalletAdapter: "postgres" or "http", for the life of the process
  window,          \* the state getter, over openUntilMs and the clock
  failures,        \* consecutiveFailures
  probeInFlight,
  reported,        \* lastReportedState, what the gauge shows
  call,            \* [Callers -> {"none", "normal", "probe"}]: calls under way, isProbe
  trouble          \* the dependency is failing

vars == <<adapter, window, failures, probeInFlight, reported, call, trouble>>

Init ==
  /\ adapter \in {"postgres", "http"}
  /\ window = "closed" /\ failures = 0 /\ probeInFlight = FALSE
  /\ reported = "closed"
  /\ call = [c \in Callers |-> "none"]
  /\ trouble = FALSE

-----------------------------------------------------------------------------
(* The environment.                                                        *)

Trouble ==
  /\ trouble' = ~trouble
  /\ UNCHANGED <<adapter, window, failures, probeInFlight, reported, call>>

(* openUntilMs passes; nothing runs, so nothing is reported.               *)
CoolDown ==
  /\ window = "open"
  /\ window' = "half"
  /\ UNCHANGED <<adapter, failures, probeInFlight, reported, call, trouble>>

-----------------------------------------------------------------------------
(* execute                                                                 *)

Admit(c) ==
  /\ adapter = "postgres"
  /\ call[c] = "none"
  /\ window = "closed"
  /\ call' = [call EXCEPT ![c] = "normal"]
  /\ UNCHANGED <<adapter, window, failures, probeInFlight, reported, trouble>>

AdmitProbe(c) ==
  /\ adapter = "postgres"
  /\ call[c] = "none"
  /\ window = "half" /\ ~probeInFlight
  /\ probeInFlight' = TRUE
  /\ reported' = "half"
  /\ call' = [call EXCEPT ![c] = "probe"]
  /\ UNCHANGED <<adapter, window, failures, trouble>>

(* Mutant of ProbeEnds: the flag is not cleared.                           *)
ProbeNeverEnds(c) == probeInFlight

ProbeEnds(c) == probeInFlight /\ call[c] # "probe"

Finish(c) ==
  /\ adapter = "postgres" /\ call[c] # "none"
  /\ probeInFlight' = ProbeEnds(c)
  /\ call' = [call EXCEPT ![c] = "none"]
  /\ UNCHANGED <<adapter, trouble>>

(* Mutant of Restored: only a probe that succeeds is reported.             *)
RestoredByProbe(c) == IF call[c] = "probe" THEN "closed" ELSE reported

(* Nothing is reported when nothing changed.                               *)
Restored(c) ==
  IF call[c] = "probe" \/ failures > 0 \/ window # "closed" THEN "closed" ELSE reported

Succeed(c) ==
  /\ window' = "closed" /\ failures' = 0
  /\ reported' = Restored(c)
  /\ Finish(c)

(* Mutant of Tripped: > for >=.                                            *)
TrippedLate(n) == n > Threshold

Tripped(n) == n >= Threshold

(* The failure counter's part of the catch block, and onFailure.           *)
CountFailure ==
  /\ failures' = failures + 1
  /\ IF Tripped(failures + 1) /\ window = "closed"
     THEN window' = "open" /\ reported' = "open"
     ELSE UNCHANGED <<window, reported>>

Throw(c) ==
  /\ IF call[c] = "probe"
     THEN window' = "open" /\ failures' = Threshold /\ reported' = "open"
     ELSE CountFailure
  /\ Finish(c)

(* PostgreSQL fails the call.                                              *)
Fail(c) == trouble /\ Throw(c)

(* PostgreSQL answers and the adapter throws a WalletError of its own: the *)
(* breaker sees an exception like any other.                               *)
Refuse(c) == Throw(c)

Execute(c) == Admit(c) \/ AdmitProbe(c)
Return(c)  == Succeed(c) \/ Fail(c) \/ Refuse(c)

-----------------------------------------------------------------------------
(* HttpWalletAdapter.request                                               *)

(* assertClosed throws while the window is open, and turns half-open into  *)
(* closed before the request is sent.                                      *)
Request(c) ==
  /\ adapter = "http"
  /\ call[c] = "none"
  /\ window # "open"
  /\ call' = [call EXCEPT ![c] = "normal"]
  /\ IF window = "half"
     THEN window' = "closed" /\ failures' = 0 /\ reported' = "closed"
     ELSE UNCHANGED <<window, failures, reported>>
  /\ UNCHANGED <<adapter, probeInFlight, trouble>>

EndRequest(c) ==
  /\ adapter = "http" /\ call[c] # "none"
  /\ call' = [call EXCEPT ![c] = "none"]
  /\ UNCHANGED <<adapter, probeInFlight, trouble>>

(* A bare JSON body reaches onSuccess ...                                  *)
PlainResponse(c) ==
  /\ EndRequest(c)
  /\ window' = "closed" /\ failures' = 0
  /\ reported' = Restored(c)

(* ... the data of an {ok: true, data} envelope is returned before it, and *)
(* 4xx or ok = false throw without touching the breaker.                   *)
EnvelopeOrRefusal(c) ==
  /\ EndRequest(c)
  /\ UNCHANGED <<window, failures, reported>>

(* 5xx, no connection, or the AbortController's timeout.                   *)
RequestFails(c) == trouble /\ EndRequest(c) /\ CountFailure

Respond(c) == PlainResponse(c) \/ EnvelopeOrRefusal(c) \/ RequestFails(c)

-----------------------------------------------------------------------------

Next ==
  \/ Trouble \/ CoolDown
  \/ \E c \in Callers : Execute(c) \/ Return(c) \/ Request(c) \/ Respond(c)

Spec == Init /\ [][Next]_vars

(* Callers keep calling (the retry loops of games and clients), a call     *)
(* ends (CallsReturn of PostgresWallet, timeoutMs of HttpWalletAdapter),   *)
(* the clock runs.                                                         *)
FairSpec ==
  /\ Spec
  /\ WF_vars(CoolDown)
  /\ \A c \in Callers : /\ WF_vars(Execute(c) \/ Request(c))
                        /\ WF_vars(Return(c) \/ Respond(c))

-----------------------------------------------------------------------------
(* Properties.                                                             *)

(* Types of all variables.                                                 *)
TypeOK ==
  /\ adapter \in {"postgres", "http"}
  /\ window \in {"closed", "open", "half"}
  /\ failures \in Nat
  /\ probeInFlight \in BOOLEAN
  /\ reported \in {"closed", "open", "half"}
  /\ call \in [Callers -> {"none", "normal", "probe"}]
  /\ trouble \in BOOLEAN

(* The counter and the window agree, however the answers of calls admitted *)
(* in different windows are interleaved: the breaker is closed exactly     *)
(* while fewer than Threshold failures are counted.                        *)
ClosedBelowThreshold == window = "closed" <=> failures < Threshold

Probes == {c \in Callers : call[c] = "probe"}

(* At most one probe tests a dependency that failed, and the flag that     *)
(* keeps the others out is up exactly while it runs.  Only execute sends   *)
(* probes.                                                                 *)
SingleProbe ==
  /\ probeInFlight <=> Probes # {}
  /\ \A c, d \in Probes : c = d
  /\ adapter = "http" => Probes = {}

(* When the dependency has recovered for good and no business errors       *)
(* follow, the breaker closes for good.                                    *)
NoRefusal == \A c \in Callers : ~Refuse(c)
Recovers  == <>[]~trouble /\ <>[][NoRefusal]_vars => <>[](window = "closed")

(* The gauge shows the state of the breaker, but for the end of the        *)
(* cool-down, which nobody reports until the next call is admitted.        *)
GaugeLagsByCoolDown == reported = window \/ (window = "half" /\ reported = "open")

(* The strengthening that makes the safety properties inductive.           *)
IInv == TypeOK /\ ClosedBelowThreshold /\ SingleProbe /\ GaugeLagsByCoolDown
=============================================================================
