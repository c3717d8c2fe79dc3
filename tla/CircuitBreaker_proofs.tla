----------------------- MODULE CircuitBreaker_proofs -----------------------
(***************************************************************************)
(* The breaker's counter, window, probe flag and gauge agree for every     *)
(* number of callers and every threshold, under both of its interfaces.    *)
(***************************************************************************)
EXTENDS CircuitBreaker, TLAPS

LEMMA InitHolds == Init => IInv
<1> SUFFICES ASSUME Init PROVE IInv
  OBVIOUS
<1>0. Threshold \in Nat \ {0}
  BY ThresholdPositive
<1>1. TypeOK /\ ClosedBelowThreshold /\ GaugeLagsByCoolDown
  <2>1. probeInFlight \in BOOLEAN /\ trouble \in BOOLEAN /\ adapter \in {"postgres", "http"}
    BY DEF Init
  <2>2. failures \in Nat
        /\ ClosedBelowThreshold /\ GaugeLagsByCoolDown
    BY <1>0 DEF Init, ClosedBelowThreshold, GaugeLagsByCoolDown
  <2>3. call \in [Callers -> {"none", "normal", "probe"}]
    BY DEF Init
  <2>4. window \in {"closed", "open", "half"} /\ reported \in {"closed", "open", "half"}
    BY DEF Init
  <2> QED
    BY <2>1, <2>2, <2>3, <2>4 DEF TypeOK
<1>2. Probes = {} /\ probeInFlight = FALSE
  BY DEF Init, Probes
<1>3. SingleProbe
  BY <1>2 DEF SingleProbe
<1> QED
  BY <1>1, <1>3 DEF IInv

(* A call that ends leaves at most one probe, and the flag with it.        *)
LEMMA FinishKeepsProbe ==
  ASSUME IInv, NEW c \in Callers, Finish(c)
  PROVE  /\ SingleProbe'
         /\ probeInFlight' \in BOOLEAN
         /\ call' \in [Callers -> {"none", "normal", "probe"}]
<1>1. call' = [call EXCEPT ![c] = "none"] /\ probeInFlight' = ProbeEnds(c)
      /\ adapter = "postgres" /\ adapter' = adapter
  BY DEF Finish
<1>2. call \in [Callers -> {"none", "normal", "probe"}] /\ probeInFlight \in BOOLEAN
  BY DEF IInv, TypeOK
<1>3. Probes' = Probes \ {c}
  BY <1>1, <1>2 DEF Probes
<1>4. CASE call[c] = "probe"
  <2>1. Probes = {c}
    BY <1>4 DEF IInv, SingleProbe, Probes
  <2>2. Probes' = {} /\ probeInFlight' = FALSE
    BY <1>1, <1>3, <1>4, <2>1 DEF ProbeEnds
  <2> QED
    BY <1>1, <1>2, <2>2 DEF SingleProbe
<1>5. CASE call[c] # "probe"
  <2>1. Probes' = Probes /\ probeInFlight' = probeInFlight
    BY <1>1, <1>2, <1>3, <1>5 DEF ProbeEnds, Probes
  <2> QED
    BY <1>1, <1>2, <2>1 DEF IInv, SingleProbe
<1> QED
  BY <1>4, <1>5

(* Counting a failure keeps counter, window and gauge in step.             *)
LEMMA CountKeepsStep ==
  ASSUME IInv, CountFailure
  PROVE  /\ ClosedBelowThreshold' /\ GaugeLagsByCoolDown'
         /\ failures' \in Nat
         /\ window' \in {"closed", "open", "half"}
         /\ reported' \in {"closed", "open", "half"}
BY ThresholdPositive DEF IInv, TypeOK, ClosedBelowThreshold, GaugeLagsByCoolDown, CountFailure, Tripped

LEMMA ThrowKeeps ==
  ASSUME IInv, NEW c \in Callers, Throw(c)
  PROVE  IInv'
<1>1. Finish(c)
  BY DEF Throw
<1>2. /\ ClosedBelowThreshold' /\ GaugeLagsByCoolDown'
      /\ failures' \in Nat
      /\ window' \in {"closed", "open", "half"}
      /\ reported' \in {"closed", "open", "half"}
  <2>1. CASE call[c] = "probe"
    BY <2>1, ThresholdPositive DEF Throw, ClosedBelowThreshold, GaugeLagsByCoolDown
  <2>2. CASE call[c] # "probe"
    BY <2>2, CountKeepsStep DEF Throw
  <2> QED
    BY <2>1, <2>2
<1>3. trouble' \in BOOLEAN /\ adapter' \in {"postgres", "http"}
  BY <1>1 DEF Finish, IInv, TypeOK
<1> QED
  BY <1>1, <1>2, <1>3, FinishKeepsProbe DEF IInv, TypeOK

LEMMA EnvironmentKeeps ==
  ASSUME IInv, Trouble \/ CoolDown \/ UNCHANGED vars
  PROVE  IInv'
<1>1. Probes' = Probes
  BY DEF Probes, Trouble, CoolDown, vars
<1>2. TypeOK' /\ ClosedBelowThreshold' /\ GaugeLagsByCoolDown'
  BY DEF IInv, TypeOK, ClosedBelowThreshold, GaugeLagsByCoolDown, Trouble, CoolDown, vars
<1>3. SingleProbe'
  BY <1>1 DEF IInv, SingleProbe, Trouble, CoolDown, vars
<1> QED
  BY <1>2, <1>3 DEF IInv

(* Every step keeps the invariant.                                         *)
LEMMA NextKeeps == IInv /\ [Next]_vars => IInv'
<1> SUFFICES ASSUME IInv, [Next]_vars PROVE IInv'
  OBVIOUS
<1>1. ASSUME NEW c \in Callers, Admit(c) PROVE IInv'
  <2>1. Probes' = Probes
    BY <1>1 DEF Admit, Probes, IInv, TypeOK
  <2> QED
    BY <1>1, <2>1 DEF Admit, IInv, TypeOK, ClosedBelowThreshold, SingleProbe, GaugeLagsByCoolDown
<1>2. ASSUME NEW c \in Callers, AdmitProbe(c) PROVE IInv'
  <2>1. Probes = {} /\ Probes' = {c} /\ probeInFlight' = TRUE
    BY <1>2 DEF AdmitProbe, Probes, IInv, TypeOK, SingleProbe
  <2>2. SingleProbe'
    BY <1>2, <2>1 DEF SingleProbe, AdmitProbe
  <2> QED
    BY <1>2, <2>2 DEF AdmitProbe, IInv, TypeOK, ClosedBelowThreshold, GaugeLagsByCoolDown
<1>3. ASSUME NEW c \in Callers, Succeed(c) PROVE IInv'
  <2>1. SingleProbe' /\ probeInFlight' \in BOOLEAN
        /\ call' \in [Callers -> {"none", "normal", "probe"}]
    BY <1>3, FinishKeepsProbe DEF Succeed
  <2>2. GaugeLagsByCoolDown' /\ reported' \in {"closed", "open", "half"}
    BY <1>3 DEF Succeed, Restored, GaugeLagsByCoolDown, IInv, TypeOK
  <2> QED
    BY <1>3, <2>1, <2>2, ThresholdPositive DEF Succeed, Finish, IInv, TypeOK, ClosedBelowThreshold
<1>4. ASSUME NEW c \in Callers, Fail(c) \/ Refuse(c) PROVE IInv'
  BY <1>4, ThrowKeeps DEF Fail, Refuse
<1>5. ASSUME NEW c \in Callers, Request(c) PROVE IInv'
  <2>1. Probes = {} /\ Probes' = {}
    BY <1>5 DEF Request, Probes, IInv, TypeOK, SingleProbe
  <2>2. SingleProbe'
    BY <1>5, <2>1 DEF Request, IInv, SingleProbe
  <2> QED
    BY <1>5, <2>2, ThresholdPositive
    DEF Request, IInv, TypeOK, ClosedBelowThreshold, GaugeLagsByCoolDown
<1>6. ASSUME NEW c \in Callers, EndRequest(c)
      PROVE  /\ SingleProbe' /\ probeInFlight' \in BOOLEAN
             /\ call' \in [Callers -> {"none", "normal", "probe"}]
             /\ trouble' \in BOOLEAN /\ adapter' \in {"postgres", "http"}
  <2>1. Probes = {} /\ Probes' = {}
    BY <1>6 DEF EndRequest, Probes, IInv, TypeOK, SingleProbe
  <2> QED
    BY <1>6, <2>1 DEF EndRequest, IInv, TypeOK, SingleProbe
<1>7. ASSUME NEW c \in Callers, PlainResponse(c) PROVE IInv'
  <2>1. GaugeLagsByCoolDown' /\ reported' \in {"closed", "open", "half"}
    BY <1>7 DEF PlainResponse, Restored, GaugeLagsByCoolDown, IInv, TypeOK
  <2> QED
    BY <1>6, <1>7, <2>1, ThresholdPositive
    DEF PlainResponse, IInv, TypeOK, ClosedBelowThreshold
<1>8. ASSUME NEW c \in Callers, EnvelopeOrRefusal(c) PROVE IInv'
  BY <1>6, <1>8, ThresholdPositive
  DEF EnvelopeOrRefusal, IInv, TypeOK, ClosedBelowThreshold, GaugeLagsByCoolDown
<1>9. ASSUME NEW c \in Callers, RequestFails(c) PROVE IInv'
  BY <1>6, <1>9, CountKeepsStep DEF RequestFails, IInv, TypeOK
<1> QED
  BY <1>1, <1>2, <1>3, <1>4, <1>5, <1>7, <1>8, <1>9, EnvironmentKeeps
  DEF Next, Execute, Return, Respond

-----------------------------------------------------------------------------

(* The inductive invariant holds for any number of wallet calls.           *)
THEOREM BreakerInvariance == Spec => []IInv
BY InitHolds, NextKeeps, PTL DEF Spec

(* At most one probe at a time tests a database that failed, and the flag  *)
(* that rejects the other callers is up exactly while it runs.             *)
THEOREM OneProbeAtATime == Spec => []SingleProbe
<1>1. IInv => SingleProbe
  BY DEF IInv
<1> QED
  BY <1>1, BreakerInvariance, PTL

(* The breaker is closed exactly while fewer failures than the threshold   *)
(* are counted, for both adapters.                                         *)
THEOREM CounterInStep == Spec => []ClosedBelowThreshold
<1>1. IInv => ClosedBelowThreshold
  BY DEF IInv
<1> QED
  BY <1>1, BreakerInvariance, PTL

(* What operators see is the state of the breaker, but for the end of the  *)
(* cool-down.                                                              *)
THEOREM GaugeInStep == Spec => []GaugeLagsByCoolDown
<1>1. IInv => GaugeLagsByCoolDown
  BY DEF IInv
<1> QED
  BY <1>1, BreakerInvariance, PTL
=============================================================================
