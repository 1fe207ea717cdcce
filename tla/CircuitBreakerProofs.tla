---- MODULE CircuitBreakerProofs ----
(***************************************************************************)
(* What the circuit breaker guarantees for every set of callers, every     *)
(* threshold and every recovery timeout.                                   *)
(*                                                                         *)
(* The inductive invariant adds one fact to the type invariant and         *)
(* ClosedBelowThreshold: while the breaker is open, its last failure is at *)
(* least as recent as its opening.  Every outcome recorded while it is     *)
(* open keeps that, and it is what turns the test in execute, which is     *)
(* about the last failure, into a statement about the opening.             *)
(***************************************************************************)
EXTENDS CircuitBreaker, BreakerStateProofs

FailureSinceOpening == breaker.status = "OPEN" => breaker.sinceFailure <= openFor

Inv == TypeOK /\ ClosedBelowThreshold /\ FailureSinceOpening

\* The breaker starts in the invariant.
LEMMA InitInv == Init => Inv
<1> SUFFICES ASSUME Init PROVE Inv
  OBVIOUS
<1>1. TypeOK
  BY BreakerAssumption DEF Init, TypeOK, NewBreaker, CircuitBreakerState
<1>2. ClosedBelowThreshold /\ FailureSinceOpening
  BY BreakerAssumption DEF Init, NewBreaker, ClosedBelowThreshold, FailureSinceOpening
<1> QED
  BY <1>1, <1>2 DEF Inv

\* Every step of the breaker and its callers keeps the invariant.
LEMMA NextInv == Inv /\ [Next]_vars => Inv'
<1> SUFFICES ASSUME Inv, [Next]_vars PROVE Inv'
  OBVIOUS
<1> USE BreakerAssumption DEF Inv, TypeOK, ClosedBelowThreshold, FailureSinceOpening
<1>1. CASE UNCHANGED vars
  BY <1>1 DEF vars
<1>2. ASSUME NEW c \in Calls, Refuse(c) PROVE Inv'
  BY <1>2 DEF Refuse, vars
<1>3. ASSUME NEW c \in Calls, Admit(c) PROVE Inv'
  <2>1. TypeOK'
    BY <1>3, BreakerStateTypes DEF Admit, NoteOpening
  <2>2. ClosedBelowThreshold' /\ FailureSinceOpening'
    BY <1>3 DEF Admit, NoteOpening, Admitted, CircuitBreakerState
  <2> QED
    BY <2>1, <2>2
<1>4. ASSUME NEW c \in Calls, Succeed(c) PROVE Inv'
  <2>1. TypeOK'
    BY <1>4, BreakerStateTypes DEF Succeed, NoteOpening
  <2>2. ClosedBelowThreshold' /\ FailureSinceOpening'
    BY <1>4 DEF Succeed, NoteOpening, recordSuccess, CircuitBreakerState
  <2> QED
    BY <2>1, <2>2
<1>5. ASSUME NEW c \in Calls, Fail(c) PROVE Inv'
  <2>1. TypeOK'
    BY <1>5, BreakerStateTypes DEF Fail, NoteOpening
  <2>2. ClosedBelowThreshold' /\ FailureSinceOpening'
    BY <1>5, <2>1 DEF Fail, NoteOpening, recordFailure, OneMoreFailure, CircuitBreakerState
  <2> QED
    BY <2>1, <2>2
<1>6. CASE resetBreaker
  <2>1. TypeOK'
    BY <1>6, BreakerStateTypes DEF resetBreaker, NoteOpening
  <2>2. ClosedBelowThreshold' /\ FailureSinceOpening'
    BY <1>6 DEF resetBreaker, NoteOpening, NewBreaker
  <2> QED
    BY <2>1, <2>2
<1>7. CASE Tick
  <2>1. TypeOK'
    BY <1>7, BreakerStateTypes DEF Tick
  <2>2. ClosedBelowThreshold' /\ FailureSinceOpening'
    BY <1>7 DEF Tick, Aged, CircuitBreakerState
  <2> QED
    BY <2>1, <2>2
<1> QED
  BY <1>1, <1>2, <1>3, <1>4, <1>5, <1>6, <1>7 DEF Next

\* Every reachable state satisfies the invariant.
LEMMA Invariance == Spec => []Inv
<1> QED
  BY InitInv, NextInv, PTL DEF Spec

\* The breaker record and the counters stay in their ranges.
THEOREM BreakerTyped == Spec => []TypeOK
<1>1. Inv => TypeOK
  BY DEF Inv
<1> QED
  BY <1>1, Invariance, PTL

\* No order of late outcomes, trials and resets leaves the breaker closed on
\* failureThreshold failures in a row.
THEOREM BreakerClosedBelowThreshold == Spec => []ClosedBelowThreshold
<1>1. Inv => ClosedBelowThreshold
  BY DEF Inv
<1> QED
  BY <1>1, Invariance, PTL

\* An open breaker lets nobody through before recoveryTimeout has passed since
\* it opened, whatever calls already in flight report meanwhile.
THEOREM BreakerStaysQuiet == Spec => StaysQuiet
<1>1. Inv /\ [Next]_vars =>
        [breaker.status = "OPEN" /\ inFlight' \ inFlight # {} => openFor >= recoveryTimeout]_vars
  <2> SUFFICES ASSUME Inv, Next, breaker.status = "OPEN", inFlight' \ inFlight # {}
               PROVE  openFor >= recoveryTimeout
    BY DEF vars
  <2>1. PICK c \in Calls : Admit(c)
    BY DEF Next, Refuse, Succeed, Fail, resetBreaker, Tick, vars
  <2> QED
    BY <2>1, BreakerAssumption
    DEF Inv, TypeOK, FailureSinceOpening, Admit, Refuses, CircuitBreakerState
<1> QED
  BY <1>1, Invariance, PTL DEF Spec, StaysQuiet
====
