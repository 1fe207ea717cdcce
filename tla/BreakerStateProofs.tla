---- MODULE BreakerStateProofs ----
(***************************************************************************)
(* The state changes of BreakerState keep a breaker record well formed,    *)
(* whoever uses the breaker.                                               *)
(***************************************************************************)
EXTENDS BreakerState, TLAPS

\* The state changes of BreakerState keep a breaker record well formed.
LEMMA BreakerStateTypes ==
  ASSUME NEW b \in CircuitBreakerState
  PROVE  /\ NewBreaker \in CircuitBreakerState
         /\ Admitted(b) \in CircuitBreakerState
         /\ recordSuccess(b) \in CircuitBreakerState
         /\ recordFailure(b) \in CircuitBreakerState
         /\ Aged(b) \in CircuitBreakerState
<1> USE BreakerAssumption DEF CircuitBreakerState
<1>1. NewBreaker \in CircuitBreakerState
  BY DEF NewBreaker
<1>2. Admitted(b) \in CircuitBreakerState
  BY DEF Admitted
<1>3. recordSuccess(b) \in CircuitBreakerState
  BY DEF recordSuccess
<1>4. recordFailure(b) \in CircuitBreakerState
  BY DEF recordFailure, OneMoreFailure
<1>5. Aged(b) \in CircuitBreakerState
  BY DEF Aged
<1> QED
  BY <1>1, <1>2, <1>3, <1>4, <1>5
====
