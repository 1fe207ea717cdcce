---- MODULE MCCircuitBreaker ----
(***************************************************************************)
(* CircuitBreaker with three callers, a threshold of two failures and a    *)
(* recovery timeout of two ticks: two calls can fail and open the breaker  *)
(* while a third, let through before, is still in flight.                  *)
(***************************************************************************)
EXTENDS CircuitBreaker
====
