---- MODULE BreakerState ----
(***************************************************************************)
(* The state CircuitBreakerService keeps for one service name, and the     *)
(* synchronous pieces of code that read and change it.  A breaker is used  *)
(* by whoever calls `execute`; CircuitBreaker runs one on its own,         *)
(* Escalation runs the one named 'escalation-queue'.                       *)
(*                                                                         *)
(* Date.now() - lastFailureTime is only ever compared with                 *)
(* recoveryTimeout, so the record keeps that difference, counted up to     *)
(* recoveryTimeout, in place of two absolute times; failureCount is only   *)
(* ever compared with failureThreshold and is counted up to it.            *)
(* successCount is reported but never read, and is left out.               *)
(***************************************************************************)
EXTENDS Integers

CONSTANTS failureThreshold, \* failures in a row that open the breaker
          recoveryTimeout   \* ticks an open breaker refuses calls

ASSUME BreakerAssumption == /\ failureThreshold \in Nat \ {0}
                            /\ recoveryTimeout \in Nat

CircuitBreakerState ==
  [ status       : {"CLOSED", "OPEN", "HALF_OPEN"},
    failureCount : 0 .. failureThreshold,
    sinceFailure : 0 .. recoveryTimeout ]

\* getOrCreateBreaker: lastFailureTime 0 is further away than any timeout.
NewBreaker == [status |-> "CLOSED", failureCount |-> 0, sinceFailure |-> recoveryTimeout]

\* The test at the head of execute: a call is refused while the breaker is
\* open and its last failure is recent ...
Refuses(b) == b.status = "OPEN" /\ b.sinceFailure < recoveryTimeout

\* ... and is let through otherwise, an open breaker becoming half-open.
Admitted(b) == IF b.status = "OPEN" THEN [b EXCEPT !.status = "HALF_OPEN"] ELSE b

\* Planted bug: a success forgives the failures but never closes the breaker.
SuccessKeepsStatus(b) == [b EXCEPT !.failureCount = 0]

recordSuccess(b) ==
  [ status       |-> IF b.status = "HALF_OPEN" THEN "CLOSED" ELSE b.status,
    failureCount |-> 0,
    sinceFailure |-> b.sinceFailure ]

\* Planted bug: the counter is not kept within its range.
UncappedFailure(b) == b.failureCount + 1

OneMoreFailure(b) ==
  IF b.failureCount < failureThreshold THEN b.failureCount + 1 ELSE failureThreshold

\* Planted bug: ">" for ">=", the breaker opens one failure too late.
OpensTooLate(b) ==
  [ status       |-> IF b.failureCount >= failureThreshold THEN "OPEN" ELSE b.status,
    failureCount |-> OneMoreFailure(b),
    sinceFailure |-> 0 ]

\* Planted bug: lastFailureTime is not updated.
ForgetsTheTime(b) ==
  [b EXCEPT !.status = IF OneMoreFailure(b) >= failureThreshold THEN "OPEN" ELSE @,
            !.failureCount = OneMoreFailure(b)]

recordFailure(b) ==
  [ status       |-> IF OneMoreFailure(b) >= failureThreshold THEN "OPEN" ELSE b.status,
    failureCount |-> OneMoreFailure(b),
    sinceFailure |-> 0 ]

\* One unit of time passes.
Aged(b) == [b EXCEPT !.sinceFailure = IF @ < recoveryTimeout THEN @ + 1 ELSE @]
====
