---- MODULE CircuitBreaker ----
(***************************************************************************)
(* One circuit breaker and the calls that go through it concurrently.      *)
(* `execute` decides synchronously whether to let a call through, awaits   *)
(* the operation, and records the outcome in whatever state the breaker    *)
(* has by then: calls let through before the breaker opened settle while   *)
(* it is open or half-open.                                                *)
(***************************************************************************)
EXTENDS BreakerState

CONSTANT Calls \* callers of execute, each with at most one call in flight

VARIABLES breaker,  \* the entry of `breakers` for the service name
          inFlight, \* callers whose operation is being awaited
          openFor   \* auxiliary: ticks since the breaker last became OPEN,
                    \* counted up to recoveryTimeout

vars == <<breaker, inFlight, openFor>>

Init == /\ breaker = NewBreaker
        /\ inFlight = {}
        /\ openFor = recoveryTimeout

\* openFor starts again whenever a step opens the breaker.
NoteOpening ==
  openFor' = IF breaker.status # "OPEN" /\ breaker'.status = "OPEN" THEN 0 ELSE openFor

\* Planted bug: the refusal is thrown inside the try and counted as a failure.
RefuseInsideTry(c) == /\ c \notin inFlight
                      /\ Refuses(breaker)
                      /\ breaker' = recordFailure(breaker)
                      /\ UNCHANGED inFlight
                      /\ NoteOpening

\* execute, refused: it throws before the operation and outside the try.
Refuse(c) == /\ c \notin inFlight
             /\ Refuses(breaker)
             /\ UNCHANGED vars

\* execute, up to `await operation()`.
Admit(c) == /\ c \notin inFlight
            /\ ~Refuses(breaker)
            /\ breaker' = Admitted(breaker)
            /\ inFlight' = inFlight \cup {c}
            /\ NoteOpening

\* The operation resolves, recordSuccess.
Succeed(c) == /\ c \in inFlight
              /\ breaker' = recordSuccess(breaker)
              /\ inFlight' = inFlight \ {c}
              /\ NoteOpening

\* The operation rejects, recordFailure, rethrow.
Fail(c) == /\ c \in inFlight
           /\ breaker' = recordFailure(breaker)
           /\ inFlight' = inFlight \ {c}
           /\ NoteOpening

\* The public resetBreaker.
resetBreaker == /\ breaker' = NewBreaker
                /\ UNCHANGED inFlight
                /\ NoteOpening

Tick == /\ breaker' = Aged(breaker)
        /\ openFor' = IF openFor < recoveryTimeout THEN openFor + 1 ELSE openFor
        /\ UNCHANGED inFlight

Next == \/ \E c \in Calls : Refuse(c) \/ Admit(c) \/ Succeed(c) \/ Fail(c)
        \/ resetBreaker
        \/ Tick

Spec == Init /\ [][Next]_vars

\* Time passes, every operation settles one way or the other, and callers
\* keep calling.  The service has no timer of its own: an open breaker that
\* nobody calls stays open, which is why the last conjunct is needed.
Fairness == /\ WF_vars(Tick)
            /\ \A c \in Calls : WF_vars(Succeed(c) \/ Fail(c)) /\ WF_vars(Admit(c))

FairSpec == Spec /\ Fairness
-----------------------------------------------------------------------------
\* The variables hold what the code can put in them.
TypeOK == /\ breaker \in CircuitBreakerState
          /\ inFlight \subseteq Calls
          /\ openFor \in 0 .. recoveryTimeout

\* A closed breaker has seen fewer failures in a row than the threshold: no
\* order of late outcomes, trials and resets leaves it closed on a counter
\* that should have opened it.
ClosedBelowThreshold == breaker.status = "CLOSED" => breaker.failureCount < failureThreshold

\* Once open, the breaker keeps every caller out for at least
\* recoveryTimeout, whatever the calls that were already in flight when it
\* opened report in the meantime.
StaysQuiet ==
  [][ breaker.status = "OPEN" /\ inFlight' \ inFlight # {}
        => openFor >= recoveryTimeout ]_vars

\* What was already in flight may postpone the next trial but cannot do so
\* for ever: an open breaker with callers is eventually tried again.
OpenIsLeft == breaker.status = "OPEN" ~> breaker.status # "OPEN"

\* A trial comes to an end: a half-open breaker closes or opens again, also
\* when a late success has set the counter back to zero meanwhile.
HalfOpenIsLeft == breaker.status = "HALF_OPEN" ~> breaker.status # "HALF_OPEN"
====
