---- MODULE Notifications ----
(***************************************************************************)
(* NotificationService: the handlers of 'incident.created',                *)
(* 'incident.acknowledged' and 'incident.escalated', and the breaker       *)
(* 'notification-service' they go through.  Emitting an event runs its     *)
(* handler up to the end of the sending, which so far only writes to the   *)
(* log; the outcome is recorded in the breaker later.  The three handlers  *)
(* differ in what they say and to whom.                                    *)
(***************************************************************************)
EXTENDS BreakerState

CONSTANT MaxHandlers \* bound of the model: handlers in progress

ASSUME HandlersAssumption == MaxHandlers \in Nat

VARIABLES breaker,  \* the breaker 'notification-service'
          handlers, \* outcome -> handlers that ended so and are to record it
          refused   \* auxiliary: an event has gone unsent

notificationVars == <<breaker, handlers, refused>>

Outcomes == {"sent", "failed"}

InitNotifications == /\ breaker = NewBreaker
                     /\ handlers = [o \in Outcomes |-> 0]
                     /\ refused = FALSE

\* Planted bug: what sending throws is thrown on.
Rethrows(fails) == IF fails THEN "failed" ELSE "sent"

\* How the operation given to the breaker ends: sendNotification,
\* sendToUsers and, for each user, sendToUser catch whatever sending throws.
Outcome(fails) == "sent"

\* The handler: refused by the breaker, which is caught and logged, or sent.
Handle(fails) ==
  /\ handlers["sent"] + handlers["failed"] < MaxHandlers
  /\ IF Refuses(breaker)
     THEN refused' = TRUE /\ UNCHANGED <<breaker, handlers>>
     ELSE /\ breaker' = Admitted(breaker)
          /\ handlers' = [handlers EXCEPT ![Outcome(fails)] = @ + 1]
          /\ UNCHANGED refused

Settle(o) ==
  /\ handlers[o] > 0
  /\ handlers' = [handlers EXCEPT ![o] = @ - 1]
  /\ breaker' = IF o = "sent" THEN recordSuccess(breaker) ELSE recordFailure(breaker)
  /\ UNCHANGED refused

Tick == breaker' = Aged(breaker) /\ UNCHANGED <<handlers, refused>>

\* However many sendings fail, the breaker never learns of it and never
\* refuses an event: nobody goes unnotified because of others' failures (and
\* nothing is spared when the channel is down).
NothingRefused == ~refused /\ breaker.status = "CLOSED" /\ breaker.failureCount = 0
====
