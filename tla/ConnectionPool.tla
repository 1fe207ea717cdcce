---- MODULE ConnectionPool ----
(***************************************************************************)
(* The pool of database connections and the requests that share it:        *)
(* IncidentsService.create, which holds one connection for its transaction *)
(* and takes another for each lookup and for the insert; UsersService      *)
(* create and update, which do all their work on the one they hold; and    *)
(* everything else, which takes a connection for the time of a query.      *)
(* After its commit a create emits 'incident.created'.                     *)
(*                                                                         *)
(*   connect, user, insert, ask      waiting for a connection of the pool  *)
(*   begin, work, commit, rollback,  on the connection of the transaction  *)
(*   release                                                               *)
(*   in_user, in_insert, in_ask      a query on a connection of its own    *)
(***************************************************************************)
EXTENDS Notifications, FiniteSets

CONSTANTS Connections, \* as many as poolSize, `max`, allows
          Requests,    \* request slots, each running one request at a time
          None

ASSUME PoolAssumption == None \notin Connections

VARIABLES free,     \* connections in the pool
          pc,       \* where each request stands
          kind,     \* what it is: "create", "account" or "query"
          main,     \* the connection of its query runner
          side,     \* the connection of the query it runs beside that
          abandoned \* auxiliary: connections whose BEGIN failed

poolVars == <<free, pc, kind, main, side, abandoned>>
vars == <<poolVars, notificationVars>>

Kinds == {"create", "account", "query"}
Waiting == {"connect", "user", "insert", "ask"}
Querying == {"in_user", "in_insert", "in_ask"}
Transaction == {"begin", "work", "commit", "rollback", "release"}

Init == /\ free = Connections
        /\ pc = [r \in Requests |-> "idle"]
        /\ kind = [r \in Requests |-> "query"]
        /\ main = [r \in Requests |-> None]
        /\ side = [r \in Requests |-> None]
        /\ abandoned = {}
        /\ InitNotifications

Goto(r, label) == pc' = [pc EXCEPT ![r] = label]

Arrive(r) == /\ pc[r] = "idle"
             /\ \E k \in Kinds : /\ kind' = [kind EXCEPT ![r] = k]
                                 /\ Goto(r, IF k = "query" THEN "ask" ELSE "connect")
             /\ UNCHANGED <<free, main, side, abandoned, notificationVars>>
-----------------------------------------------------------------------------
(* The pool *)

\* A connection is handed to a request that waits for one: to its query
\* runner, or for one query.
Acquire(r) ==
  /\ pc[r] \in Waiting
  /\ \E c \in free :
       /\ free' = free \ {c}
       /\ IF pc[r] = "connect"
          THEN main' = [main EXCEPT ![r] = c] /\ UNCHANGED side
          ELSE side' = [side EXCEPT ![r] = c] /\ UNCHANGED main
  /\ Goto(r, [connect |-> "begin", user |-> "in_user", insert |-> "in_insert",
              ask |-> "in_ask"][pc[r]])
  /\ UNCHANGED <<kind, abandoned, notificationVars>>

\* Planted bug: an error goes to the client at once.
StraightOut(r) == "idle"

\* Where an error leads: into the catch of a transaction under way, to the
\* client otherwise.
AfterError(r) == IF main[r] = None THEN "idle" ELSE "rollback"

\* Planted bug: no connectionTimeoutMillis, requests wait for ever.
NeverTimesOut(r) == FALSE /\ UNCHANGED vars

\* connectionTimeoutMillis is over: the wait ends with an error.  (Steps
\* take any time, so that it may be over whenever a request still waits.)
TimeOut(r) == /\ pc[r] \in Waiting
              /\ Goto(r, AfterError(r))
              /\ UNCHANGED <<free, kind, main, side, abandoned, notificationVars>>

\* A query ends, well or not, and its connection is given back.
Query(r) ==
  /\ pc[r] \in Querying
  /\ free' = free \cup {side[r]}
  /\ side' = [side EXCEPT ![r] = None]
  /\ \/ Goto(r, AfterError(r))
     \/ Goto(r, [in_user |-> "insert", in_insert |-> "commit", in_ask |-> "idle"][pc[r]])
  /\ UNCHANGED <<kind, main, abandoned, notificationVars>>
-----------------------------------------------------------------------------
(* Transactions *)

\* startTransaction.  It stands before the `try`: when it throws, the
\* request fails and nobody releases the connection.
Begin(r) ==
  /\ pc[r] = "begin"
  /\ \/ /\ kind[r] = "create"
        /\ \E next \in {"user", "insert"} : Goto(r, next) \* an assignee is given, or not
        /\ UNCHANGED <<main, abandoned>>
     \/ /\ kind[r] = "account"
        /\ Goto(r, "work")
        /\ UNCHANGED <<main, abandoned>>
     \/ /\ Goto(r, "idle")
        /\ main' = [main EXCEPT ![r] = None]
        /\ abandoned' = abandoned \cup {main[r]}
  /\ UNCHANGED <<free, kind, side, notificationVars>>

\* The statements of an account's transaction.
Work(r) == /\ pc[r] = "work"
           /\ \E next \in {"commit", "rollback"} : Goto(r, next)
           /\ UNCHANGED <<free, kind, main, side, abandoned, notificationVars>>

\* commitTransaction; after that of an incident the event and its handler.
Commit(r) ==
  /\ pc[r] = "commit"
  /\ \/ Goto(r, "rollback") /\ UNCHANGED notificationVars
     \/ /\ Goto(r, "release")
        /\ IF kind[r] = "create" THEN \E fails \in BOOLEAN : Handle(fails)
                                 ELSE UNCHANGED notificationVars
  /\ UNCHANGED <<free, kind, main, side, abandoned>>

\* Planted bug: when rollbackTransaction throws, release is not reached.
RollbackThrows(r) ==
  /\ pc[r] = "rollback"
  /\ \/ Goto(r, "release") /\ UNCHANGED main
     \/ Goto(r, "idle") /\ main' = [main EXCEPT ![r] = None]
  /\ UNCHANGED <<free, kind, side, abandoned, notificationVars>>

\* rollbackTransaction, whose own error changes nothing here.
Rollback(r) == /\ pc[r] = "rollback"
               /\ Goto(r, "release")
               /\ UNCHANGED <<free, kind, main, side, abandoned, notificationVars>>

\* The finally block.
Release(r) == /\ pc[r] = "release"
              /\ free' = free \cup {main[r]}
              /\ main' = [main EXCEPT ![r] = None]
              /\ Goto(r, "idle")
              /\ UNCHANGED <<kind, side, abandoned, notificationVars>>
-----------------------------------------------------------------------------
Go(r) == \/ Acquire(r) \/ TimeOut(r) \/ Query(r) \/ Begin(r)
         \/ Work(r) \/ Commit(r) \/ Rollback(r) \/ Release(r)

\* Events of other components; handlers' ends; time.
Events == /\ \/ \E fails \in BOOLEAN : Handle(fails)
             \/ \E o \in Outcomes : Settle(o)
             \/ Tick
          /\ UNCHANGED poolVars

Next == Events \/ \E r \in Requests : Arrive(r) \/ Go(r)

Spec == Init /\ [][Next]_vars

\* A request that has a step to take takes it, and so do handlers.
FairSpec == Spec /\ (\A r \in Requests : WF_vars(Go(r)))
                 /\ \A o \in Outcomes : WF_vars(Settle(o) /\ UNCHANGED poolVars)
-----------------------------------------------------------------------------
\* The variables hold what the code can put in them, and a request has the
\* connections its step needs.
TypeOK == /\ free \subseteq Connections /\ abandoned \subseteq Connections
          /\ pc \in [Requests -> {"idle"} \cup Waiting \cup Querying \cup Transaction]
          /\ kind \in [Requests -> Kinds]
          /\ main \in [Requests -> Connections \cup {None}]
          /\ side \in [Requests -> Connections \cup {None}]
          /\ \A r \in Requests :
               /\ pc[r] \in Querying <=> side[r] # None
               /\ pc[r] \in Transaction \cup {"user", "in_user", "insert", "in_insert"}
                    <=> main[r] # None
          /\ breaker \in CircuitBreakerState
          /\ handlers \in [Outcomes -> Nat]
          /\ refused \in BOOLEAN

InUse == {main[r] : r \in Requests} \cup {side[r] : r \in Requests}

\* Every connection is in the pool, or with one request for one purpose, or
\* was lost to a BEGIN that failed: no other error path, not even a failing
\* rollback, loses one or gives one to two.
ConnectionsAccounted ==
  /\ Connections \ (free \cup InUse) = abandoned
  /\ free \cap InUse = {}
  /\ \A r, q \in Requests : /\ main[r] # None => main[r] # side[q]
                            /\ r # q /\ main[r] # None => main[r] # main[q]
                            /\ r # q /\ side[r] # None => side[r] # side[q]

\* Every request is answered, also when creates hold all connections and each
\* waits for one more, or all have been lost.
EveryRequestEnds == \A r \in Requests : pc[r] # "idle" ~> pc[r] = "idle"
====
