---- MODULE ConnectionPoolProofs ----
(***************************************************************************)
(* Theorems about the connection pool and the notifications the requests   *)
(* cause, for any number of connections, requests and handlers.  Types and *)
(* accounts are inductive together; that nothing is refused needs one fact *)
(* more, that no handler ends as failed.                                   *)
(***************************************************************************)
EXTENDS ConnectionPool, BreakerStateProofs

NotificationsOK == /\ breaker \in CircuitBreakerState
                   /\ handlers \in [Outcomes -> Nat]
                   /\ refused \in BOOLEAN
                   /\ handlers["failed"] = 0
                   /\ NothingRefused

\* A request has the connections its step needs.
Shape(r) == /\ pc[r] \in Querying <=> side[r] # None
            /\ pc[r] \in Transaction \cup {"user", "in_user", "insert", "in_insert"}
                 <=> main[r] # None

RequestsOK == /\ free \subseteq Connections /\ abandoned \subseteq Connections
              /\ pc \in [Requests -> {"idle"} \cup Waiting \cup Querying \cup Transaction]
              /\ kind \in [Requests -> Kinds]
              /\ main \in [Requests -> Connections \cup {None}]
              /\ side \in [Requests -> Connections \cup {None}]
              /\ \A r \in Requests : Shape(r)

IInv == RequestsOK /\ ConnectionsAccounted /\ NotificationsOK
-----------------------------------------------------------------------------
LEMMA InitInv == Init => IInv
<1> SUFFICES ASSUME Init PROVE IInv
  OBVIOUS
<1>1. RequestsOK
  BY DEF Init, RequestsOK, Shape, Waiting, Querying, Transaction, Kinds
<1>2. ConnectionsAccounted
  BY PoolAssumption DEF Init, ConnectionsAccounted, InUse
<1>3. NotificationsOK
  <2>1. NewBreaker \in CircuitBreakerState
    BY BreakerAssumption DEF NewBreaker, CircuitBreakerState
  <2>2. /\ breaker = NewBreaker /\ refused = FALSE
        /\ handlers \in [Outcomes -> Nat] /\ handlers["failed"] = 0
    BY DEF Init, InitNotifications, Outcomes
  <2>3. NothingRefused
    BY <2>2 DEF NothingRefused, NewBreaker
  <2> QED BY <2>1, <2>2, <2>3 DEF NotificationsOK
<1> QED BY <1>1, <1>2, <1>3 DEF IInv

\* A handler leaves the breaker closed and without failures.
LEMMA HandleOK == ASSUME NotificationsOK, NEW fails \in BOOLEAN, Handle(fails)
                  PROVE  NotificationsOK'
<1>1. ~Refuses(breaker) /\ Admitted(breaker) = breaker
  BY DEF NotificationsOK, NothingRefused, Refuses, Admitted
<1>2. /\ breaker' = breaker /\ UNCHANGED refused
      /\ handlers' = [handlers EXCEPT !["sent"] = @ + 1]
  BY <1>1 DEF Handle, Outcome
<1> QED BY <1>2 DEF NotificationsOK, NothingRefused, Outcomes

LEMMA SettleOK == ASSUME NotificationsOK, NEW o \in Outcomes, Settle(o) PROVE NotificationsOK'
<1>1. o = "sent"
  BY DEF NotificationsOK, Outcomes, Settle
<1>2. /\ breaker' = recordSuccess(breaker) /\ UNCHANGED refused
      /\ handlers' = [handlers EXCEPT !["sent"] = @ - 1] /\ handlers["sent"] > 0
  BY <1>1 DEF Settle
<1>3. breaker' \in CircuitBreakerState
  BY <1>2, BreakerStateTypes DEF NotificationsOK
<1> QED BY <1>2, <1>3 DEF NotificationsOK, NothingRefused, Outcomes, recordSuccess

LEMMA TickOK == ASSUME NotificationsOK, Tick PROVE NotificationsOK'
<1>1. breaker' = Aged(breaker) /\ UNCHANGED <<handlers, refused>>
  BY DEF Tick
<1>2. breaker' \in CircuitBreakerState
  BY <1>1, BreakerStateTypes DEF NotificationsOK
<1>3. breaker'.status = breaker.status /\ breaker'.failureCount = breaker.failureCount
  BY <1>1 DEF Aged, NotificationsOK, CircuitBreakerState
<1> QED BY <1>1, <1>2, <1>3 DEF NotificationsOK, NothingRefused

\* Steps that leave the notifications alone.
LEMMA NotificationsRest == NotificationsOK /\ UNCHANGED notificationVars => NotificationsOK'
  BY DEF NotificationsOK, notificationVars, NothingRefused

\* Steps that leave the connections where they are.
LEMMA ConnectionsRest ==
  ConnectionsAccounted /\ UNCHANGED <<free, main, side, abandoned>> => ConnectionsAccounted'
  BY DEF ConnectionsAccounted, InUse
-----------------------------------------------------------------------------
\* Steps of one request that only move it on.
LEMMA MoveOn ==
  ASSUME RequestsOK, NEW r \in Requests, NEW label, Goto(r, label),
         label \in {"idle"} \cup Waiting \cup Querying \cup Transaction,
         UNCHANGED <<free, main, side, abandoned>>, kind' \in [Requests -> Kinds],
         label \in Querying <=> side[r] # None,
         label \in Transaction \cup {"user", "in_user", "insert", "in_insert"} <=> main[r] # None
  PROVE  RequestsOK'
<1>1. pc' = [pc EXCEPT ![r] = label]
  BY DEF Goto
<1>2. ASSUME NEW q \in Requests PROVE Shape(q)'
  BY <1>1 DEF RequestsOK, Shape
<1>3. pc' \in [Requests -> {"idle"} \cup Waiting \cup Querying \cup Transaction]
  BY <1>1 DEF RequestsOK
<1> QED BY <1>2, <1>3 DEF RequestsOK

\* Where an error leads fits the connections of the request.
LEMMA AfterErrorFits ==
  ASSUME RequestsOK, NEW r \in Requests
  PROVE  /\ AfterError(r) \in {"idle", "rollback"}
         /\ AfterError(r) = "rollback" <=> main[r] # None
  BY DEF AfterError

LEMMA ArriveOK == ASSUME IInv, NEW r \in Requests, Arrive(r) PROVE IInv'
<1>1. PICK k \in Kinds : /\ kind' = [kind EXCEPT ![r] = k]
                         /\ Goto(r, IF k = "query" THEN "ask" ELSE "connect")
  BY DEF Arrive
<1>2. UNCHANGED <<free, main, side, abandoned, notificationVars>> /\ pc[r] = "idle"
  BY DEF Arrive
<1>3. main[r] = None /\ side[r] = None
  BY <1>2 DEF IInv, RequestsOK, Shape, Querying, Transaction
<1>4. kind' \in [Requests -> Kinds]
  BY <1>1 DEF IInv, RequestsOK
<1>5. RequestsOK'
  <2>1. CASE k = "query"
    BY <1>1, <1>2, <1>3, <1>4, <2>1, MoveOn DEF IInv, Waiting, Querying, Transaction
  <2>2. CASE k # "query"
    BY <1>1, <1>2, <1>3, <1>4, <2>2, MoveOn DEF IInv, Waiting, Querying, Transaction
  <2> QED BY <2>1, <2>2
<1> QED BY <1>2, <1>5, ConnectionsRest, NotificationsRest DEF IInv

LEMMA TimeOutOK == ASSUME IInv, NEW r \in Requests, TimeOut(r) PROVE IInv'
<1>1. /\ pc[r] \in Waiting /\ Goto(r, AfterError(r))
      /\ UNCHANGED <<free, kind, main, side, abandoned, notificationVars>>
  BY DEF TimeOut
<1>2. side[r] = None
  BY <1>1 DEF IInv, RequestsOK, Shape, Waiting, Querying
<1>3. RequestsOK'
  BY <1>1, <1>2, AfterErrorFits, MoveOn DEF IInv, RequestsOK, Waiting, Querying, Transaction
<1> QED BY <1>1, <1>3, ConnectionsRest, NotificationsRest DEF IInv

LEMMA BeginOK == ASSUME IInv, NEW r \in Requests, Begin(r) PROVE IInv'
<1> USE DEF IInv
<1>1. pc[r] = "begin" /\ UNCHANGED <<free, kind, side, notificationVars>>
  BY DEF Begin
<1>2. main[r] \in Connections /\ main[r] # None /\ side[r] = None
  BY <1>1 DEF RequestsOK, Shape, Querying, Transaction
<1>3. CASE /\ UNCHANGED <<main, abandoned>>
           /\ \E next \in {"user", "insert", "work"} : Goto(r, next)
  <2>1. PICK next \in {"user", "insert", "work"} : Goto(r, next)
    BY <1>3
  <2>2. kind' \in [Requests -> Kinds]
    BY <1>1 DEF RequestsOK
  <2>3. RequestsOK'
    BY <1>1, <1>2, <1>3, <2>1, <2>2, MoveOn DEF Waiting, Querying, Transaction
  <2> QED BY <1>1, <1>3, <2>3, ConnectionsRest, NotificationsRest
<1>4. CASE /\ Goto(r, "idle")
           /\ main' = [main EXCEPT ![r] = None]
           /\ abandoned' = abandoned \cup {main[r]}
  <2>1. pc' = [pc EXCEPT ![r] = "idle"]
    BY <1>4 DEF Goto
  <2>2. ASSUME NEW q \in Requests PROVE Shape(q)'
    BY <1>1, <1>2, <1>4, <2>1 DEF RequestsOK, Shape, Querying, Transaction
  <2>3. RequestsOK'
    BY <1>1, <1>2, <1>4, <2>1, <2>2 DEF RequestsOK
  <2>4. InUse' = (InUse \ {main[r]}) \cup {None}
    <3>1. \A q \in Requests : q # r => main[q] # main[r]
      BY <1>2 DEF ConnectionsAccounted
    <3>2. \A q \in Requests : side[q] # main[r]
      BY <1>2 DEF ConnectionsAccounted
    <3>3. \A q \in Requests : main'[q] = IF q = r THEN None ELSE main[q]
      BY <1>4 DEF RequestsOK
    <3> QED BY <1>1, <1>2, <3>1, <3>2, <3>3 DEF InUse
  <2>5. /\ Connections \ (free \cup InUse') = abandoned \cup {main[r]}
        /\ free \cap InUse' = {}
    <3>1. main[r] \in InUse
      BY DEF InUse
    <3>2. /\ Connections \ (free \cup InUse) = abandoned /\ free \cap InUse = {}
          /\ free \subseteq Connections
      BY DEF ConnectionsAccounted, RequestsOK
    <3> QED BY <1>2, <2>4, <3>1, <3>2, PoolAssumption
  <2>6. \A p, q \in Requests : /\ main'[p] # None => main'[p] # side'[q]
                               /\ p # q /\ main'[p] # None => main'[p] # main'[q]
                               /\ p # q /\ side'[p] # None => side'[p] # side'[q]
    BY <1>1, <1>4 DEF ConnectionsAccounted, RequestsOK
  <2>7. ConnectionsAccounted'
    BY <1>1, <1>4, <2>5, <2>6 DEF ConnectionsAccounted
  <2> QED BY <1>1, <2>3, <2>7, NotificationsRest
<1> QED BY <1>3, <1>4 DEF Begin

LEMMA WorkOK == ASSUME IInv, NEW r \in Requests, Work(r) PROVE IInv'
<1> USE DEF IInv
<1>1. PICK next \in {"commit", "rollback"} : Goto(r, next)
  BY DEF Work
<1>2. pc[r] = "work" /\ UNCHANGED <<free, kind, main, side, abandoned, notificationVars>>
  BY DEF Work
<1>3. main[r] # None /\ side[r] = None /\ kind' \in [Requests -> Kinds]
  BY <1>2 DEF RequestsOK, Shape, Querying, Transaction
<1>4. RequestsOK'
  BY <1>1, <1>2, <1>3, MoveOn DEF Waiting, Querying, Transaction
<1> QED BY <1>2, <1>4, ConnectionsRest, NotificationsRest

LEMMA CommitOK == ASSUME IInv, NEW r \in Requests, Commit(r) PROVE IInv'
<1> USE DEF IInv
<1>1. PICK next \in {"release", "rollback"} : Goto(r, next)
  BY DEF Commit
<1>2. pc[r] = "commit" /\ UNCHANGED <<free, kind, main, side, abandoned>>
  BY DEF Commit
<1>3. main[r] # None /\ side[r] = None /\ kind' \in [Requests -> Kinds]
  BY <1>2 DEF RequestsOK, Shape, Querying, Transaction
<1>4. RequestsOK'
  BY <1>1, <1>2, <1>3, MoveOn DEF Waiting, Querying, Transaction
<1>5. NotificationsOK'
  BY HandleOK, NotificationsRest DEF Commit
<1> QED BY <1>2, <1>4, <1>5, ConnectionsRest

LEMMA RollbackOK == ASSUME IInv, NEW r \in Requests, Rollback(r) PROVE IInv'
<1> USE DEF IInv
<1>1. /\ pc[r] = "rollback" /\ Goto(r, "release")
      /\ UNCHANGED <<free, kind, main, side, abandoned, notificationVars>>
  BY DEF Rollback
<1>2. main[r] # None /\ side[r] = None /\ kind' \in [Requests -> Kinds]
  BY <1>1 DEF RequestsOK, Shape, Querying, Transaction
<1>3. RequestsOK'
  BY <1>1, <1>2, MoveOn DEF Waiting, Querying, Transaction
<1> QED BY <1>1, <1>3, ConnectionsRest, NotificationsRest

LEMMA ReleaseOK == ASSUME IInv, NEW r \in Requests, Release(r) PROVE IInv'
<1> USE DEF IInv
<1>1. /\ pc[r] = "release" /\ Goto(r, "idle") /\ free' = free \cup {main[r]}
      /\ main' = [main EXCEPT ![r] = None]
      /\ UNCHANGED <<kind, side, abandoned, notificationVars>>
  BY DEF Release
<1>2. main[r] \in Connections /\ main[r] # None /\ side[r] = None
  BY <1>1 DEF RequestsOK, Shape, Querying, Transaction
<1>3. pc' = [pc EXCEPT ![r] = "idle"]
  BY <1>1 DEF Goto
<1>4. ASSUME NEW q \in Requests PROVE Shape(q)'
  BY <1>1, <1>2, <1>3 DEF RequestsOK, Shape, Querying, Transaction
<1>5. RequestsOK'
  BY <1>1, <1>2, <1>3, <1>4 DEF RequestsOK
<1>6. InUse' = (InUse \ {main[r]}) \cup {None}
  <2>1. \A q \in Requests : q # r => main[q] # main[r]
    BY <1>2 DEF ConnectionsAccounted
  <2>2. \A q \in Requests : side[q] # main[r]
    BY <1>2 DEF ConnectionsAccounted
  <2>3. \A q \in Requests : main'[q] = IF q = r THEN None ELSE main[q]
    BY <1>1 DEF RequestsOK
  <2> QED BY <1>1, <1>2, <2>1, <2>2, <2>3 DEF InUse
<1>7. /\ Connections \ (free' \cup InUse') = abandoned
      /\ free' \cap InUse' = {}
  BY <1>1, <1>2, <1>6, PoolAssumption DEF ConnectionsAccounted, RequestsOK, InUse
<1>8. \A p, q \in Requests : /\ main'[p] # None => main'[p] # side'[q]
                             /\ p # q /\ main'[p] # None => main'[p] # main'[q]
                             /\ p # q /\ side'[p] # None => side'[p] # side'[q]
  BY <1>1 DEF ConnectionsAccounted, RequestsOK
<1>9. ConnectionsAccounted'
  BY <1>1, <1>7, <1>8 DEF ConnectionsAccounted
<1> QED BY <1>1, <1>5, <1>9, NotificationsRest

LEMMA QueryOK == ASSUME IInv, NEW r \in Requests, Query(r) PROVE IInv'
<1> USE DEF IInv
<1>1. /\ pc[r] \in Querying /\ free' = free \cup {side[r]}
      /\ side' = [side EXCEPT ![r] = None]
      /\ UNCHANGED <<kind, main, abandoned, notificationVars>>
  BY DEF Query
<1>2. side[r] \in Connections /\ side[r] # None
  BY <1>1 DEF RequestsOK, Shape
<1>3. PICK label : Goto(r, label) /\ (\/ label = AfterError(r)
                                    \/ label = [in_user |-> "insert", in_insert |-> "commit",
                                                in_ask |-> "idle"][pc[r]])
  BY DEF Query
<1>4. /\ label \in {"idle", "insert", "commit", "rollback"}
      /\ label \in {"insert", "commit", "rollback"} <=> main[r] # None
  <2>1. CASE label = AfterError(r)
    BY <2>1, AfterErrorFits
  <2>2. CASE label # AfterError(r)
    <3>1. label = [in_user |-> "insert", in_insert |-> "commit", in_ask |-> "idle"][pc[r]]
      BY <1>3, <2>2
    <3>2. main[r] # None <=> pc[r] \in {"in_user", "in_insert"}
      BY <1>1 DEF RequestsOK, Shape, Querying, Transaction
    <3> QED BY <1>1, <3>1, <3>2 DEF Querying
  <2> QED BY <2>1, <2>2
<1>5. pc' = [pc EXCEPT ![r] = label]
  BY <1>3 DEF Goto
<1>6. ASSUME NEW q \in Requests PROVE Shape(q)'
  BY <1>1, <1>4, <1>5 DEF RequestsOK, Shape, Querying, Transaction
<1>7. RequestsOK'
  BY <1>1, <1>2, <1>4, <1>5, <1>6 DEF RequestsOK, Waiting, Transaction
<1>8. InUse' = (InUse \ {side[r]}) \cup {None}
  <2>1. \A q \in Requests : q # r => side[q] # side[r]
    BY <1>2 DEF ConnectionsAccounted
  <2>2. \A q \in Requests : main[q] # side[r]
    BY <1>2 DEF ConnectionsAccounted
  <2>3. \A q \in Requests : side'[q] = IF q = r THEN None ELSE side[q]
    BY <1>1 DEF RequestsOK
  <2> QED BY <1>1, <1>2, <2>1, <2>2, <2>3 DEF InUse
<1>9. /\ Connections \ (free' \cup InUse') = abandoned
      /\ free' \cap InUse' = {}
  BY <1>1, <1>2, <1>8, PoolAssumption DEF ConnectionsAccounted, RequestsOK, InUse
<1>10. \A p, q \in Requests : /\ main'[p] # None => main'[p] # side'[q]
                              /\ p # q /\ main'[p] # None => main'[p] # main'[q]
                              /\ p # q /\ side'[p] # None => side'[p] # side'[q]
  BY <1>1 DEF ConnectionsAccounted, RequestsOK
<1>11. ConnectionsAccounted'
  BY <1>1, <1>9, <1>10 DEF ConnectionsAccounted
<1> QED BY <1>1, <1>7, <1>11, NotificationsRest

\* The connection handed out was nobody's.
LEMMA AcquireOK == ASSUME IInv, NEW r \in Requests, Acquire(r) PROVE IInv'
<1> USE DEF IInv
<1>1. PICK c \in free :
        /\ free' = free \ {c}
        /\ IF pc[r] = "connect"
           THEN main' = [main EXCEPT ![r] = c] /\ UNCHANGED side
           ELSE side' = [side EXCEPT ![r] = c] /\ UNCHANGED main
  BY DEF Acquire
<1> DEFINE label == [connect |-> "begin", user |-> "in_user", insert |-> "in_insert",
                     ask |-> "in_ask"][pc[r]]
<1>2. /\ pc[r] \in Waiting /\ Goto(r, label)
      /\ UNCHANGED <<kind, abandoned, notificationVars>>
  BY DEF Acquire
<1>3. pc' = [pc EXCEPT ![r] = label]
  BY <1>2 DEF Goto
<1>4. c \in Connections /\ c # None /\ c \notin InUse
  BY PoolAssumption DEF RequestsOK, ConnectionsAccounted
<1>5. side[r] = None /\ (main[r] = None <=> pc[r] \in {"connect", "ask"})
  BY <1>2 DEF RequestsOK, Shape, Waiting, Querying, Transaction
<1>6. CASE pc[r] = "connect"
  <2>1. label = "begin"
    BY <1>6
  <2> HIDE DEF label
  <2>2. main' = [main EXCEPT ![r] = c] /\ UNCHANGED side
    BY <1>1, <1>6
  <2>3. ASSUME NEW q \in Requests PROVE Shape(q)'
    BY <1>3, <1>4, <1>5, <2>1, <2>2 DEF RequestsOK, Shape, Querying, Transaction
  <2>4. RequestsOK'
    BY <1>1, <1>2, <1>3, <1>4, <2>1, <2>2, <2>3 DEF RequestsOK, Transaction
  <2>5. \A q \in Requests : main'[q] = IF q = r THEN c ELSE main[q]
    BY <2>2 DEF RequestsOK
  <2>6. \A q \in Requests : main[q] # c /\ side[q] # c
    BY <1>4 DEF InUse
  <2>7. /\ InUse' \subseteq InUse \cup {c}
        /\ InUse \subseteq InUse' \cup {None} /\ c \in InUse'
    BY <1>5, <1>6, <2>2, <2>5 DEF InUse
  <2>8. /\ Connections \ (free' \cup InUse') = abandoned
        /\ free' \cap InUse' = {}
    BY <1>1, <1>4, <2>7, PoolAssumption DEF ConnectionsAccounted
  <2>9. \A p, q \in Requests : /\ main'[p] # None => main'[p] # side'[q]
                               /\ p # q /\ main'[p] # None => main'[p] # main'[q]
                               /\ p # q /\ side'[p] # None => side'[p] # side'[q]
    BY <2>2, <2>5, <2>6 DEF ConnectionsAccounted
  <2>10. ConnectionsAccounted'
    BY <1>2, <2>8, <2>9 DEF ConnectionsAccounted
  <2> QED BY <1>2, <2>4, <2>10, NotificationsRest
<1>7. CASE pc[r] # "connect"
  <2>1. /\ label \in Querying
        /\ label \in {"in_user", "in_insert"} <=> pc[r] \in {"user", "insert"}
    BY <1>2, <1>7 DEF Waiting, Querying
  <2> HIDE DEF label
  <2>2. side' = [side EXCEPT ![r] = c] /\ UNCHANGED main
    BY <1>1, <1>7
  <2>a. main[r] = None <=> label = "in_ask"
    BY <1>2, <1>5, <1>7, <2>1 DEF Waiting, Querying
  <2>3. ASSUME NEW q \in Requests PROVE Shape(q)'
    <3>1. CASE q = r
      <4>1. pc'[r] = label /\ side'[r] = c /\ main'[r] = main[r]
        BY <1>3, <2>2 DEF RequestsOK
      <4> QED BY <1>4, <2>1, <2>a, <3>1, <4>1 DEF Shape, Querying, Transaction
    <3>2. CASE q # r
      BY <1>3, <2>2, <3>2 DEF RequestsOK, Shape
    <3> QED BY <3>1, <3>2
  <2>4. RequestsOK'
    BY <1>1, <1>2, <1>3, <1>4, <2>1, <2>2, <2>3 DEF RequestsOK
  <2>5. \A q \in Requests : side'[q] = IF q = r THEN c ELSE side[q]
    BY <2>2 DEF RequestsOK
  <2>6. \A q \in Requests : main[q] # c /\ side[q] # c
    BY <1>4 DEF InUse
  <2>7. /\ InUse' \subseteq InUse \cup {c}
        /\ InUse \subseteq InUse' \cup {None} /\ c \in InUse'
    BY <1>5, <2>2, <2>5 DEF InUse
  <2>8. /\ Connections \ (free' \cup InUse') = abandoned
        /\ free' \cap InUse' = {}
    BY <1>1, <1>4, <2>7, PoolAssumption DEF ConnectionsAccounted
  <2>9. \A p, q \in Requests : /\ main'[p] # None => main'[p] # side'[q]
                               /\ p # q /\ main'[p] # None => main'[p] # main'[q]
                               /\ p # q /\ side'[p] # None => side'[p] # side'[q]
    BY <2>2, <2>5, <2>6 DEF ConnectionsAccounted
  <2>10. ConnectionsAccounted'
    BY <1>2, <2>8, <2>9 DEF ConnectionsAccounted
  <2> QED BY <1>2, <2>4, <2>10, NotificationsRest
<1> QED BY <1>6, <1>7

LEMMA EventsOK == ASSUME IInv, Events PROVE IInv'
<1>1. UNCHANGED poolVars /\ NotificationsOK'
  BY HandleOK, SettleOK, TickOK DEF Events, IInv
<1>2. RequestsOK' /\ ConnectionsAccounted'
  BY <1>1, ConnectionsRest DEF IInv, RequestsOK, Shape, poolVars
<1> QED BY <1>1, <1>2 DEF IInv

LEMMA NextInv == IInv /\ [Next]_vars => IInv'
<1> SUFFICES ASSUME IInv, [Next]_vars PROVE IInv'
  OBVIOUS
<1>1. CASE UNCHANGED vars
  <2>1. UNCHANGED poolVars /\ UNCHANGED notificationVars
    BY <1>1 DEF vars
  <2>2. RequestsOK' /\ ConnectionsAccounted'
    BY <2>1, ConnectionsRest DEF IInv, RequestsOK, Shape, poolVars
  <2> QED BY <2>1, <2>2, NotificationsRest DEF IInv
<1>2. CASE Next
  BY <1>2, EventsOK, ArriveOK, AcquireOK, TimeOutOK, QueryOK, BeginOK, WorkOK, CommitOK,
     RollbackOK, ReleaseOK DEF Next, Go
<1> QED BY <1>1, <1>2
-----------------------------------------------------------------------------
LEMMA InvImplies == IInv => TypeOK /\ ConnectionsAccounted /\ NothingRefused
  BY DEF IInv, RequestsOK, Shape, NotificationsOK, TypeOK

LEMMA Invariant == Spec => []IInv
  BY InitInv, NextInv, PTL DEF Spec

\* A request of IncidentsService.create, UsersService or a plain query has at
\* every step the connections it needs, and the variables keep their types.
THEOREM PoolTyped == Spec => []TypeOK
  BY Invariant, InvImplies, PTL

\* Through every timeout, failing query, commit and rollback, a connection
\* is in the pool, with one request, or was lost by a failing
\* startTransaction.
THEOREM ConnectionsAlwaysAccounted == Spec => []ConnectionsAccounted
  BY Invariant, InvImplies, PTL

\* The breaker of NotificationService never refuses an event, because its
\* handlers swallow whatever sending throws.
THEOREM NothingEverRefused == Spec => []NothingRefused
  BY Invariant, InvImplies, PTL
====
