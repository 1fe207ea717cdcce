---- MODULE OnCall ----
(***************************************************************************)
(* OnCallService: schedules, the users assigned to them, the rotations     *)
(* generated from the assignments, overrides, and the lookup of who is on  *)
(* call, as requests that run concurrently.  A request that goes on after  *)
(* an `await` is a task whose `step` says what comes next:                 *)
(*                                                                         *)
(*   a_user, a_save   assignUserToSchedule: the user's lookup, the row     *)
(*   g_save           generateRotations: the rows are computed             *)
(*   l_user           getCurrentOnCall: a rotation was found               *)
(*                                                                         *)
(* Schedules, rotations and users are never deleted, no operation changes  *)
(* isActive, and getUpcomingRotations only reads: all that is left out.    *)
(* Of the `schedule` relations, declared on one side only in the entities, *)
(* TypeORM is taken to give what they are meant to.                        *)
(***************************************************************************)
EXTENDS Integers, Sequences, FiniteSets

CONSTANTS Schedules,  \* schedule identifiers
          Users,      \* user identifiers clients name ...
          KnownUsers, \* ... and those usersService.findById finds
          Requests,   \* request slots, each running one request at a time
          Priorities, \* what assignments are given
          Types,      \* the rotation types in use
          Dates,      \* moments clients name
          Day,        \* the length of a day, in units of time
          Absent,     \* of a schedule: not created
          MaxNow, MaxAssignments, MaxRuns, MaxOverrides \* bounds of the model

ASSUME OnCallAssumption == /\ KnownUsers \subseteq Users
                           /\ Priorities \subseteq Int /\ Dates \subseteq Int
                           /\ Types \subseteq {"daily", "weekly", "monthly"}
                           /\ Absent \notin Types
                           /\ Day \in Nat \ {0}

VARIABLES schedules,   \* the schedules: identifier -> rotation type
          assignments, \* rows of schedule_assignments, oldest first
          rotations,   \* rows of rotations
          now,         \* the time
          task,        \* what each request is doing
          generated    \* auxiliary: the completed runs of generateRotations

vars == <<schedules, assignments, rotations, now, task, generated>>

Assignment == [schedule : Schedules, user : Users, priority : Priorities]
Rotation == [schedule : Schedules, user : Users, start : Int, end : Int, isOverride : BOOLEAN]

\* The list of assignments a run went through, its dates and its rows.
Run == [schedule : Schedules, from : Dates, to : Dates, list : Seq(Assignment),
        rows : SUBSET Rotation]

Idle == [step |-> "idle"]
Task == {Idle}
   \cup [step : {"a_user", "a_save"}, row : Assignment]
   \cup [step : {"g_save"}, run : Run]
   \cup [step : {"l_user"}, row : Rotation]

Init == /\ schedules = [s \in Schedules |-> Absent]
        /\ assignments = <<>>
        /\ rotations = {}
        /\ now = 0
        /\ task = [r \in Requests |-> Idle]
        /\ generated = {}

Do(r, t) == task' = [task EXCEPT ![r] = t]
-----------------------------------------------------------------------------
createSchedule(s, type) ==
  /\ schedules[s] = Absent
  /\ schedules' = [schedules EXCEPT ![s] = type]
  /\ UNCHANGED <<assignments, rotations, now, task, generated>>

(* assignUserToSchedule *)

\* The schedule exists.  (NotFoundException otherwise, which changes nothing.)
AssignFind(r) ==
  /\ task[r] = Idle
  /\ Len(assignments) + Cardinality({q \in Requests : task[q].step \in {"a_user", "a_save"}})
       < MaxAssignments
  /\ \E a \in Assignment : /\ schedules[a.schedule] # Absent
                           /\ Do(r, [step |-> "a_user", row |-> a])
  /\ UNCHANGED <<schedules, assignments, rotations, now, generated>>

\* Planted bug: whoever is named is assigned.
AnyUser(r) == /\ task[r].step = "a_user"
              /\ Do(r, [task[r] EXCEPT !.step = "a_save"])
              /\ UNCHANGED <<schedules, assignments, rotations, now, generated>>

\* So does the user; findById throws when not.
AssignUser(r) ==
  /\ task[r].step = "a_user"
  /\ Do(r, IF task[r].row.user \in KnownUsers THEN [task[r] EXCEPT !.step = "a_save"] ELSE Idle)
  /\ UNCHANGED <<schedules, assignments, rotations, now, generated>>

\* A row, even if the user has one already.
AssignSave(r) ==
  /\ task[r].step = "a_save"
  /\ assignments' = Append(assignments, task[r].row)
  /\ Do(r, Idle)
  /\ UNCHANGED <<schedules, rotations, now, generated>>
-----------------------------------------------------------------------------
(* generateRotations *)

Period(type) == [daily |-> 1, weekly |-> 7, monthly |-> 30][type] * Day

\* The assignments of a schedule in an order the sort may leave them in:
\* by priority, those of one priority as the database returned them.
AssignmentsOf(s) == {i \in DOMAIN assignments : assignments[i].schedule = s}

Sorted(s) ==
  LET n == Cardinality(AssignmentsOf(s)) IN
  { [i \in 1..n |-> assignments[p[i]]] :
      p \in { p \in [1..n -> AssignmentsOf(s)] :
                /\ \A i, j \in 1..n : i # j => p[i] # p[j]
                /\ \A i, j \in 1..n :
                     i < j => assignments[p[i]].priority <= assignments[p[j]].priority } }

\* Planted bug: the last period, the one that starts on the end date, is
\* left out.
EndExclusive(period, from, to) == {i \in 0..(to - from) : from + i * period < to}

\* The periods the loop goes through, numbered like assignmentIndex.
Turns(period, from, to) == {i \in 0..(to - from) : from + i * period <= to}

\* Planted bug: assignmentIndex is not advanced.
FirstOnly(list, i) == list[1].user

\* assignments[assignmentIndex % assignments.length]
UserOfTurn(list, i) == list[(i % Len(list)) + 1].user

Rows(s, list, period, from, to) ==
  { [ schedule |-> s, user |-> UserOfTurn(list, i), start |-> from + i * period,
      end |-> from + (i + 1) * period, isOverride |-> FALSE ] : i \in Turns(period, from, to) }

\* The schedule with its assignments is read, the rows are computed.  (An
\* error when there is no schedule or no assignment, which changes nothing.)
GenerateFind(r) ==
  /\ task[r] = Idle
  /\ Cardinality(generated) + Cardinality({q \in Requests : task[q].step = "g_save"}) < MaxRuns
  /\ \E s \in Schedules, from, to \in Dates :
       /\ schedules[s] # Absent
       /\ AssignmentsOf(s) # {}
       /\ \E list \in Sorted(s) :
            Do(r, [ step |-> "g_save",
                    run |-> [schedule |-> s, from |-> from, to |-> to, list |-> list,
                             rows |-> Rows(s, list, Period(schedules[s]), from, to)] ])
  /\ UNCHANGED <<schedules, assignments, rotations, now, generated>>

\* All rows are saved, in one transaction.
GenerateSave(r) ==
  /\ task[r].step = "g_save"
  /\ rotations' = rotations \cup task[r].run.rows
  /\ generated' = generated \cup {task[r].run}
  /\ Do(r, Idle)
  /\ UNCHANGED <<schedules, assignments, now>>

\* Planted bug: an override takes the place of the rotations it overlaps.
OverrideReplaces(o) ==
  /\ Cardinality({x \in rotations : x.isOverride}) < MaxOverrides
  /\ o.isOverride
  /\ rotations' = {x \in rotations : x.end <= o.start \/ o.end <= x.start} \cup {o}
  /\ UNCHANGED <<schedules, assignments, now, task, generated>>

\* One row, with no look at the schedule, the user or the dates.
overrideRotation(o) ==
  /\ Cardinality({x \in rotations : x.isOverride}) < MaxOverrides
  /\ o.isOverride
  /\ rotations' = rotations \cup {o}
  /\ UNCHANGED <<schedules, assignments, now, task, generated>>
-----------------------------------------------------------------------------
(* getCurrentOnCall *)

\* Planted bug: at the moment of a hand-over neither is on call.
StrictlyInside(x, t) == x.start < t /\ t < x.end

\* startTime <= now and endTime > now
Covers(x, t) == x.start <= t /\ t < x.end

\* The rotations of some schedules the query may return: one of those that
\* started last.
Current(among) == LET on == {x \in rotations : x.schedule \in among /\ Covers(x, now)} IN
  {x \in on : \A y \in on : y.start <= x.start}

\* The query, for one schedule or for all; null is answered when there is
\* none.
LookupQuery(r, among) ==
  /\ task[r] = Idle
  /\ \E x \in Current(among) : Do(r, [step |-> "l_user", row |-> x])
  /\ UNCHANGED <<schedules, assignments, rotations, now, generated>>

\* The user's name is looked up: findById throws for a user it does not
\* find, and the request fails.
LookupUser(r) == /\ task[r].step = "l_user"
                 /\ Do(r, Idle)
                 /\ UNCHANGED <<schedules, assignments, rotations, now, generated>>

Tick == /\ now < MaxNow
        /\ now' = now + 1
        /\ UNCHANGED <<schedules, assignments, rotations, task, generated>>

Next == \/ \E s \in Schedules, type \in Types : createSchedule(s, type)
        \/ \E r \in Requests : \/ AssignFind(r) \/ AssignUser(r) \/ AssignSave(r)
                               \/ GenerateFind(r) \/ GenerateSave(r) \/ LookupUser(r)
                               \/ LookupQuery(r, Schedules)
                               \/ \E s \in Schedules : LookupQuery(r, {s})
        \/ \E s \in Schedules, u \in Users, from, to \in Dates :
             overrideRotation([schedule |-> s, user |-> u, start |-> from, end |-> to,
                               isOverride |-> TRUE])
        \/ Tick

Spec == Init /\ [][Next]_vars
-----------------------------------------------------------------------------
\* The variables hold what the code can put in them.
TypeOK == /\ schedules \in [Schedules -> Types \cup {Absent}]
          /\ assignments \in Seq(Assignment)
          /\ rotations \in SUBSET Rotation
          /\ now \in Nat
          /\ DOMAIN task = Requests
          /\ \A r \in Requests : 
               \/ task[r] = Idle
               \/ task[r].step \in {"a_user", "a_save"} /\ task[r].row \in Assignment
               \/ task[r].step = "g_save" /\ task[r].run.rows \in SUBSET Rotation
               \/ task[r].step = "l_user" /\ task[r].row \in rotations

\* Once generateRotations has saved its rows, exactly one of them covers
\* each moment from the start to the end date, both included: no gap and no
\* overlap at a hand-over or at the end, whatever the dates.
CoveredOnce ==
  \A g \in generated : \A t \in g.from..g.to :
    Cardinality({x \in g.rows \cap rotations : x.start <= t /\ t < x.end}) = 1

\* getCurrentOnCall never answers null at a moment that a completed
\* generateRotations was asked to cover, whatever else is generated,
\* overridden or assigned meanwhile.
NeverNobody ==
  \A g \in generated : now \in g.from..g.to => Current({g.schedule}) # {}

\* The user of a rotation that was found is unknown, which fails the
\* request, only if the rotation is an override: everyone whom a schedule
\* gives a turn was looked up when he was assigned.
UnknownOnlyByOverride ==
  \A r \in Requests : task[r].step = "l_user" /\ task[r].row.user \notin KnownUsers
                          => task[r].row.isOverride

TurnsOf(g, u) == Cardinality({x \in g.rows : x.user = u})

\* The load of one run is shared evenly: nobody has more turns than a full
\* round more than the others (per assignment of his), and nobody serves
\* while someone with a more urgent priority is left out.
TurnsShared ==
  \A g \in generated :
    LET rows == Cardinality(g.rows)
        people == {g.list[i].user : i \in DOMAIN g.list}
        Share(u) == Cardinality({i \in DOMAIN g.list : g.list[i].user = u})
    IN /\ \A u \in people :
            /\ (rows \div Len(g.list)) * Share(u) <= TurnsOf(g, u)
            /\ TurnsOf(g, u) <= ((rows + Len(g.list) - 1) \div Len(g.list)) * Share(u)
       /\ \A i, j \in DOMAIN g.list :
            /\ \A k \in DOMAIN g.list : g.list[k].user = g.list[j].user
                                          => g.list[i].priority < g.list[k].priority
            /\ TurnsOf(g, g.list[j].user) > 0
            => TurnsOf(g, g.list[i].user) > 0
====
