---- MODULE Escalation ----
(***************************************************************************)
(* EscalationService and EscalationProcessor around the Bull queue         *)
(* 'escalation': clients schedule, cancel and reschedule the escalation of *)
(* an incident while workers process the jobs that have become due.        *)
(*                                                                         *)
(* A step runs from one `await` to the next.  The queue is a table of jobs *)
(* kept in Redis: each of its operations is atomic, and what this module   *)
(* says of it (retries, stalled jobs, job identifiers) is Bull's documented*)
(* behaviour.  Incidents are changed by others at any time.  The delay of  *)
(* a job is not modelled: a pending job may be taken at any time.  The     *)
(* start-up pass cleanupOrphanedJobs removes nothing (its filter is a      *)
(* placeholder) and is left out.                                           *)
(***************************************************************************)
EXTENDS BreakerState, IncidentEntity

CONSTANTS Ids,       \* incidents
          Clients,   \* callers of EscalationService, in one process
          Workers,   \* processors, one per process
          AutoKeys,  \* job identifiers Bull generates
          Staffed,   \* levels for which getCurrentOnCallUser and
                     \* getUsersByRole may find somebody; as they stand they
                     \* are placeholders that find nobody: {}
          Hits,      \* findById may find a cached incident, which has no
                     \* method isActive (see Incidents)
          MaxCalls,  \* bound: calls made to EscalationService
          MaxFaults  \* bound: errors of Redis and stopped processes

maxLevel == 3
maxAttempts == 3
maxStalls == 1 \* Bull's maxStalledCount

Keys == Ids \cup AutoKeys \* the job escalation-<id> is named by its incident

ASSUME EscalationAssumption == /\ Ids \cap AutoKeys = {}
                               /\ Staffed \subseteq 1 .. maxLevel
                               /\ Hits \in BOOLEAN
                               /\ MaxCalls \in Nat
                               /\ MaxFaults \in Nat
                               /\ Absent \notin Keys

\* What the escalation reads of an incident.
Subject == [status : IncidentStatus, assignedTo : MaybeUser]

\* A job of the queue.  `sent` is auxiliary: how often it has emitted
\* 'incident.escalated'.
Job == [ incident : Ids, currentLevel : 1 .. maxLevel,
         state : {"pending", "active", "completed", "failed"},
         attemptsMade : 0 .. maxAttempts, stalls : 0 .. maxStalls, sent : Nat ]

ASSUME NoSuchJob == Absent \notin Subject /\ Absent \notin Job

VARIABLES incidents, \* as findById reads them: Ids -> Subject or Absent
          jobs,      \* the queue: Keys -> Job or Absent
          breaker,   \* the circuit breaker 'escalation-queue'
          pc,        \* where each client stands
          target,    \* the incident it asked about
          op,        \* "schedule", "cancel", "reschedule" or "none"
          listed,    \* the jobs cancelEscalation is about to remove
          at,        \* where each worker stands
          job,       \* the key of the job it processes
          read,      \* the incident it has read
          notified,  \* auxiliary: levels each incident was escalated to
          calls,     \* calls made so far
          faults     \* faults so far

clientVars == <<pc, target, op, listed, calls>>
workerVars == <<at, job, read>>
vars == <<incidents, jobs, breaker, clientVars, workerVars, notified, faults>>

NewJob(id, level) == [incident |-> id, currentLevel |-> level, state |-> "pending",
                      attemptsMade |-> 0, stalls |-> 0, sent |-> 0]

\* Some incidents have had their escalation scheduled before.
Init == /\ incidents \in [Ids -> [status : {"created"}, assignedTo : MaybeUser]]
        /\ \E scheduled \in SUBSET Ids :
             jobs = [k \in Keys |-> IF k \in scheduled THEN NewJob(k, 1) ELSE Absent]
        /\ breaker = NewBreaker
        /\ pc = [c \in Clients |-> "idle"]
        /\ target \in [Clients -> Ids]
        /\ op = [c \in Clients |-> "none"]
        /\ listed = [c \in Clients |-> {}]
        /\ at = [w \in Workers |-> "idle"]
        /\ job = [w \in Workers |-> Absent]
        /\ read = [w \in Workers |-> Absent]
        /\ notified = [id \in Ids |-> {}]
        /\ calls = 0
        /\ faults = 0

\* Redis fails an operation, or a process stops.
Fault == faults < MaxFaults /\ faults' = faults + 1
NoFault == UNCHANGED faults

\* Somebody else acknowledges, resolves, closes, assigns or deletes it.
ChangeIncident(id) ==
  /\ incidents[id] # Absent
  /\ \/ \E s \in IncidentStatus, u \in MaybeUser :
          /\ s = incidents[id].status \/ canTransition(incidents[id].status, s)
          /\ incidents' = [incidents EXCEPT ![id] = [status |-> s, assignedTo |-> u]]
     \/ /\ incidents[id].status = "created"
        /\ incidents' = [incidents EXCEPT ![id] = Absent]
  /\ NoFault
  /\ UNCHANGED <<jobs, breaker, clientVars, workerVars, notified>>
-----------------------------------------------------------------------------
(* EscalationService *)

Goto(c, label) == /\ pc' = [pc EXCEPT ![c] = label]
                  /\ UNCHANGED <<target, calls>>

\* The call is over.
Return(c) == /\ Goto(c, "idle")
             /\ op' = [op EXCEPT ![c] = "none"]
             /\ listed' = [listed EXCEPT ![c] = {}]

Proceed(c, label) == Goto(c, label) /\ UNCHANGED <<op, listed>>

Untouched == UNCHANGED <<incidents, workerVars, notified>>

\* execute: refused by the open breaker, or let through to cancelEscalation.
EnterBreaker(c) == IF Refuses(breaker)
                   THEN Return(c) /\ UNCHANGED breaker
                   ELSE Proceed(c, "list") /\ breaker' = Admitted(breaker)

Call(c) == /\ pc[c] = "idle"
           /\ calls < MaxCalls
           /\ calls' = calls + 1
           /\ \E id \in Ids, o \in {"schedule", "cancel", "reschedule"} :
                /\ target' = [target EXCEPT ![c] = id]
                /\ op' = [op EXCEPT ![c] = o]
                /\ pc' = [pc EXCEPT ![c] = CASE o = "schedule" -> "schedule"
                                             [] o = "cancel" -> "list"
                                             [] o = "reschedule" -> "lookup"]
           /\ NoFault
           /\ UNCHANGED <<jobs, breaker, listed>>
           /\ Untouched

scheduleEscalation(c) == /\ pc[c] = "schedule"
                         /\ EnterBreaker(c)
                         /\ NoFault
                         /\ UNCHANGED jobs
                         /\ Untouched

\* rescheduleEscalation: the lookup, which may fail and is then swallowed;
\* scheduleEscalation follows without another await.
rescheduleEscalation(c) ==
  /\ pc[c] = "lookup"
  /\ IF incidents[target[c]] = Absent
     THEN Return(c) /\ UNCHANGED breaker
     ELSE EnterBreaker(c)
  /\ NoFault
  /\ UNCHANGED jobs
  /\ Untouched

\* cancelEscalation is over: it was the call, or scheduleEscalation goes on.
AfterCancel(c) == IF op[c] = "cancel" THEN Return(c)
                  ELSE /\ Goto(c, "find")
                       /\ listed' = [listed EXCEPT ![c] = {}]
                       /\ UNCHANGED op

\* The delayed, waiting and active jobs of the incident.
JobsOf(id) == {k \in Keys : /\ jobs[k] # Absent
                            /\ jobs[k].incident = id
                            /\ jobs[k].state \in {"pending", "active"}}

\* cancelEscalation: getJobs; an error is swallowed and ends it.
CancelList(c) == /\ pc[c] = "list"
                 /\ \/ /\ listed' = [listed EXCEPT ![c] = JobsOf(target[c])]
                       /\ Goto(c, "remove")
                       /\ UNCHANGED op
                       /\ NoFault
                    \/ AfterCancel(c) /\ Fault
                 /\ UNCHANGED <<jobs, breaker>>
                 /\ Untouched

\* Planted bug: nothing keeps an active job from being removed.
NoLock(k) == FALSE

\* Jobs a worker holds the lock of cannot be removed; after a crash the lock
\* lasts for a while, so that an active job nobody processes may be or not.
Locked(k) == \E w \in Workers : job[w] = k
Certain(k) == jobs[k] # Absent /\ jobs[k].state # "active"

\* The removals, issued together.  Removing a job that is locked is an error,
\* which is swallowed: that job goes on.  So is an error of Redis.
CancelRemove(c) ==
  /\ pc[c] = "remove"
  /\ \E removed \in SUBSET {k \in listed[c] : jobs[k] # Absent /\ ~Locked(k)} :
       /\ jobs' = [k \in Keys |-> IF k \in removed THEN Absent ELSE jobs[k]]
       /\ \/ {k \in listed[c] : Certain(k)} \subseteq removed /\ NoFault
          \/ ~({k \in listed[c] : Certain(k)} \subseteq removed) /\ Fault
  /\ AfterCancel(c)
  /\ UNCHANGED breaker
  /\ Untouched

\* findById throws, or isActive does on a cached incident, or Redis refuses
\* the job: the operation rejects and the breaker counts it.
ScheduleFails(c) ==
  /\ \/ pc[c] = "find" /\ (incidents[target[c]] = Absent \/ Hits) /\ NoFault
     \/ pc[c] = "add" /\ Fault
  /\ breaker' = recordFailure(breaker)
  /\ Return(c)
  /\ UNCHANGED jobs
  /\ Untouched

\* An incident that is not active needs no escalation: the operation resolves.
ScheduleFind(c) == LET subject == incidents[target[c]] IN
  /\ pc[c] = "find"
  /\ subject # Absent
  /\ IF isActive(subject)
     THEN Proceed(c, "add") /\ UNCHANGED breaker
     ELSE breaker' = recordSuccess(breaker) /\ Return(c)
  /\ NoFault
  /\ UNCHANGED jobs
  /\ Untouched

\* add with the job's own identifier: Bull does nothing when a job of that
\* identifier is still there, in whatever state.
ScheduleAdd(c) == LET id == target[c] IN
  /\ pc[c] = "add"
  /\ jobs' = [jobs EXCEPT ![id] = IF @ = Absent THEN NewJob(id, 1) ELSE @]
  /\ breaker' = recordSuccess(breaker)
  /\ Return(c)
  /\ NoFault
  /\ Untouched

Client(c) == \/ scheduleEscalation(c) \/ rescheduleEscalation(c)
             \/ CancelList(c) \/ CancelRemove(c)
             \/ ScheduleFails(c) \/ ScheduleFind(c) \/ ScheduleAdd(c)

\* The process of the clients restarts, with a new circuit breaker.
Restart == /\ pc' = [c \in Clients |-> "idle"]
           /\ op' = [c \in Clients |-> "none"]
           /\ listed' = [c \in Clients |-> {}]
           /\ breaker' = NewBreaker
           /\ Fault
           /\ UNCHANGED <<jobs, target, calls>>
           /\ Untouched

Tick == /\ breaker.sinceFailure < recoveryTimeout
        /\ breaker' = Aged(breaker)
        /\ NoFault
        /\ UNCHANGED <<jobs, clientVars>>
        /\ Untouched
-----------------------------------------------------------------------------
(* EscalationProcessor: handleEscalation *)

Elsewhere == UNCHANGED <<incidents, breaker, clientVars>>

WorkerAt(w, label) == at' = [at EXCEPT ![w] = label]

\* A job that is settled is looked at again only by an add of the same
\* identifier, so that of a job with a generated identifier nothing is kept.
Kept(k, j) == IF k \in AutoKeys /\ j.state \in {"completed", "failed"} THEN Absent ELSE j

\* The worker has nothing to do any more.
Release(w) == /\ WorkerAt(w, "idle")
              /\ job' = [job EXCEPT ![w] = Absent]
              /\ read' = [read EXCEPT ![w] = Absent]

\* Bull: a pending job becomes active.
Take(w, k) == /\ at[w] = "idle"
              /\ jobs[k] # Absent
              /\ jobs[k].state = "pending"
              /\ jobs' = [jobs EXCEPT ![k].state = "active"]
              /\ WorkerAt(w, "find")
              /\ job' = [job EXCEPT ![w] = k]
              /\ NoFault
              /\ UNCHANGED <<read, notified>>
              /\ Elsewhere

\* findById, and the check of what it read.
WorkerFind(w) == LET subject == incidents[jobs[job[w]].incident] IN
  /\ at[w] = "find"
  /\ subject # Absent
  /\ IF isActive(subject)
     THEN WorkerAt(w, "targets") /\ read' = [read EXCEPT ![w] = subject]
     ELSE WorkerAt(w, "finish") /\ UNCHANGED read
  /\ NoFault
  /\ UNCHANGED <<jobs, job, notified>>
  /\ Elsewhere

\* getEscalationTargets finds somebody: the assignee at the first level ...
Assigned(w) == jobs[job[w]].currentLevel = 1 /\ read[w].assignedTo # NoUser

MayHaveTargets(w) == Assigned(w) \/ jobs[job[w]].currentLevel \in Staffed

\* ... and nobody when there is nobody or the lookup fails.
NoTargets(w) == /\ at[w] = "targets"
                /\ ~Assigned(w)
                /\ WorkerAt(w, "finish")
                /\ read' = [read EXCEPT ![w] = Absent]
                /\ NoFault
                /\ UNCHANGED <<jobs, job, notified>>
                /\ Elsewhere

\* 'incident.escalated' is emitted; the next level comes next, if any.
Escalate(w) == LET k == job[w]
                   level == jobs[k].currentLevel IN
  /\ at[w] = "targets"
  /\ MayHaveTargets(w)
  /\ notified' = [notified EXCEPT ![jobs[k].incident] = @ \cup {level}]
  /\ jobs' = [jobs EXCEPT ![k].sent = @ + 1]
  /\ WorkerAt(w, IF level < maxLevel THEN "add" ELSE "finish")
  /\ read' = [read EXCEPT ![w] = Absent]
  /\ NoFault
  /\ UNCHANGED job
  /\ Elsewhere

\* Bull takes a new identifier, never one in use.
FreshKeys == {k \in AutoKeys : jobs[k] = Absent /\ \A c \in Clients : k \notin listed[c]}

\* Planted bug: the next level is the last one.
skipsALevel(j) == NewJob(j.incident, maxLevel)

nextLevel(j) == NewJob(j.incident, j.currentLevel + 1)

AddNextLevel(w) ==
  /\ at[w] = "add"
  /\ FreshKeys # {}
  /\ jobs' = [jobs EXCEPT ![CHOOSE k \in FreshKeys : TRUE] = nextLevel(jobs[job[w]])]
  /\ WorkerAt(w, "finish")
  /\ NoFault
  /\ UNCHANGED <<job, read, notified>>
  /\ Elsewhere

\* Bull: the job is completed.
Finish(w) == /\ at[w] = "finish"
             /\ jobs' = [jobs EXCEPT ![job[w]] = Kept(job[w], [@ EXCEPT !.state = "completed"])]
             /\ Release(w)
             /\ NoFault
             /\ UNCHANGED notified
             /\ Elsewhere

\* Planted bug: a failed attempt is not counted.
RetriesForEver(j) == [j EXCEPT !.state = "pending"]

\* Planted bug: one attempt more than configured.
OneAttemptMore(j) == [j EXCEPT !.attemptsMade = @ + 1,
                               !.state = IF j.attemptsMade + 1 <= maxAttempts THEN "pending"
                                                                              ELSE "failed"]

\* Bull: a job whose processor threw is retried, up to `attempts` times.
AfterThrow(j) == [j EXCEPT !.attemptsMade = @ + 1,
                           !.state = IF j.attemptsMade + 1 < maxAttempts THEN "pending"
                                                                         ELSE "failed"]

\* findById throws, or isActive does on a cached incident, or Redis refuses
\* the next job: logged and rethrown.
Throw(w) ==
  /\ \/ at[w] = "find" /\ (incidents[jobs[job[w]].incident] = Absent \/ Hits) /\ NoFault
     \/ at[w] = "add" /\ Fault
  /\ jobs' = [jobs EXCEPT ![job[w]] = Kept(job[w], AfterThrow(@))]
  /\ Release(w)
  /\ UNCHANGED notified
  /\ Elsewhere

Work(w) == \/ WorkerFind(w) \/ NoTargets(w) \/ Escalate(w)
           \/ AddNextLevel(w) \/ Finish(w) \/ Throw(w)

\* The worker's process stops, or cannot reach Redis to settle its job.
Crash(w) == /\ at[w] # "idle"
            /\ Release(w)
            /\ Fault
            /\ UNCHANGED <<jobs, notified>>
            /\ Elsewhere

\* Bull: a stalled job is made pending once more, and failed the next time.
Recover(j) == IF j.stalls < maxStalls
              THEN [j EXCEPT !.stalls = @ + 1, !.state = "pending"]
              ELSE [j EXCEPT !.state = "failed"]

\* An active job nobody holds the lock of has stalled.
Stalled(k) == /\ jobs[k] # Absent
              /\ jobs[k].state = "active"
              /\ ~Locked(k)
              /\ jobs' = [jobs EXCEPT ![k] = Kept(k, Recover(@))]
              /\ NoFault
              /\ UNCHANGED <<workerVars, notified>>
              /\ Elsewhere

\* removeOnComplete, removeOnFail: all but the last few settled jobs go.
Trim(k) == /\ jobs[k] # Absent
           /\ jobs[k].state \in {"completed", "failed"}
           /\ jobs' = [jobs EXCEPT ![k] = Absent]
           /\ NoFault
           /\ UNCHANGED <<workerVars, notified>>
           /\ Elsewhere
-----------------------------------------------------------------------------
Next == \/ \E id \in Ids : ChangeIncident(id)
        \/ \E c \in Clients : Call(c) \/ Client(c)
        \/ Restart \/ Tick
        \/ \E w \in Workers : Work(w) \/ Crash(w) \/ \E k \in Keys : Take(w, k)
        \/ \E k \in Keys : Stalled(k) \/ Trim(k)

Spec == Init /\ [][Next]_vars

\* Workers run, an idle worker does not pass over a job for ever (Bull takes
\* jobs in order), and Bull looks for stalled jobs again and again.
Fairness == /\ \A w \in Workers : WF_vars(Work(w))
            /\ \A k \in Keys : SF_vars(\E w \in Workers : Take(w, k)) /\ WF_vars(Stalled(k))

FairSpec == Spec /\ Fairness
-----------------------------------------------------------------------------
\* The variables hold what the code can put in them.
TypeOK == /\ incidents \in [Ids -> Subject \cup {Absent}]
          /\ jobs \in [Keys -> Job \cup {Absent}]
          /\ breaker \in CircuitBreakerState
          /\ pc \in [Clients -> {"idle", "schedule", "lookup", "list", "remove", "find", "add"}]
          /\ target \in [Clients -> Ids]
          /\ op \in [Clients -> {"none", "schedule", "cancel", "reschedule"}]
          /\ listed \in [Clients -> SUBSET Keys]
          /\ at \in [Workers -> {"idle", "find", "targets", "add", "finish"}]
          /\ job \in [Workers -> Keys \cup {Absent}]
          /\ read \in [Workers -> Subject \cup {Absent}]
          /\ notified \in [Ids -> SUBSET (1 .. maxLevel)]
          /\ calls \in 0 .. MaxCalls
          /\ faults \in 0 .. MaxFaults

\* A job that is being processed cannot be taken away under its worker: it is
\* there, active, and no other worker's, whatever is cancelled, stalls or is
\* trimmed meanwhile.
WorkersHoldTheirJobs ==
  \A w \in Workers : at[w] # "idle" =>
    /\ job[w] \in Keys
    /\ jobs[job[w]] # Absent
    /\ jobs[job[w]].state = "active"
    /\ \A v \in Workers \ {w} : job[v] # job[w]

\* Nobody is called at a level before somebody was called at the level
\* below, and the same goes for the jobs waiting to do it: retries, crashes,
\* cancellations and a second schedule never skip a rung.
LadderOrder ==
  /\ \A id \in Ids, level \in 2 .. maxLevel : level \in notified[id] => level - 1 \in notified[id]
  /\ \A k \in Keys : jobs[k] # Absent /\ jobs[k].currentLevel > 1
                       => jobs[k].currentLevel - 1 \in notified[jobs[k].incident]

\* However a job is retried and stalls, it calls people at most once for
\* each failed attempt and each stall, and once more.
EmissionsBounded ==
  \A k \in Keys : jobs[k] # Absent =>
    jobs[k].sent <= jobs[k].attemptsMade + jobs[k].stalls
                      + (IF jobs[k].state = "pending" THEN 0 ELSE 1)

\* A job that is scheduled does not stay in the queue for ever: it is
\* completed or failed after its retries, or cancelled.
EveryJobSettles ==
  \A k \in Keys : (jobs[k] # Absent /\ jobs[k].state \in {"pending", "active"})
                    ~> (jobs[k] = Absent \/ jobs[k].state \in {"completed", "failed"})

\* Technical specification, key features: "Automatic cancellation of
\* escalations on acknowledgment".  Nobody is called for an incident that
\* was acknowledged already when the processor looked.
AcknowledgedNotEscalated ==
  [][ \A w \in Workers :
        notified' # notified /\ at[w] = "targets" /\ at'[w] # "targets"
          => read[w].status # "acknowledged" ]_vars
=============================================================================
