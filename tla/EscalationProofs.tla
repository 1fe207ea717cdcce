---- MODULE EscalationProofs ----
(***************************************************************************)
(* What the escalation guarantees for every set of incidents, clients and  *)
(* workers, any number of calls and faults, and whichever levels have      *)
(* somebody to call.                                                       *)
(*                                                                         *)
(* The invariant says of each job on its own what retries, stalls and      *)
(* emissions have added up to (JobOK), of each worker what it may rely on  *)
(* at each of its steps (WorkerOK), and that no two workers have the same  *)
(* job.  All of it survives what clients do to the queue because a client  *)
(* only removes jobs that no worker holds and only adds where none is.     *)
(***************************************************************************)
EXTENDS Escalation, BreakerStateProofs

Levels == 1 .. maxLevel

Unsettled(j) == j.state \in {"pending", "active"}

\* The job's account: attempts are left, emissions are paid for, and the
\* level below has been called.
JobOK(j) ==
  /\ j \in Job
  /\ Unsettled(j) => j.attemptsMade < maxAttempts
  /\ j.sent <= j.attemptsMade + j.stalls + (IF j.state = "pending" THEN 0 ELSE 1)
  /\ j.currentLevel > 1 => j.currentLevel - 1 \in notified[j.incident]

JobsOK == \A k \in Keys : jobs[k] # Absent => JobOK(jobs[k])

NotYetSent(j) == j.sent <= j.attemptsMade + j.stalls

\* What a worker that has a job may rely on.
HolderOK(w) == LET j == jobs[job[w]] IN
  /\ job[w] \in Keys
  /\ j # Absent
  /\ j.state = "active"
  /\ at[w] \in {"find", "targets"} => NotYetSent(j)
  /\ at[w] = "targets" => read[w] # Absent
  /\ at[w] = "add" => j.currentLevel < maxLevel /\ j.currentLevel \in notified[j.incident]

WorkerOK(w) == IF at[w] = "idle" THEN job[w] = Absent ELSE HolderOK(w)

Exclusive == \A v, w \in Workers : v # w /\ at[v] # "idle" => job[v] # job[w]

NoRungSkipped == \A id \in Ids, level \in 2 .. maxLevel :
                   level \in notified[id] => level - 1 \in notified[id]

\* The variables apart from the queue.
RestTyped == /\ incidents \in [Ids -> Subject \cup {Absent}]
             /\ breaker \in CircuitBreakerState
             /\ pc \in [Clients -> {"idle", "schedule", "lookup", "list", "remove", "find", "add"}]
             /\ target \in [Clients -> Ids]
             /\ op \in [Clients -> {"none", "schedule", "cancel", "reschedule"}]
             /\ listed \in [Clients -> SUBSET Keys]
             /\ at \in [Workers -> {"idle", "find", "targets", "add", "finish"}]
             /\ job \in [Workers -> Keys \cup {Absent}]
             /\ read \in [Workers -> Subject \cup {Absent}]
             /\ notified \in [Ids -> SUBSET Levels]
             /\ calls \in 0 .. MaxCalls
             /\ faults \in 0 .. MaxFaults

QueueTyped == jobs \in [Keys -> Job \cup {Absent}]

Inv == /\ RestTyped
       /\ QueueTyped
       /\ JobsOK
       /\ \A w \in Workers : WorkerOK(w)
       /\ Exclusive
       /\ NoRungSkipped
-----------------------------------------------------------------------------
\* The invariant contains the properties.
LEMMA InvImplies == Inv => TypeOK /\ WorkersHoldTheirJobs /\ LadderOrder /\ EmissionsBounded
<1> SUFFICES ASSUME Inv PROVE TypeOK /\ WorkersHoldTheirJobs /\ LadderOrder /\ EmissionsBounded
  OBVIOUS
<1>1. TypeOK
  BY DEF Inv, RestTyped, QueueTyped, TypeOK, Levels
<1>2. WorkersHoldTheirJobs
  BY DEF Inv, WorkerOK, HolderOK, Exclusive, WorkersHoldTheirJobs
<1>3. LadderOrder
  BY DEF Inv, NoRungSkipped, JobsOK, JobOK, LadderOrder
<1>4. EmissionsBounded
  BY DEF Inv, JobsOK, JobOK, EmissionsBounded
<1> QED
  BY <1>1, <1>2, <1>3, <1>4

\* A job that is added is in order when the level below has been called.
LEMMA NewJobOK ==
  ASSUME NEW id \in Ids, NEW level \in Levels,
         level > 1 => level - 1 \in notified[id]
  PROVE  JobOK(NewJob(id, level)) /\ NewJob(id, level).state = "pending"
<1> QED
  BY DEF NewJob, JobOK, Job, Unsettled, Levels, maxAttempts, maxStalls, maxLevel

\* One field of a job is given another value.
LEMMA JobExceptOne ==
  ASSUME NEW j \in Job, NEW x
  PROVE  /\ [j EXCEPT !.state = x]
              = [incident |-> j.incident, currentLevel |-> j.currentLevel, state |-> x,
                 attemptsMade |-> j.attemptsMade, stalls |-> j.stalls, sent |-> j.sent]
         /\ [j EXCEPT !.attemptsMade = x]
              = [incident |-> j.incident, currentLevel |-> j.currentLevel, state |-> j.state,
                 attemptsMade |-> x, stalls |-> j.stalls, sent |-> j.sent]
         /\ [j EXCEPT !.stalls = x]
              = [incident |-> j.incident, currentLevel |-> j.currentLevel, state |-> j.state,
                 attemptsMade |-> j.attemptsMade, stalls |-> x, sent |-> j.sent]
         /\ [j EXCEPT !.sent = x]
              = [incident |-> j.incident, currentLevel |-> j.currentLevel, state |-> j.state,
                 attemptsMade |-> j.attemptsMade, stalls |-> j.stalls, sent |-> x]
<1> QED
  BY DEF Job

\* What a throw makes of a job.
LEMMA Thrown ==
  ASSUME NEW j \in Job, j.attemptsMade < maxAttempts
  PROVE  AfterThrow(j) =
           [incident |-> j.incident, currentLevel |-> j.currentLevel,
            state |-> IF j.attemptsMade + 1 < maxAttempts THEN "pending" ELSE "failed",
            attemptsMade |-> j.attemptsMade + 1, stalls |-> j.stalls, sent |-> j.sent]
<1>1. PICK t : t = [j EXCEPT !.attemptsMade = @ + 1]
  OBVIOUS
<1>2. t = [incident |-> j.incident, currentLevel |-> j.currentLevel, state |-> j.state,
           attemptsMade |-> j.attemptsMade + 1, stalls |-> j.stalls, sent |-> j.sent]
  BY <1>1, JobExceptOne
<1>3. t \in Job
  BY <1>2 DEF Job, maxAttempts
<1>4. AfterThrow(j) = [t EXCEPT !.state = IF j.attemptsMade + 1 < maxAttempts THEN "pending"
                                                                              ELSE "failed"]
  BY <1>1 DEF AfterThrow
<1> QED
  BY <1>2, <1>3, <1>4, JobExceptOne

\* What the recovery of a stalled job makes of it.
LEMMA Recovered ==
  ASSUME NEW j \in Job, j.stalls < maxStalls
  PROVE  [j EXCEPT !.stalls = @ + 1, !.state = "pending"] =
           [incident |-> j.incident, currentLevel |-> j.currentLevel, state |-> "pending",
            attemptsMade |-> j.attemptsMade, stalls |-> j.stalls + 1, sent |-> j.sent]
<1>1. PICK t : t = [j EXCEPT !.stalls = @ + 1]
  OBVIOUS
<1>2. t = [incident |-> j.incident, currentLevel |-> j.currentLevel, state |-> j.state,
           attemptsMade |-> j.attemptsMade, stalls |-> j.stalls + 1, sent |-> j.sent]
  BY <1>1, JobExceptOne
<1>3. t \in Job
  BY <1>2 DEF Job, maxStalls
<1>4. [j EXCEPT !.stalls = @ + 1, !.state = "pending"] = [t EXCEPT !.state = "pending"]
  BY <1>1
<1>5. [t EXCEPT !.state = "pending"] =
        [incident |-> t.incident, currentLevel |-> t.currentLevel, state |-> "pending",
         attemptsMade |-> t.attemptsMade, stalls |-> t.stalls, sent |-> t.sent]
  BY <1>3, JobExceptOne
<1>6. /\ t.incident = j.incident /\ t.currentLevel = j.currentLevel /\ t.sent = j.sent
      /\ t.attemptsMade = j.attemptsMade /\ t.stalls = j.stalls + 1
  BY <1>2
<1> QED
  BY <1>4, <1>5, <1>6

\* However an active job leaves its worker, its account is in order.
LEMMA ReleasedJobOK ==
  ASSUME NEW j, JobOK(j), j.state = "active"
  PROVE  /\ JobOK(AfterThrow(j))
         /\ j.stalls < maxStalls => JobOK([j EXCEPT !.stalls = @ + 1, !.state = "pending"])
         /\ JobOK([j EXCEPT !.state = "failed"])
         /\ JobOK([j EXCEPT !.state = "completed"])
<1>1. j \in Job /\ j.attemptsMade < maxAttempts
  BY DEF JobOK, Unsettled
<1>2. JobOK(AfterThrow(j))
  BY <1>1, Thrown DEF JobOK, Job, Unsettled, maxAttempts, maxStalls
<1>3. ASSUME j.stalls < maxStalls
      PROVE  JobOK([j EXCEPT !.stalls = @ + 1, !.state = "pending"])
  <2>1. PICK t : t = [incident |-> j.incident, currentLevel |-> j.currentLevel,
                      state |-> "pending", attemptsMade |-> j.attemptsMade,
                      stalls |-> j.stalls + 1, sent |-> j.sent]
    OBVIOUS
  <2>2. JobOK(t)
    BY <1>1, <1>3, <2>1 DEF JobOK, Job, Unsettled, maxAttempts, maxStalls
  <2> QED
    BY <1>1, <1>3, <2>1, <2>2, Recovered
<1>4. JobOK([j EXCEPT !.state = "failed"]) /\ JobOK([j EXCEPT !.state = "completed"])
  BY <1>1, JobExceptOne DEF JobOK, Job, Unsettled, maxAttempts, maxStalls
<1> QED
  BY <1>2, <1>3, <1>4
-----------------------------------------------------------------------------
\* A step that leaves the workers and what they hold alone keeps the
\* invariant if whatever is in the queue afterwards is in order.
LEMMA QueueStep ==
  ASSUME Inv, RestTyped', QueueTyped', UNCHANGED <<workerVars, notified>>,
         \A k \in Keys : jobs'[k] # Absent /\ jobs'[k] # jobs[k] => JobOK(jobs'[k]),
         \A w \in Workers : at[w] # "idle" => jobs'[job[w]] = jobs[job[w]]
  PROVE  Inv'
<1>1. ASSUME NEW j, JobOK(j) PROVE JobOK(j)'
  BY <1>1 DEF JobOK, Job, Unsettled
<1>2. JobsOK'
  BY <1>1 DEF Inv, JobsOK, JobOK, Unsettled
<1>3. ASSUME NEW w \in Workers PROVE WorkerOK(w)'
  BY DEF Inv, WorkerOK, HolderOK, NotYetSent, workerVars
<1>4. Exclusive' /\ NoRungSkipped'
  BY DEF Inv, Exclusive, NoRungSkipped, workerVars
<1> QED
  BY <1>2, <1>3, <1>4 DEF Inv

\* A step of one worker keeps the invariant if it leaves the jobs of the
\* others alone and takes none of them.
LEMMA WorkerStep ==
  ASSUME Inv, NEW w \in Workers, RestTyped', QueueTyped', WorkerOK(w)', NoRungSkipped',
         \A id \in Ids : notified[id] \subseteq notified'[id],
         \A k \in Keys : jobs'[k] # Absent /\ jobs'[k] # jobs[k] => JobOK(jobs[k])',
         \A v \in Workers \ {w} :
           /\ at'[v] = at[v] /\ job'[v] = job[v] /\ read'[v] = read[v]
           /\ at[v] # "idle" => jobs'[job[v]] = jobs[job[v]]
           /\ at'[w] # "idle" => job[v] # job'[w]
  PROVE  Inv'
<1>1. ASSUME NEW k \in Keys, jobs'[k] # Absent PROVE JobOK(jobs[k])'
  <2>1. CASE jobs'[k] # jobs[k]
    BY <1>1, <2>1
  <2>2. CASE jobs'[k] = jobs[k]
    <3>1. JobOK(jobs[k])
      BY <1>1, <2>2 DEF Inv, JobsOK
    <3>2. jobs[k].incident \in Ids
      BY <3>1 DEF JobOK, Job
    <3> QED
      BY <2>2, <3>1, <3>2 DEF JobOK, Unsettled
  <2> QED
    BY <2>1, <2>2
<1>2. ASSUME NEW v \in Workers, v # w PROVE WorkerOK(v)'
  <2>1. WorkerOK(v)
    BY DEF Inv
  <2>2. /\ at'[v] = at[v] /\ job'[v] = job[v] /\ read'[v] = read[v]
        /\ at[v] # "idle" => jobs'[job[v]] = jobs[job[v]]
    BY <1>2
  <2>3. CASE at[v] = "idle"
    BY <2>1, <2>2, <2>3 DEF WorkerOK
  <2>4. CASE at[v] # "idle"
    <3>1. HolderOK(v)
      BY <2>1, <2>4 DEF WorkerOK
    <3>2. jobs[job[v]].incident \in Ids
      BY <3>1 DEF Inv, HolderOK, JobsOK, JobOK, Job
    <3> QED
      BY <2>2, <2>4, <3>1, <3>2 DEF WorkerOK, HolderOK, NotYetSent
  <2> QED
    BY <2>3, <2>4
<1>3. Exclusive'
  <2>1. SUFFICES ASSUME NEW v \in Workers, NEW u \in Workers, v # u, at'[v] # "idle"
                 PROVE  job'[v] # job'[u]
    BY DEF Exclusive
  <2>2. CASE v = w
    BY <2>1, <2>2
  <2>3. CASE v # w /\ u # w
    BY <2>1, <2>3 DEF Inv, Exclusive
  <2>4. CASE v # w /\ u = w
    <3>1. CASE at'[w] # "idle"
      BY <2>1, <2>4, <3>1
    <3>2. CASE at'[w] = "idle"
      <4>1. job'[u] = Absent
        BY <2>4, <3>2 DEF WorkerOK
      <4>2. job[v] \in Keys
        BY <2>1, <2>4 DEF Inv, WorkerOK, HolderOK
      <4> QED
        BY <2>4, <4>1, <4>2, EscalationAssumption
    <3> QED
      BY <3>1, <3>2
  <2> QED
    BY <2>2, <2>3, <2>4
<1> QED
  BY <1>1, <1>2, <1>3 DEF Inv, JobsOK
-----------------------------------------------------------------------------
\* The escalation starts in the invariant.
LEMMA InitInv == Init => Inv
<1> SUFFICES ASSUME Init PROVE Inv
  OBVIOUS
<1>1. ASSUME NEW k \in Keys, jobs[k] # Absent PROVE JobOK(jobs[k])
  <2>1. k \in Ids /\ jobs[k] = NewJob(k, 1)
    BY <1>1 DEF Init
  <2> QED
    BY <2>1, NewJobOK DEF Levels, maxLevel
<1>2. QueueTyped
  <2>1. jobs = [k \in Keys |-> jobs[k]]
    BY DEF Init
  <2>2. \A k \in Keys : jobs[k] \in Job \cup {Absent}
    BY <1>1 DEF JobOK
  <2> QED
    BY <2>1, <2>2 DEF QueueTyped
<1>3. NewBreaker \in CircuitBreakerState
  BY BreakerAssumption DEF NewBreaker, CircuitBreakerState
<1>4. RestTyped
  BY <1>3, EscalationAssumption DEF Init, RestTyped, Subject, IncidentStatus
<1> QED
  BY <1>1, <1>2, <1>4 DEF Init, Inv, JobsOK, WorkerOK, Exclusive, NoRungSkipped, maxLevel

\* The steps that do not touch the queue and are no worker's.
LEMMA OtherSteps ==
  ASSUME Inv,
         \/ \E id \in Ids : ChangeIncident(id)
         \/ Restart \/ Tick
         \/ \E c \in Clients : \/ Call(c) \/ scheduleEscalation(c) \/ rescheduleEscalation(c)
                              \/ CancelList(c) \/ ScheduleFails(c) \/ ScheduleFind(c)
  PROVE  Inv'
<1> USE DEF Inv, Untouched, NoFault, Fault, Goto, Return, Proceed, EnterBreaker, AfterCancel,
            clientVars, workerVars
<1>1. ASSUME RestTyped', UNCHANGED <<jobs, workerVars, notified>> PROVE Inv'
  BY <1>1, QueueStep DEF QueueTyped
<1>2. ASSUME NEW id \in Ids, ChangeIncident(id) PROVE Inv'
  <2>1. RestTyped'
    BY <1>2 DEF ChangeIncident, RestTyped, Subject
  <2> QED
    BY <1>1, <1>2, <2>1 DEF ChangeIncident
<1>3. CASE Restart
  <2>1. RestTyped'
    BY <1>3, BreakerStateTypes, EscalationAssumption DEF Restart, RestTyped
  <2> QED
    BY <1>1, <1>3, <2>1 DEF Restart
<1>4. CASE Tick
  <2>1. RestTyped'
    BY <1>4, BreakerStateTypes DEF Tick, RestTyped
  <2> QED
    BY <1>1, <1>4, <2>1 DEF Tick
<1>5. ASSUME NEW c \in Clients, Call(c) PROVE Inv'
  <2>1. RestTyped'
    BY <1>5, EscalationAssumption DEF Call, RestTyped
  <2> QED
    BY <1>1, <1>5, <2>1 DEF Call
<1>6. ASSUME NEW c \in Clients, scheduleEscalation(c) PROVE Inv'
  <2>1. RestTyped'
    BY <1>6, BreakerStateTypes DEF scheduleEscalation, RestTyped
  <2> QED
    BY <1>1, <1>6, <2>1 DEF scheduleEscalation
<1>7. ASSUME NEW c \in Clients, rescheduleEscalation(c) PROVE Inv'
  <2>1. RestTyped'
    BY <1>7, BreakerStateTypes DEF rescheduleEscalation, RestTyped
  <2> QED
    BY <1>1, <1>7, <2>1 DEF rescheduleEscalation
<1>8. ASSUME NEW c \in Clients, CancelList(c) PROVE Inv'
  <2>1. RestTyped'
    BY <1>8, EscalationAssumption DEF CancelList, RestTyped, JobsOf
  <2> QED
    BY <1>1, <1>8, <2>1 DEF CancelList
<1>9. ASSUME NEW c \in Clients, ScheduleFails(c) PROVE Inv'
  <2>1. RestTyped'
    BY <1>9, BreakerStateTypes, EscalationAssumption DEF ScheduleFails, RestTyped
  <2> QED
    BY <1>1, <1>9, <2>1 DEF ScheduleFails
<1>10. ASSUME NEW c \in Clients, ScheduleFind(c) PROVE Inv'
  <2>1. RestTyped'
    BY <1>10, BreakerStateTypes DEF ScheduleFind, RestTyped
  <2> QED
    BY <1>1, <1>10, <2>1 DEF ScheduleFind
<1> QED
  BY <1>2, <1>3, <1>4, <1>5, <1>6, <1>7, <1>8, <1>9, <1>10

\* The removals of cancelEscalation spare the jobs that workers hold.
LEMMA CancelStep == ASSUME Inv, NEW c \in Clients, CancelRemove(c) PROVE Inv'
<1>1. RestTyped'
  BY EscalationAssumption DEF Inv, CancelRemove, RestTyped, AfterCancel, Return, Goto, Fault,
                              NoFault, Untouched, workerVars
<1>2. PICK removed \in SUBSET {k \in listed[c] : jobs[k] # Absent /\ ~Locked(k)} :
        jobs' = [k \in Keys |-> IF k \in removed THEN Absent ELSE jobs[k]]
  BY DEF CancelRemove
<1>3. QueueTyped'
  BY <1>2 DEF Inv, QueueTyped
<1>4. \A w \in Workers : at[w] # "idle" => jobs'[job[w]] = jobs[job[w]]
  BY <1>2 DEF Inv, WorkerOK, HolderOK, Locked
<1>5. \A k \in Keys : jobs'[k] # Absent => jobs'[k] = jobs[k]
  BY <1>2
<1>6. UNCHANGED <<workerVars, notified>>
  BY DEF CancelRemove, Untouched
<1> QED
  BY <1>1, <1>3, <1>4, <1>5, <1>6, QueueStep

\* add only adds where there is no job.
LEMMA AddStep == ASSUME Inv, NEW c \in Clients, ScheduleAdd(c) PROVE Inv'
<1>1. RestTyped'
  BY BreakerStateTypes DEF Inv, ScheduleAdd, RestTyped, Return, Goto, NoFault, Untouched, workerVars
<1>2. PICK id \in Ids : id = target[c]
  BY DEF Inv, RestTyped
<1>3. JobOK(NewJob(id, 1))
  BY NewJobOK DEF Levels, maxLevel
<1>4. /\ jobs[id] # Absent => jobs' = jobs
      /\ jobs[id] = Absent => jobs' = [jobs EXCEPT ![id] = NewJob(id, 1)]
  BY <1>2 DEF ScheduleAdd, Inv, QueueTyped, Keys
<1>5. QueueTyped'
  BY <1>3, <1>4 DEF Inv, QueueTyped, JobOK
<1>6. UNCHANGED <<workerVars, notified>>
  BY DEF ScheduleAdd, Untouched
<1>7. ASSUME NEW w \in Workers, at[w] # "idle" PROVE jobs'[job[w]] = jobs[job[w]]
  BY <1>4, <1>7 DEF Inv, WorkerOK, HolderOK, QueueTyped
<1>8. ASSUME NEW k \in Keys, jobs'[k] # Absent, jobs'[k] # jobs[k] PROVE JobOK(jobs'[k])
  <2>1. k = id /\ jobs[id] = Absent
    BY <1>4, <1>8 DEF Inv, QueueTyped
  <2>2. jobs'[k] = NewJob(id, 1)
    BY <1>4, <1>8, <2>1 DEF Inv, QueueTyped
  <2> QED
    BY <1>3, <2>2
<1> QED
  BY <1>1, <1>5, <1>6, <1>7, <1>8, QueueStep
-----------------------------------------------------------------------------
\* What a worker that has a job knows of it.
LEMMA Holding ==
  ASSUME Inv, NEW w \in Workers, at[w] # "idle"
  PROVE  /\ HolderOK(w)
         /\ job[w] \in Keys
         /\ jobs[job[w]] # Absent
         /\ JobOK(jobs[job[w]])
         /\ jobs[job[w]] \in Job
         /\ \A v \in Workers \ {w} : job[v] # job[w]
BY DEF Inv, WorkerOK, HolderOK, JobsOK, JobOK, Exclusive

\* A worker that gives its job up, in whatever condition, keeps the invariant
\* if the account of what is left of the job is in order.
LEMMA GiveUp ==
  ASSUME Inv, NEW w \in Workers, at[w] # "idle", NEW x, x = Absent \/ JobOK(x),
         jobs' = [jobs EXCEPT ![job[w]] = x],
         Release(w), NoFault \/ Fault, UNCHANGED notified, Elsewhere
  PROVE  Inv'
<1>1. /\ at' = [at EXCEPT ![w] = "idle"]
      /\ job' = [job EXCEPT ![w] = Absent]
      /\ read' = [read EXCEPT ![w] = Absent]
  BY DEF Release, WorkerAt
<1>2. RestTyped'
  BY <1>1, EscalationAssumption DEF Inv, RestTyped, Elsewhere, clientVars, NoFault, Fault
<1>3. QueueTyped'
  BY DEF Inv, QueueTyped, JobOK
<1>4. WorkerOK(w)'
  BY <1>1 DEF Inv, RestTyped, WorkerOK
<1>5. NoRungSkipped'
  BY DEF Inv, NoRungSkipped
<1>6. ASSUME NEW k \in Keys, jobs'[k] # Absent, jobs'[k] # jobs[k] PROVE JobOK(jobs[k])'
  <2>1. jobs'[k] = x
    BY <1>6 DEF Inv, QueueTyped
  <2>2. JobOK(x)
    BY <1>6, <2>1
  <2> QED
    BY <2>1, <2>2 DEF JobOK, Unsettled
<1>7. ASSUME NEW v \in Workers \ {w}
      PROVE  /\ at'[v] = at[v] /\ job'[v] = job[v] /\ read'[v] = read[v]
             /\ at[v] # "idle" => jobs'[job[v]] = jobs[job[v]]
             /\ at'[w] # "idle" => job[v] # job'[w]
  <2>1. at'[w] = "idle"
    BY <1>1 DEF Inv, RestTyped
  <2>2. at'[v] = at[v] /\ job'[v] = job[v] /\ read'[v] = read[v]
    BY <1>1 DEF Inv, RestTyped
  <2>3. at[v] # "idle" => job[v] \in Keys /\ job[v] # job[w]
    BY Holding
  <2> QED
    BY <2>1, <2>2, <2>3 DEF Inv, QueueTyped
<1> QED
  BY <1>2, <1>3, <1>4, <1>5, <1>6, <1>7, WorkerStep

\* The job of a worker is settled, thrown back, or left behind.
LEMMA GiveUpSteps ==
  ASSUME Inv, NEW w \in Workers, Finish(w) \/ Throw(w) \/ Crash(w)
  PROVE  Inv'
<1> DEFINE j == jobs[job[w]]
<1>1. at[w] # "idle"
  BY DEF Finish, Throw, Crash
<1>2. JobOK(j) /\ j.state = "active" /\ job[w] \in Keys
  BY <1>1, Holding DEF HolderOK
<1>3. ASSUME NEW x, JobOK(x) PROVE Kept(job[w], x) = Absent \/ JobOK(Kept(job[w], x))
  BY <1>3 DEF Kept
<1>4. CASE Finish(w)
  <2>1. jobs' = [jobs EXCEPT ![job[w]] = Kept(job[w], [j EXCEPT !.state = "completed"])]
    BY <1>4 DEF Finish
  <2>2. JobOK([j EXCEPT !.state = "completed"])
    BY <1>2, ReleasedJobOK
  <2> HIDE DEF j
  <2> QED
    BY <1>1, <1>3, <1>4, <2>1, <2>2, GiveUp DEF Finish
<1>5. CASE Throw(w)
  <2>1. jobs' = [jobs EXCEPT ![job[w]] = Kept(job[w], AfterThrow(j))]
    BY <1>5 DEF Throw
  <2>2. JobOK(AfterThrow(j))
    BY <1>2, ReleasedJobOK
  <2> HIDE DEF j
  <2> QED
    BY <1>1, <1>3, <1>5, <2>1, <2>2, GiveUp DEF Throw
<1>6. CASE Crash(w)
  <2>1. jobs' = [jobs EXCEPT ![job[w]] = j]
    BY <1>2, <1>6 DEF Crash, Inv, QueueTyped
  <2> HIDE DEF j
  <2> QED
    BY <1>1, <1>2, <1>6, <2>1, GiveUp DEF Crash
<1> QED
  BY <1>4, <1>5, <1>6

\* Taking a job: it was pending, so that no worker held it.
LEMMA TakeStep == ASSUME Inv, NEW w \in Workers, NEW k \in Keys, Take(w, k) PROVE Inv'
<1> DEFINE j == [jobs[k] EXCEPT !.state = "active"]
<1>1. JobOK(jobs[k]) /\ jobs[k] \in Job /\ jobs[k].state = "pending"
  BY DEF Inv, JobsOK, JobOK, Take
<1>2. j = [incident |-> jobs[k].incident, currentLevel |-> jobs[k].currentLevel,
           state |-> "active", attemptsMade |-> jobs[k].attemptsMade,
           stalls |-> jobs[k].stalls, sent |-> jobs[k].sent]
  BY <1>1, JobExceptOne
<1>3. JobOK(j) /\ j.state = "active" /\ NotYetSent(j)
  BY <1>1, <1>2 DEF JobOK, Job, Unsettled, NotYetSent, maxAttempts, maxStalls, maxLevel
<1>4. /\ jobs' = [jobs EXCEPT ![k] = j]
      /\ at' = [at EXCEPT ![w] = "find"]
      /\ job' = [job EXCEPT ![w] = k]
      /\ UNCHANGED <<read, notified>>
  BY DEF Take, WorkerAt
<1> HIDE DEF j
<1>5. RestTyped'
  BY <1>4 DEF Take, Inv, RestTyped, Elsewhere, clientVars, NoFault
<1>6. QueueTyped' /\ jobs'[k] = j /\ j # Absent
  BY <1>3, <1>4, NoSuchJob DEF Inv, QueueTyped, JobOK
<1>7. WorkerOK(w)'
  <2>1. at'[w] = "find" /\ job'[w] = k
    BY <1>4 DEF Inv, RestTyped
  <2> QED
    BY <1>3, <1>6, <2>1 DEF WorkerOK, HolderOK, NotYetSent
<1>8. NoRungSkipped' /\ \A id \in Ids : notified[id] \subseteq notified'[id]
  BY <1>4 DEF Inv, NoRungSkipped
<1>9. ASSUME NEW l \in Keys, jobs'[l] # Absent, jobs'[l] # jobs[l] PROVE JobOK(jobs[l])'
  <2>1. jobs'[l] = j
    BY <1>4, <1>6, <1>9 DEF Inv, QueueTyped
  <2> QED
    BY <1>3, <1>4, <2>1 DEF JobOK, Unsettled
<1>10. ASSUME NEW v \in Workers \ {w}
       PROVE  /\ at'[v] = at[v] /\ job'[v] = job[v] /\ read'[v] = read[v]
              /\ at[v] # "idle" => jobs'[job[v]] = jobs[job[v]]
              /\ at'[w] # "idle" => job[v] # job'[w]
  <2>1. at'[v] = at[v] /\ job'[v] = job[v] /\ read'[v] = read[v] /\ job'[w] = k
    BY <1>4 DEF Inv, RestTyped
  <2>2. job[v] # k
    <3>1. CASE at[v] = "idle"
      <4>1. job[v] = Absent
        BY <3>1 DEF Inv, WorkerOK
      <4> QED
        BY <4>1, EscalationAssumption
    <3>2. CASE at[v] # "idle"
      <4>1. jobs[job[v]].state = "active"
        BY <3>2, Holding DEF HolderOK
      <4> QED
        BY <1>1, <4>1
    <3> QED
      BY <3>1, <3>2
  <2>3. at[v] # "idle" => job[v] \in Keys
    BY Holding
  <2> QED
    BY <1>4, <2>1, <2>2, <2>3 DEF Inv, QueueTyped
<1> QED
  BY <1>5, <1>6, <1>7, <1>8, <1>9, <1>10, WorkerStep

\* The steps of a worker that only look: its job stays as it is.
LEMMA LookSteps ==
  ASSUME Inv, NEW w \in Workers, WorkerFind(w) \/ NoTargets(w)
  PROVE  Inv'
<1>1. /\ at[w] \in {"find", "targets"}
      /\ UNCHANGED <<jobs, job, notified>>
      /\ \/ at' = [at EXCEPT ![w] = "finish"]
         \/ at' = [at EXCEPT ![w] = "targets"] /\ at[w] = "find"
      /\ \/ UNCHANGED read
         \/ read' = [read EXCEPT ![w] = Absent]
         \/ read' = [read EXCEPT ![w] = incidents[jobs[job[w]].incident]]
      /\ at' = [at EXCEPT ![w] = "targets"]
           => /\ read' = [read EXCEPT ![w] = incidents[jobs[job[w]].incident]]
              /\ incidents[jobs[job[w]].incident] # Absent
  BY DEF WorkerFind, NoTargets, WorkerAt, Inv, RestTyped
<1>2. HolderOK(w) /\ jobs[job[w]].incident \in Ids
  BY <1>1, Holding DEF Job
<1>3. RestTyped'
  <2>1. UNCHANGED <<incidents, breaker, clientVars, faults>>
    BY DEF WorkerFind, NoTargets, Elsewhere, NoFault
  <2> QED
    BY <1>1, <1>2, <2>1 DEF Inv, RestTyped, clientVars
<1>4. QueueTyped' /\ NoRungSkipped'
  BY <1>1 DEF Inv, QueueTyped, NoRungSkipped
<1>5. WorkerOK(w)'
  <2>1. CASE at' = [at EXCEPT ![w] = "finish"]
    <3>1. at'[w] = "finish"
      BY <2>1 DEF Inv, RestTyped
    <3> QED
      BY <1>1, <1>2, <3>1 DEF WorkerOK, HolderOK
  <2>2. CASE at' = [at EXCEPT ![w] = "targets"]
    <3>1. at'[w] = "targets" /\ read'[w] # Absent
      BY <1>1, <2>2 DEF Inv, RestTyped
    <3> QED
      BY <1>1, <1>2, <3>1 DEF WorkerOK, HolderOK, NotYetSent
  <2> QED
    BY <1>1, <2>1, <2>2
<1>6. ASSUME NEW v \in Workers \ {w}
      PROVE  /\ at'[v] = at[v] /\ job'[v] = job[v] /\ read'[v] = read[v]
             /\ at[v] # "idle" => jobs'[job[v]] = jobs[job[v]]
             /\ at'[w] # "idle" => job[v] # job'[w]
  <2>1. at'[v] = at[v] /\ job'[v] = job[v] /\ read'[v] = read[v]
    BY <1>1 DEF Inv, RestTyped
  <2> QED
    BY <1>1, <2>1, Holding
<1> QED
  BY <1>1, <1>3, <1>4, <1>5, <1>6, WorkerStep

\* An emission is paid for by the attempt that is under way, and adds a rung
\* whose lower neighbour is there.
LEMMA EscalateStep == ASSUME Inv, NEW w \in Workers, Escalate(w) PROVE Inv'
<1>0. PICK k, old, new, level : /\ k = job[w] /\ old = jobs[k] /\ level = old.currentLevel
                               /\ new = [old EXCEPT !.sent = @ + 1]
  OBVIOUS
<1>1. /\ at[w] = "targets"
      /\ notified' = [notified EXCEPT ![old.incident] = @ \cup {level}]
      /\ jobs' = [jobs EXCEPT ![k] = new]
      /\ at' = [at EXCEPT ![w] = IF level < maxLevel THEN "add" ELSE "finish"]
      /\ read' = [read EXCEPT ![w] = Absent]
      /\ UNCHANGED <<job, incidents, breaker, clientVars, faults>>
  BY <1>0 DEF Escalate, WorkerAt, Elsewhere, NoFault
<1>2. /\ HolderOK(w) /\ k \in Keys /\ old \in Job /\ JobOK(old)
      /\ NotYetSent(old) /\ old.state = "active"
      /\ \A v \in Workers \ {w} : job[v] # k
  BY <1>0, <1>1, Holding DEF HolderOK
<1>3. new = [incident |-> old.incident, currentLevel |-> level, state |-> old.state,
             attemptsMade |-> old.attemptsMade, stalls |-> old.stalls, sent |-> old.sent + 1]
  BY <1>0, <1>2, JobExceptOne
<1>4. level \in Levels /\ old.incident \in Ids
  BY <1>0, <1>2 DEF Job, Levels
<1>5. RestTyped'
  BY <1>1, <1>4 DEF Inv, RestTyped, clientVars
<1>6. \A id \in Ids : notified[id] \subseteq notified'[id]
  BY <1>1, <1>4 DEF Inv, RestTyped
<1>7. level \in notified'[old.incident]
  BY <1>1, <1>4 DEF Inv, RestTyped
<1>8. JobOK(new)' /\ new \in Job /\ new.state = "active"
  <2>1. /\ new \in Job /\ new.state = "active" /\ new.incident = old.incident
        /\ new.currentLevel = level /\ new.attemptsMade = old.attemptsMade
        /\ new.stalls = old.stalls /\ new.sent = old.sent + 1
    BY <1>0, <1>2, <1>3 DEF Job
  <2>2. old.attemptsMade < maxAttempts
    BY <1>2 DEF JobOK, Unsettled
  <2>3. new.sent <= new.attemptsMade + new.stalls + 1
    BY <1>2, <2>1 DEF NotYetSent, Job, maxAttempts, maxStalls
  <2>4. level > 1 => level - 1 \in notified'[old.incident]
    BY <1>0, <1>2, <1>4, <1>6 DEF JobOK
  <2> QED
    BY <2>1, <2>2, <2>3, <2>4 DEF JobOK, Unsettled
<1>9. QueueTyped'
  BY <1>1, <1>8 DEF Inv, QueueTyped
<1>10. jobs'[k] = new /\ new # Absent
  BY <1>1, <1>2, <1>8, NoSuchJob DEF Inv, QueueTyped
<1>11. WorkerOK(w)'
  <2>1. at'[w] = IF level < maxLevel THEN "add" ELSE "finish"
    BY <1>1 DEF Inv, RestTyped
  <2>2. job'[w] = k
    BY <1>0, <1>1
  <2>3. new.currentLevel = level /\ new.incident = old.incident
    BY <1>3
  <2> QED
    BY <1>2, <1>7, <1>8, <1>10, <2>1, <2>2, <2>3 DEF WorkerOK, HolderOK
<1>12. NoRungSkipped'
  <2>1. SUFFICES ASSUME NEW id \in Ids, NEW l \in 2 .. maxLevel, l \in notified'[id]
                 PROVE  l - 1 \in notified'[id]
    BY DEF NoRungSkipped
  <2>2. CASE l \in notified[id]
    BY <1>6, <2>2 DEF Inv, NoRungSkipped
  <2>3. CASE l \notin notified[id]
    <3>1. id = old.incident /\ l = level
      BY <1>1, <1>4, <2>1, <2>3 DEF Inv, RestTyped
    <3>2. level > 1 => level - 1 \in notified[id]
      BY <1>0, <1>2, <3>1 DEF JobOK
    <3> QED
      BY <1>6, <3>1, <3>2 DEF maxLevel
  <2> QED
    BY <2>2, <2>3
<1>13. ASSUME NEW l \in Keys, jobs'[l] # Absent, jobs'[l] # jobs[l] PROVE JobOK(jobs[l])'
  <2>1. jobs'[l] = new
    BY <1>1, <1>10, <1>13 DEF Inv, QueueTyped
  <2> QED
    BY <1>8, <2>1 DEF JobOK, Unsettled
<1>14. ASSUME NEW v \in Workers \ {w}
       PROVE  /\ at'[v] = at[v] /\ job'[v] = job[v] /\ read'[v] = read[v]
              /\ at[v] # "idle" => jobs'[job[v]] = jobs[job[v]]
              /\ at'[w] # "idle" => job[v] # job'[w]
  <2>1. at'[v] = at[v] /\ job'[v] = job[v] /\ read'[v] = read[v]
    BY <1>1 DEF Inv, RestTyped
  <2>2. job[v] # k /\ job'[w] = k /\ (at[v] # "idle" => job[v] \in Keys)
    BY <1>0, <1>1, <1>2, Holding
  <2> QED
    BY <1>1, <2>1, <2>2 DEF Inv, QueueTyped
<1> QED
  BY <1>5, <1>6, <1>9, <1>11, <1>12, <1>13, <1>14, WorkerStep

\* The next level is added under a name nobody has.
LEMMA AddNextLevelStep == ASSUME Inv, NEW w \in Workers, AddNextLevel(w) PROVE Inv'
<1>0. PICK k, j, new : /\ k = (CHOOSE f \in FreshKeys : TRUE)
                       /\ j = jobs[job[w]]
                       /\ new = nextLevel(j)
  OBVIOUS
<1>1. /\ at[w] = "add"
      /\ FreshKeys # {}
      /\ jobs' = [jobs EXCEPT ![k] = new]
      /\ at' = [at EXCEPT ![w] = "finish"]
      /\ UNCHANGED <<job, read, notified, incidents, breaker, clientVars, faults>>
  BY <1>0 DEF AddNextLevel, WorkerAt, Elsewhere, NoFault
<1>2. k \in Keys /\ jobs[k] = Absent
  <2>1. k \in FreshKeys
    BY <1>0, <1>1
  <2> QED
    BY <2>1 DEF FreshKeys, Keys
<1>3. /\ HolderOK(w) /\ j \in Job /\ j.currentLevel < maxLevel
      /\ j.currentLevel \in notified[j.incident]
  BY <1>0, <1>1, Holding DEF HolderOK
<1>4. JobOK(new)
  <2>1. j.incident \in Ids /\ j.currentLevel + 1 \in Levels
    BY <1>3 DEF Job, Levels, maxLevel
  <2>2. (j.currentLevel + 1) - 1 \in notified[j.incident]
    BY <1>3 DEF Job, maxLevel
  <2> QED
    BY <1>0, <2>1, <2>2, NewJobOK DEF nextLevel
<1>5. RestTyped'
  BY <1>1 DEF Inv, RestTyped, clientVars
<1>6. QueueTyped'
  BY <1>1, <1>4 DEF Inv, QueueTyped, JobOK
<1>7. ASSUME NEW v \in Workers, at[v] # "idle" PROVE jobs'[job[v]] = jobs[job[v]]
  BY <1>1, <1>2, <1>7, Holding DEF Inv, QueueTyped
<1>8. WorkerOK(w)'
  <2>1. at'[w] = "finish" /\ job'[w] = job[w] /\ jobs'[job[w]] = jobs[job[w]]
    BY <1>1, <1>7 DEF Inv, RestTyped
  <2> QED
    BY <1>3, <2>1 DEF WorkerOK, HolderOK
<1>9. NoRungSkipped' /\ \A id \in Ids : notified[id] \subseteq notified'[id]
  BY <1>1 DEF Inv, NoRungSkipped
<1>10. ASSUME NEW l \in Keys, jobs'[l] # Absent, jobs'[l] # jobs[l] PROVE JobOK(jobs[l])'
  <2>1. jobs'[l] = new
    BY <1>1, <1>2, <1>10 DEF Inv, QueueTyped
  <2> QED
    BY <1>1, <1>4, <2>1 DEF JobOK, Unsettled
<1>11. ASSUME NEW v \in Workers \ {w}
       PROVE  /\ at'[v] = at[v] /\ job'[v] = job[v] /\ read'[v] = read[v]
              /\ at[v] # "idle" => jobs'[job[v]] = jobs[job[v]]
              /\ at'[w] # "idle" => job[v] # job'[w]
  <2>1. at'[v] = at[v] /\ job'[v] = job[v] /\ read'[v] = read[v] /\ job'[w] = job[w]
    BY <1>1 DEF Inv, RestTyped
  <2> QED
    BY <1>1, <1>7, <2>1, Holding
<1> QED
  BY <1>5, <1>6, <1>8, <1>9, <1>10, <1>11, WorkerStep

\* Bull's own steps leave the jobs that workers hold alone.
LEMMA BullSteps == ASSUME Inv, NEW k \in Keys, Stalled(k) \/ Trim(k) PROVE Inv'
<1>1. PICK x : jobs' = [jobs EXCEPT ![k] = x] /\ (x = Absent \/ JobOK(x))
  <2>1. CASE Trim(k)
    BY <2>1 DEF Trim
  <2>2. CASE Stalled(k)
    <3>1. JobOK(jobs[k]) /\ jobs[k].state = "active"
      BY <2>2 DEF Stalled, Inv, JobsOK
    <3>2. PICK y : y = Recover(jobs[k])
      OBVIOUS
    <3>3. JobOK(y)
      BY <3>1, <3>2, ReleasedJobOK DEF Recover
    <3>4. jobs' = [jobs EXCEPT ![k] = Kept(k, y)]
      BY <2>2, <3>2 DEF Stalled
    <3> QED
      BY <3>3, <3>4 DEF Kept
  <2> QED
    BY <2>1, <2>2
<1>2. jobs[k] # Absent /\ (jobs[k].state = "active" => ~Locked(k))
  BY DEF Stalled, Trim
<1>3. UNCHANGED <<workerVars, notified>>
  BY DEF Stalled, Trim
<1>4. RestTyped'
  BY DEF Stalled, Trim, Inv, RestTyped, Elsewhere, NoFault, clientVars, workerVars
<1>5. QueueTyped'
  BY <1>1 DEF Inv, QueueTyped, JobOK
<1>6. \A l \in Keys : jobs'[l] # Absent /\ jobs'[l] # jobs[l] => JobOK(jobs'[l])
  BY <1>1 DEF Inv, QueueTyped
<1>7. ASSUME NEW w \in Workers, at[w] # "idle" PROVE jobs'[job[w]] = jobs[job[w]]
  <2>1. job[w] # k
    BY <1>2, <1>7, Holding DEF HolderOK, Locked
  <2> QED
    BY <1>1, <1>7, <2>1, Holding DEF Inv, QueueTyped
<1> QED
  BY <1>3, <1>4, <1>5, <1>6, <1>7, QueueStep
-----------------------------------------------------------------------------
\* Every step keeps the invariant.
LEMMA NextInv == Inv /\ [Next]_vars => Inv'
<1> SUFFICES ASSUME Inv, [Next]_vars PROVE Inv'
  OBVIOUS
<1>1. CASE UNCHANGED vars
  <2>1. RestTyped' /\ QueueTyped' /\ UNCHANGED <<jobs, workerVars, notified>>
    BY <1>1 DEF vars, clientVars, workerVars, Inv, RestTyped, QueueTyped
  <2> QED
    BY <2>1, QueueStep
<1>2. CASE Restart \/ Tick \/ \E id \in Ids : ChangeIncident(id)
  BY <1>2, OtherSteps
<1>3. ASSUME NEW c \in Clients, Call(c) \/ Client(c) PROVE Inv'
  BY <1>3, OtherSteps, CancelStep, AddStep DEF Client
<1>4. ASSUME NEW w \in Workers, Work(w) \/ Crash(w) PROVE Inv'
  BY <1>4, LookSteps, EscalateStep, AddNextLevelStep, GiveUpSteps DEF Work
<1>5. ASSUME NEW w \in Workers, NEW k \in Keys, Take(w, k) PROVE Inv'
  BY <1>5, TakeStep
<1>6. ASSUME NEW k \in Keys, Stalled(k) \/ Trim(k) PROVE Inv'
  BY <1>6, BullSteps
<1> QED
  BY <1>1, <1>2, <1>3, <1>4, <1>5, <1>6 DEF Next

\* The invariant holds throughout.
THEOREM EscalationInvariant == Spec => []Inv
<1> QED
  BY InitInv, NextInv, PTL DEF Spec

\* EscalationService and EscalationProcessor: the queue, the workers and the
\* callers hold what their types allow; in particular no job ever counts more
\* attempts or stalls than it is allowed.
THEOREM EscalationTyped == Spec => []TypeOK
<1>1. Inv => TypeOK
  BY InvImplies
<1> QED
  BY EscalationInvariant, <1>1, PTL

\* handleEscalation: whatever callers cancel and Bull recovers or trims
\* meanwhile, the job a worker processes is there, active and its alone.
THEOREM JobsHeld == Spec => []WorkersHoldTheirJobs
<1>1. Inv => WorkersHoldTheirJobs
  BY InvImplies
<1> QED
  BY EscalationInvariant, <1>1, PTL

\* handleEscalation: nobody is called at a level before the level below has
\* been called, for any number of incidents, callers, workers and faults.
THEOREM LadderAlwaysInOrder == Spec => []LadderOrder
<1>1. Inv => LadderOrder
  BY InvImplies
<1> QED
  BY EscalationInvariant, <1>1, PTL

\* handleEscalation under retries: the calls one job makes are paid for by
\* its failed attempts, its stalls and one success.
THEOREM CallsBounded == Spec => []EmissionsBounded
<1>1. Inv => EmissionsBounded
  BY InvImplies
<1> QED
  BY EscalationInvariant, <1>1, PTL
=============================================================================
