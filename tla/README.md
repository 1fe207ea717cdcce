# Pager system in TLA+

TLA+ models of the pager system in this repository (a NestJS backend for
incidents, their escalation and on-call duty, with a Flutter client), the TLC
configurations that check them and the theorems TLAPS proves about them.
Paths below are relative to `src/packages/backend/src/` unless they start with
`src/`.

## 1. The system and its parts

An HTTP request reaches a controller, which calls one service operation; the
operation is a JavaScript async function, interleaved at every `await` with the
other requests of its process and, through the database and Redis, with those
of the other replicas (three in `src/infrastructure/k8s/api.yaml`). Services
call each other directly; some emit events on an in-process emitter whose
listeners run detached from the operation. All database work goes through one
pool of connections; `create` of an incident holds one of them and asks for
others meanwhile.

| component | state | operations | hard behaviour | what makes it correct |
|---|---|---|---|---|
| Circuit breaker (`shared/circuit-breaker.service.ts`) | per service name: status, failure counter, time of last failure | `execute`, `resetBreaker` | outcomes of calls admitted earlier arrive while it is open or half-open; no timer | closed only below the threshold; quiet for the recovery time; open and half-open are left |
| Incident entity, state machine (`incidents/incident.entity.ts`, `incident-state-machine.service.ts`) | a row per incident | predicates, `transition` | read, check, then a save in two database steps that writes only changed columns | status and user fields agree; no transition goes back |
| Incidents service, repository (`incidents/incidents.service.ts`, `incident.repository.ts`) | the table, the cache entries | create, find, update, acknowledge, delete; list, statistics | concurrent requests, stale checks, errors and crashes between steps | operations act as one step; only the entitled act; cache agrees with the table |
| Cache service (`shared/cache.service.ts`) | key to value with a time to live | `get`, `set`, `getOrSet`, `delete`, invalidations | swallowed errors, refill racing with invalidation, one cache per process | a hit answers the question asked; what is written no more shows in the end; a quiet system shows no stale entry |
| Escalation service and processor (`escalation/escalation.service.ts`) | Bull queue `escalation` in Redis | schedule, cancel, reschedule, the processor | workers racing with cancellation, retries, stalled jobs, fixed job identifiers | levels in order, every job settles, cancelled means no more calls |
| Notifications (`notifications/notification.service.ts`) | a breaker | three event handlers | detached handlers, errors swallowed below the breaker | nobody goes unnotified because of others' failures |
| On-call (`on-call/on-call.service.ts`) | schedules, assignments, rotations | create, assign, generate, override, current | overlapping generations, overrides, boundaries of periods | a run has no gap and no overlap, shares the turns, and somebody is always found |
| Users, authentication (`users/`, `auth/`) | users, roles; tokens at the clients | create, update, deactivate, login, guards | uniqueness raced while bcrypt runs, stale entities saved, roles in tokens | one user per address; a token tells the truth; stale updates mix nothing in |
| Connection pool (`config/database.config.ts`) | connections of the database | taken by transactions and queries | operations that hold one and wait for another, errors on every path | no connection lost or shared; everybody is answered |
| Redis service (`shared/redis.service.ts`) | none | thin wrappers of commands | none: nobody calls it | |
| Interceptors, filters, configuration, health | none | 30 s timeout, formatting, wiring | a request answered 408 goes on running | |
| Mobile app (`src/mobile/lib`) | session, list of incidents | login, logout, load, create, update | start-up check racing with login and logout | the session is that of the last action |

What the code is today, and how the models take it:

* `app.module.ts` (73-76) has the incidents, escalation, on-call and
  notifications modules switched off; they are modelled as they would run.
* Nothing in the backend calls `scheduleEscalation`, `cancelEscalation` or
  `rescheduleEscalation`, and nothing emits `incident.acknowledged`: the client
  of `Escalation` stands for the callers these public operations are for.
* The cache is configured as a Redis store in a form (`store: 'redis'`) that
  the cache-manager version in `package.json` does not read, and no Redis
  adapter is among the dependencies. The cache is then a memory of each
  process; it serialises values, so that what it returns is a plain object
  without the methods of the entity. The documents describe a shared Redis.
  `Incidents` covers both: `StoreOf` maps a request to its store, `Hydrates`
  says whether a cached incident keeps its methods.
* `IncidentRepository.findById` asks for relations (`assignedTo`, ...) that
  are plain columns of the entity. TypeORM refuses that; the models take the
  lookup as meant.
* `getCurrentOnCallUser` and `getUsersByRole` are placeholders that find
  nobody. The constant `Staffed` of `Escalation` says at which levels a lookup
  may succeed: `{}` is the code as it stands, all levels is what the comments
  announce. A lookup that fails finds nobody in either case. The proofs and
  the passing runs hold for every value or for the full one; the violations
  use `{}`.
* The incidents controller passes a placeholder user; `Incidents` lets any user
  call.
* The relations of the on-call entities and of users to their roles are
  declared on one side only or not at all; the models take them to give what
  they are meant to.
* `JwtStrategy.validate` hands the guard entities where the guard looks for
  names, so that as the code stands nobody passes it. The constant `RoleNames`
  of `Accounts` says which: TRUE, names, in the passing run, so that what lies
  behind the guard is reached; FALSE, the code as it is, in the violated one.
  The proofs hold for both.

## 2. Modules

| module | models |
|---|---|
| `BreakerState` | the record kept per service name and the synchronous code on it |
| `BreakerStateProofs` | its types, used by the two proof modules of what has a breaker |
| `CircuitBreaker` | one breaker and concurrent calls through it (extends `BreakerState`) |
| `CircuitBreakerProofs` | theorems about it |
| `IncidentEntity` | the row, predicates, transition table, what `transition` assigns, how TypeORM's `save` writes back |
| `IncidentBoard` | abstract specification: each API operation is one atomic step |
| `ContestedBoard` | abstract specification: what is left of that when requests race and fail |
| `Incidents` | service, repository, state machine and cache, request by request (extends `IncidentEntity`, instantiates both boards) |
| `IncidentsProofs` | theorems about it |
| `Escalation` | service, processor, Bull queue, the breaker `escalation-queue` (extends `BreakerState` and `IncidentEntity`) |
| `EscalationProofs` | theorems about it |
| `Listings` | findAll and getStats, the caches they fill, and what others commit meanwhile (extends `IncidentEntity`) |
| `ListingsProofs` | theorems about it |
| `OnCall` | schedules, assignments, generated rotations, overrides, the lookup |
| `OnCallProofs` | theorems about it |
| `Accounts` | users and their roles, the transactions of create, update and remove, login, the guards |
| `AccountsProofs` | theorems about it |
| `Notifications` | the handlers and the breaker `notification-service` (extends `BreakerState`) |
| `ConnectionPool` | the pool, the requests that share it, and the events they emit (extends `Notifications`) |
| `ConnectionPoolProofs` | theorems about both |
| `MC...` | instances for TLC of `CircuitBreaker`, `Incidents`, `Escalation`, `Listings`, `OnCall`, `Accounts`, `ConnectionPool` |

Operators named like the code's functions are those functions; the comment
above an action names the part of the operation it stands for. Definitions
marked "Planted bug" are not used by any specification: each is the mistake
that one property exists to catch, and substituting it makes TLC report that
property.

### BreakerState, CircuitBreaker

The breaker compares `Date.now() - lastFailureTime` with the recovery time and
nothing else, so the record keeps that difference, counted up to the recovery
time, and `Tick` ages it. The failure counter is counted up to the threshold
(the code compares it with nothing larger). `execute` is three actions, split
at `await operation()`: `Refuse` or `Admit` decide, `Succeed` or `Fail` record
the outcome in whatever state the breaker has by then. `openFor` is auxiliary:
time since the breaker last opened. The sample breaker of
`src/docs/technical-specifications.md` (681-735) needs two successes to close;
the code closes after one.

### IncidentEntity, Incidents, IncidentBoard, ContestedBoard

A request is a program counter and three locals. Each step runs to the next
`await` that touches the database or the cache, so that all interleavings of
the requests' reads and writes occur. `save` is three of those steps: the row
is read again, compared with the entity, and the columns that differ are
updated (nothing happens when the row is gone by then) or, when the row was
gone already, the entity is inserted. User lookups are merged with the step
before them: users are only ever deactivated, and lookups do not look at that.
Titles, priorities and times are left out, since no operation decides anything
on them; the metadata column is one JSON object that is always written whole
and keeps its two kinds of keys. A request the timeout interceptor has answered
408 goes on running, which is a concurrent request as far as the table is
concerned. Faults are three constants: `"db"` (any database call throws),
`"cache"` (any cache call does, and is swallowed), `"crash"` (the process
stops at any step).

`IncidentBoard` is what the API documentation promises: incidents on a board,
each operation a single step guarded by the incident as it is at that moment.
`Incidents` maps to it by showing the table, with the notes of an
acknowledgement that is saved and about to add them. It does so only while
requests come one at a time and nothing fails.

`ContestedBoard` is what holds without these conditions. Its state is the table
itself (with the two auxiliary variables `born` and `assignees`), and each step
the table takes is one of five: an incident is created, under an identifier
never used before; its assignee and metadata are edited; status and
acknowledging user are set in one step, to somebody who is a lead, an admin or
was once its assignee; it is deleted; or an acknowledgement that was under way
brings it back. What it allows beyond `IncidentBoard` is what races do to the
code: an incident is acknowledged twice, by different users, and the later name
stays; an acknowledged one is deleted; a deleted one is inserted again by
`save`; an acknowledgement writes back the assignee it read.

### Escalation

The queue is a table of jobs. A job named by its incident is
`escalation-<id>`; the jobs of the next levels have identifiers Bull
generates. Of a settled job with a generated identifier nothing is kept, since
nothing looks at it again; one named by its incident stays, because it stands
in the way of the next `add` of that name, until `Trim` (removeOnComplete,
removeOnFail) takes it. Delays are not modelled: a pending job may be taken at
any time. Retries (`attempts: 3`), locks, stalled jobs (recovered once, then
failed) are Bull's documented behaviour and are marked external, as is the
passage of time. The restart of a process loses its breaker, not the queue.
A worker that merely loses its lock while it keeps running (a second worker
then processes the same job) is not modelled.

### Listings

The table is the status of each incident, numbered by age; writers are what
they commit. A save and a deletion were checked on a copy, so that by the time
they commit the incident may have any status, or be deleted, in which case the
save inserts it again. `Targets` are the statuses `transition` is called with:
today `acknowledged` alone. A reader looks into the cache, and on a miss reads
the rows, then their number (`getManyAndCount` sends two queries), then fills
the cache, with commits of others between any two of these steps. The key holds
what `generateIncidentsListKey` puts in it; an entry counts down its time to
live. `deletePattern` only logs, so that writers do nothing to the entries. An
answer remembers, for the sake of the properties, the table its rows were read
from and how many commits came between its two queries. The statistics are the
query of all rows up to a limit (10000 in the code); their rows stand for the
counts made of them.

### OnCall

Time is an integer and the length of a day a constant, so that every boundary
of the rotation periods exists in the model and no calendar is needed (the code
adds fixed numbers of milliseconds). The rows a run computes are one set
comprehension over the indices of the loop. The sort is any order by priority,
since the database returns equal ones in no order. `generated` is auxiliary: the
runs that were saved, with the list they went through.

### Accounts

Rows of users and of their roles are the committed ones; what a transaction has
written is in its task until it commits, and is seen by others only as locks: on
the row, and on the address in the unique index. `save` reads the row again and
writes the columns that differ from the entity. bcrypt is a pause. The columns
kept are the address, the hash and the status; names, telephone and time zone
are handled like them. `born`, `tokens` and `had` are auxiliary. Tokens do not
expire (the code gives them 15 minutes unless configured otherwise): what holds
of them for ever holds for as long as they are used.

### Notifications, ConnectionPool

Emitting an event runs its handler up to its first real pause, after the
sending; the outcome reaches the breaker later (`Settle`). A request of the pool
is a program counter, the connection of its query runner and the one of a query
beside it. `create` of an incident uses both; users' transactions do everything
on the first; everything else takes one for a query. Each statement may fail,
`BEGIN`, `COMMIT` and `ROLLBACK` included, and each wait may end by
`connectionTimeoutMillis`. That an incident's commit emits `incident.created`
is the composition of the two modules; events of other components come at any
time.

## 3. Runs

| run | configuration | question | result |
|---|---|---|---|
| `circuit_breaker` | `MCCircuitBreaker.cfg` | late outcomes, trials, resets: closed only below the threshold, quiet while open, no state is for ever | holds, 204 states |
| `incidents` | `MCIncidents.cfg` | two concurrent requests, every operation, all faults: rows stay consistent, writers entitled, the table a contested board | holds, 2.2 million states |
| `incidents_serial` | `MCIncidentsSerial.cfg` | one request at a time on two incidents: refinement of the board, fresh cache | holds, 0.8 million states |
| `acknowledge_cached` | `MCIncidentsCached.cfg` | can an incident be acknowledged after it was looked up? | TypeError on the cached object |
| `escalation` | `MCEscalation.cfg` | workers, a client, a changing incident, a fault: levels in order, jobs safe under their worker, calls bounded | holds, 2.6 million states |
| `escalation_settles` | `MCEscalationSettles.cfg` | is every job completed or failed in the end? | holds, 35 thousand states |
| `escalation_after_ack` | `MCEscalationAck.cfg` | is an acknowledged incident left alone? | it is escalated |
| `listings` | `MCListings.cfg` | do lists and statistics answer what was asked, consistently, and show an incident as it stays? | holds, 1.9 million states |
| `on_call` | `MCOnCall.cfg` | is each moment of a run covered once, the load shared, somebody always found? | holds, 3.0 million states |
| `accounts` | `MCAccounts.cfg` | two concurrent requests on accounts, any of them failing: unique addresses, truthful tokens, explained changes | holds, 2.3 million states |
| `admins_refused` | `MCAccountsGuard.cfg` | is an administrator let through to what is for administrators? | the guard refuses him |
| `pool` | `MCConnectionPool.cfg` | are all connections accounted for and all requests answered, and does no event go unsent? | holds, 23 thousand states |

Bounds, and why they are enough:

* Breaker: three callers, a threshold of two, a recovery time of two ticks. Two
  callers open the breaker while the third is still in flight, and its outcome
  can fall before, during or after the trial.
* Incidents, concurrent: one incident and two request slots, each serving any
  number of requests one after the other. Operations on different incidents
  share nothing but the code. Two requests give every pairwise race; the
  theorems cover any number. Three known users: a creator, somebody incidents
  are assigned to, one who is lead and admin; and a stranger nobody knows, whom
  creates and updates name as assignee in vain. What there is beforehand was
  created by either of the first two, so that updates and deletions come from
  creators and from others. Deadlock is checked: a slot can
  always take another request. The slots are interchangeable (symmetry).
* Incidents, serial: two incidents, so that a step on one could be seen to
  disturb the other. `Hydrates` is TRUE there: the board has no
  acknowledgement that fails for reasons of representation.
* Escalation: one incident, whose escalation may or may not have been scheduled
  before, two workers, one call to the service (`MaxCalls`), one fault
  (`MaxFaults`: an error of Redis, a crash of a worker, a restart of the
  client), four generated identifiers. One call is enough to cancel or to
  schedule again in the middle of a running escalation, which is where the
  races are. The breaker has a threshold of one, which makes it open on the
  first error. Deadlock checking is off: with the calls used up, all jobs
  settled and the incident deleted, nothing is left to do. Workers are
  interchangeable in the safety run. The liveness run has no call (calls only
  add jobs or take them away) and keeps the fault.
* Listings: two incidents, four commits (`MaxWrites`: both created, and two
  changes more, such as a deletion and a save that undoes it), one reader, whose
  requests come one after the other. Concurrent readers meet only in the cache
  entry, where the later fill wins; a second one would add fills of older
  answers, whose time starts no earlier. Four lists: of the incidents just
  created the first row, and three that differ from it in one thing each, the
  limit, the offset and the status. A key that leaves out any one of them
  confuses two of the lists (three mutants). The statistics have one row, so
  that their truncation matters. A list lives two ticks, the statistics one. At
  most two entries are in the cache at a time (`MaxEntries`), any two, which is
  what one answer given for another takes; beyond that the cache fails to
  store, as it may at any time.
* On-call: one schedule, daily or weekly, two assignments, two runs that may
  overlap each other, one override, two requests; the dates 0 and 7 give runs of
  one, two and eight rotations, a run whose end comes before its start, and an
  end date that is the hand-over itself. Three people, one of whom nobody knows.
  The theorems cover several schedules, lists of any length and any number of
  runs and overrides. Deadlock checking is off: time, rows and runs are bounded,
  and then nothing is left to do.
* Accounts: an administrator and two identifiers to be given out, two
  addresses and two passwords, so that creates collide, an update may move to
  an address that is being created, and a password may change while it is
  compared. Two request slots; the theorems cover any number. The updates name
  the address with the status, and the hash; `remove` the status alone.
* Pool: two connections and three requests. Two creates hold both and wait for
  a third connection while another request waits behind them. One handler in
  progress (`MaxHandlers`) and a threshold of one, the quickest to open.

## 4. Fairness

* `CircuitBreaker`: time passes (`Tick`), every admitted operation settles, and
  callers keep calling. The last is not the service's doing: it has no timer,
  and an open breaker nobody calls stays open. `OpenIsLeft` is to be read with
  that in mind.
* `Escalation`: a worker goes on with its job (weak fairness of its steps); a
  pending job that is ready again and again while workers are idle again and
  again is taken (strong fairness of `Take` per job: Bull takes jobs in order
  of their time, and other jobs keep the workers busy in between); the stalled
  checker runs periodically. Clients, faults and changes of incidents have no
  fairness.
* `Listings`: time passes (`Tick`), which is what the cache's expiry rests on,
  and a reader goes on with its request: no `await` of the code waits for
  anything but the database and Redis. Nobody needs to ask for a list, and
  those who do may ask as often as they like.
* `ConnectionPool`: a request goes on whenever it has a step to take (`Go`),
  the end of its wait for a connection included: this is the timer of
  `connectionTimeoutMillis`, and `EveryRequestEnds` fails without it. Handlers
  settle. There is no fairness for arrivals and none for the order in which the
  pool serves those who wait.
* `OnCall` and `Accounts` state safety only.
* `Incidents` states no liveness property: its operations are straight lines.

## 5. Proofs

TLAPS checks the following for every value of the constants that satisfies the
named assumptions. The theorems rest on the specifications without fairness,
which safety does not need.

`CircuitBreakerProofs`
: `BreakerTyped`, `BreakerClosedBelowThreshold`, `BreakerStaysQuiet`. The
  invariant adds to the type and to `ClosedBelowThreshold` that an open
  breaker's last failure is at most as old as its opening (`sinceFailure`
  never exceeds `openFor`): failures that arrive late only move the end of the
  quiet period on, and this is why `StaysQuiet` follows.

`IncidentsProofs`
: `IncidentsTyped`, `AckFieldsAlwaysAgree`, `AcknowledgersEntitled`,
  `StatusNeverGoesBack`. None is inductive alone, since rows travel from the
  table into caches, locals and entities and back. The invariant says of every
  place a row can be in that it is fit to be stored again (`RowOK`: the
  acknowledgement fields agree, whoever acknowledged was entitled, the assignee
  is on record). A save is the delicate part: it writes only the columns that
  differ from the row it read, and the row may have changed since. `SaveOK`
  says of the columns about to be written that the status never comes without
  the user, and that a save which leaves the status alone found the incident
  acknowledged (`Settled`), which it then stays. `Grows` names what no step may
  undo, so that one lemma (`OtherRequests`) settles the other requests'
  part for every action.
: `CacheFreshBetweenRequests` proves `QuiescentCacheFresh` under the assumptions
  of the run `incidents_serial`: requests come one at a time, share one cache,
  and nothing fails. `SerialInv` adds that at most one request is in progress,
  that every entry is fresh unless that request has written its row and has yet
  to invalidate it (`Owes`), and that what it is about to fill in is still what
  the table holds. The interesting case is an incident that is missing at the
  reread, where the operation ends without invalidating: nothing was written
  then, so nothing was owed.
: `OneAtATimeImplementsBoard` proves the refinement of `IncidentBoard` under the
  same assumptions. The invariant on top of `SerialInv` is `BoardOK`: what the
  request in progress has read or checked is so at this moment (an incident it
  holds is the table's row, an acknowledgement that passed its check is still
  due, the entity is the transition of the present row, the columns to write
  are all in which they differ). `Refines` says of a step that it keeps this and
  is a step of the board or none; there is one lemma for each operation. The
  board, as `BoardView` computes it from the requests that have notes to add, is
  reduced to the table (`PlainView`), or to the table with one row changed
  (`NotesView`).
: `WritersAlwaysEntitled` and `AlwaysImplementsContested` hold for any number of
  requests, processes and caches, and under all faults. They need to know where
  copies come from: `CopiesOf` gathers the rows of an incident in the table, the
  caches and the locals, and `Descent` says that they all have one creator, that
  their assignees are users, that there are none before the identifier is handed
  out, and that whoever passed the check of an update or a deletion has the
  permission for all of them. A step keeps that because each copy after it has
  its creator from a copy before it (`Descends`), or is the row just created
  (`FirstCopy`). This is what lets the permission survive an incident that is
  deleted and brought back between check and write.

`EscalationProofs`
: `EscalationTyped`, `JobsHeld`, `LadderAlwaysInOrder`, `CallsBounded`. The
  invariant keeps an account of each job on its own (`JobOK`: attempts are left
  while it is unsettled, its emissions are covered by failed attempts, stalls
  and the attempt under way, the level below has been called), says what a
  worker may rely on at each step (`WorkerOK`: its job is there and active,
  has not emitted before the emission is due, and at the add has called its own
  level), and that no two workers have one job (`Exclusive`). `JobsHeld` alone
  is not inductive (taking a job needs that no worker holds a pending one),
  and `LadderOrder` needs what `WorkerOK` says at the add. Two lemmas carry the
  steps: `QueueStep` for what clients and Bull do, `WorkerStep` for what one
  worker does.

`OnCallProofs`
: `OnCallTyped`, `RunsCoverOnce`, `SomebodyAlwaysOnCall`,
  `UnknownOnlyByOverrides`, `TurnsAlwaysShared`. The first half is arithmetic: the turn that covers a
  moment is its distance from the start divided by the period, and there is no
  other (`RowsCoverOnce`). The invariant says that every saved run is what
  `Rows` computes of its list and is still stored, since no operation removes a
  rotation. That somebody is found then needs that among the rotations that
  cover the moment one started last, which they may be infinitely many to: the
  distances of their starts from now are natural numbers, and a set of these
  has a least one.
: `TurnsAlwaysShared` counts. The rows of a run are numbered from 0 without a
  gap (`TurnsOfRun`), the place a turn has on the list is its number modulo the
  length of the list, and the turns at one place map one-to-one into as many
  rounds as were begun and from as many as were finished (`TurnsAtPlaces`). Of
  the list itself the invariant adds that it is in order of priority, which is
  why whoever is left out of a short run is no more urgent than who serves.

`ConnectionPoolProofs`
: `PoolTyped`, `ConnectionsAlwaysAccounted`, `NothingEverRefused`. That a
  request has the connections its step needs and that no connection is in two
  places are inductive only together: a release may give back only what is
  nowhere else. For the breaker, no handler ever ends as failed, so that the
  counter stays at zero, below any threshold.

`ListingsProofs`
: `ListingsTyped`, `AnswersFit`, `TotalsFit`. The first half counts: numbering
  each incident of a set by how many of the set are younger is one-to-one onto
  0 to the size less one (`Ranks`), so a page has as many rows as its place and
  size leave it (`PageHasSize`), and the younger incidents that are not on it
  are the page of the first `offset` ones (`BeforePage`). The invariant says
  that what a request holds and what the cache holds fit the question
  (`EntryOK`, `TaskOK`): the rows are the page of the table they were read from,
  and the number that matched there is the total, or for rows yet to be counted
  the number that matches now, but for one for each commit since, since a commit
  changes one incident (`OneCommit`). Two questions with one key have the same
  page (`OneKey`), which is why an entry fits whoever finds it.

`AccountsProofs`
: `AccountsTyped`, `AddressesUnique`, `TokensTellRoles`, `LoginsOfOneMoment`,
  `ChangesComeFromTheRequest`. The invariant says what a request may rely on at
  each of its steps (`TaskOK`: the address it has written is no other
  account's, the identifier it creates is nobody's yet, the row it saves is
  there, the hash it compares was that of an active account), and what keeps any
  two apart (`Apart`: written addresses differ, identifiers created differ, rows
  updated differ). `UniqueEmail` is not inductive without the second, nor is
  it without the first. `QuietStep` and `CommitStep` settle what the other
  requests rely on, for every action.

What the proofs take from outside the repository is what `Escalation` says of
Bull: an active job is locked by its worker, a locked job cannot be removed, a
new identifier is not in use; what `Accounts` says of PostgreSQL: a row or a
value of a unique index that a transaction has written is locked until it ends;
and what `ConnectionPool` says of the pool: it hands out a connection once.

Only model-checked: everything under fairness (`OpenIsLeft`, `HalfOpenIsLeft`,
`EveryJobSettles`, `FinalStateShows`, `EveryRequestEnds`), which needs ENABLED.
Every invariant, action property and refinement the passing runs check is also
a theorem, two of them (`QuiescentCacheFresh`, `ImplementsBoard`) under the
assumptions of their run.

## 6. Plan

Done: breaker, incidents, escalation; lists and statistics; on-call duty;
accounts; notifications and the connection pool; the safety proofs of all of
them.

What is left:

1. `transition` with all its target statuses, once something besides
   `acknowledge` calls it.
2. An abstract specification of `Accounts`, in which each operation is one step
   on the accounts, and what of it is left when updates race.
3. `MobileSession`: the app's start-up check, login and logout interleaved with
   its secure storage.

### Not modelled

`RedisService` (wrappers nobody calls), formatting interceptors
and filters, health checks, configuration, deployment files, coverage reports:
no state of their own to go wrong. The Supabase
methods of `AuthService` and `JwtStrategy`, the cache's `clear` and its entries
of users and on-call lookups have no caller. The mobile app is a client of its
own, with a session and a list kept in the device; of what it shares with the
backend, the API, `Incidents` and `Accounts` model the serving side. Of the
timeout interceptor only the effect is modelled, see `Incidents` above.

## 7. Disagreements found

Three runs are violated, each by one disagreement with a line of the repository
(details in `PROJECT.json`): acknowledging a cached incident
(`acknowledge_cached`), escalating an acknowledged one
(`escalation_after_ack`), and the guard that refuses administrators
(`admins_refused`).

Others met while modelling, without a run of their own:

* Incidents. The insert of a create is not part of its transaction, so that a
  failing commit is answered with an error and leaves the row
  (`src/packages/backend/src/incidents/incidents.service.spec.ts:158` expects a
  rollback). Each process has its own cache, and an operation invalidates
  that of its own process only. An incident acknowledged while its deletion
  waits is deleted, against the comment in `incidents.service.ts:197`.
  Concurrent updates of the metadata lose one another's keys. A lookup that
  read the row before an update caches it after the update's invalidation, for
  up to the time to live. The statistics count the first 10000 incidents by
  status, and give the total of all. Times to live are meant as seconds
  (`shared/cache.service.ts:35-37`), while the cache-manager of
  `package-lock.json` (7.2.7) takes milliseconds: entries live a thousandth of
  what the comments say, which the models, that count ticks, do not see.
* Escalation. An unknown or cached incident counts as a failure of the queue
  and can open its breaker for every other incident. Scheduling again after the
  last job completed adds nothing while that job is kept. Cancelling does not
  stop a job that is being processed, whose next level is then added; a retry
  or a recovered job adds a second job of the next level. Nothing emits
  `incident.acknowledged`, which the notifications listen to.
* On-call. An override loses against a rotation that starts later, and ties
  with one that starts at the same time. An override for an unknown user is
  saved and makes the lookup fail.
* Accounts. A deactivated user's token is accepted until it expires, since the
  strategy does not look at the status. An update that read the
  user before a deactivation or a change of password undoes it, whatever it is
  about, since `save` writes every column in which its entity differs from the
  row by then: `ChangesExplained` says that nothing worse happens. Roles in an update
  never change the stored roles.
* Connections. Creates that hold all connections wait for one another until
  `connectionTimeoutMillis`. A `BEGIN` that fails loses its connection, since
  `startTransaction` stands before the `try`.
* Notifications. No error of sending reaches the breaker, which therefore never
  spares a channel that is down.
