---- MODULE Incidents ----
(***************************************************************************)
(* IncidentsService with the repository, the state machine service and the *)
(* cache it calls, and the HTTP requests that run its operations           *)
(* concurrently, in one process or in several that share the database.     *)
(* Processes share the cache as well when it lives in Redis, as the        *)
(* configuration and the documentation say; with the packages the backend  *)
(* depends on it is a memory of each process (see the README).  Which      *)
(* cache a request uses is therefore a constant.                           *)
(*                                                                         *)
(* A step of a request runs from one `await` to the next and touches the   *)
(* database or the cache at most once, so that every interleaving of the   *)
(* requests' reads and writes is a behaviour.  Looking up a user is not a  *)
(* step of its own: users are only ever deactivated, so which lookups      *)
(* succeed does not change.  `pc` is where a request stands:               *)
(*                                                                         *)
(*   c_insert, c_commit           create                                   *)
(*   f_cache, f_load, f_fill      findById, the read-through lookup that   *)
(*                                all other operations start with          *)
(*   hit, found                   the incident is there, from the cache or *)
(*                                from the database; checks come next      *)
(*   u_write, u_reread            update                                   *)
(*   t_find, s_load, s_update,    acknowledge: the state machine's lookup, *)
(*   s_insert, n_write, n_reread  TypeORM's save, the notes                *)
(*   d_delete                     delete                                   *)
(*   invalidate                   the last step of the writing operations  *)
(*   ok, failed, typeError, lost  answered, or lost in a crash             *)
(***************************************************************************)
EXTENDS IncidentEntity, FiniteSets

CONSTANTS Ids,         \* incident identifiers
          Requests,    \* request slots, each running one request at a time
          Calls,       \* what clients ask for, see Call
          KnownUsers,  \* the users usersService.findById finds
          Leads,       \* of these, those with role lead ...
          Admins,      \* ... and those with role admin
          Existing,    \* what incidents there can be beforehand
          Stores,      \* the caches: one in Redis, or one in each process ...
          StoreOf,     \* ... and the one each request's process uses
          Serial,      \* requests arrive one at a time
          Faults,      \* what may go wrong: "db", "cache", "crash"
          Hydrates     \* a cached incident comes back as an entity with its
                       \* methods (a test double does that; a real cache
                       \* serialises and gives back a plain object)

Call == [ op         : {"create", "get", "update", "acknowledge", "delete"},
          id         : Ids,
          user       : Users,
          sets       : SUBSET {"assignedTo", "metadata"}, \* given in the body
          assignedTo : MaybeUser,
          custom     : Texts,
          notes      : Texts ]

ASSUME IncidentsAssumption == /\ Calls \subseteq Call /\ Calls # {}
                              /\ KnownUsers \subseteq Users
                              /\ Leads \cup Admins \subseteq KnownUsers
                              /\ StoreOf \in [Requests -> Stores]
                              /\ Serial \in BOOLEAN
                              /\ Faults \subseteq {"db", "cache", "crash"}
                              /\ Hydrates \in BOOLEAN

Assignable == KnownUsers \cup {NoUser}

ASSUME ExistingAssumption ==
  Existing \subseteq {NewIncident(u, a, t) : u \in Users, a \in Assignable, t \in Texts}

VARIABLES incidents, \* the table: Ids -> row or Absent
          cache,     \* per store: key incident:<id> -> cached row or Absent
          pc,        \* where each request stands
          call,      \* what it was asked
          incident,  \* the local `incident` of its operation
          entity,    \* the entity `transition` loaded and changed
          cols,      \* the columns `save` found changed
          born,      \* auxiliary: identifiers handed out so far
          assignees  \* auxiliary: everyone an incident was ever assigned to

locals == <<incident, entity, cols>>
vars == <<incidents, cache, pc, call, locals, born, assignees>>

Answered == {"ok", "failed", "typeError", "lost"}
InProgress == {"c_insert", "c_commit", "f_cache", "f_load", "f_fill", "hit", "found",
               "u_write", "u_reread", "t_find", "s_load", "s_update", "s_insert",
               "n_write", "n_reread", "d_delete", "invalidate"}

Row == Incident \cup {Absent}

NoCall == CHOOSE c \in Calls : TRUE \* of a slot that runs no request

\* Incidents as other requests left them before the modelled ones arrive.
Init == /\ incidents \in [Ids -> {Absent} \cup Existing]
        /\ cache = [s \in Stores |-> [id \in Ids |-> Absent]]
        /\ pc = [r \in Requests |-> "ok"]
        /\ call = [r \in Requests |-> NoCall]
        /\ incident = [r \in Requests |-> Absent]
        /\ entity = [r \in Requests |-> Absent]
        /\ cols = [r \in Requests |-> {}]
        /\ born = {id \in Ids : incidents[id] # Absent}
        /\ assignees = [id \in Ids |-> IF incidents[id] = Absent THEN {}
                                       ELSE {incidents[id].assignedTo}]
-----------------------------------------------------------------------------
Goto(r, label) == pc' = [pc EXCEPT ![r] = label]

\* A local that the rest of its operation does not read is emptied, to have
\* no two states that differ only in it.

\* The request is answered (or lost).
Answer(r, how) == /\ Goto(r, how)
                  /\ incident' = [incident EXCEPT ![r] = Absent]
                  /\ entity' = [entity EXCEPT ![r] = Absent]
                  /\ cols' = [cols EXCEPT ![r] = {}]
                  /\ call' = [call EXCEPT ![r] = NoCall]

\* A step that only moves on, leaving the locals alone.
Proceed(r, label) == Goto(r, label) /\ UNCHANGED <<call, locals>>

\* The checks on the incident found have passed.
Pass(r, label) == /\ Goto(r, label)
                  /\ incident' = [incident EXCEPT ![r] = Absent]
                  /\ UNCHANGED <<call, entity, cols>>

\* The row of `id` becomes `row`.
Store(id, row) ==
  /\ incidents' = [incidents EXCEPT ![id] = row]
  /\ assignees' = [assignees EXCEPT ![id] = IF row = Absent THEN @ ELSE @ \cup {row.assignedTo}]

NoWrite == UNCHANGED <<incidents, assignees>>

\* repository.update: UPDATE ... WHERE id, which affects no row when the
\* incident is gone and is not an error then.
BlindUpdate(id, row) == IF incidents[id] = Absent THEN NoWrite ELSE Store(id, row)

\* A request arrives.  (No create once the identifiers are used up, which
\* bounds the model.)
Begin(r) ==
  /\ pc[r] \in Answered
  /\ Serial => \A q \in Requests : pc[q] \in Answered
  /\ \E c \in Calls :
       /\ c.op = "create" => born # Ids
       /\ call' = [call EXCEPT ![r] = c]
       /\ Goto(r, IF c.op = "create" THEN "c_insert" ELSE "f_cache")
  /\ NoWrite
  /\ UNCHANGED <<cache, locals, born>>
-----------------------------------------------------------------------------
(* create *)

\* Planted bug: the caller is looked up where the assignee should be.
UnknownCaller(r) == "assignedTo" \in call[r].sets /\ call[r].user \notin Assignable

UnknownAssignee(r) == "assignedTo" \in call[r].sets /\ call[r].assignedTo \notin Assignable

\* The assignee does not exist: rolled back, rethrown.
RejectCreate(r) == /\ pc[r] = "c_insert"
                   /\ UnknownAssignee(r)
                   /\ Answer(r, "failed")
                   /\ NoWrite
                   /\ UNCHANGED <<cache, born>>

\* incidentRepository.create: the insert runs on the repository's own
\* connection and is committed there, not in the query runner's transaction.
\* The database hands out the identifier.
CreateInsert(r) ==
  LET c == call[r]
      assignee == IF "assignedTo" \in c.sets THEN c.assignedTo ELSE NoUser
      custom == IF "metadata" \in c.sets THEN c.custom ELSE NoText
  IN  /\ pc[r] = "c_insert"
      /\ ~UnknownAssignee(r)
      /\ \E id \in Ids \ born :
           /\ Store(id, NewIncident(c.user, assignee, custom))
           /\ born' = born \cup {id}
           /\ call' = [call EXCEPT ![r].id = id]
      /\ Goto(r, "c_commit")
      /\ UNCHANGED <<cache, locals>>

\* commitTransaction, of a transaction that holds nothing; 'incident.created'.
CreateCommit(r) == /\ pc[r] = "c_commit"
                   /\ Answer(r, "ok")
                   /\ NoWrite
                   /\ UNCHANGED <<cache, born>>
-----------------------------------------------------------------------------
(* findById: CacheService.getOrSet around IncidentRepository.findById *)

Cached(r) == cache[StoreOf[r]][call[r].id]

\* Cache hit.
FindCached(r) ==
  /\ pc[r] = "f_cache"
  /\ Cached(r) # Absent
  /\ incident' = [incident EXCEPT ![r] = Cached(r)]
  /\ Goto(r, "hit")
  /\ NoWrite
  /\ UNCHANGED <<cache, call, entity, cols, born>>

\* Cache miss, or an error of the cache, which reads as a miss.
FindMiss(r) == /\ pc[r] = "f_cache"
               /\ Cached(r) = Absent \/ "cache" \in Faults
               /\ Proceed(r, "f_load")
               /\ NoWrite
               /\ UNCHANGED <<cache, born>>

\* The row is read ...
FindLoad(r) == LET id == call[r].id IN
  /\ pc[r] = "f_load"
  /\ incidents[id] # Absent
  /\ incident' = [incident EXCEPT ![r] = incidents[id]]
  /\ Goto(r, "f_fill")
  /\ NoWrite
  /\ UNCHANGED <<cache, call, entity, cols, born>>

\* ... or is not there: NotFoundException, and nothing is cached.
FindNothing(r) == /\ pc[r] = "f_load"
                  /\ incidents[call[r].id] = Absent
                  /\ Answer(r, "failed")
                  /\ NoWrite
                  /\ UNCHANGED <<cache, born>>

\* What was read then is cached now; an error of the cache is swallowed.
FindFill(r) ==
  /\ pc[r] = "f_fill"
  /\ \/ cache' = [cache EXCEPT ![StoreOf[r]][call[r].id] = incident[r]]
     \/ "cache" \in Faults /\ UNCHANGED cache
  /\ Proceed(r, "found")
  /\ NoWrite
  /\ UNCHANGED born
-----------------------------------------------------------------------------
Holds(r) == pc[r] \in {"hit", "found"} \* the incident has been found

(* get: the incident found is the answer *)
Get(r) == /\ Holds(r)
          /\ call[r].op = "get"
          /\ Answer(r, "ok")
          /\ NoWrite
          /\ UNCHANGED <<cache, born>>
-----------------------------------------------------------------------------
(* update *)

MayUpdate(r) == /\ incident[r].createdBy = call[r].user
                /\ ~UnknownAssignee(r)

CheckUpdate(r) == /\ Holds(r)
                  /\ call[r].op = "update"
                  /\ IF MayUpdate(r) THEN Pass(r, "u_write") ELSE Answer(r, "failed")
                  /\ NoWrite
                  /\ UNCHANGED <<cache, born>>

\* Planted bug: giving an incident to somebody makes it a new one.
ReassignReopens(r) == LET c == call[r]
                          row == incidents[c.id] IN
  /\ pc[r] = "u_write"
  /\ BlindUpdate(c.id, [row EXCEPT !.assignedTo = c.assignedTo, !.status = "created"])
  /\ Proceed(r, "u_reread")
  /\ UNCHANGED <<cache, born>>

\* The columns of the DTO, written over whatever the row is by now.  The
\* metadata object replaces the stored one, the notes in it included.
UpdateWrite(r) == LET c == call[r]
                      row == incidents[c.id] IN
  /\ pc[r] = "u_write"
  /\ BlindUpdate(c.id,
       [row EXCEPT !.assignedTo = IF "assignedTo" \in c.sets THEN c.assignedTo ELSE @,
                   !.metadata = IF "metadata" \in c.sets
                                THEN [custom |-> c.custom, notes |-> NoText] ELSE @])
  /\ Proceed(r, "u_reread")
  /\ UNCHANGED <<cache, born>>

\* Planted bug: an early return before the cache is invalidated.
ReturnsEarly(r) == /\ pc[r] \in {"u_reread", "n_reread"}
                   /\ Answer(r, "ok")
                   /\ NoWrite
                   /\ UNCHANGED <<cache, born>>

\* repository.update reads the row back and throws when there is none: the
\* operation then ends without invalidating the cache.
Reread(r) == /\ pc[r] \in {"u_reread", "n_reread"}
             /\ IF incidents[call[r].id] = Absent THEN Answer(r, "failed")
                                                  ELSE Proceed(r, "invalidate")
             /\ NoWrite
             /\ UNCHANGED <<cache, born>>
-----------------------------------------------------------------------------
(* acknowledge, and the state machine's transition it calls *)

\* Planted bug: the permission check is forgotten.
AnyoneMayAcknowledge(r) == canBeAcknowledged(incident[r]) /\ call[r].user \in KnownUsers

MayAcknowledge(r) ==
  /\ canBeAcknowledged(incident[r])
  /\ call[r].user \in KnownUsers
  /\ incident[r].assignedTo = call[r].user \/ call[r].user \in Leads \cup Admins

\* A plain object from the cache has no method canBeAcknowledged.
NoMethod(r) == pc[r] = "hit" /\ ~Hydrates

CheckAcknowledge(r) ==
  /\ Holds(r)
  /\ call[r].op = "acknowledge"
  /\ IF NoMethod(r) THEN Answer(r, "typeError")
     ELSE IF MayAcknowledge(r) THEN Pass(r, "t_find") ELSE Answer(r, "failed")
  /\ NoWrite
  /\ UNCHANGED <<cache, born>>

TransitionAllowed(r) == LET row == incidents[call[r].id] IN
  row # Absent /\ canTransition(row.status, "acknowledged")

\* transition: findOne, the transition table, the assignments to the entity.
TransitionFind(r) == LET row == incidents[call[r].id] IN
  /\ pc[r] = "t_find"
  /\ TransitionAllowed(r)
  /\ entity' = [entity EXCEPT ![r] = Transitioned(row, "acknowledged", call[r].user)]
  /\ Goto(r, "s_load")
  /\ NoWrite
  /\ UNCHANGED <<cache, call, incident, cols, born>>

\* It is gone, or no longer in a status that allows the transition.
TransitionReject(r) == /\ pc[r] = "t_find"
                       /\ ~TransitionAllowed(r)
                       /\ Answer(r, "failed")
                       /\ NoWrite
                       /\ UNCHANGED <<cache, born>>

\* save: the row is read once more and compared with the entity; an entity
\* whose row is gone will be inserted.
SaveLoad(r) == LET row == incidents[call[r].id] IN
  /\ pc[r] = "s_load"
  /\ IF row = Absent
     THEN Proceed(r, "s_insert")
     ELSE /\ cols' = [cols EXCEPT ![r] = Changed(entity[r], row)]
          /\ Goto(r, "s_update")
          /\ UNCHANGED <<call, incident, entity>>
  /\ NoWrite
  /\ UNCHANGED <<cache, born>>

AfterSave(r) == /\ Goto(r, IF call[r].notes = NoText THEN "invalidate" ELSE "n_write")
                /\ cols' = [cols EXCEPT ![r] = {}]
                /\ UNCHANGED <<call, incident, entity>>

\* save: UPDATE of the changed columns; 'incident.status.changed'.
SaveUpdate(r) == LET id == call[r].id IN
  /\ pc[r] = "s_update"
  /\ BlindUpdate(id, Overwritten(incidents[id], entity[r], cols[r]))
  /\ AfterSave(r)
  /\ UNCHANGED <<cache, born>>

\* save: INSERT, which fails on a row that is there again.
SaveInsert(r) == LET id == call[r].id IN
  /\ pc[r] = "s_insert"
  /\ IF incidents[id] = Absent
     THEN Store(id, entity[r]) /\ AfterSave(r)
     ELSE NoWrite /\ Answer(r, "failed")
  /\ UNCHANGED <<cache, born>>

\* Planted bug: the notes are stored in place of the metadata object.
NotesAsMetadata(r) == LET id == call[r].id IN
  /\ pc[r] = "n_write"
  /\ BlindUpdate(id, [incidents[id] EXCEPT !.metadata = call[r].notes])
  /\ entity' = [entity EXCEPT ![r] = Absent]
  /\ Goto(r, "n_reread")
  /\ UNCHANGED <<call, incident, cols, cache, born>>

\* Planted bug: the other metadata is not spread into the new object.
NotesOnly(r) == LET id == call[r].id IN
  /\ pc[r] = "n_write"
  /\ BlindUpdate(id, [incidents[id] EXCEPT
                        !.metadata = [custom |-> NoText, notes |-> call[r].notes]])
  /\ entity' = [entity EXCEPT ![r] = Absent]
  /\ Goto(r, "n_reread")
  /\ UNCHANGED <<call, incident, cols, cache, born>>

\* The notes are added to the metadata of the entity that was saved.
NotesWrite(r) == LET id == call[r].id IN
  /\ pc[r] = "n_write"
  /\ BlindUpdate(id, [incidents[id] EXCEPT
                        !.metadata = [custom |-> entity[r].metadata.custom,
                                      notes  |-> call[r].notes]])
  /\ entity' = [entity EXCEPT ![r] = Absent]
  /\ Goto(r, "n_reread")
  /\ UNCHANGED <<call, incident, cols>>
  /\ UNCHANGED <<cache, born>>
-----------------------------------------------------------------------------
(* delete *)

\* Planted bug: whoever is known to the service may delete.
AnyoneMayDelete(r) == incident[r].status = "created" /\ call[r].user \in KnownUsers

MayDelete(r) ==
  /\ incident[r].status = "created"
  /\ call[r].user \in KnownUsers
  /\ incident[r].createdBy = call[r].user \/ call[r].user \in Admins

CheckDelete(r) == /\ Holds(r)
                  /\ call[r].op = "delete"
                  /\ IF MayDelete(r) THEN Pass(r, "d_delete") ELSE Answer(r, "failed")
                  /\ NoWrite
                  /\ UNCHANGED <<cache, born>>

\* DELETE; affecting no row is an error.
Delete(r) == LET id == call[r].id IN
  /\ pc[r] = "d_delete"
  /\ IF incidents[id] = Absent
     THEN NoWrite /\ Answer(r, "failed")
     ELSE Store(id, Absent) /\ Proceed(r, "invalidate")
  /\ UNCHANGED <<cache, born>>
-----------------------------------------------------------------------------
\* invalidateIncidentCache; an error of the cache is swallowed.
Invalidate(r) ==
  /\ pc[r] = "invalidate"
  /\ \/ cache' = [cache EXCEPT ![StoreOf[r]][call[r].id] = Absent]
     \/ "cache" \in Faults /\ UNCHANGED cache
  /\ Answer(r, "ok")
  /\ NoWrite
  /\ UNCHANGED born

\* A database call throws: nothing is written and the error goes up to the
\* client.  For a create about to commit, rollbackTransaction undoes nothing.
DatabaseError(r) ==
  /\ "db" \in Faults
  /\ pc[r] \in {"c_insert", "c_commit", "f_load", "u_write", "u_reread", "t_find", "s_load",
                "s_update", "s_insert", "n_write", "n_reread", "d_delete"}
  /\ Answer(r, "failed")
  /\ NoWrite
  /\ UNCHANGED <<cache, born>>

\* The process that runs the request stops.  (What a store in its memory
\* held is gone too, which CacheExpire covers.)
Crash(r) == /\ "crash" \in Faults
            /\ pc[r] \in InProgress
            /\ Answer(r, "lost")
            /\ NoWrite
            /\ UNCHANGED <<cache, born>>

\* The time to live of a cache entry is over.
CacheExpire(s, id) ==
  /\ cache[s][id] # Absent
  /\ cache' = [cache EXCEPT ![s][id] = Absent]
  /\ UNCHANGED <<incidents, pc, call, locals, born, assignees>>

Create(r) == RejectCreate(r) \/ CreateInsert(r) \/ CreateCommit(r)
Find(r) == FindCached(r) \/ FindMiss(r) \/ FindLoad(r) \/ FindNothing(r) \/ FindFill(r)
Update(r) == CheckUpdate(r) \/ UpdateWrite(r) \/ Reread(r)
Acknowledge(r) == \/ CheckAcknowledge(r) \/ TransitionFind(r) \/ TransitionReject(r)
                  \/ SaveLoad(r) \/ SaveUpdate(r) \/ SaveInsert(r) \/ NotesWrite(r)

\* The step of a request that is being served.
Serve(r) == \/ Create(r) \/ Find(r) \/ Get(r) \/ Update(r) \/ Acknowledge(r)
            \/ CheckDelete(r) \/ Delete(r) \/ Invalidate(r)

Next == \/ \E r \in Requests : Begin(r) \/ Serve(r) \/ DatabaseError(r) \/ Crash(r)
        \/ \E s \in Stores, id \in Ids : CacheExpire(s, id)

Spec == Init /\ [][Next]_vars
-----------------------------------------------------------------------------
\* The variables hold what the code can put in them.
TypeOK == /\ incidents \in [Ids -> Row]
          /\ cache \in [Stores -> [Ids -> Row]]
          /\ pc \in [Requests -> Answered \cup InProgress]
          /\ call \in [Requests -> Call]
          /\ incident \in [Requests -> Row]
          /\ entity \in [Requests -> Row]
          /\ cols \in [Requests -> SUBSET Columns]
          /\ born \subseteq Ids
          /\ assignees \in [Ids -> SUBSET MaybeUser]

\* However requests interleave in the state machine and in save's partial
\* updates, a stored or cached incident is acknowledged exactly when it says
\* by whom (transition sets both, save may write them apart).
AckFieldsAgree ==
  \A id \in Ids : \A row \in {incidents[id]} \cup {cache[s][id] : s \in Stores} :
    row # Absent => AckFieldsOf(row)

\* Whoever the table says acknowledged an incident is a lead, an admin, or
\* was the incident's assignee at some time: checking the permission on a
\* cached copy and saving later never lets an outsider through.
AckAuthorised == \A id \in Ids :
  incidents[id] # Absent /\ incidents[id].acknowledgedBy # NoUser
    => incidents[id].acknowledgedBy \in Leads \cup Admins \cup assignees[id]

\* An acknowledged incident stays acknowledged as long as it exists: no
\* stale update or save brings it back to an earlier status.
StatusNeverRegresses ==
  [][ \A id \in Ids :
        incidents[id] # Absent /\ incidents'[id] # Absent /\ incidents[id].status = "acknowledged"
          => incidents'[id].status = "acknowledged" ]_vars

Quiescent == \A r \in Requests : pc[r] \in Answered

\* When no request is in progress, what the cache answers is what the table
\* holds (every writing operation ends by invalidating the entry).
QuiescentCacheFresh == 
  Quiescent => \A s \in Stores, id \in Ids : cache[s][id] \in {Absent, incidents[id]}

\* The board the API shows: the table, with the notes of an acknowledgement
\* that has been saved and is about to add them.
BoardView ==
  [ id \in Ids |->
      LET adding == {r \in Requests : pc[r] = "n_write" /\ call[r].id = id} IN
      IF incidents[id] = Absent \/ adding = {} THEN incidents[id]
      ELSE [incidents[id] EXCEPT !.metadata.notes = call[CHOOSE r \in adding : TRUE].notes] ]

Board == INSTANCE IncidentBoard WITH board <- BoardView

\* One request at a time and without faults, the many steps of each
\* operation amount to one atomic step on the board.
ImplementsBoard == Board!Spec

Contested == INSTANCE ContestedBoard WITH board <- incidents

\* However requests race, whatever is stale in the caches, fails or stops
\* half-way, the table changes only by the steps of the contested board: the
\* partial updates of save never write a status without its user, a column
\* nobody changes, or an assignee who is not a user.
ImplementsContested == Contested!Spec

\* Who may write was decided on a copy of the incident, perhaps an old one
\* from a cache, and still holds when the write comes: only the creator's
\* request updates the incident that is there by then, and only the
\* creator's or an admin's deletes it.
WritesEntitled == \A r \in Requests : LET row == incidents[call[r].id] IN
  row # Absent =>
    /\ pc[r] = "u_write" => row.createdBy = call[r].user
    /\ pc[r] = "d_delete" => row.createdBy = call[r].user \/ call[r].user \in Admins

\* Acknowledging works on an incident that was looked up before: the tests
\* give the service a cached incident that has its methods.
CachedIncidentUsable == \A r \in Requests : pc[r] # "typeError"
=============================================================================
