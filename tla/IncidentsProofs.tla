---- MODULE IncidentsProofs ----
(***************************************************************************)
(* What the incident service guarantees for every set of incidents, users, *)
(* requests and caches, whatever goes wrong; and, in the last two parts,   *)
(* when requests come one at a time and nothing goes wrong.                *)
(*                                                                         *)
(* The properties are about rows; rows travel from the table into caches,  *)
(* locals and entities and back.  So the invariant states, for each place  *)
(* a row can be in, that it is fit to be stored again (RowOK), and for a   *)
(* request inside save that the columns it is about to write leave the row *)
(* consistent whatever other requests wrote since it read it (SaveOK).     *)
(* That permissions keep and that the table follows the contested board    *)
(* needs besides that all copies of an incident descend from the row it    *)
(* was created with (Descent).                                             *)
(***************************************************************************)
EXTENDS Incidents, TLAPS

\* Who may be recorded as having acknowledged an incident, now or later.
Entitled(id) == Leads \cup Admins \cup assignees[id]

RowOK(id, row) == /\ row.status \in {"created", "acknowledged"}
                  /\ AckFieldsOf(row)
                  /\ row.acknowledgedBy # NoUser => row.acknowledgedBy \in Entitled(id)
                  /\ row.assignedTo \in assignees[id]

\* The table and the caches hold such rows, under identifiers handed out.
TableOK == /\ \A id \in Ids : incidents[id] # Absent => id \in born /\ RowOK(id, incidents[id])
           /\ \A s \in Stores, id \in Ids : cache[s][id] # Absent => RowOK(id, cache[s][id])

\* Nobody will find this incident in a status other than acknowledged.
Settled(id) == id \in born /\ (incidents[id] # Absent => incidents[id].status = "acknowledged")

\* A save that writes the status also writes the user, and one that does not
\* found the row acknowledged.
SaveOK(id, changed) == /\ id \in born
                       /\ "status" \in changed => "acknowledgedBy" \in changed
                       /\ "status" \notin changed => Settled(id)

Holding == {"f_fill", "hit", "found"}
Saving == {"s_load", "s_update", "s_insert", "n_write"}

\* The locals of one request.
RequestOK(r) == LET id == call[r].id IN
  /\ pc[r] \in Holding => incident[r] # Absent /\ RowOK(id, incident[r])
  /\ pc[r] = "t_find" => call[r].user \in Entitled(id)
  /\ pc[r] \in Saving => /\ entity[r] # Absent
                         /\ entity[r].status = "acknowledged"
                         /\ id \in born
                         /\ RowOK(id, entity[r])
  /\ pc[r] = "s_update" => SaveOK(id, cols[r])

Inv == TypeOK /\ TableOK /\ \A r \in Requests : RequestOK(r)
-----------------------------------------------------------------------------
\* What a step must not undo: identifiers stay handed out, assignees stay on
\* record, and a settled incident stays settled.
Grows == /\ born \subseteq born'
         /\ \A id \in Ids : /\ assignees[id] \subseteq assignees'[id]
                            /\ Settled(id) => Settled(id)'

Others(r) == \A q \in Requests \ {r} : /\ pc'[q] = pc[q]
                                       /\ call'[q] = call[q]
                                       /\ incident'[q] = incident[q]
                                       /\ entity'[q] = entity[q]
                                       /\ cols'[q] = cols[q]

\* A step of request r keeps the invariant if it keeps the types, the table
\* and its own locals in order and undoes nothing: the other requests' part
\* of the invariant speaks only of things that grow.
LEMMA OtherRequests ==
  ASSUME Inv, NEW r \in Requests, TypeOK', TableOK', RequestOK(r)', Grows, Others(r)
  PROVE  Inv' /\ Grows
<1>1. ASSUME NEW q \in Requests, q # r PROVE RequestOK(q)'
  <2>1. RequestOK(q)
    BY DEF Inv
  <2>2. /\ pc'[q] = pc[q] /\ call'[q] = call[q] /\ incident'[q] = incident[q]
        /\ entity'[q] = entity[q] /\ cols'[q] = cols[q]
    BY <1>1 DEF Others
  <2>3. PICK id \in Ids : id = call[q].id
    BY DEF Inv, TypeOK, Call
  <2>4. /\ Entitled(id) \subseteq Entitled(id)'
        /\ assignees[id] \subseteq assignees'[id]
        /\ born \subseteq born'
        /\ Settled(id) => Settled(id)'
    BY DEF Grows, Entitled
  <2>5. ASSUME NEW row, RowOK(id, row) PROVE RowOK(id, row)'
    BY <2>4, <2>5 DEF RowOK
  <2> QED
    BY <2>1, <2>2, <2>3, <2>4, <2>5 DEF RequestOK, SaveOK
<1> QED
  BY <1>1 DEF Inv

\* A step that writes neither table nor caches keeps the table in order.
LEMMA NothingWritten ==
  ASSUME Inv, NoWrite, UNCHANGED <<cache, born>>
  PROVE  /\ TableOK' /\ Grows
         /\ \A id \in Ids : \A row : RowOK(id, row) => RowOK(id, row)'
<1> QED
  BY DEF Inv, TableOK, Grows, Settled, RowOK, Entitled, NoWrite

LEMMA NoCallTyped == NoCall \in Call
<1> QED
  BY IncidentsAssumption DEF NoCall

\* A request that is answered leaves nothing behind that could be wrong.
LEMMA AnswerStep ==
  ASSUME Inv, NEW r \in Requests, NEW how \in Answered,
         Answer(r, how), NoWrite, UNCHANGED <<cache, born>>
  PROVE  Inv' /\ Grows
<1>1. TypeOK'
  BY NoCallTyped DEF Inv, TypeOK, Answer, Goto, NoWrite, Row
<1>2. RequestOK(r)'
  BY DEF Inv, TypeOK, RequestOK, Answer, Goto, Answered, Holding, Saving
<1>3. Others(r)
  BY DEF Inv, TypeOK, Others, Answer, Goto
<1> QED
  BY <1>1, <1>2, <1>3, NothingWritten, OtherRequests

\* A request that only moves on to a place where nothing is claimed of it.
LEMMA ProceedStep ==
  ASSUME Inv, NEW r \in Requests,
         NEW label \in (Answered \cup InProgress) \ (Holding \cup Saving \cup {"t_find"}),
         Goto(r, label), UNCHANGED <<call, incident, cols>>,
         entity' = entity \/ entity' = [entity EXCEPT ![r] = Absent],
         NoWrite, UNCHANGED <<cache, born>>
  PROVE  Inv' /\ Grows
<1>1. TypeOK'
  BY DEF Inv, TypeOK, Goto, NoWrite, Row
<1>2. RequestOK(r)'
  BY DEF Inv, TypeOK, RequestOK, Goto, Holding, Saving
<1>3. Others(r)
  BY DEF Inv, TypeOK, Others, Goto
<1> QED
  BY <1>1, <1>2, <1>3, NothingWritten, OtherRequests

\* The service starts in the invariant.
LEMMA InitInv == Init => Inv
<1> SUFFICES ASSUME Init PROVE Inv
  OBVIOUS
<1>1. ASSUME NEW row \in Existing
      PROVE  /\ row \in Incident
             /\ \A id \in Ids : row.assignedTo \in assignees[id] => RowOK(id, row)
  <2>1. PICK u \in Users, a \in Assignable, t \in Texts : row = NewIncident(u, a, t)
    BY ExistingAssumption
  <2>2. row \in Incident
    BY <2>1, EntityAssumption, IncidentsAssumption
    DEF NewIncident, Incident, IncidentStatus, Metadata, MaybeUser, Assignable
  <2> QED
    BY <2>1, <2>2 DEF NewIncident, RowOK, AckFieldsOf
<1>2. \A id \in Ids : incidents[id] \in {Absent} \cup Existing
  BY DEF Init
<1>3. TypeOK
  <2>1. incidents \in [Ids -> Row]
    BY <1>1, <1>2 DEF Init, Row
  <2>2. assignees \in [Ids -> SUBSET MaybeUser]
    <3>1. ASSUME NEW id \in Ids
          PROVE  (IF incidents[id] = Absent THEN {} ELSE {incidents[id].assignedTo})
                   \in SUBSET MaybeUser
      BY <1>1, <1>2 DEF Incident
    <3> QED
      BY <3>1 DEF Init
  <2> QED
    BY <2>1, <2>2, NoCallTyped DEF Init, TypeOK, Row, Answered
<1>4. TableOK
  BY <1>1, <1>2, AbsentAssumption DEF Init, TableOK
<1>5. ASSUME NEW r \in Requests PROVE RequestOK(r)
  BY DEF Init, RequestOK, Holding, Saving
<1> QED
  BY <1>3, <1>4, <1>5 DEF Inv
-----------------------------------------------------------------------------
\* What a row must be like to be stored; its assignee need not be known yet.
Storable(id, row) == /\ row \in Incident
                     /\ row.status \in {"created", "acknowledged"}
                     /\ AckFieldsOf(row)
                     /\ row.acknowledgedBy # NoUser => row.acknowledgedBy \in Entitled(id)
                     /\ Settled(id) => row.status = "acknowledged"

\* What is claimed of rows stays true of them.
RowsKept == \A id \in Ids : \A row : RowOK(id, row) => RowOK(id, row)'

\* Storing a storable row, or deleting one, keeps the table in order.
LEMMA Stored ==
  ASSUME Inv, NEW id \in Ids, NEW row, row # Absent => Storable(id, row),
         Store(id, row), UNCHANGED cache, born \subseteq born', born' \subseteq Ids, id \in born'
  PROVE  /\ TableOK' /\ Grows /\ RowsKept
         /\ incidents' \in [Ids -> Row] /\ assignees' \in [Ids -> SUBSET MaybeUser]
<1>1. incidents' \in [Ids -> Row] /\ assignees' \in [Ids -> SUBSET MaybeUser]
  BY DEF Inv, TypeOK, Store, Storable, Row, Incident
<1>2. /\ \A x \in Ids : assignees[x] \subseteq assignees'[x]
      /\ row # Absent => row.assignedTo \in assignees'[id]
      /\ incidents'[id] = row
      /\ \A x \in Ids \ {id} : incidents'[x] = incidents[x]
  BY DEF Inv, TypeOK, Store
<1>3. RowsKept
  BY <1>2 DEF RowsKept, RowOK, Entitled
<1>4. row # Absent => RowOK(id, row)'
  BY <1>2 DEF Storable, RowOK, Entitled
<1>5. TableOK'
  BY <1>2, <1>3, <1>4 DEF Inv, TableOK, RowsKept
<1>6. Grows
  BY <1>2 DEF Grows, Settled, Storable
<1> QED
  BY <1>1, <1>3, <1>5, <1>6

\* The same for an update that finds no row if the incident is gone.
LEMMA BlindlyUpdated ==
  ASSUME Inv, NEW id \in Ids, NEW row, incidents[id] # Absent => Storable(id, row),
         BlindUpdate(id, row), UNCHANGED <<cache, born>>
  PROVE  /\ TableOK' /\ Grows /\ RowsKept
         /\ incidents' \in [Ids -> Row] /\ assignees' \in [Ids -> SUBSET MaybeUser]
<1>1. CASE incidents[id] = Absent
  <2>1. NoWrite
    BY <1>1 DEF BlindUpdate
  <2> QED
    BY <2>1, NothingWritten DEF RowsKept, NoWrite, Inv, TypeOK
<1>2. CASE incidents[id] # Absent
  <2>1. Store(id, row) /\ Storable(id, row) /\ id \in born /\ born \subseteq Ids
    BY <1>2 DEF BlindUpdate, Inv, TypeOK, TableOK
  <2> QED
    BY <2>1, Stored
<1> QED
  BY <1>1, <1>2
-----------------------------------------------------------------------------
\* One lemma per operation: its steps keep the invariant.

LEMMA BeginStep ==
  ASSUME Inv, NEW r \in Requests, Begin(r)
  PROVE  Inv' /\ Grows
<1>1. PICK c \in Calls : /\ call' = [call EXCEPT ![r] = c]
                         /\ Goto(r, IF c.op = "create" THEN "c_insert" ELSE "f_cache")
  BY DEF Begin
<1>2. NoWrite /\ UNCHANGED <<cache, locals, born>>
  BY DEF Begin
<1>3. TypeOK'
  BY <1>1, <1>2, IncidentsAssumption DEF Inv, TypeOK, Goto, NoWrite, locals, InProgress
<1>4. RequestOK(r)'
  BY <1>1 DEF Inv, TypeOK, RequestOK, Goto, Holding, Saving
<1>5. Others(r)
  BY <1>1, <1>2 DEF Inv, TypeOK, Others, Goto, locals
<1> QED
  BY <1>2, <1>3, <1>4, <1>5, NothingWritten, OtherRequests

LEMMA CreateStep ==
  ASSUME Inv, NEW r \in Requests, Create(r)
  PROVE  Inv' /\ Grows
<1>1. CASE RejectCreate(r)
  BY <1>1, AnswerStep DEF RejectCreate, Answered
<1>2. CASE CreateCommit(r)
  BY <1>2, AnswerStep DEF CreateCommit, Answered
<1>3. CASE CreateInsert(r)
  <2> DEFINE assignee == IF "assignedTo" \in call[r].sets THEN call[r].assignedTo ELSE NoUser
             custom == IF "metadata" \in call[r].sets THEN call[r].custom ELSE NoText
             row == NewIncident(call[r].user, assignee, custom)
  <2>1. PICK id \in Ids \ born : /\ Store(id, row)
                                 /\ born' = born \cup {id}
                                 /\ call' = [call EXCEPT ![r].id = id]
    BY <1>3 DEF CreateInsert
  <2>2. Goto(r, "c_commit") /\ UNCHANGED <<cache, locals>>
    BY <1>3 DEF CreateInsert
  <2>3. call[r] \in Call
    BY DEF Inv, TypeOK
  <2>4. row \in Incident
    BY <2>3, EntityAssumption DEF Call, NewIncident, Incident, IncidentStatus, Metadata, MaybeUser
  <2>5. Storable(id, row)
    BY <2>1, <2>4 DEF Storable, NewIncident, AckFieldsOf, Settled
  <2>6. /\ TableOK' /\ Grows
        /\ incidents' \in [Ids -> Row] /\ assignees' \in [Ids -> SUBSET MaybeUser]
    BY <2>1, <2>2, <2>5, Stored DEF Inv, TypeOK
  <2>7. [call[r] EXCEPT !.id = id] \in Call
    BY <2>1, <2>3 DEF Call
  <2>8. TypeOK'
    BY <2>1, <2>2, <2>6, <2>7 DEF Inv, TypeOK, Goto, locals, InProgress
  <2>9. RequestOK(r)'
    BY <2>2 DEF Inv, TypeOK, RequestOK, Goto, Holding, Saving
  <2>10. Others(r)
    BY <2>1, <2>2 DEF Inv, TypeOK, Others, Goto, locals
  <2> QED
    BY <2>6, <2>8, <2>9, <2>10, OtherRequests
<1> QED
  BY <1>1, <1>2, <1>3 DEF Create

\* A row found in the table or in the cache becomes the local `incident`.
LEMMA HoldStep ==
  ASSUME Inv, NEW r \in Requests, NEW row, row # Absent, row \in Incident,
         RowOK(call[r].id, row), NEW label \in Holding, Goto(r, label),
         incident' = [incident EXCEPT ![r] = row],
         NoWrite, UNCHANGED <<cache, call, entity, cols, born>>
  PROVE  Inv' /\ Grows
<1>1. TypeOK'
  BY DEF Inv, TypeOK, Goto, NoWrite, Row, Holding, InProgress
<1>2. PICK id \in Ids : id = call[r].id
  BY DEF Inv, TypeOK, Call
<1>3. RowOK(id, row)'
  BY <1>2, NothingWritten
<1>4. RequestOK(r)'
  BY <1>2, <1>3 DEF Inv, TypeOK, RequestOK, Goto, Holding, Saving
<1>5. Others(r)
  BY DEF Inv, TypeOK, Others, Goto
<1> QED
  BY <1>1, <1>4, <1>5, NothingWritten, OtherRequests

\* The read-through lookup: what it fills the cache with was in the table once.
LEMMA FindStep ==
  ASSUME Inv, NEW r \in Requests, Find(r)
  PROVE  Inv' /\ Grows
<1>1. PICK id \in Ids : id = call[r].id
  BY DEF Inv, TypeOK, Call
<1>2. StoreOf[r] \in Stores
  BY IncidentsAssumption
<1>3. CASE FindCached(r)
  <2>1. Cached(r) # Absent /\ RowOK(id, Cached(r)) /\ Cached(r) \in Incident
    BY <1>1, <1>2, <1>3 DEF FindCached, Cached, Inv, TypeOK, TableOK, Row
  <2> QED
    BY <1>1, <1>3, <2>1, HoldStep DEF FindCached, Holding
<1>4. CASE FindLoad(r)
  <2>1. incidents[id] # Absent /\ RowOK(id, incidents[id]) /\ incidents[id] \in Incident
    BY <1>1, <1>4 DEF FindLoad, Inv, TypeOK, TableOK, Row
  <2> QED
    BY <1>1, <1>4, <2>1, HoldStep DEF FindLoad, Holding
<1>5. CASE FindMiss(r)
  BY <1>5, ProceedStep DEF FindMiss, Proceed, locals, InProgress, Holding, Saving
<1>6. CASE FindNothing(r)
  BY <1>6, AnswerStep DEF FindNothing, Answered
<1>7. CASE FindFill(r)
  <2>1. /\ Goto(r, "found") /\ UNCHANGED <<call, locals, born>> /\ NoWrite
        /\ incident[r] # Absent /\ RowOK(id, incident[r]) /\ incident[r] \in Incident
    BY <1>1, <1>7 DEF FindFill, Proceed, Inv, TypeOK, RequestOK, Row, Holding
  <2>2. cache' \in [Stores -> [Ids -> Row]]
    BY <1>1, <1>2, <1>7, <2>1 DEF FindFill, Inv, TypeOK, Row
  <2>3. ASSUME NEW s \in Stores, NEW x \in Ids
        PROVE  cache'[s][x] = cache[s][x] \/ (x = id /\ cache'[s][x] = incident[r])
    BY <1>1, <1>2, <1>7 DEF FindFill, Inv, TypeOK
  <2>4. Grows /\ RowsKept /\ UNCHANGED <<incidents, assignees>>
    BY <2>1 DEF Grows, RowsKept, RowOK, Entitled, Settled, NoWrite
  <2>5. TableOK'
    BY <2>1, <2>3, <2>4 DEF Inv, TableOK, RowsKept
  <2>6. TypeOK'
    BY <2>1, <2>2, <2>4 DEF Inv, TypeOK, Goto, locals, InProgress
  <2>7. RequestOK(r)'
    BY <1>1, <2>1, <2>4 DEF Inv, TypeOK, RequestOK, RowsKept, Goto, Holding, Saving, locals
  <2>8. Others(r)
    BY <2>1 DEF Inv, TypeOK, Others, Goto, locals
  <2> QED
    BY <2>4, <2>5, <2>6, <2>7, <2>8, OtherRequests
<1> QED
  BY <1>3, <1>4, <1>5, <1>6, <1>7 DEF Find

\* A request whose checks have passed and that claims nothing of a row.
LEMMA PassStep ==
  ASSUME Inv, NEW r \in Requests, NEW label \in {"u_write", "d_delete"},
         Pass(r, label), NoWrite, UNCHANGED <<cache, born>>
  PROVE  Inv' /\ Grows
<1>1. TypeOK'
  BY DEF Inv, TypeOK, Pass, Goto, NoWrite, Row, InProgress
<1>2. RequestOK(r)'
  BY DEF Inv, TypeOK, RequestOK, Pass, Goto, Holding, Saving
<1>3. Others(r)
  BY DEF Inv, TypeOK, Others, Pass, Goto
<1> QED
  BY <1>1, <1>2, <1>3, NothingWritten, OtherRequests

\* A step that writes a row (or deletes it) and moves on to a place where
\* nothing is claimed of the request.
LEMMA WriteStep ==
  ASSUME Inv, NEW r \in Requests,
         NEW label \in InProgress \ (Holding \cup Saving \cup {"t_find"}), Goto(r, label),
         UNCHANGED <<call, incident, cache, born>>,
         entity' = entity \/ entity' = [entity EXCEPT ![r] = Absent],
         cols' = cols \/ cols' = [cols EXCEPT ![r] = {}],
         TableOK', Grows,
         incidents' \in [Ids -> Row], assignees' \in [Ids -> SUBSET MaybeUser]
  PROVE  Inv' /\ Grows
<1>1. TypeOK'
  BY DEF Inv, TypeOK, Goto, Row
<1>2. RequestOK(r)'
  BY DEF Inv, TypeOK, RequestOK, Goto, Holding, Saving
<1>3. Others(r)
  BY DEF Inv, TypeOK, Others, Goto
<1> QED
  BY <1>1, <1>2, <1>3, OtherRequests

LEMMA UpdateStep ==
  ASSUME Inv, NEW r \in Requests, Update(r)
  PROVE  Inv' /\ Grows
<1>1. PICK id \in Ids : id = call[r].id
  BY DEF Inv, TypeOK, Call
<1>2. CASE CheckUpdate(r)
  BY <1>2, AnswerStep, PassStep DEF CheckUpdate, Answered
<1>3. CASE Reread(r)
  BY <1>3, AnswerStep, ProceedStep
  DEF Reread, Proceed, locals, Answered, InProgress, Holding, Saving
<1>4. CASE UpdateWrite(r)
  <2> DEFINE assignee == IF "assignedTo" \in call[r].sets THEN call[r].assignedTo
                         ELSE incidents[id].assignedTo
             metadata == IF "metadata" \in call[r].sets
                         THEN [custom |-> call[r].custom, notes |-> NoText]
                         ELSE incidents[id].metadata
             row == [incidents[id] EXCEPT !.assignedTo = assignee, !.metadata = metadata]
  <2>1. BlindUpdate(id, row) /\ Goto(r, "u_reread") /\ UNCHANGED <<call, locals, cache, born>>
    BY <1>1, <1>4 DEF UpdateWrite, Proceed
  <2>2. ASSUME incidents[id] # Absent PROVE Storable(id, row)
    <3>1. incidents[id] \in Incident /\ RowOK(id, incidents[id])
      BY <2>2 DEF Inv, TypeOK, TableOK, Row
    <3>2. assignee \in MaybeUser /\ metadata \in Metadata
      BY <1>1, <3>1, EntityAssumption DEF Inv, TypeOK, Call, Metadata, Incident
    <3>3. row \in Incident
      BY <3>1, <3>2 DEF Incident
    <3>4. row.status = incidents[id].status /\ row.acknowledgedBy = incidents[id].acknowledgedBy
      BY <3>1 DEF Incident
    <3> QED
      BY <2>2, <3>1, <3>3, <3>4 DEF Storable, RowOK, AckFieldsOf, Settled
  <2> QED
    BY <2>1, <2>2, BlindlyUpdated, WriteStep DEF locals, InProgress, Holding, Saving
<1> QED
  BY <1>2, <1>3, <1>4 DEF Update

\* An acknowledged row by someone entitled, as the state machine makes it.
LEMMA TransitionedOK ==
  ASSUME NEW id \in Ids, NEW row \in Incident, RowOK(id, row), NEW u \in Users, u \in Entitled(id)
  PROVE  LET e == Transitioned(row, "acknowledged", u)
         IN  e \in Incident /\ e.status = "acknowledged" /\ RowOK(id, e)
<1> DEFINE e == Transitioned(row, "acknowledged", u)
<1>1. e \in Incident
  BY DEF Transitioned, Incident, IncidentStatus, MaybeUser
<1>2. e.status = "acknowledged" /\ e.acknowledgedBy = u /\ e.assignedTo = row.assignedTo
  BY DEF Transitioned, Incident
<1> QED
  BY <1>1, <1>2, EntityAssumption DEF RowOK, AckFieldsOf

\* An entity about to be saved over a row: whatever of it save writes, the
\* result can be stored, provided the columns are as SaveOK says.
LEMMA OverwrittenStorable ==
  ASSUME NEW id \in Ids, NEW row \in Incident, RowOK(id, row),
         NEW e \in Incident, e.status = "acknowledged", RowOK(id, e),
         NEW changed, incidents[id] = row, row # Absent, SaveOK(id, changed)
  PROVE  Storable(id, Overwritten(row, e, changed))
<1> DEFINE o == Overwritten(row, e, changed)
<1>1. o \in Incident
  BY DEF Overwritten, Incident
<1>2. o.status = "acknowledged"
  BY DEF Overwritten, SaveOK, Settled
<1>3. o.acknowledgedBy \in {row.acknowledgedBy, e.acknowledgedBy}
  BY DEF Overwritten
<1>4. o.acknowledgedBy # NoUser
  BY DEF Overwritten, SaveOK, Settled, RowOK, AckFieldsOf
<1> QED
  BY <1>1, <1>2, <1>3, <1>4 DEF Storable, RowOK, AckFieldsOf

\* The columns save finds changed are as SaveOK says.
LEMMA ChangedOK ==
  ASSUME NEW id \in Ids, id \in born, NEW row \in Incident, RowOK(id, row), incidents[id] = row,
         NEW e \in Incident, e.status = "acknowledged", RowOK(id, e)
  PROVE  SaveOK(id, Changed(e, row)) /\ Changed(e, row) \in SUBSET Columns
<1>1. "status" \in Changed(e, row) <=> e.status # row.status
  BY DEF Changed, Columns
<1>2. "acknowledgedBy" \in Changed(e, row) <=> e.acknowledgedBy # row.acknowledgedBy
  BY DEF Changed, Columns
<1>3. e.status # row.status => e.acknowledgedBy # row.acknowledgedBy
  BY DEF RowOK, AckFieldsOf
<1>4. e.status = row.status => Settled(id)
  BY DEF Settled
<1> QED
  BY <1>1, <1>2, <1>3, <1>4 DEF SaveOK, Changed

LEMMA AcknowledgeStep ==
  ASSUME Inv, NEW r \in Requests, Acknowledge(r)
  PROVE  Inv' /\ Grows
<1>1. PICK id \in Ids : id = call[r].id
  BY DEF Inv, TypeOK, Call
<1>2. call[r].user \in Users /\ call[r].notes \in Texts
  BY DEF Inv, TypeOK, Call
<1>3. RequestOK(r)
  BY DEF Inv
<1>4. CASE CheckAcknowledge(r)
  <2>1. CASE NoMethod(r) \/ ~MayAcknowledge(r)
    BY <1>4, <2>1, AnswerStep DEF CheckAcknowledge, Answered
  <2>2. CASE ~NoMethod(r) /\ MayAcknowledge(r)
    <3>1. Pass(r, "t_find") /\ NoWrite /\ UNCHANGED <<cache, born>>
      BY <1>4, <2>2 DEF CheckAcknowledge
    <3>2. RowOK(id, incident[r])
      BY <1>1, <1>3, <1>4 DEF CheckAcknowledge, Holds, Holding, RequestOK
    <3>3. call[r].user \in Entitled(id)
      BY <2>2, <3>2 DEF MayAcknowledge, RowOK, Entitled
    <3>4. TypeOK'
      BY <3>1 DEF Inv, TypeOK, Pass, Goto, NoWrite, Row, InProgress
    <3>5. RequestOK(r)'
      BY <1>1, <3>1, <3>3
      DEF Inv, TypeOK, RequestOK, Pass, Goto, NoWrite, Entitled, Holding, Saving
    <3>6. Others(r)
      BY <3>1 DEF Inv, TypeOK, Others, Pass, Goto
    <3> QED
      BY <3>1, <3>4, <3>5, <3>6, NothingWritten, OtherRequests
  <2> QED
    BY <2>1, <2>2
<1>5. CASE TransitionFind(r)
  <2> DEFINE e == Transitioned(incidents[id], "acknowledged", call[r].user)
  <2>1. /\ entity' = [entity EXCEPT ![r] = e] /\ Goto(r, "s_load") /\ NoWrite
        /\ UNCHANGED <<cache, call, incident, cols, born>>
        /\ incidents[id] # Absent /\ call[r].user \in Entitled(id)
    BY <1>1, <1>3, <1>5 DEF TransitionFind, TransitionAllowed, RequestOK
  <2>2. incidents[id] \in Incident /\ RowOK(id, incidents[id]) /\ id \in born
    BY <2>1 DEF Inv, TypeOK, TableOK, Row
  <2>3. e \in Incident /\ e.status = "acknowledged" /\ RowOK(id, e)
    BY <1>2, <2>1, <2>2, TransitionedOK
  <2>4. TypeOK'
    BY <2>1, <2>3 DEF Inv, TypeOK, Goto, NoWrite, Row, InProgress
  <2>5. RowOK(id, e) => \A x : x = e => RowOK(id, x)'
    BY <2>1 DEF NoWrite, RowOK, Entitled
  <2>6. entity'[r] = e /\ pc'[r] = "s_load" /\ call'[r].id = id /\ born' = born
    BY <1>1, <2>1 DEF Inv, TypeOK, Goto
  <2>7. RequestOK(r)'
    BY <2>2, <2>3, <2>5, <2>6, AbsentAssumption DEF RequestOK, Holding, Saving
  <2>8. Others(r)
    BY <2>1 DEF Inv, TypeOK, Others, Goto
  <2> QED
    BY <2>1, <2>4, <2>7, <2>8, NothingWritten, OtherRequests
<1>6. CASE TransitionReject(r)
  BY <1>6, AnswerStep DEF TransitionReject, Answered
<1>7. CASE SaveLoad(r)
  <2>1. /\ pc[r] = "s_load" /\ NoWrite /\ UNCHANGED <<cache, born, call, incident, entity>>
        /\ id \in born
    BY <1>1, <1>3, <1>7 DEF SaveLoad, Proceed, locals, RequestOK, Saving
  <2>2. /\ entity[r] \in Incident /\ entity[r] # Absent /\ entity[r].status = "acknowledged"
        /\ RowOK(id, entity[r])
    BY <1>1, <1>3, <2>1 DEF Inv, TypeOK, RequestOK, Saving, Row
  <2>3. entity'[r] = entity[r] /\ call'[r].id = id /\ id \in born' /\ RowsKept
    BY <1>1, <2>1, NothingWritten DEF RowsKept
  <2>4. CASE incidents[id] = Absent
    <3>1. Goto(r, "s_insert") /\ UNCHANGED cols
      BY <1>1, <1>7, <2>4 DEF SaveLoad, Proceed, locals
    <3>2. TypeOK' /\ Others(r)
      BY <2>1, <3>1 DEF Inv, TypeOK, Goto, NoWrite, InProgress, Others
    <3>3. pc'[r] = "s_insert"
      BY <3>1 DEF Inv, TypeOK, Goto
    <3>4. RequestOK(r)'
      BY <1>1, <2>2, <2>3, <3>3 DEF RequestOK, RowsKept, Holding, Saving
    <3> QED
      BY <2>1, <3>2, <3>4, NothingWritten, OtherRequests
  <2>5. CASE incidents[id] # Absent
    <3>1. Goto(r, "s_update") /\ cols' = [cols EXCEPT ![r] = Changed(entity[r], incidents[id])]
      BY <1>1, <1>7, <2>5 DEF SaveLoad
    <3>2. incidents[id] \in Incident /\ RowOK(id, incidents[id])
      BY <2>5 DEF Inv, TypeOK, TableOK, Row
    <3>3. /\ SaveOK(id, Changed(entity[r], incidents[id]))
          /\ Changed(entity[r], incidents[id]) \in SUBSET Columns
      BY <2>1, <2>2, <3>2, ChangedOK
    <3>4. TypeOK' /\ Others(r)
      BY <2>1, <3>1, <3>3 DEF Inv, TypeOK, Goto, NoWrite, InProgress, Others
    <3>5. pc'[r] = "s_update" /\ cols'[r] = Changed(entity[r], incidents[id])
      BY <3>1 DEF Inv, TypeOK, Goto
    <3>6. ASSUME NEW changed, SaveOK(id, changed) PROVE SaveOK(id, changed)'
      BY <2>1, <3>6 DEF SaveOK, Settled, NoWrite
    <3>7. SaveOK(id, cols[r])'
      BY <3>3, <3>5, <3>6
    <3>8. RequestOK(r)'
      BY <1>1, <2>2, <2>3, <3>5, <3>7 DEF RequestOK, RowsKept, Holding, Saving
    <3> QED
      BY <2>1, <3>4, <3>8, NothingWritten, OtherRequests
  <2> QED
    BY <2>4, <2>5
<1>8. ASSUME pc[r] \in Saving, AfterSave(r), UNCHANGED <<cache, born>>, TableOK', Grows, RowsKept,
             incidents' \in [Ids -> Row], assignees' \in [Ids -> SUBSET MaybeUser]
      PROVE  Inv' /\ Grows
  <2>1. PICK label \in {"invalidate", "n_write"} : Goto(r, label)
    BY <1>8 DEF AfterSave
  <2>2. cols' = [cols EXCEPT ![r] = {}] /\ UNCHANGED <<call, incident, entity>>
    BY <1>8 DEF AfterSave
  <2>3. TypeOK' /\ Others(r)
    BY <1>8, <2>1, <2>2 DEF Inv, TypeOK, Goto, InProgress, Others
  <2>4. /\ entity[r] # Absent /\ entity[r].status = "acknowledged" /\ id \in born
        /\ RowOK(id, entity[r])
    BY <1>1, <1>3, <1>8 DEF RequestOK
  <2>5. /\ entity'[r] = entity[r] /\ call'[r].id = id /\ id \in born' /\ pc'[r] = label
        /\ RowOK(id, entity[r])
    BY <1>1, <1>8, <2>1, <2>2, <2>4 DEF Inv, TypeOK, Goto
  <2>6. RequestOK(r)'
    BY <1>1, <1>8, <2>2, <2>4, <2>5 DEF RequestOK, RowsKept, Holding, Saving
  <2> QED
    BY <1>8, <2>3, <2>6, OtherRequests
<1>9. CASE SaveUpdate(r)
  <2> DEFINE row == Overwritten(incidents[id], entity[r], cols[r])
  <2>1. pc[r] = "s_update" /\ BlindUpdate(id, row) /\ AfterSave(r) /\ UNCHANGED <<cache, born>>
    BY <1>1, <1>9 DEF SaveUpdate
  <2>2. /\ entity[r] \in Incident /\ entity[r].status = "acknowledged" /\ RowOK(id, entity[r])
        /\ SaveOK(id, cols[r])
    BY <1>1, <1>3, <2>1 DEF Inv, TypeOK, RequestOK, Saving, Row
  <2>3. incidents[id] # Absent => Storable(id, row)
    BY <2>2, OverwrittenStorable DEF Inv, TypeOK, TableOK, Row
  <2> QED
    BY <1>8, <2>1, <2>3, BlindlyUpdated DEF Saving
<1>10. CASE SaveInsert(r)
  <2>1. CASE incidents[id] # Absent
    BY <1>1, <1>10, <2>1, AnswerStep DEF SaveInsert, Answered
  <2>2. CASE incidents[id] = Absent
    <3>1. /\ pc[r] = "s_insert" /\ Store(id, entity[r]) /\ AfterSave(r)
          /\ UNCHANGED <<cache, born>>
      BY <1>1, <1>10, <2>2 DEF SaveInsert
    <3>2. /\ entity[r] \in Incident /\ entity[r].status = "acknowledged" /\ RowOK(id, entity[r])
          /\ id \in born /\ born \subseteq Ids
      BY <1>1, <1>3, <3>1 DEF Inv, TypeOK, RequestOK, Saving, Row
    <3>3. Storable(id, entity[r])
      BY <3>2 DEF Storable, RowOK
    <3> QED
      BY <1>8, <3>1, <3>2, <3>3, Stored DEF Saving
  <2> QED
    BY <2>1, <2>2
<1>11. CASE NotesWrite(r)
  <2> DEFINE metadata == [custom |-> entity[r].metadata.custom, notes |-> call[r].notes]
             row == [incidents[id] EXCEPT !.metadata = metadata]
  <2>1. /\ pc[r] = "n_write" /\ BlindUpdate(id, row) /\ Goto(r, "n_reread")
        /\ entity' = [entity EXCEPT ![r] = Absent]
        /\ UNCHANGED <<call, incident, cols, cache, born>>
    BY <1>1, <1>11 DEF NotesWrite
  <2>2. entity[r] \in Incident
    BY <1>3, <2>1 DEF Inv, TypeOK, RequestOK, Saving, Row
  <2>3. ASSUME incidents[id] # Absent PROVE Storable(id, row)
    <3>1. incidents[id] \in Incident /\ RowOK(id, incidents[id])
      BY <2>3 DEF Inv, TypeOK, TableOK, Row
    <3>2. metadata \in Metadata
      BY <1>2, <2>2 DEF Incident, Metadata
    <3>3. /\ row \in Incident /\ row.status = incidents[id].status
          /\ row.acknowledgedBy = incidents[id].acknowledgedBy
      BY <3>1, <3>2 DEF Incident
    <3> QED
      BY <2>3, <3>1, <3>3 DEF Storable, RowOK, AckFieldsOf, Settled
  <2> QED
    BY <2>1, <2>3, BlindlyUpdated, WriteStep DEF InProgress, Holding, Saving
<1> QED
  BY <1>4, <1>5, <1>6, <1>7, <1>9, <1>10, <1>11 DEF Acknowledge

LEMMA DeleteStep ==
  ASSUME Inv, NEW r \in Requests, CheckDelete(r) \/ Delete(r)
  PROVE  Inv' /\ Grows
<1>1. PICK id \in Ids : id = call[r].id
  BY DEF Inv, TypeOK, Call
<1>2. CASE CheckDelete(r)
  BY <1>2, AnswerStep, PassStep DEF CheckDelete, Answered
<1>3. CASE Delete(r) /\ incidents[id] = Absent
  BY <1>1, <1>3, AnswerStep DEF Delete, Answered
<1>4. CASE Delete(r) /\ incidents[id] # Absent
  <2>1. /\ Store(id, Absent) /\ Goto(r, "invalidate")
        /\ UNCHANGED <<call, incident, entity, cols, cache, born>>
    BY <1>1, <1>4 DEF Delete, Proceed, locals
  <2>2. id \in born /\ born \subseteq Ids
    BY <1>4 DEF Inv, TypeOK, TableOK
  <2>3. /\ TableOK' /\ Grows
        /\ incidents' \in [Ids -> Row] /\ assignees' \in [Ids -> SUBSET MaybeUser]
    BY <2>1, <2>2, Stored
  <2> QED
    BY <2>1, <2>3, WriteStep DEF InProgress, Holding, Saving
<1> QED
  BY <1>2, <1>3, <1>4

LEMMA InvalidateStep ==
  ASSUME Inv, NEW r \in Requests, Invalidate(r)
  PROVE  Inv' /\ Grows
<1>1. CASE UNCHANGED cache
  BY <1>1, AnswerStep DEF Invalidate, Answered
<1>2. CASE cache' = [cache EXCEPT ![StoreOf[r]][call[r].id] = Absent]
  <2>1. Answer(r, "ok") /\ NoWrite /\ UNCHANGED born
    BY DEF Invalidate
  <2>2. StoreOf[r] \in Stores /\ call[r].id \in Ids
    BY IncidentsAssumption DEF Inv, TypeOK, Call
  <2>3. /\ cache' \in [Stores -> [Ids -> Row]]
        /\ \A s \in Stores, id \in Ids : cache'[s][id] \in {Absent, cache[s][id]}
    BY <1>2, <2>2 DEF Inv, TypeOK, Row
  <2>4. Grows /\ RowsKept /\ UNCHANGED <<incidents, assignees>>
    BY <2>1 DEF Grows, RowsKept, RowOK, Entitled, Settled, NoWrite
  <2>5. TableOK'
    BY <2>1, <2>3, <2>4 DEF Inv, TableOK, RowsKept
  <2>6. TypeOK'
    BY <2>1, <2>3, <2>4, NoCallTyped DEF Inv, TypeOK, Answer, Goto, Row, Answered
  <2>7. RequestOK(r)' /\ Others(r)
    BY <2>1 DEF Inv, TypeOK, RequestOK, Others, Answer, Goto, Holding, Saving
  <2> QED
    BY <2>4, <2>5, <2>6, <2>7, OtherRequests
<1> QED
  BY <1>1, <1>2 DEF Invalidate

LEMMA ExpireStep ==
  ASSUME Inv, NEW s \in Stores, NEW id \in Ids, CacheExpire(s, id)
  PROVE  Inv' /\ Grows
<1>1. /\ cache' \in [Stores -> [Ids -> Row]]
      /\ \A t \in Stores, x \in Ids : cache'[t][x] \in {Absent, cache[t][x]}
  BY DEF CacheExpire, Inv, TypeOK, Row
<1>2. UNCHANGED <<incidents, pc, call, incident, entity, cols, born, assignees>>
  BY DEF CacheExpire, locals
<1>3. TypeOK'
  BY <1>1, <1>2 DEF Inv, TypeOK
<1>4. TableOK'
  BY <1>1, <1>2 DEF Inv, TableOK, RowOK, Entitled
<1>5. ASSUME NEW r \in Requests PROVE RequestOK(r)'
  BY <1>2 DEF Inv, RequestOK, RowOK, Entitled, SaveOK, Settled
<1> QED
  BY <1>2, <1>3, <1>4, <1>5 DEF Inv, Grows, Settled

\* Every step of the service keeps the invariant and undoes nothing.
LEMMA NextInv == Inv /\ [Next]_vars => Inv' /\ Grows
<1> SUFFICES ASSUME Inv, [Next]_vars PROVE Inv' /\ Grows
  OBVIOUS
<1>1. CASE UNCHANGED vars
  BY <1>1
  DEF vars, locals, Inv, TypeOK, TableOK, RequestOK, RowOK, Entitled, SaveOK, Settled, Grows
<1>2. ASSUME NEW r \in Requests, Begin(r) PROVE Inv' /\ Grows
  BY <1>2, BeginStep
<1>3. ASSUME NEW r \in Requests, Serve(r) PROVE Inv' /\ Grows
  <2>1. CASE Get(r)
    BY <2>1, AnswerStep DEF Get, Answered
  <2> QED
    BY <1>3, <2>1, CreateStep, FindStep, UpdateStep, AcknowledgeStep, DeleteStep, InvalidateStep
    DEF Serve
<1>4. ASSUME NEW r \in Requests, DatabaseError(r) PROVE Inv' /\ Grows
  BY <1>4, AnswerStep DEF DatabaseError, Answered
<1>5. ASSUME NEW r \in Requests, Crash(r) PROVE Inv' /\ Grows
  BY <1>5, AnswerStep DEF Crash, Answered
<1>6. ASSUME NEW s \in Stores, NEW id \in Ids, CacheExpire(s, id) PROVE Inv' /\ Grows
  BY <1>6, ExpireStep
<1> QED
  BY <1>1, <1>2, <1>3, <1>4, <1>5, <1>6 DEF Next

\* Every reachable state satisfies the invariant.
LEMMA Invariance == Spec => []Inv
<1> QED
  BY InitInv, NextInv, PTL DEF Spec
-----------------------------------------------------------------------------
\* The table, the caches and the locals of requests hold well-formed rows.
THEOREM IncidentsTyped == Spec => []TypeOK
<1>1. Inv => TypeOK
  BY DEF Inv
<1> QED
  BY <1>1, Invariance, PTL

\* However many requests race in the state machine and in save, a stored or
\* cached incident is acknowledged exactly when it says by whom.
THEOREM AckFieldsAlwaysAgree == Spec => []AckFieldsAgree
<1>1. Inv => AckFieldsAgree
  BY DEF Inv, TableOK, RowOK, AckFieldsAgree
<1> QED
  BY <1>1, Invariance, PTL

\* Checking the permission on a cached copy and saving later never records an
\* acknowledgement by someone who was never entitled to it.
THEOREM AcknowledgersEntitled == Spec => []AckAuthorised
<1>1. Inv => AckAuthorised
  BY DEF Inv, TableOK, RowOK, Entitled, AckAuthorised
<1> QED
  BY <1>1, Invariance, PTL

\* No interleaving of updates, saves and deletions brings an acknowledged
\* incident back to an earlier status.
THEOREM StatusNeverGoesBack == Spec => StatusNeverRegresses
<1>1. Inv /\ [Next]_vars =>
        [ \A id \in Ids :
            incidents[id] # Absent /\ incidents'[id] # Absent
              /\ incidents[id].status = "acknowledged"
                => incidents'[id].status = "acknowledged" ]_vars
  <2> SUFFICES ASSUME Inv, [Next]_vars, NEW id \in Ids,
                      incidents[id] # Absent, incidents'[id] # Absent,
                      incidents[id].status = "acknowledged"
               PROVE  incidents'[id].status = "acknowledged"
    OBVIOUS
  <2>1. Settled(id)
    BY DEF Settled, Inv, TableOK
  <2>2. Settled(id)'
    BY <2>1, NextInv DEF Grows
  <2> QED
    BY <2>2 DEF Settled
<1> QED
  BY <1>1, Invariance, PTL DEF Spec, StatusNeverRegresses
-----------------------------------------------------------------------------
(* Where the copies of an incident come from: every copy there is descends *)
(* from the row that was created under its identifier.                     *)

\* The incident in the table, in the caches, and in the locals of requests.
CopiesOf(id) ==
  ( {incidents[id]} \cup {cache[s][id] : s \in Stores}
      \cup {incident[r] : r \in {q \in Requests : call[q].id = id /\ pc[q] \in Holding}}
      \cup {entity[r] : r \in {q \in Requests : call[q].id = id /\ pc[q] \in Saving}} )
    \ {Absent}

\* Its assignee is a user, and only the modelled transition has been made.
Fit(row) == row.assignedTo \in Assignable /\ row.resolvedBy = NoUser /\ row.closedBy = NoUser

\* The permission that was checked on one copy holds for every copy.
WriterOK(r) == LET id == call[r].id IN
  /\ pc[r] \in {"u_write", "d_delete"} => id \in born
  /\ pc[r] = "u_write" =>
       ~UnknownAssignee(r) /\ \A row \in CopiesOf(id) : row.createdBy = call[r].user
  /\ pc[r] = "d_delete" =>
       \A row \in CopiesOf(id) : row.createdBy = call[r].user \/ call[r].user \in Admins

\* Copies exist of incidents created only, agree on the creator, and are fit.
CopiesOK(id) == /\ CopiesOf(id) # {} => id \in born
                /\ \A row, other \in CopiesOf(id) : row.createdBy = other.createdBy
                /\ \A row \in CopiesOf(id) : Fit(row)
                /\ assignees[id] \subseteq Assignable

Descent == (\A id \in Ids : CopiesOK(id)) /\ (\A r \in Requests : WriterOK(r))

\* After the step, each copy of the incident has its creator from a copy
\* before it, or is the row the identifier was handed out for.
Descends(id) == \A row \in CopiesOf(id)' :
  Fit(row) /\ \E origin \in CopiesOf(id) : row.createdBy = origin.createdBy

FirstCopy(id) == /\ id \notin born /\ id \in born'
                 /\ \E row : Fit(row) /\ CopiesOf(id)' \subseteq {row}

LEMMA DescentKept ==
  ASSUME Inv, Descent, NEW r \in Requests, Others(r), born \subseteq born',
         \A id \in Ids : Descends(id) \/ FirstCopy(id),
         \A id \in Ids : assignees'[id] \subseteq Assignable,
         WriterOK(r)'
  PROVE  Descent'
<1>1. ASSUME NEW id \in Ids PROVE CopiesOK(id)'
  <2>1. CASE Descends(id)
    BY <2>1 DEF Descends, Descent, CopiesOK
  <2>2. CASE FirstCopy(id)
    BY <2>2 DEF FirstCopy, CopiesOK
  <2> QED
    BY <2>1, <2>2
<1>2. ASSUME NEW q \in Requests, q # r PROVE WriterOK(q)'
  <2>1. pc'[q] = pc[q] /\ call'[q] = call[q] /\ WriterOK(q)
    BY <1>2 DEF Others, Descent
  <2>2. PICK id \in Ids : id = call[q].id
    BY DEF Inv, TypeOK, Call
  <2>3. CASE pc[q] \notin {"u_write", "d_delete"}
    BY <2>1, <2>3 DEF WriterOK
  <2>4. CASE pc[q] \in {"u_write", "d_delete"}
    <3>1. id \in born /\ id \in born' /\ Descends(id)
      BY <2>1, <2>2, <2>4 DEF WriterOK, FirstCopy
    <3>2. ASSUME NEW row \in CopiesOf(id)'
          PROVE  \E origin \in CopiesOf(id) : row.createdBy = origin.createdBy
      BY <3>1 DEF Descends
    <3> QED
      BY <2>1, <2>2, <2>4, <3>1, <3>2 DEF WriterOK, UnknownAssignee
  <2> QED
    BY <2>3, <2>4
<1> QED
  BY <1>1, <1>2 DEF Descent

\* Where copies are found.
LEMMA Copies ==
  ASSUME Inv, NEW id \in Ids
  PROVE  /\ incidents[id] \in CopiesOf(id) \cup {Absent}
         /\ \A s \in Stores : cache[s][id] \in CopiesOf(id) \cup {Absent}
         /\ \A r \in Requests : call[r].id = id /\ pc[r] \in Holding => incident[r] \in CopiesOf(id)
         /\ \A r \in Requests : call[r].id = id /\ pc[r] \in Saving => entity[r] \in CopiesOf(id)
BY DEF CopiesOf, Inv, RequestOK

\* Where they are found after a step of one request.
LEMMA CopiesAfter ==
  ASSUME NEW r \in Requests, Others(r), NEW id \in Ids, NEW found,
         CopiesOf(id) \subseteq found,
         incidents'[id] \in found \cup {Absent},
         \A s \in Stores : cache'[s][id] \in found \cup {Absent},
         call'[r].id = id /\ pc'[r] \in Holding => incident'[r] \in found,
         call'[r].id = id /\ pc'[r] \in Saving => entity'[r] \in found
  PROVE  CopiesOf(id)' \subseteq found
<1> SUFFICES ASSUME NEW row \in CopiesOf(id)' PROVE row \in found
  OBVIOUS
<1>1. row # Absent
  BY DEF CopiesOf
<1>2. \/ row = incidents'[id] \/ \E s \in Stores : row = cache'[s][id]
      \/ \E q \in Requests : call'[q].id = id /\ pc'[q] \in Holding /\ row = incident'[q]
      \/ \E q \in Requests : call'[q].id = id /\ pc'[q] \in Saving /\ row = entity'[q]
  BY DEF CopiesOf
<1>3. ASSUME NEW q \in Requests, q # r, call'[q].id = id,
             \/ pc'[q] \in Holding /\ row = incident'[q]
             \/ pc'[q] \in Saving /\ row = entity'[q]
      PROVE  row \in CopiesOf(id)
  BY <1>1, <1>3 DEF Others, CopiesOf
<1> QED
  BY <1>1, <1>2, <1>3

\* A step of a request that makes at most one copy that was not there.
LEMMA DescentStep ==
  ASSUME Inv, Descent, NEW r \in Requests, Others(r), NEW id \in Ids, NEW new,
         new # Absent => /\ Fit(new)
                         /\ \E origin \in CopiesOf(id) : new.createdBy = origin.createdBy,
         \A x \in Ids \ {id} : incidents'[x] \in {incidents[x], Absent},
         \A s \in Stores, x \in Ids \ {id} : cache'[s][x] \in {cache[s][x], Absent},
         incidents'[id] \in CopiesOf(id) \cup {new, Absent},
         \A s \in Stores : cache'[s][id] \in CopiesOf(id) \cup {Absent},
         pc'[r] \in Holding => incident'[r] \in CopiesOf(id),
         pc'[r] \in Saving => entity'[r] \in (CopiesOf(id) \cup {new}) \ {Absent},
         pc'[r] \in Holding \cup Saving => call'[r].id = id,
         \A x \in Ids : assignees'[x] \subseteq Assignable,
         born \subseteq born', WriterOK(r)'
  PROVE  Descent'
<1>1. Descends(id)
  <2> DEFINE found == (CopiesOf(id) \cup {new}) \ {Absent}
  <2>1. CopiesOf(id) \subseteq found
    BY DEF CopiesOf
  <2>2. CopiesOf(id)' \subseteq found
    <3> HIDE DEF found
    <3>1. /\ incidents'[id] \in found \cup {Absent}
          /\ \A s \in Stores : cache'[s][id] \in found \cup {Absent}
          /\ pc'[r] \in Holding => incident'[r] \in found
          /\ pc'[r] \in Saving => entity'[r] \in found
      BY <2>1 DEF found
    <3> QED
      BY <2>1, <3>1, CopiesAfter
  <2>3. \A row \in CopiesOf(id) : Fit(row)
    BY DEF Descent, CopiesOK
  <2> QED
    BY <2>2, <2>3 DEF Descends
<1>2. ASSUME NEW x \in Ids \ {id} PROVE Descends(x)
  <2>1. CopiesOf(x)' \subseteq CopiesOf(x)
    <3>1. /\ incidents'[x] \in CopiesOf(x) \cup {Absent}
          /\ \A s \in Stores : cache'[s][x] \in CopiesOf(x) \cup {Absent}
      BY Copies
    <3>2. PICK found : found = CopiesOf(x)
      OBVIOUS
    <3>3. CopiesOf(x)' \subseteq found
      BY <3>1, <3>2, CopiesAfter
    <3> QED
      BY <3>2, <3>3
  <2>2. \A row \in CopiesOf(x) : Fit(row)
    BY DEF Descent, CopiesOK
  <2> QED
    BY <2>1, <2>2 DEF Descends
<1> QED
  BY <1>1, <1>2, DescentKept

\* What a step must show: copies descend still, and the table takes one of
\* the contested board's steps or none.
Contests == Descent' /\ (Contested!Next \/ UNCHANGED <<incidents, born, assignees>>)

\* A step that writes no row.
LEMMA ContestsQuiet ==
  ASSUME Inv, Descent, NEW r \in Requests, Others(r), NEW id \in Ids, id = call[r].id,
         NoWrite, UNCHANGED born,
         \A s \in Stores, x \in Ids : \/ cache'[s][x] \in {cache[s][x], Absent}
                                      \/ x = id /\ cache'[s][x] \in CopiesOf(x),
         pc'[r] \in Holding => incident'[r] \in CopiesOf(id) /\ call'[r].id = id,
         pc'[r] \in Saving => entity'[r] \in CopiesOf(id) /\ call'[r].id = id,
         WriterOK(r)'
  PROVE  Contests
<1>1. /\ \A x \in Ids : incidents'[x] = incidents[x] /\ assignees'[x] \subseteq Assignable
      /\ UNCHANGED <<incidents, born, assignees>>
  BY DEF NoWrite, Descent, CopiesOK
<1>2. \A s \in Stores, x \in Ids \ {id} : cache'[s][x] \in {cache[s][x], Absent}
  OBVIOUS
<1>3. \A s \in Stores : cache'[s][id] \in CopiesOf(id) \cup {Absent}
  BY Copies
<1>4. incidents'[id] \in CopiesOf(id) \cup {Absent}
  BY <1>1, Copies
<1>5. PICK new : new = Absent
  OBVIOUS
<1>6. pc'[r] \in Saving => entity'[r] \in (CopiesOf(id) \cup {new}) \ {Absent}
  BY DEF CopiesOf
<1>7. Descent'
  BY <1>1, <1>2, <1>3, <1>4, <1>5, <1>6, DescentStep
<1> QED
  BY <1>1, <1>7 DEF Contests

LEMMA ContestsAnswer ==
  ASSUME Inv, Descent, NEW r \in Requests, NEW how \in Answered, Answer(r, how),
         NoWrite, UNCHANGED born,
         \A s \in Stores, x \in Ids : cache'[s][x] \in {cache[s][x], Absent}
  PROVE  Contests
<1>1. PICK id \in Ids : id = call[r].id
  BY DEF Inv, TypeOK, Call
<1>2. Others(r) /\ pc'[r] = how
  BY DEF Inv, TypeOK, Others, Answer, Goto
<1>3. WriterOK(r)' /\ pc'[r] \notin Holding \cup Saving
  BY <1>2 DEF WriterOK, Answered, Holding, Saving
<1> QED
  BY <1>1, <1>2, <1>3, ContestsQuiet

\* A request that only moves on, to a place where it holds no copy.
LEMMA ContestsProceed ==
  ASSUME Inv, Descent, NEW r \in Requests, NEW label, Goto(r, label), Others(r),
         label \notin Holding \cup Saving \cup {"u_write", "d_delete"},
         NoWrite, UNCHANGED <<cache, born>>
  PROVE  Contests
<1>1. PICK id \in Ids : id = call[r].id
  BY DEF Inv, TypeOK, Call
<1>2. pc'[r] = label
  BY DEF Inv, TypeOK, Goto
<1>3. WriterOK(r)'
  BY <1>2 DEF WriterOK
<1> QED
  BY <1>1, <1>2, <1>3, ContestsQuiet

\* Storing a row whose assignee is a user is a write on the contested board.
LEMMA ContestedWrite ==
  ASSUME Inv, Descent, NEW id \in Ids, NEW row, row # Absent, row.assignedTo \in Assignable,
         Store(id, row)
  PROVE  /\ Contested!Write(id) /\ incidents'[id] = row
         /\ \A x \in Ids \ {id} : incidents'[x] = incidents[x]
         /\ \A x \in Ids : assignees'[x] \subseteq Assignable
<1>1. /\ incidents' = [incidents EXCEPT ![id] = row]
      /\ assignees' = [assignees EXCEPT ![id] = @ \cup {row.assignedTo}]
  BY DEF Store
<1>2. incidents'[id] = row /\ \A x \in Ids \ {id} : incidents'[x] = incidents[x]
  BY <1>1 DEF Inv, TypeOK
<1>3. \A x \in Ids : assignees'[x] \subseteq Assignable
  BY <1>1 DEF Inv, TypeOK, Descent, CopiesOK
<1>4. Contested!Write(id)
  BY <1>1, <1>2 DEF Contested!Write, Contested!Assignable, Assignable
<1> QED
  BY <1>2, <1>3, <1>4

\* The same for an update, of a row that may be gone, by a request that then
\* holds no copy, or keeps its entity.
LEMMA ContestsUpdate ==
  ASSUME Inv, Descent, NEW r \in Requests, Others(r), NEW id \in Ids, id = call[r].id, NEW row,
         BlindUpdate(id, row), UNCHANGED <<cache, born>>,
         pc'[r] \notin Holding \cup {"u_write", "d_delete"},
         pc'[r] \in Saving => entity'[r] \in CopiesOf(id) /\ call'[r].id = id,
         incidents[id] # Absent => /\ row # Absent /\ Fit(row)
                                   /\ row.createdBy = incidents[id].createdBy,
         incidents[id] # Absent /\ Contested!Write(id) /\ incidents'[id] = row => Contested!Next
  PROVE  Contests
<1>1. WriterOK(r)'
  BY DEF WriterOK
<1>2. CASE incidents[id] = Absent
  <2>1. NoWrite /\ \A s \in Stores, x \in Ids : cache'[s][x] = cache[s][x]
    BY <1>2 DEF BlindUpdate
  <2> QED
    BY <1>1, <2>1, ContestsQuiet
<1>3. CASE incidents[id] # Absent
  <2>1. Store(id, row) /\ row.assignedTo \in Assignable
    BY <1>3 DEF BlindUpdate, Fit
  <2>2. /\ Contested!Write(id) /\ incidents'[id] = row
        /\ \A x \in Ids \ {id} : incidents'[x] = incidents[x]
        /\ \A x \in Ids : assignees'[x] \subseteq Assignable
    BY <1>3, <2>1, ContestedWrite
  <2>3. \E origin \in CopiesOf(id) : row.createdBy = origin.createdBy
    BY <1>3, Copies
  <2>4. \A s \in Stores : cache'[s][id] \in CopiesOf(id) \cup {Absent}
    BY Copies
  <2>5. pc'[r] \in Saving => entity'[r] \in (CopiesOf(id) \cup {row}) \ {Absent}
    BY DEF CopiesOf
  <2>6. Descent'
    BY <1>1, <1>3, <2>2, <2>3, <2>4, <2>5, DescentStep
  <2> QED
    BY <1>3, <2>2, <2>6 DEF Contests
<1> QED
  BY <1>2, <1>3

LEMMA ContestsBegin ==
  ASSUME Inv, Descent, NEW r \in Requests, Begin(r)
  PROVE  Contests
<1>1. PICK label \in {"c_insert", "f_cache"} : Goto(r, label)
  BY DEF Begin
<1>2. Others(r) /\ NoWrite /\ UNCHANGED <<cache, born>>
  BY IncidentsAssumption DEF Inv, TypeOK, Others, Begin, Goto, locals
<1> QED
  BY <1>1, <1>2, ContestsProceed DEF Holding, Saving

LEMMA ContestsCreate ==
  ASSUME Inv, Descent, NEW r \in Requests, Create(r)
  PROVE  Contests
<1>1. CASE RejectCreate(r)
  BY <1>1, ContestsAnswer DEF RejectCreate, Answered
<1>2. CASE CreateCommit(r)
  BY <1>2, ContestsAnswer DEF CreateCommit, Answered
<1>3. CASE CreateInsert(r)
  <2> DEFINE assignee == IF "assignedTo" \in call[r].sets THEN call[r].assignedTo ELSE NoUser
             custom == IF "metadata" \in call[r].sets THEN call[r].custom ELSE NoText
             row == NewIncident(call[r].user, assignee, custom)
  <2>1. PICK id \in Ids \ born : /\ Store(id, row)
                                 /\ born' = born \cup {id}
                                 /\ call' = [call EXCEPT ![r].id = id]
    BY <1>3 DEF CreateInsert
  <2>2. Goto(r, "c_commit") /\ UNCHANGED <<cache, locals>> /\ ~UnknownAssignee(r)
    BY <1>3 DEF CreateInsert
  <2>3. call[r].user \in Users /\ assignee \in Assignable /\ custom \in Texts
    BY <2>2, EntityAssumption DEF Inv, TypeOK, Call, UnknownAssignee, Assignable
  <2>4. Fit(row) /\ row.assignedTo = assignee
    BY <2>3 DEF Fit, NewIncident
  <2>5. row \in Incident
    BY <2>3, EntityAssumption, IncidentsAssumption
    DEF NewIncident, Incident, IncidentStatus, Metadata, MaybeUser, Assignable
  <2>6. row # Absent
    BY <2>5, AbsentAssumption
  <2>7. /\ Contested!Write(id) /\ incidents'[id] = row
        /\ \A x \in Ids \ {id} : incidents'[x] = incidents[x]
        /\ \A x \in Ids : assignees'[x] \subseteq Assignable
    <3> HIDE DEF row
    <3> QED
      BY <2>1, <2>3, <2>4, <2>6, ContestedWrite
  <2>8. Others(r) /\ pc'[r] = "c_commit"
    BY <2>1, <2>2 DEF Inv, TypeOK, Others, Goto, locals
  <2>9. ASSUME NEW x \in Ids \ {id} PROVE Descends(x)
    <3>1. PICK found : found = CopiesOf(x)
      OBVIOUS
    <3>2. /\ incidents'[x] \in found \cup {Absent}
          /\ \A s \in Stores : cache'[s][x] \in found \cup {Absent}
      BY <2>2, <2>7, <3>1, Copies
    <3>3. pc'[r] \notin Holding \cup Saving
      BY <2>8 DEF Holding, Saving
    <3>4. CopiesOf(x)' \subseteq found
      BY <2>8, <3>1, <3>2, <3>3, CopiesAfter
    <3> QED
      BY <3>1, <3>4 DEF Descends, Descent, CopiesOK
  <2>10. FirstCopy(id)
    <3>1. CopiesOf(id) = {}
      BY <2>1 DEF Descent, CopiesOK
    <3>2. \A s \in Stores : cache'[s][id] = Absent
      BY <2>2, <3>1, Copies
    <3>3. pc'[r] \notin Holding \cup Saving
      BY <2>8 DEF Holding, Saving
    <3>4. PICK found : found = {row}
      OBVIOUS
    <3>5. /\ CopiesOf(id) \subseteq found /\ incidents'[id] \in found \cup {Absent}
          /\ \A s \in Stores : cache'[s][id] \in found \cup {Absent}
      BY <2>7, <3>1, <3>2, <3>4
    <3>6. CopiesOf(id)' \subseteq found
      BY <2>8, <3>3, <3>5, CopiesAfter
    <3> QED
      BY <2>1, <2>4, <3>4, <3>6 DEF FirstCopy
  <2>11. WriterOK(r)'
    BY <2>8 DEF WriterOK
  <2>12. Descent'
    BY <2>1, <2>7, <2>8, <2>9, <2>10, <2>11, DescentKept
  <2>13. \E u \in Users, t \in Texts : incidents'[id] = NewIncident(u, incidents'[id].assignedTo, t)
    BY <2>3, <2>4, <2>7
  <2>14. Contested!Create(id)
    BY <2>1, <2>7, <2>13 DEF Contested!Create, Contested!NewIncident, NewIncident
  <2> QED
    BY <2>12, <2>14 DEF Contests, Contested!Next
<1> QED
  BY <1>1, <1>2, <1>3 DEF Create

LEMMA ContestsFind ==
  ASSUME Inv, Descent, NEW r \in Requests, Find(r)
  PROVE  Contests
<1>1. PICK id \in Ids : id = call[r].id
  BY DEF Inv, TypeOK, Call
<1>2. StoreOf[r] \in Stores
  BY IncidentsAssumption
<1>3. ASSUME Others(r), pc'[r] \in Holding, call'[r] = call[r], incident'[r] \in CopiesOf(id),
             NoWrite, UNCHANGED born,
             \A s \in Stores, x \in Ids : \/ cache'[s][x] \in {cache[s][x], Absent}
                                          \/ x = id /\ cache'[s][x] \in CopiesOf(x)
      PROVE  Contests
  <2>1. WriterOK(r)' /\ pc'[r] \notin Saving
    BY <1>3 DEF WriterOK, Holding, Saving
  <2> QED
    BY <1>1, <1>3, <2>1, ContestsQuiet
<1>4. CASE FindCached(r)
  <2>1. /\ Others(r) /\ pc'[r] = "hit" /\ NoWrite /\ UNCHANGED <<cache, call, born>>
        /\ incident'[r] = cache[StoreOf[r]][id] /\ incident'[r] # Absent
    BY <1>1, <1>4 DEF Inv, TypeOK, Others, FindCached, Cached, Goto
  <2>2. incident'[r] \in CopiesOf(id)
    BY <1>2, <2>1, Copies
  <2> QED
    BY <1>3, <2>1, <2>2 DEF Holding
<1>5. CASE FindMiss(r)
  BY <1>5, ContestsProceed
  DEF FindMiss, Proceed, Goto, Others, Inv, TypeOK, locals, Holding, Saving
<1>6. CASE FindLoad(r)
  <2>1. /\ Others(r) /\ pc'[r] = "f_fill" /\ NoWrite /\ UNCHANGED <<cache, call, born>>
        /\ incident'[r] = incidents[id] /\ incident'[r] # Absent
    BY <1>1, <1>6 DEF Inv, TypeOK, Others, FindLoad, Goto
  <2>2. incident'[r] \in CopiesOf(id)
    BY <2>1, Copies
  <2> QED
    BY <1>3, <2>1, <2>2 DEF Holding
<1>7. CASE FindNothing(r)
  BY <1>7, ContestsAnswer DEF FindNothing, Answered
<1>8. CASE FindFill(r)
  <2>1. /\ Others(r) /\ pc[r] = "f_fill" /\ pc'[r] = "found" /\ NoWrite
        /\ UNCHANGED <<call, incident, born>>
    BY <1>8 DEF Inv, TypeOK, Others, FindFill, Proceed, Goto, locals
  <2>2. incident[r] \in CopiesOf(id)
    BY <1>1, <2>1, Copies DEF Holding
  <2>3. \A s \in Stores, x \in Ids : \/ cache'[s][x] = cache[s][x]
                                     \/ x = id /\ cache'[s][x] = incident[r]
    BY <1>1, <1>2, <1>8 DEF FindFill, Inv, TypeOK
  <2> QED
    BY <1>3, <2>1, <2>2, <2>3 DEF Holding
<1> QED
  BY <1>4, <1>5, <1>6, <1>7, <1>8 DEF Find

LEMMA ContestsUpdates ==
  ASSUME Inv, Descent, NEW r \in Requests, Update(r)
  PROVE  Contests
<1>1. PICK id \in Ids : id = call[r].id
  BY DEF Inv, TypeOK, Call
<1>2. CASE CheckUpdate(r)
  <2>1. CASE ~MayUpdate(r)
    BY <1>2, <2>1, ContestsAnswer DEF CheckUpdate, Answered
  <2>2. CASE MayUpdate(r)
    <3>1. /\ Others(r) /\ pc[r] \in {"hit", "found"} /\ pc'[r] = "u_write"
          /\ NoWrite /\ UNCHANGED <<cache, call, born>>
      BY <1>2, <2>2 DEF Inv, TypeOK, Others, CheckUpdate, Holds, Pass, Goto
    <3>2. incident[r] \in CopiesOf(id)
      BY <1>1, <3>1, Copies DEF Holding
    <3>3. /\ id \in born /\ ~UnknownAssignee(r)
          /\ \A row \in CopiesOf(id) : row.createdBy = call[r].user
      BY <2>2, <3>2 DEF MayUpdate, Descent, CopiesOK
    <3>4. \A row \in CopiesOf(id)' : row \in CopiesOf(id)
      <4>1. PICK found : found = CopiesOf(id)
        OBVIOUS
      <4>2. /\ incidents'[id] \in found \cup {Absent}
            /\ \A s \in Stores : cache'[s][id] \in found \cup {Absent}
        BY <3>1, <4>1, Copies DEF NoWrite
      <4>3. pc'[r] \notin Holding \cup Saving
        BY <3>1 DEF Holding, Saving
      <4> QED
        BY <3>1, <4>1, <4>2, <4>3, CopiesAfter
    <3>5. WriterOK(r)'
      BY <1>1, <3>1, <3>3, <3>4 DEF WriterOK, UnknownAssignee
    <3>6. pc'[r] \notin Holding \cup Saving
      BY <3>1 DEF Holding, Saving
    <3> QED
      BY <1>1, <3>1, <3>5, <3>6, ContestsQuiet
  <2> QED
    BY <2>1, <2>2
<1>3. CASE Reread(r)
  <2>1. CASE incidents[id] = Absent
    BY <1>1, <1>3, <2>1, ContestsAnswer DEF Reread, Answered
  <2>2. CASE incidents[id] # Absent
    BY <1>1, <1>3, <2>2, ContestsProceed
    DEF Reread, Proceed, Goto, Others, Inv, TypeOK, locals, Holding, Saving
  <2> QED
    BY <2>1, <2>2
<1>4. CASE UpdateWrite(r)
  <2> DEFINE assignee == IF "assignedTo" \in call[r].sets THEN call[r].assignedTo
                         ELSE incidents[id].assignedTo
             metadata == IF "metadata" \in call[r].sets
                         THEN [custom |-> call[r].custom, notes |-> NoText]
                         ELSE incidents[id].metadata
             row == [incidents[id] EXCEPT !.assignedTo = assignee, !.metadata = metadata]
  <2>1. /\ BlindUpdate(id, row) /\ pc[r] = "u_write" /\ Goto(r, "u_reread")
        /\ UNCHANGED <<call, locals, cache, born>>
    BY <1>1, <1>4 DEF UpdateWrite, Proceed
  <2>2. Others(r) /\ pc'[r] = "u_reread"
    BY <2>1 DEF Inv, TypeOK, Others, Goto, locals
  <2>3. pc'[r] \notin Holding \cup Saving \cup {"u_write", "d_delete"}
    BY <2>2 DEF Holding, Saving
  <2>4. ASSUME incidents[id] # Absent
        PROVE  /\ row # Absent /\ Fit(row) /\ row.createdBy = incidents[id].createdBy
               /\ \A c \in Columns \ {"assignedTo", "metadata"} : row[c] = incidents[id][c]
    <3>1. incidents[id] \in Incident /\ Fit(incidents[id])
      BY <2>4, Copies DEF Inv, TypeOK, Row, Descent, CopiesOK
    <3>2. assignee \in Assignable
      BY <2>1, <3>1 DEF Descent, WriterOK, UnknownAssignee, Fit
    <3>3. assignee \in MaybeUser /\ metadata \in Metadata
      BY <1>1, <3>1, EntityAssumption DEF Inv, TypeOK, Call, Metadata, Incident
    <3>4. row \in Incident
      BY <3>1, <3>3 DEF Incident
    <3>5. /\ row.assignedTo = assignee /\ row.createdBy = incidents[id].createdBy
          /\ row.resolvedBy = incidents[id].resolvedBy /\ row.closedBy = incidents[id].closedBy
          /\ row.status = incidents[id].status
          /\ row.acknowledgedBy = incidents[id].acknowledgedBy
      BY <3>1 DEF Incident
    <3> QED
      BY <3>1, <3>2, <3>4, <3>5, AbsentAssumption DEF Fit, Columns
  <2>5. ASSUME incidents[id] # Absent, Contested!Write(id), incidents'[id] = row
        PROVE  Contested!Next
    BY <2>1, <2>4, <2>5
    DEF Contested!Next, Contested!Edit, Contested!Only, Contested!Columns, Columns
  <2> HIDE DEF row
  <2> QED
    BY <1>1, <2>1, <2>2, <2>3, <2>4, <2>5, ContestsUpdate
<1> QED
  BY <1>2, <1>3, <1>4 DEF Update

\* Who acknowledged a fit row may be on record for it.
LEMMA KnownAcknowledger ==
  ASSUME Descent, NEW id \in Ids, NEW row, RowOK(id, row), row.status = "acknowledged"
  PROVE  row.acknowledgedBy \in Contested!Entitled(id)
<1>1. row.acknowledgedBy # NoUser /\ row.acknowledgedBy \in Entitled(id)
  BY DEF RowOK, AckFieldsOf
<1>2. assignees[id] \subseteq KnownUsers \cup {NoUser}
  BY DEF Descent, CopiesOK, Assignable
<1> QED
  BY <1>1, <1>2, IncidentsAssumption DEF Entitled, Contested!Entitled

\* What save leaves in the row: of a row found unacknowledged, status and user
\* together; of one found acknowledged, perhaps another user, or neither.
LEMMA ContestsSave ==
  ASSUME Inv, Descent, NEW r \in Requests, SaveUpdate(r)
  PROVE  Contests
<1> DEFINE e == entity[r]
<1>1. PICK id \in Ids : id = call[r].id
  BY DEF Inv, TypeOK, Call
<1> DEFINE row == Overwritten(incidents[id], e, cols[r])
<1>2. /\ pc[r] = "s_update" /\ AfterSave(r) /\ BlindUpdate(id, row) /\ UNCHANGED <<cache, born>>
  BY <1>1 DEF SaveUpdate
<1>3. /\ e \in Incident /\ e \in CopiesOf(id) /\ e.status = "acknowledged" /\ RowOK(id, e)
      /\ SaveOK(id, cols[r])
  BY <1>1, <1>2, Copies DEF Inv, TypeOK, RequestOK, Saving, Row
<1>4. /\ Others(r) /\ call' = call /\ entity' = entity /\ pc'[r] \in {"invalidate", "n_write"}
  BY <1>2 DEF Inv, TypeOK, Others, AfterSave, Goto
<1>5. pc'[r] \notin Holding \cup {"u_write", "d_delete"}
  BY <1>4 DEF Holding
<1>6. ASSUME incidents[id] # Absent
      PROVE  /\ row # Absent /\ Fit(row) /\ row.createdBy = incidents[id].createdBy
             /\ row.resolvedBy = incidents[id].resolvedBy /\ row.closedBy = incidents[id].closedBy
  <2>1. incidents[id] \in CopiesOf(id) /\ incidents[id] \in Incident
    BY <1>6, Copies DEF Inv, TypeOK, Row
  <2>2. Fit(incidents[id]) /\ Fit(e) /\ e.createdBy = incidents[id].createdBy
    BY <1>3, <2>1 DEF Descent, CopiesOK
  <2>3. /\ row.assignedTo \in {e.assignedTo, incidents[id].assignedTo}
        /\ row.createdBy \in {e.createdBy, incidents[id].createdBy}
        /\ row.resolvedBy \in {e.resolvedBy, incidents[id].resolvedBy}
        /\ row.closedBy \in {e.closedBy, incidents[id].closedBy}
    BY DEF Overwritten
  <2>4. row \in Incident
    BY <1>3, <2>1 DEF Overwritten, Incident
  <2> QED
    BY <2>2, <2>3, <2>4, AbsentAssumption DEF Fit
<1>7. ASSUME incidents[id] # Absent, Contested!Write(id), incidents'[id] = row
      PROVE  Contested!Next
  <2>1. CASE "acknowledgedBy" \in cols[r]
    <3>1. row.status = "acknowledged"
      BY <1>3, <1>7 DEF Overwritten, SaveOK, Settled
    <3>2. row.acknowledgedBy \in Contested!Entitled(id)
      BY <1>3, <2>1, KnownAcknowledger DEF Overwritten
    <3>3. \A c \in Columns \ {"status", "acknowledgedBy", "assignedTo", "metadata"} :
            row[c] = incidents[id][c]
      <4> HIDE DEF row
      <4> QED
        BY <1>6, <1>7 DEF Columns
    <3>4. Contested!Acknowledge(id)
      <4> HIDE DEF row
      <4> QED
        BY <1>2, <1>7, <3>1, <3>2, <3>3
        DEF Contested!Acknowledge, Contested!AcknowledgedIn, Contested!Only, Contested!Columns,
            Columns
    <3> QED
      BY <3>4 DEF Contested!Next
  <2>2. CASE "acknowledgedBy" \notin cols[r]
    <3>1. "status" \notin cols[r]
      BY <1>3, <2>2 DEF SaveOK
    <3>2. row.status = incidents[id].status /\ row.acknowledgedBy = incidents[id].acknowledgedBy
      BY <2>2, <3>1 DEF Overwritten
    <3>3. \A c \in Columns \ {"assignedTo", "metadata"} : row[c] = incidents[id][c]
      <4> HIDE DEF row
      <4> QED
        BY <1>6, <1>7, <3>2 DEF Columns
    <3>4. Contested!Edit(id)
      <4> HIDE DEF row
      <4> QED
        BY <1>2, <1>7, <3>3 DEF Contested!Edit, Contested!Only, Contested!Columns, Columns
    <3> QED
      BY <3>4 DEF Contested!Next
  <2> QED
    BY <2>1, <2>2
<1> HIDE DEF row
<1> QED
  BY <1>1, <1>2, <1>3, <1>4, <1>5, <1>6, <1>7, ContestsUpdate

\* An entity whose row is gone is inserted, acknowledged.
LEMMA ContestsInsert ==
  ASSUME Inv, Descent, NEW r \in Requests, SaveInsert(r)
  PROVE  Contests
<1> DEFINE e == entity[r]
<1>1. PICK id \in Ids : id = call[r].id
  BY DEF Inv, TypeOK, Call
<1>2. CASE incidents[id] # Absent
  BY <1>1, <1>2, ContestsAnswer DEF SaveInsert, Answered
<1>3. CASE incidents[id] = Absent
  <2>1. /\ pc[r] = "s_insert" /\ Store(id, e) /\ AfterSave(r) /\ UNCHANGED <<cache, born>>
    BY <1>1, <1>3 DEF SaveInsert
  <2>2. /\ e # Absent /\ e \in CopiesOf(id) /\ e.status = "acknowledged" /\ RowOK(id, e)
        /\ id \in born
    BY <1>1, <2>1, Copies DEF Inv, RequestOK, Saving
  <2>3. Fit(e)
    BY <2>2 DEF Descent, CopiesOK
  <2>4. Others(r) /\ call' = call /\ entity' = entity /\ pc'[r] \in {"invalidate", "n_write"}
    BY <2>1 DEF Inv, TypeOK, Others, AfterSave, Goto
  <2>5. /\ Contested!Write(id) /\ incidents'[id] = e
        /\ \A x \in Ids \ {id} : incidents'[x] = incidents[x]
        /\ \A x \in Ids : assignees'[x] \subseteq Assignable
    BY <2>1, <2>2, <2>3, ContestedWrite DEF Fit
  <2>6. e.acknowledgedBy \in Contested!Entitled(id)
    BY <2>2, KnownAcknowledger
  <2>7. Contested!Restore(id)
    BY <1>3, <2>1, <2>2, <2>3, <2>5, <2>6
    DEF Fit, Contested!Restore, Contested!AcknowledgedIn
  <2>8. PICK new : new = Absent
    OBVIOUS
  <2>9. WriterOK(r)' /\ pc'[r] \notin Holding /\ call'[r].id = id
    BY <1>1, <2>4 DEF WriterOK, Holding
  <2>10. /\ incidents'[id] \in CopiesOf(id) \cup {new, Absent}
         /\ entity'[r] \in (CopiesOf(id) \cup {new}) \ {Absent}
         /\ \A s \in Stores : cache'[s][id] \in CopiesOf(id) \cup {Absent}
         /\ \A s \in Stores, x \in Ids \ {id} : cache'[s][x] = cache[s][x]
    BY <2>1, <2>2, <2>4, <2>5, Copies
  <2>11. Descent'
    BY <2>1, <2>4, <2>5, <2>8, <2>9, <2>10, DescentStep
  <2> QED
    BY <2>7, <2>11 DEF Contests, Contested!Next
<1> QED
  BY <1>2, <1>3

LEMMA ContestsNotes ==
  ASSUME Inv, Descent, NEW r \in Requests, NotesWrite(r)
  PROVE  Contests
<1>1. PICK id \in Ids : id = call[r].id
  BY DEF Inv, TypeOK, Call
<1> DEFINE metadata == [custom |-> entity[r].metadata.custom, notes |-> call[r].notes]
           row == [incidents[id] EXCEPT !.metadata = metadata]
<1>2. /\ pc[r] = "n_write" /\ BlindUpdate(id, row) /\ UNCHANGED <<cache, born>>
  BY <1>1 DEF NotesWrite
<1>3. Others(r) /\ pc'[r] = "n_reread"
  BY DEF Inv, TypeOK, Others, NotesWrite, Goto
<1>4. pc'[r] \notin Holding \cup Saving \cup {"u_write", "d_delete"}
  BY <1>3 DEF Holding, Saving
<1>5. ASSUME incidents[id] # Absent
      PROVE  /\ row # Absent /\ Fit(row) /\ row.createdBy = incidents[id].createdBy
             /\ \A c \in Columns \ {"assignedTo", "metadata"} : row[c] = incidents[id][c]
  <2>1. incidents[id] \in Incident /\ Fit(incidents[id])
    BY <1>5, Copies DEF Inv, TypeOK, Row, Descent, CopiesOK
  <2>2. metadata \in Metadata
    BY <1>2 DEF Inv, TypeOK, RequestOK, Saving, Row, Call, Incident, Metadata
  <2>3. row \in Incident
    BY <2>1, <2>2 DEF Incident
  <2>4. /\ row.assignedTo = incidents[id].assignedTo /\ row.createdBy = incidents[id].createdBy
        /\ row.resolvedBy = incidents[id].resolvedBy /\ row.closedBy = incidents[id].closedBy
        /\ row.status = incidents[id].status
        /\ row.acknowledgedBy = incidents[id].acknowledgedBy
    BY <2>1 DEF Incident
  <2> QED
    BY <2>1, <2>3, <2>4, AbsentAssumption DEF Fit, Columns
<1>6. ASSUME incidents[id] # Absent, Contested!Write(id), incidents'[id] = row
      PROVE  Contested!Next
  BY <1>2, <1>5, <1>6
  DEF Contested!Next, Contested!Edit, Contested!Only, Contested!Columns, Columns
<1> HIDE DEF row
<1> QED
  BY <1>1, <1>2, <1>3, <1>4, <1>5, <1>6, ContestsUpdate

LEMMA ContestsAcknowledge ==
  ASSUME Inv, Descent, NEW r \in Requests, Acknowledge(r)
  PROVE  Contests
<1>1. PICK id \in Ids : id = call[r].id
  BY DEF Inv, TypeOK, Call
<1>2. CASE CheckAcknowledge(r)
  <2>1. CASE NoMethod(r) \/ ~MayAcknowledge(r)
    BY <1>2, <2>1, ContestsAnswer DEF CheckAcknowledge, Answered
  <2>2. CASE ~NoMethod(r) /\ MayAcknowledge(r)
    BY <1>2, <2>2, ContestsProceed
    DEF CheckAcknowledge, Pass, Goto, Others, Inv, TypeOK, Holding, Saving
  <2> QED
    BY <2>1, <2>2
<1>3. CASE TransitionFind(r)
  <2> DEFINE e == Transitioned(incidents[id], "acknowledged", call[r].user)
  <2>1. /\ entity' = [entity EXCEPT ![r] = e] /\ pc[r] = "t_find" /\ Goto(r, "s_load") /\ NoWrite
        /\ UNCHANGED <<cache, call, incident, cols, born>> /\ incidents[id] # Absent
    BY <1>1, <1>3 DEF TransitionFind, TransitionAllowed
  <2>2. Others(r) /\ pc'[r] = "s_load" /\ entity'[r] = e
    BY <2>1 DEF Inv, TypeOK, Others, Goto
  <2>3. incidents[id] \in Incident /\ incidents[id] \in CopiesOf(id) /\ Fit(incidents[id])
    BY <2>1, Copies DEF Inv, TypeOK, Row, Descent, CopiesOK
  <2>4. Fit(e) /\ e.createdBy = incidents[id].createdBy
    BY <2>3 DEF Transitioned, Incident, Fit
  <2>5. e # Absent
    <3>1. call[r].user \in Users
      BY DEF Inv, TypeOK, Call
    <3>2. e \in Incident
      BY <2>3, <3>1 DEF Transitioned, Incident, IncidentStatus, MaybeUser
    <3> QED
      BY <3>2, AbsentAssumption
  <2>6. /\ \A x \in Ids : incidents'[x] = incidents[x] /\ assignees'[x] \subseteq Assignable
        /\ \A s \in Stores, x \in Ids : cache'[s][x] = cache[s][x]
        /\ \A s \in Stores : cache'[s][id] \in CopiesOf(id) \cup {Absent}
        /\ UNCHANGED <<incidents, born, assignees>>
    BY <2>1, Copies DEF NoWrite, Descent, CopiesOK
  <2>7. WriterOK(r)' /\ pc'[r] \notin Holding /\ call'[r].id = id
    BY <1>1, <2>1, <2>2 DEF WriterOK, Holding
  <2>8. Descent'
    <3> HIDE DEF e
    <3> QED
      BY <2>2, <2>3, <2>4, <2>5, <2>6, <2>7, DescentStep
  <2> QED
    BY <2>6, <2>8 DEF Contests
<1>4. CASE TransitionReject(r)
  BY <1>4, ContestsAnswer DEF TransitionReject, Answered
<1>5. CASE SaveLoad(r)
  <2>1. /\ Others(r) /\ pc[r] = "s_load" /\ pc'[r] \in {"s_insert", "s_update"} /\ NoWrite
        /\ UNCHANGED <<cache, call, entity, born>>
    BY <1>5 DEF Inv, TypeOK, Others, SaveLoad, Proceed, Goto, locals
  <2>2. entity[r] \in CopiesOf(id)
    BY <1>1, <2>1, Copies DEF Saving
  <2>3. WriterOK(r)' /\ pc'[r] \notin Holding
    BY <2>1 DEF WriterOK, Holding
  <2> QED
    BY <1>1, <2>1, <2>2, <2>3, ContestsQuiet
<1> QED
  BY <1>2, <1>3, <1>4, <1>5, ContestsSave, ContestsInsert, ContestsNotes DEF Acknowledge

LEMMA ContestsDelete ==
  ASSUME Inv, Descent, NEW r \in Requests, CheckDelete(r) \/ Delete(r)
  PROVE  Contests
<1>1. PICK id \in Ids : id = call[r].id
  BY DEF Inv, TypeOK, Call
<1>2. CASE CheckDelete(r)
  <2>1. CASE ~MayDelete(r)
    BY <1>2, <2>1, ContestsAnswer DEF CheckDelete, Answered
  <2>2. CASE MayDelete(r)
    <3>1. /\ Others(r) /\ pc[r] \in {"hit", "found"} /\ pc'[r] = "d_delete"
          /\ NoWrite /\ UNCHANGED <<cache, call, born>>
      BY <1>2, <2>2 DEF Inv, TypeOK, Others, CheckDelete, Holds, Pass, Goto
    <3>2. incident[r] \in CopiesOf(id)
      BY <1>1, <3>1, Copies DEF Holding
    <3>3. /\ id \in born
          /\ \A row \in CopiesOf(id) : row.createdBy = call[r].user \/ call[r].user \in Admins
      BY <2>2, <3>2 DEF MayDelete, Descent, CopiesOK
    <3>4. pc'[r] \notin Holding \cup Saving
      BY <3>1 DEF Holding, Saving
    <3>5. \A row \in CopiesOf(id)' : row \in CopiesOf(id)
      <4>1. PICK found : found = CopiesOf(id)
        OBVIOUS
      <4>2. /\ incidents'[id] \in found \cup {Absent}
            /\ \A s \in Stores : cache'[s][id] \in found \cup {Absent}
        BY <3>1, <4>1, Copies DEF NoWrite
      <4> QED
        BY <3>1, <3>4, <4>1, <4>2, CopiesAfter
    <3>6. WriterOK(r)'
      BY <1>1, <3>1, <3>3, <3>5 DEF WriterOK
    <3> QED
      BY <1>1, <3>1, <3>4, <3>6, ContestsQuiet
  <2> QED
    BY <2>1, <2>2
<1>3. CASE Delete(r) /\ incidents[id] = Absent
  BY <1>1, <1>3, ContestsAnswer DEF Delete, Answered
<1>4. CASE Delete(r) /\ incidents[id] # Absent
  <2>1. /\ Store(id, Absent) /\ Goto(r, "invalidate") /\ UNCHANGED <<call, locals, cache, born>>
    BY <1>1, <1>4 DEF Delete, Proceed
  <2>2. Others(r) /\ pc'[r] = "invalidate"
    BY <2>1 DEF Inv, TypeOK, Others, Goto, locals
  <2>3. /\ incidents' = [incidents EXCEPT ![id] = Absent] /\ assignees' = assignees
    BY <2>1 DEF Inv, TypeOK, Store
  <2>4. \A x \in Ids : /\ incidents'[x] \in {incidents[x], Absent}
                      /\ assignees'[x] \subseteq Assignable
    BY <2>3 DEF Inv, TypeOK, Descent, CopiesOK
  <2>5. Contested!Delete(id)
    BY <1>4, <2>1, <2>3 DEF Contested!Delete
  <2>6. WriterOK(r)' /\ pc'[r] \notin Holding \cup Saving
    BY <2>2 DEF WriterOK, Holding, Saving
  <2>7. PICK new : new = Absent
    OBVIOUS
  <2>8. /\ incidents'[id] \in CopiesOf(id) \cup {new, Absent}
        /\ \A s \in Stores : cache'[s][id] \in CopiesOf(id) \cup {Absent}
        /\ \A s \in Stores, x \in Ids \ {id} : cache'[s][x] = cache[s][x]
    BY <2>1, <2>4, Copies
  <2>9. Descent'
    BY <2>1, <2>2, <2>4, <2>6, <2>7, <2>8, DescentStep
  <2> QED
    BY <2>5, <2>9 DEF Contests, Contested!Next
<1> QED
  BY <1>2, <1>3, <1>4

LEMMA ContestsInvalidate ==
  ASSUME Inv, Descent, NEW r \in Requests, Invalidate(r)
  PROVE  Contests
<1>1. StoreOf[r] \in Stores /\ call[r].id \in Ids
  BY IncidentsAssumption DEF Inv, TypeOK, Call
<1>2. \A s \in Stores, x \in Ids : cache'[s][x] \in {cache[s][x], Absent}
  BY <1>1 DEF Invalidate, Inv, TypeOK
<1> QED
  BY <1>2, ContestsAnswer DEF Invalidate, Answered

\* A step that leaves all but the caches alone, and these emptier.
LEMMA ContestsExpire ==
  ASSUME Inv, Descent, UNCHANGED <<incidents, pc, call, incident, entity, born, assignees>>,
         \A s \in Stores, x \in Ids : cache'[s][x] \in {cache[s][x], Absent}
  PROVE  Contests
<1>1. ASSUME NEW id \in Ids PROVE CopiesOf(id)' \subseteq CopiesOf(id)
  BY DEF CopiesOf
<1>2. \A id \in Ids : CopiesOK(id)'
  BY <1>1 DEF Descent, CopiesOK
<1>3. ASSUME NEW r \in Requests PROVE WriterOK(r)'
  <2>1. call[r].id \in Ids
    BY DEF Inv, TypeOK, Call
  <2> QED
    BY <1>1, <2>1 DEF Descent, WriterOK, UnknownAssignee
<1> QED
  BY <1>2, <1>3 DEF Contests, Descent

LEMMA ContestsNext == Inv /\ Descent /\ [Next]_vars => Contests
<1> SUFFICES ASSUME Inv, Descent, [Next]_vars PROVE Contests
  OBVIOUS
<1>1. CASE UNCHANGED vars
  BY <1>1, ContestsExpire DEF vars, locals
<1>2. ASSUME NEW r \in Requests, Serve(r) PROVE Contests
  <2>1. CASE Get(r)
    BY <2>1, ContestsAnswer DEF Get, Answered
  <2> QED
    BY <1>2, <2>1, ContestsCreate, ContestsFind, ContestsUpdates, ContestsAcknowledge,
       ContestsDelete, ContestsInvalidate
    DEF Serve
<1>3. ASSUME NEW r \in Requests, DatabaseError(r) \/ Crash(r) PROVE Contests
  BY <1>3, ContestsAnswer DEF DatabaseError, Crash, Answered
<1>4. ASSUME NEW s \in Stores, NEW id \in Ids, CacheExpire(s, id) PROVE Contests
  <2>1. /\ \A t \in Stores, x \in Ids : cache'[t][x] \in {cache[t][x], Absent}
        /\ UNCHANGED <<incidents, pc, call, incident, entity, born, assignees>>
    BY <1>4 DEF CacheExpire, Inv, TypeOK, locals
  <2> QED
    BY <2>1, ContestsExpire
<1> QED
  BY <1>1, <1>2, <1>3, <1>4, ContestsBegin DEF Next

LEMMA InitDescent == Init => Descent
<1> SUFFICES ASSUME Init PROVE Descent
  OBVIOUS
<1>1. ASSUME NEW r \in Requests PROVE WriterOK(r) /\ pc[r] \notin Holding \cup Saving
  BY DEF Init, WriterOK, Holding, Saving
<1>2. ASSUME NEW id \in Ids PROVE CopiesOK(id)
  <2>1. CopiesOf(id) = {incidents[id]} \ {Absent}
    BY <1>1 DEF Init, CopiesOf
  <2>2. incidents[id] # Absent => Fit(incidents[id])
    BY ExistingAssumption DEF Init, Fit, NewIncident
  <2> QED
    BY <2>1, <2>2 DEF Init, CopiesOK, Fit
<1> QED
  BY <1>1, <1>2 DEF Descent

LEMMA DescentInvariance == Spec => []Descent
<1>1. Inv /\ Descent /\ [Next]_vars => Descent'
  BY ContestsNext DEF Contests
<1> QED
  BY <1>1, InitDescent, Invariance, PTL DEF Spec

\* A creator's or an admin's permission that was checked on an old copy, in a
\* cache that was never told of later changes, holds for the incident that is
\* there when the write comes, even one deleted and inserted again meanwhile.
THEOREM WritersAlwaysEntitled == Spec => []WritesEntitled
<1>1. Inv /\ Descent => WritesEntitled
  <2> SUFFICES ASSUME Inv, Descent, NEW r \in Requests, incidents[call[r].id] # Absent
               PROVE  /\ pc[r] = "u_write" => incidents[call[r].id].createdBy = call[r].user
                      /\ pc[r] = "d_delete" => \/ incidents[call[r].id].createdBy = call[r].user
                                               \/ call[r].user \in Admins
    BY DEF WritesEntitled
  <2>1. call[r].id \in Ids
    BY DEF Inv, TypeOK, Call
  <2>2. incidents[call[r].id] \in CopiesOf(call[r].id)
    BY <2>1, Copies
  <2> QED
    BY <2>2 DEF Descent, WriterOK
<1> QED
  BY <1>1, Invariance, DescentInvariance, PTL

\* Whatever races, is stale, fails or stops half-way, each step the table takes
\* is one of the contested board's: created once, edited, acknowledged with
\* the name of somebody entitled, deleted, or brought back acknowledged.
THEOREM AlwaysImplementsContested == Spec => ImplementsContested
<1>1. Init => Contested!Init
  <2> SUFFICES ASSUME Init PROVE Contested!Init
    OBVIOUS
  <2>1. incidents \in [Ids -> {Absent} \cup
                          {NewIncident(u, a, t) : u \in Users, a \in Assignable, t \in Texts}]
    BY ExistingAssumption DEF Init
  <2> QED
    BY <2>1 DEF Init, Contested!Init, Contested!Assignable, Assignable,
                Contested!NewIncident, NewIncident
<1>2. Inv /\ Descent /\ [Next]_vars => [Contested!Next]_(Contested!vars)
  BY ContestsNext DEF Contests, Contested!vars
<1> QED
  BY <1>1, <1>2, Invariance, DescentInvariance, PTL DEF Spec, ImplementsContested, Contested!Spec
-----------------------------------------------------------------------------
(* One request at a time, one cache, no faults: the cache is fresh. *)

Fresh(id) == \A s \in Stores : cache[s][id] \in {Absent, incidents[id]}

\* The request has written this row and has yet to invalidate its entry.  (A
\* row that is gone by the reread was gone before: nothing was written.)
Owes(r, id) == /\ call[r].id = id
               /\ \/ pc[r] = "invalidate"
                  \/ pc[r] \in {"u_reread", "n_write", "n_reread"} /\ incidents[id] # Absent

\* What holds between the steps of the request in progress.
SerialInv == /\ \A r, q \in Requests : pc[r] \in InProgress /\ pc[q] \in InProgress => r = q
             /\ \A id \in Ids : Fresh(id) \/ \E r \in Requests : Owes(r, id)
             /\ \A r \in Requests : pc[r] = "f_fill" => incident[r] = incidents[call[r].id]

\* The request in progress alone can owe.
LEMMA OnlyOneOwes ==
  ASSUME Inv, SerialInv, NEW r \in Requests, pc[r] \in InProgress, NEW id \in Ids
  PROVE  Fresh(id) \/ Owes(r, id)
<1>1. \A q \in Requests : Owes(q, id) => q = r
  BY DEF Inv, TypeOK, SerialInv, Owes, InProgress, Answered
<1> QED
  BY <1>1 DEF SerialInv

\* A step of one request while the others have been answered.
LEMMA SerialStep ==
  ASSUME Inv, SerialInv, NEW r \in Requests, Others(r),
         \A q \in Requests \ {r} : pc[q] \in Answered,
         \A id \in Ids : Fresh(id)' \/ Owes(r, id)',
         pc'[r] = "f_fill" => incident'[r] = incidents'[call'[r].id]
  PROVE  SerialInv'
<1>1. \A q \in Requests \ {r} : pc'[q] \in Answered
  BY DEF Others
<1> QED
  BY <1>1 DEF SerialInv, InProgress, Answered

LEMMA OthersAnswered ==
  ASSUME Inv, SerialInv, NEW r \in Requests, pc[r] \in InProgress
  PROVE  \A q \in Requests \ {r} : pc[q] \in Answered
BY DEF Inv, TypeOK, SerialInv

\* A step that writes nothing, of a request that owes nothing.
LEMMA SerialQuietStep ==
  ASSUME Inv, SerialInv, NEW r \in Requests, Others(r), pc[r] \in InProgress,
         pc[r] \notin {"u_reread", "n_write", "n_reread", "invalidate"},
         UNCHANGED <<incidents, cache>>,
         pc'[r] = "f_fill" => incident'[r] = incidents[call'[r].id]
  PROVE  SerialInv'
<1>1. \A id \in Ids : Fresh(id)
  BY OnlyOneOwes DEF Owes
<1>2. \A id \in Ids : Fresh(id)'
  BY <1>1 DEF Fresh
<1> QED
  BY <1>2, OthersAnswered, SerialStep

\* A step that leaves the cache alone and the rows of all other incidents.
LEMMA SerialWriteStep ==
  ASSUME Inv, SerialInv, NEW r \in Requests, Others(r), pc[r] \in InProgress,
         NEW id \in Ids, call[r].id = id, UNCHANGED cache,
         \A x \in Ids \ {id} : incidents'[x] = incidents[x],
         Fresh(id)' \/ Owes(r, id)', pc'[r] # "f_fill"
  PROVE  SerialInv'
<1>1. \A x \in Ids \ {id} : Fresh(x)
  BY OnlyOneOwes DEF Owes
<1>2. \A x \in Ids \ {id} : Fresh(x)'
  BY <1>1 DEF Fresh
<1> QED
  BY <1>2, OthersAnswered, SerialStep

\* An update that finds the row leaves a row; one that does not, leaves all.
LEMMA RowRemains ==
  ASSUME Inv, NEW id \in Ids, NEW row, incidents[id] # Absent => row \in Incident,
         BlindUpdate(id, row)
  PROVE  /\ \A x \in Ids \ {id} : incidents'[x] = incidents[x]
         /\ IF incidents[id] = Absent THEN incidents' = incidents ELSE incidents'[id] # Absent
BY AbsentAssumption DEF Inv, TypeOK, BlindUpdate, NoWrite, Store

\* An answer to a request that owes nothing, and a step past the lookup.
LEMMA SerialAnswerStep ==
  ASSUME Inv, SerialInv, NEW r \in Requests, NEW how \in Answered, Answer(r, how),
         pc[r] \in InProgress,
         pc[r] \notin {"u_reread", "n_write", "n_reread", "invalidate"},
         UNCHANGED <<incidents, cache>>
  PROVE  SerialInv'
<1>1. Others(r) /\ pc'[r] = how /\ how # "f_fill"
  BY DEF Inv, TypeOK, Others, Answer, Goto, Answered
<1> QED
  BY <1>1, SerialQuietStep

LEMMA SerialMoveStep ==
  ASSUME Inv, SerialInv, NEW r \in Requests, NEW label, Goto(r, label), label # "f_fill",
         pc[r] \in InProgress,
         pc[r] \notin {"u_reread", "n_write", "n_reread", "invalidate"},
         UNCHANGED <<incidents, cache, call>>,
         incident' = incident \/ \E x : incident' = [incident EXCEPT ![r] = x],
         entity' = entity \/ \E x : entity' = [entity EXCEPT ![r] = x],
         cols' = cols \/ \E x : cols' = [cols EXCEPT ![r] = x]
  PROVE  SerialInv'
<1>1. Others(r) /\ pc'[r] = label
  BY DEF Inv, TypeOK, Others, Goto
<1> QED
  BY <1>1, SerialQuietStep

LEMMA SerialBegin ==
  ASSUME Inv, SerialInv, Serial, NEW r \in Requests, Begin(r)
  PROVE  SerialInv'
<1>1. \A q \in Requests : pc[q] \in Answered
  BY DEF Begin
<1>2. /\ Others(r) /\ pc'[r] \in {"c_insert", "f_cache"}
      /\ UNCHANGED <<incidents, cache>>
  BY IncidentsAssumption DEF Inv, TypeOK, Others, Begin, Goto, NoWrite, locals
<1>3. \A id \in Ids : Fresh(id)
  BY <1>1 DEF SerialInv, Owes, Answered
<1>4. \A id \in Ids : Fresh(id)'
  BY <1>2, <1>3 DEF Fresh
<1> QED
  BY <1>1, <1>2, <1>4, SerialStep

LEMMA SerialCreate ==
  ASSUME Inv, SerialInv, NEW r \in Requests, Create(r)
  PROVE  SerialInv'
<1>1. CASE RejectCreate(r)
  BY <1>1, SerialAnswerStep DEF RejectCreate, NoWrite, Answered, InProgress
<1>2. CASE CreateCommit(r)
  BY <1>2, SerialAnswerStep DEF CreateCommit, NoWrite, Answered, InProgress
<1>3. CASE CreateInsert(r)
  <2>0. PICK id \in Ids \ born :
          /\ \E row : Store(id, row)
          /\ call' = [call EXCEPT ![r].id = id]
    BY <1>3 DEF CreateInsert
  <2>1. /\ call' = [call EXCEPT ![r].id = id]
        /\ pc[r] = "c_insert" /\ Goto(r, "c_commit") /\ UNCHANGED <<cache, locals>>
    BY <1>3, <2>0 DEF CreateInsert
  <2>2. Others(r) /\ pc'[r] = "c_commit" /\ pc[r] \in InProgress
    BY <2>1 DEF Inv, TypeOK, Others, Goto, locals, InProgress
  <2>3. incidents[id] = Absent
    BY DEF Inv, TableOK
  <2>4. \A x \in Ids : Fresh(x)
    BY <2>1, <2>2, OnlyOneOwes DEF Owes
  <2>5. \A x \in Ids \ {id} : incidents'[x] = incidents[x]
    BY <2>0 DEF Inv, TypeOK, Store
  <2>6. \A x \in Ids : Fresh(x)'
    BY <2>1, <2>3, <2>4, <2>5 DEF Fresh
  <2> QED
    BY <2>2, <2>6, OthersAnswered, SerialStep
<1> QED
  BY <1>1, <1>2, <1>3 DEF Create

\* What is filled in is what the table holds: nobody wrote since it was read.
LEMMA SerialFind ==
  ASSUME Inv, SerialInv, Faults = {}, NEW r \in Requests, Find(r)
  PROVE  SerialInv'
<1>1. CASE FindCached(r)
  BY <1>1, SerialMoveStep DEF FindCached, NoWrite, InProgress
<1>2. CASE FindMiss(r)
  BY <1>2, SerialMoveStep DEF FindMiss, Proceed, locals, NoWrite, InProgress
<1>3. CASE FindLoad(r)
  <2>1. /\ Others(r) /\ pc[r] = "f_load" /\ UNCHANGED <<incidents, cache, call>>
        /\ incident'[r] = incidents[call[r].id]
    BY <1>3 DEF Inv, TypeOK, FindLoad, Others, Goto, NoWrite
  <2> QED
    BY <2>1, SerialQuietStep DEF InProgress
<1>4. CASE FindNothing(r)
  BY <1>4, SerialAnswerStep DEF FindNothing, NoWrite, Answered, InProgress
<1>5. CASE FindFill(r)
  <2>1. /\ pc[r] = "f_fill" /\ Goto(r, "found") /\ UNCHANGED <<incidents, call, locals>>
        /\ cache' = [cache EXCEPT ![StoreOf[r]][call[r].id] = incident[r]]
    BY <1>5 DEF FindFill, Proceed, NoWrite
  <2>2. Others(r) /\ pc'[r] = "found" /\ pc[r] \in InProgress
    BY <2>1 DEF Inv, TypeOK, Others, Goto, locals, InProgress
  <2>3. incident[r] = incidents[call[r].id]
    BY <2>1 DEF SerialInv
  <2>4. \A id \in Ids : Fresh(id)
    BY <2>1, <2>2, OnlyOneOwes DEF Owes
  <2>5. \A s \in Stores, id \in Ids : cache'[s][id] \in {cache[s][id], incidents[id]}
    BY <2>1, <2>3 DEF Inv, TypeOK
  <2>6. \A id \in Ids : Fresh(id)'
    BY <2>1, <2>4, <2>5 DEF Fresh
  <2> QED
    BY <2>2, <2>6, OthersAnswered, SerialStep
<1> QED
  BY <1>1, <1>2, <1>3, <1>4, <1>5 DEF Find

LEMMA SerialUpdate ==
  ASSUME Inv, SerialInv, NEW r \in Requests, Update(r)
  PROVE  SerialInv'
<1>1. PICK id \in Ids : id = call[r].id
  BY DEF Inv, TypeOK, Call
<1>2. CASE CheckUpdate(r)
  BY <1>2, SerialAnswerStep, SerialMoveStep
  DEF CheckUpdate, Holds, Pass, NoWrite, Answered, InProgress
<1>3. CASE UpdateWrite(r)
  <2>1. PICK row :
          /\ BlindUpdate(id, row)
          /\ incidents[id] # Absent => row \in Incident
          /\ pc[r] = "u_write" /\ Goto(r, "u_reread") /\ UNCHANGED <<cache, call, locals>>
    <3> DEFINE assignee == IF "assignedTo" \in call[r].sets THEN call[r].assignedTo
                           ELSE incidents[id].assignedTo
               metadata == IF "metadata" \in call[r].sets
                           THEN [custom |-> call[r].custom, notes |-> NoText]
                           ELSE incidents[id].metadata
               row == [incidents[id] EXCEPT !.assignedTo = assignee, !.metadata = metadata]
    <3>1. /\ BlindUpdate(id, row)
          /\ pc[r] = "u_write" /\ Goto(r, "u_reread") /\ UNCHANGED <<cache, call, locals>>
      BY <1>1, <1>3 DEF UpdateWrite, Proceed
    <3>2. ASSUME incidents[id] # Absent PROVE row \in Incident
      <4>1. incidents[id] \in Incident
        BY <3>2 DEF Inv, TypeOK, Row
      <4>2. assignee \in MaybeUser /\ metadata \in Metadata
        BY <1>1, <4>1, EntityAssumption DEF Inv, TypeOK, Call, Metadata, Incident
      <4> QED
        BY <4>1, <4>2 DEF Incident
    <3> QED
      BY <3>1, <3>2
  <2>2. Others(r) /\ pc'[r] = "u_reread" /\ call' = call /\ pc[r] \in InProgress
    BY <2>1 DEF Inv, TypeOK, Others, Goto, locals, InProgress
  <2>3. /\ \A x \in Ids \ {id} : incidents'[x] = incidents[x]
        /\ IF incidents[id] = Absent THEN incidents' = incidents ELSE incidents'[id] # Absent
    BY <2>1, RowRemains
  <2>4. Fresh(id)
    BY <2>1, <2>2, OnlyOneOwes DEF Owes
  <2>5. Fresh(id)' \/ Owes(r, id)'
    BY <1>1, <2>1, <2>2, <2>3, <2>4 DEF Fresh, Owes
  <2> QED
    BY <1>1, <2>1, <2>2, <2>3, <2>5, SerialWriteStep
<1>4. CASE Reread(r)
  <2>1. /\ Others(r) /\ UNCHANGED <<incidents, cache>> /\ pc'[r] # "f_fill"
        /\ pc[r] \in {"u_reread", "n_reread"} /\ pc[r] \in InProgress
        /\ incidents[id] # Absent => pc'[r] = "invalidate" /\ call' = call
    BY <1>1, <1>4
    DEF Inv, TypeOK, Reread, Others, Answer, Proceed, Goto, NoWrite, locals, InProgress, Answered
  <2>2. Fresh(id)' \/ Owes(r, id)'
    BY <1>1, <2>1, OnlyOneOwes DEF Fresh, Owes
  <2> QED
    BY <1>1, <2>1, <2>2, SerialWriteStep
<1> QED
  BY <1>2, <1>3, <1>4 DEF Update

LEMMA SerialAcknowledge ==
  ASSUME Inv, SerialInv, NEW r \in Requests, Acknowledge(r)
  PROVE  SerialInv'
<1>1. PICK id \in Ids : id = call[r].id
  BY DEF Inv, TypeOK, Call
<1>2. CASE CheckAcknowledge(r)
  BY <1>2, SerialAnswerStep, SerialMoveStep
  DEF CheckAcknowledge, Holds, Pass, NoWrite, Answered, InProgress
<1>3. CASE TransitionFind(r)
  BY <1>3, SerialMoveStep DEF TransitionFind, NoWrite, InProgress
<1>4. CASE TransitionReject(r)
  BY <1>4, SerialAnswerStep DEF TransitionReject, NoWrite, Answered, InProgress
<1>5. CASE SaveLoad(r)
  BY <1>5, SerialMoveStep DEF SaveLoad, Proceed, locals, NoWrite, InProgress
<1>6. ASSUME pc[r] \in {"s_update", "s_insert"}, AfterSave(r), UNCHANGED cache,
             \A x \in Ids \ {id} : incidents'[x] = incidents[x],
             incidents' = incidents \/ incidents'[id] # Absent
      PROVE  SerialInv'
  <2>1. /\ Others(r) /\ pc'[r] \in {"invalidate", "n_write"} /\ call' = call
        /\ pc[r] \in InProgress
    BY <1>6 DEF Inv, TypeOK, Others, AfterSave, Goto, InProgress
  <2>2. Fresh(id)
    BY <1>6, <2>1, OnlyOneOwes DEF Owes
  <2>3. Fresh(id)' \/ Owes(r, id)'
    BY <1>1, <1>6, <2>1, <2>2 DEF Fresh, Owes
  <2> QED
    BY <1>1, <1>6, <2>1, <2>3, SerialWriteStep
<1>7. CASE SaveUpdate(r)
  <2> DEFINE row == Overwritten(incidents[id], entity[r], cols[r])
  <2>1. pc[r] = "s_update" /\ BlindUpdate(id, row) /\ AfterSave(r) /\ UNCHANGED cache
    BY <1>1, <1>7 DEF SaveUpdate
  <2>2. entity[r] \in Incident
    BY <2>1 DEF Inv, TypeOK, RequestOK, Saving, Row
  <2>3. incidents[id] # Absent => row \in Incident
    BY <2>2 DEF Inv, TypeOK, Row, Overwritten, Incident
  <2> QED
    BY <1>6, <2>1, <2>3, RowRemains
<1>8. CASE SaveInsert(r)
  <2>1. CASE incidents[id] # Absent
    BY <1>1, <1>8, <2>1, SerialAnswerStep DEF SaveInsert, NoWrite, Answered, InProgress
  <2>2. CASE incidents[id] = Absent
    <3>1. pc[r] = "s_insert" /\ Store(id, entity[r]) /\ AfterSave(r) /\ UNCHANGED cache
      BY <1>1, <1>8, <2>2 DEF SaveInsert
    <3>2. entity[r] # Absent
      BY <3>1 DEF Inv, RequestOK, Saving
    <3>3. /\ \A x \in Ids \ {id} : incidents'[x] = incidents[x]
          /\ incidents'[id] # Absent
      BY <3>1, <3>2 DEF Inv, TypeOK, Store
    <3> QED
      BY <1>6, <3>1, <3>3
  <2> QED
    BY <2>1, <2>2
<1>9. CASE NotesWrite(r)
  <2> DEFINE metadata == [custom |-> entity[r].metadata.custom, notes |-> call[r].notes]
             row == [incidents[id] EXCEPT !.metadata = metadata]
  <2>1. /\ pc[r] = "n_write" /\ BlindUpdate(id, row) /\ Goto(r, "n_reread")
        /\ entity' = [entity EXCEPT ![r] = Absent] /\ UNCHANGED <<call, incident, cols, cache>>
    BY <1>1, <1>9 DEF NotesWrite
  <2>2. entity[r] \in Incident /\ call[r].notes \in Texts
    BY <2>1 DEF Inv, TypeOK, RequestOK, Saving, Row, Call
  <2>3. metadata \in Metadata
    BY <2>2 DEF Incident, Metadata
  <2>4. incidents[id] # Absent => row \in Incident
    BY <2>3 DEF Inv, TypeOK, Row, Incident
  <2>5. /\ \A x \in Ids \ {id} : incidents'[x] = incidents[x]
        /\ IF incidents[id] = Absent THEN incidents' = incidents ELSE incidents'[id] # Absent
    BY <2>1, <2>4, RowRemains
  <2>6. Others(r) /\ pc'[r] = "n_reread" /\ pc[r] \in InProgress
    BY <2>1 DEF Inv, TypeOK, Others, Goto, InProgress
  <2>7. Fresh(id)' \/ Owes(r, id)'
    BY <1>1, <2>1, <2>5, <2>6, OnlyOneOwes DEF Fresh, Owes
  <2> QED
    BY <1>1, <2>1, <2>5, <2>6, <2>7, SerialWriteStep
<1> QED
  BY <1>2, <1>3, <1>4, <1>5, <1>7, <1>8, <1>9 DEF Acknowledge

LEMMA SerialDelete ==
  ASSUME Inv, SerialInv, NEW r \in Requests, CheckDelete(r) \/ Delete(r)
  PROVE  SerialInv'
<1>1. PICK id \in Ids : id = call[r].id
  BY DEF Inv, TypeOK, Call
<1>2. CASE CheckDelete(r)
  BY <1>2, SerialAnswerStep, SerialMoveStep
  DEF CheckDelete, Holds, Pass, NoWrite, Answered, InProgress
<1>3. CASE Delete(r) /\ incidents[id] = Absent
  BY <1>1, <1>3, SerialAnswerStep DEF Delete, NoWrite, Answered, InProgress
<1>4. CASE Delete(r) /\ incidents[id] # Absent
  <2>1. /\ Store(id, Absent) /\ Goto(r, "invalidate") /\ UNCHANGED <<call, locals, cache>>
        /\ pc[r] = "d_delete"
    BY <1>1, <1>4 DEF Delete, Proceed
  <2>2. /\ Others(r) /\ pc'[r] = "invalidate" /\ call' = call /\ pc[r] \in InProgress
        /\ \A x \in Ids \ {id} : incidents'[x] = incidents[x]
    BY <2>1 DEF Inv, TypeOK, Others, Goto, Store, locals, InProgress
  <2> QED
    BY <1>1, <2>1, <2>2, SerialWriteStep DEF Owes
<1> QED
  BY <1>2, <1>3, <1>4

\* Of one cache, the entry invalidated is the only one there is.
LEMMA SerialInvalidate ==
  ASSUME Inv, SerialInv, Faults = {}, NEW store, Stores = {store},
         NEW r \in Requests, Invalidate(r)
  PROVE  SerialInv'
<1>1. PICK id \in Ids : id = call[r].id
  BY DEF Inv, TypeOK, Call
<1>2. /\ pc[r] = "invalidate" /\ Answer(r, "ok") /\ UNCHANGED incidents
      /\ cache' = [cache EXCEPT ![StoreOf[r]][id] = Absent]
  BY <1>1 DEF Invalidate, NoWrite
<1>3. Others(r) /\ pc'[r] = "ok" /\ pc[r] \in InProgress
  BY <1>2 DEF Inv, TypeOK, Others, Answer, Goto, InProgress
<1>4. \A x \in Ids : Fresh(x)'
  <2>1. StoreOf[r] = store
    BY IncidentsAssumption
  <2>2. /\ \A s \in Stores : cache'[s][id] = Absent
        /\ \A s \in Stores, x \in Ids \ {id} : cache'[s][x] = cache[s][x]
    BY <1>2, <2>1 DEF Inv, TypeOK
  <2>3. \A x \in Ids \ {id} : Fresh(x)
    BY <1>1, <1>3, OnlyOneOwes DEF Owes
  <2> QED
    BY <1>2, <2>2, <2>3 DEF Fresh
<1> QED
  BY <1>3, <1>4, OthersAnswered, SerialStep

LEMMA SerialExpire ==
  ASSUME Inv, SerialInv, NEW s \in Stores, NEW id \in Ids, CacheExpire(s, id)
  PROVE  SerialInv'
<1>1. /\ \A t \in Stores, x \in Ids : cache'[t][x] \in {Absent, cache[t][x]}
      /\ UNCHANGED <<incidents, pc, call, incident>>
  BY DEF CacheExpire, Inv, TypeOK, locals
<1>2. \A x \in Ids : Fresh(x) => Fresh(x)'
  BY <1>1 DEF Fresh
<1> QED
  BY <1>1, <1>2 DEF SerialInv, Owes

LEMMA SerialNext ==
  ASSUME Serial, Faults = {}, NEW store, Stores = {store}
  PROVE  Inv /\ SerialInv /\ [Next]_vars => SerialInv'
<1> SUFFICES ASSUME Inv, SerialInv, [Next]_vars PROVE SerialInv'
  OBVIOUS
<1>1. CASE UNCHANGED vars
  BY <1>1 DEF vars, locals, SerialInv, Fresh, Owes
<1>2. ASSUME NEW r \in Requests, Serve(r) PROVE SerialInv'
  <2>1. CASE Get(r)
    BY <2>1, SerialAnswerStep DEF Get, Holds, NoWrite, Answered, InProgress
  <2> QED
    BY <1>2, <2>1, SerialCreate, SerialFind, SerialUpdate, SerialAcknowledge, SerialDelete,
       SerialInvalidate
    DEF Serve
<1>3. ASSUME NEW r \in Requests PROVE ~DatabaseError(r) /\ ~Crash(r)
  BY DEF DatabaseError, Crash
<1> QED
  BY <1>1, <1>2, <1>3, SerialBegin, SerialExpire DEF Next

\* While requests come one at a time, share one cache and nothing fails, each
\* operation leaves no cached incident behind that differs from the table: no
\* path of the writing operations forgets to invalidate, not even when the
\* incident is missing half-way.
THEOREM CacheFreshBetweenRequests ==
  ASSUME Serial, Faults = {}, NEW CONSTANT store, Stores = {store}
  PROVE  Spec => []QuiescentCacheFresh
<1>1. Init => SerialInv
  BY DEF Init, SerialInv, Fresh, Answered, InProgress
<1>2. Inv /\ SerialInv /\ [Next]_vars => SerialInv'
  BY SerialNext
<1>3. SerialInv => QuiescentCacheFresh
  BY DEF SerialInv, QuiescentCacheFresh, Quiescent, Fresh, Owes, Answered
<1> QED
  BY <1>1, <1>2, <1>3, Invariance, PTL DEF Spec
-----------------------------------------------------------------------------
(* One request at a time: the many steps of an operation are one step on   *)
(* the board, and all others leave the board as it is.                     *)

\* The board as a function of what it is made of.
View(table, p, c) ==
  [ id \in Ids |->
      LET adding == {r \in Requests : p[r] = "n_write" /\ c[r].id = id} IN
      IF table[id] = Absent \/ adding = {} THEN table[id]
      ELSE [table[id] EXCEPT !.metadata.notes = c[CHOOSE r \in adding : TRUE].notes] ]

\* While no acknowledgement has its notes to add, the board is the table.
LEMMA PlainView ==
  ASSUME NEW table, table \in [Ids -> Row], NEW p, NEW c,
         \A r \in Requests : p[r] # "n_write"
  PROVE  View(table, p, c) = table
<1>1. \A id \in Ids : {r \in Requests : p[r] = "n_write" /\ c[r].id = id} = {}
  OBVIOUS
<1>2. \A id \in Ids : View(table, p, c)[id] = table[id]
  BY <1>1 DEF View
<1>3. View(table, p, c) = [id \in Ids |-> View(table, p, c)[id]]
  BY DEF View
<1> QED
  BY <1>2, <1>3

\* While one has, the board shows them already.
LEMMA NotesView ==
  ASSUME NEW table, table \in [Ids -> Row], NEW p, NEW c, NEW r \in Requests,
         NEW id \in Ids, c[r].id = id, table[id] # Absent, p[r] = "n_write",
         \A q \in Requests \ {r} : p[q] # "n_write"
  PROVE  View(table, p, c)
           = [table EXCEPT ![id] = [table[id] EXCEPT !.metadata.notes = c[r].notes]]
<1> DEFINE adding(x) == {q \in Requests : p[q] = "n_write" /\ c[q].id = x}
<1>1. adding(id) = {r}
  OBVIOUS
<1>2. (CHOOSE q \in {r} : TRUE) = r
  OBVIOUS
<1>3. View(table, p, c)[id] = [table[id] EXCEPT !.metadata.notes = c[r].notes]
  BY <1>1, <1>2 DEF View
<1>4. ASSUME NEW x \in Ids \ {id} PROVE View(table, p, c)[x] = table[x]
  <2>1. adding(x) = {}
    OBVIOUS
  <2> QED
    BY <2>1 DEF View
<1>5. View(table, p, c) = [x \in Ids |-> View(table, p, c)[x]]
  BY DEF View
<1> QED
  BY <1>3, <1>4, <1>5

LEMMA ViewIsBoard == /\ BoardView = View(incidents, pc, call)
                     /\ BoardView' = View(incidents', pc', call')
BY DEF BoardView, View

\* The caller may acknowledge, or delete, the incident as it is now.
AckDue(r) == LET row == incidents[call[r].id] IN
  /\ row # Absent /\ canBeAcknowledged(row)
  /\ call[r].user \in KnownUsers
  /\ row.assignedTo = call[r].user \/ call[r].user \in Leads \cup Admins

DeleteDue(r) == LET row == incidents[call[r].id] IN
  /\ row # Absent /\ row.status = "created"
  /\ call[r].user \in KnownUsers
  /\ row.createdBy = call[r].user \/ call[r].user \in Admins

\* What the request in progress has checked or read is so at this moment.
BoardOK(r) == LET row == incidents[call[r].id] IN
  /\ Holds(r) => incident[r] = row
  /\ pc[r] = "u_write" => ~UnknownAssignee(r)
  /\ pc[r] = "t_find" => AckDue(r)
  /\ pc[r] \in {"s_load", "s_update"} =>
       AckDue(r) /\ entity[r] = Transitioned(row, "acknowledged", call[r].user)
  /\ pc[r] = "s_update" => cols[r] = Changed(entity[r], row)
  /\ pc[r] # "s_insert"
  /\ pc[r] = "n_write" => row # Absent /\ entity[r] = row
  /\ pc[r] = "d_delete" => DeleteDue(r)

\* A step of the request in progress before and after which no notes are due:
\* the board changes as the table does.
LEMMA PlainStep ==
  ASSUME Inv, Inv', NEW r \in Requests, Others(r), \A q \in Requests \ {r} : pc[q] \in Answered,
         pc[r] # "n_write", pc'[r] # "n_write"
  PROVE  BoardView = incidents /\ BoardView' = incidents'
<1>1. /\ \A q \in Requests : pc[q] # "n_write" /\ pc'[q] # "n_write"
      /\ incidents \in [Ids -> Row] /\ incidents' \in [Ids -> Row]
  BY DEF Inv, TypeOK, Others, Answered
<1>2. View(incidents, pc, call) = incidents
  BY <1>1, PlainView
<1>3. View(incidents', pc', call') = incidents'
  BY <1>1, PlainView
<1> QED
  BY <1>2, <1>3, ViewIsBoard

\* The parts of the invariant of the requests that have been answered.
LEMMA BoardOthers ==
  ASSUME NEW r \in Requests, Others(r), \A q \in Requests \ {r} : pc[q] \in Answered,
         BoardOK(r)'
  PROVE  \A q \in Requests : BoardOK(q)'
<1>1. \A q \in Requests \ {r} : pc'[q] \in Answered
  BY DEF Others
<1>2. \A q \in Requests \ {r} : BoardOK(q)'
  BY <1>1 DEF BoardOK, Holds, Answered
<1> QED
  BY <1>2

\* What a step must show: the request's part holds again, and the board is
\* left alone or takes one step of its own.
Refines(r) == BoardOK(r)' /\ (Board!Next \/ BoardView' = BoardView)

\* Steps that write nothing while no notes are due leave the board alone.
LEMMA RefinesQuiet ==
  ASSUME Inv, Inv', SerialInv, NEW r \in Requests, Others(r), pc[r] \in InProgress,
         pc[r] # "n_write", pc'[r] # "n_write", UNCHANGED incidents, BoardOK(r)'
  PROVE  Refines(r)
BY OthersAnswered, PlainStep DEF Refines

LEMMA RefinesAnswer ==
  ASSUME Inv, Inv', SerialInv, NEW r \in Requests, NEW how \in Answered, Answer(r, how),
         pc[r] \in InProgress, pc[r] # "n_write", UNCHANGED incidents
  PROVE  Refines(r)
<1>1. Others(r) /\ pc'[r] = how
  BY DEF Inv, TypeOK, Others, Answer, Goto
<1>2. BoardOK(r)'
  BY <1>1 DEF BoardOK, Holds, Answered
<1>3. pc'[r] # "n_write"
  BY <1>1 DEF Answered
<1> QED
  BY <1>1, <1>2, <1>3, RefinesQuiet

LEMMA RefinesBegin ==
  ASSUME Inv, Inv', Serial, NEW r \in Requests, Begin(r)
  PROVE  Refines(r)
<1>1. /\ Others(r) /\ pc'[r] \in {"c_insert", "f_cache"} /\ UNCHANGED incidents
      /\ pc[r] # "n_write" /\ \A q \in Requests \ {r} : pc[q] \in Answered
  BY IncidentsAssumption DEF Inv, TypeOK, Others, Begin, Goto, NoWrite, locals, Answered
<1>2. BoardOK(r)'
  BY <1>1 DEF BoardOK, Holds
<1> QED
  BY <1>1, <1>2, PlainStep DEF Refines

\* The insert is the board's Create: an identifier not handed out is free.
LEMMA RefinesCreate ==
  ASSUME Inv, Inv', SerialInv, NEW r \in Requests, Create(r)
  PROVE  Refines(r)
<1>1. CASE RejectCreate(r)
  BY <1>1, RefinesAnswer DEF RejectCreate, NoWrite, Answered, InProgress
<1>2. CASE CreateCommit(r)
  BY <1>2, RefinesAnswer DEF CreateCommit, NoWrite, Answered, InProgress
<1>3. CASE CreateInsert(r)
  <2> DEFINE assignee == IF "assignedTo" \in call[r].sets THEN call[r].assignedTo ELSE NoUser
             custom == IF "metadata" \in call[r].sets THEN call[r].custom ELSE NoText
             row == NewIncident(call[r].user, assignee, custom)
  <2>1. PICK id \in Ids \ born : Store(id, row) /\ call' = [call EXCEPT ![r].id = id]
    BY <1>3 DEF CreateInsert
  <2>2. /\ pc[r] = "c_insert" /\ Goto(r, "c_commit") /\ UNCHANGED <<cache, locals>>
        /\ ~UnknownAssignee(r)
    BY <1>3 DEF CreateInsert
  <2>3. Others(r) /\ pc'[r] = "c_commit" /\ pc[r] \in InProgress
    BY <2>1, <2>2 DEF Inv, TypeOK, Others, Goto, locals, InProgress
  <2>4. BoardOK(r)'
    BY <2>3 DEF BoardOK, Holds
  <2>5. BoardView = incidents /\ BoardView' = incidents'
    BY <2>2, <2>3, OthersAnswered, PlainStep
  <2>6. incidents[id] = Absent /\ incidents' = [incidents EXCEPT ![id] = row]
    BY <2>1 DEF Inv, TableOK, Store
  <2>7. call[r].user \in Users /\ assignee \in Assignable /\ custom \in Texts
    BY <2>2, EntityAssumption DEF Inv, TypeOK, Call, UnknownAssignee, Assignable
  <2>8. \E u \in Users, a \in Assignable, t \in Texts :
          incidents' = [incidents EXCEPT ![id] = NewIncident(u, a, t)]
    BY <2>6, <2>7
  <2>9. Board!Create(id)
    BY <2>5, <2>6, <2>8
    DEF Board!Create, Board!Assignable, Assignable, Board!NewIncident, NewIncident
  <2> QED
    BY <2>4, <2>9 DEF Refines, Board!Next
<1> QED
  BY <1>1, <1>2, <1>3 DEF Create

\* The lookup gives the incident as it is: a cached one is fresh, and what was
\* read a step ago nobody has written since.
LEMMA RefinesFind ==
  ASSUME Inv, Inv', SerialInv, Faults = {}, NEW r \in Requests, Find(r)
  PROVE  Refines(r)
<1>1. PICK id \in Ids : id = call[r].id
  BY DEF Inv, TypeOK, Call
<1>2. CASE FindCached(r)
  <2>1. /\ Others(r) /\ pc[r] = "f_cache" /\ pc'[r] = "hit" /\ UNCHANGED <<incidents, call>>
        /\ incident'[r] = cache[StoreOf[r]][id] /\ incident'[r] # Absent
    BY <1>1, <1>2 DEF Inv, TypeOK, Others, FindCached, Cached, Goto, NoWrite
  <2>2. Fresh(id) /\ StoreOf[r] \in Stores
    BY <2>1, OnlyOneOwes, IncidentsAssumption DEF Owes, InProgress
  <2>3. incident'[r] = incidents[id]
    BY <2>1, <2>2 DEF Fresh
  <2>4. BoardOK(r)'
    BY <1>1, <2>1, <2>3 DEF BoardOK, Holds
  <2> QED
    BY <2>1, <2>4, RefinesQuiet DEF InProgress
<1>3. CASE FindMiss(r)
  <2>1. /\ Others(r) /\ pc[r] = "f_cache" /\ pc'[r] = "f_load" /\ UNCHANGED incidents
    BY <1>3 DEF Inv, TypeOK, Others, FindMiss, Proceed, Goto, NoWrite, locals
  <2>2. BoardOK(r)'
    BY <2>1 DEF BoardOK, Holds
  <2> QED
    BY <2>1, <2>2, RefinesQuiet DEF InProgress
<1>4. CASE FindLoad(r)
  <2>1. /\ Others(r) /\ pc[r] = "f_load" /\ pc'[r] = "f_fill" /\ UNCHANGED incidents
    BY <1>4 DEF Inv, TypeOK, Others, FindLoad, Goto, NoWrite
  <2>2. BoardOK(r)'
    BY <2>1 DEF BoardOK, Holds
  <2> QED
    BY <2>1, <2>2, RefinesQuiet DEF InProgress
<1>5. CASE FindNothing(r)
  BY <1>5, RefinesAnswer DEF FindNothing, NoWrite, Answered, InProgress
<1>6. CASE FindFill(r)
  <2>1. /\ Others(r) /\ pc[r] = "f_fill" /\ pc'[r] = "found"
        /\ UNCHANGED <<incidents, call, incident>>
    BY <1>6 DEF Inv, TypeOK, Others, FindFill, Proceed, Goto, NoWrite, locals
  <2>2. incident[r] = incidents[id]
    BY <1>1, <2>1 DEF SerialInv
  <2>3. BoardOK(r)'
    BY <1>1, <2>1, <2>2 DEF BoardOK, Holds
  <2> QED
    BY <2>1, <2>3, RefinesQuiet DEF InProgress
<1> QED
  BY <1>2, <1>3, <1>4, <1>5, <1>6 DEF Find

\* The write of the columns given is the board's Update.
LEMMA RefinesUpdate ==
  ASSUME Inv, Inv', SerialInv, NEW r \in Requests, BoardOK(r), Update(r)
  PROVE  Refines(r)
<1>1. PICK id \in Ids : id = call[r].id
  BY DEF Inv, TypeOK, Call
<1>2. CASE CheckUpdate(r)
  <2>1. CASE ~MayUpdate(r)
    BY <1>2, <2>1, RefinesAnswer DEF CheckUpdate, Holds, NoWrite, Answered, InProgress
  <2>2. CASE MayUpdate(r)
    <3>1. /\ Others(r) /\ pc[r] \in {"hit", "found"} /\ pc'[r] = "u_write"
          /\ UNCHANGED <<incidents, call>>
      BY <1>2, <2>2 DEF Inv, TypeOK, Others, CheckUpdate, Holds, Pass, Goto, NoWrite
    <3>2. BoardOK(r)'
      BY <2>2, <3>1 DEF BoardOK, Holds, MayUpdate, UnknownAssignee
    <3> QED
      BY <3>1, <3>2, RefinesQuiet DEF InProgress
  <2> QED
    BY <2>1, <2>2
<1>3. CASE Reread(r)
  <2>1. CASE incidents[id] = Absent
    BY <1>1, <1>3, <2>1, RefinesAnswer DEF Reread, NoWrite, Answered, InProgress
  <2>2. CASE incidents[id] # Absent
    <3>1. /\ Others(r) /\ pc[r] \in {"u_reread", "n_reread"} /\ pc'[r] = "invalidate"
          /\ UNCHANGED incidents
      BY <1>1, <1>3, <2>2 DEF Inv, TypeOK, Others, Reread, Proceed, Goto, NoWrite, locals
    <3>2. BoardOK(r)'
      BY <3>1 DEF BoardOK, Holds
    <3> QED
      BY <3>1, <3>2, RefinesQuiet DEF InProgress
  <2> QED
    BY <2>1, <2>2
<1>4. CASE UpdateWrite(r)
  <2> DEFINE assignee == IF "assignedTo" \in call[r].sets THEN call[r].assignedTo
                         ELSE incidents[id].assignedTo
             metadata == IF "metadata" \in call[r].sets
                         THEN [custom |-> call[r].custom, notes |-> NoText]
                         ELSE incidents[id].metadata
             row == [incidents[id] EXCEPT !.assignedTo = assignee, !.metadata = metadata]
  <2>1. /\ BlindUpdate(id, row) /\ pc[r] = "u_write" /\ Goto(r, "u_reread")
        /\ UNCHANGED <<call, locals>>
    BY <1>1, <1>4 DEF UpdateWrite, Proceed
  <2>2. Others(r) /\ pc'[r] = "u_reread" /\ pc[r] \in InProgress
    BY <2>1 DEF Inv, TypeOK, Others, Goto, locals, InProgress
  <2>3. BoardOK(r)'
    BY <2>2 DEF BoardOK, Holds
  <2>4. CASE incidents[id] = Absent
    BY <2>1, <2>2, <2>3, <2>4, RefinesQuiet DEF BlindUpdate, NoWrite
  <2>5. CASE incidents[id] # Absent
    <3>1. BoardView = incidents /\ BoardView' = incidents'
      BY <2>1, <2>2, OthersAnswered, PlainStep
    <3>2. incidents' = [incidents EXCEPT ![id] = row]
      BY <2>1, <2>5 DEF BlindUpdate, Store
    <3>3. assignee \in Assignable \cup {incidents[id].assignedTo}
      BY <2>1 DEF BoardOK, UnknownAssignee
    <3>4. metadata \in [custom : Texts, notes : {NoText}] \cup {incidents[id].metadata}
      BY DEF Inv, TypeOK, Call
    <3>5. Board!Update(id)
      BY <2>5, <3>1, <3>2, <3>3, <3>4 DEF Board!Update, Board!Assignable, Assignable
    <3> QED
      BY <2>3, <3>5 DEF Refines, Board!Next
  <2> QED
    BY <2>4, <2>5
<1> QED
  BY <1>2, <1>3, <1>4 DEF Update

\* A save over the very row the entity was made from leaves the entity.
LEMMA SavedWhole ==
  ASSUME NEW row \in Incident, NEW e \in Incident
  PROVE  Overwritten(row, e, Changed(e, row)) = e
<1> DEFINE o == Overwritten(row, e, Changed(e, row))
<1>1. \A c \in Columns : c \in Changed(e, row) \/ e[c] = row[c]
  BY DEF Changed
<1>2. /\ o.status = e.status /\ o.assignedTo = e.assignedTo /\ o.createdBy = e.createdBy
      /\ o.acknowledgedBy = e.acknowledgedBy /\ o.resolvedBy = e.resolvedBy
      /\ o.closedBy = e.closedBy /\ o.metadata = e.metadata
  BY <1>1 DEF Overwritten, Columns
<1>3. o \in Incident
  BY DEF Overwritten, Incident
<1> QED
  BY <1>2, <1>3 DEF Incident

\* The save is the board's Acknowledge, with the notes that are yet to be
\* written: from here on the board shows them.
LEMMA RefinesSave ==
  ASSUME Inv, Inv', SerialInv, NEW r \in Requests, BoardOK(r), SaveUpdate(r)
  PROVE  Refines(r)
<1> DEFINE e == entity[r]
           notes == call[r].notes
<1>1. PICK id \in Ids : id = call[r].id
  BY DEF Inv, TypeOK, Call
<1>2. /\ pc[r] = "s_update" /\ AfterSave(r)
      /\ BlindUpdate(id, Overwritten(incidents[id], e, cols[r]))
  BY <1>1 DEF SaveUpdate
<1>3. /\ incidents[id] \in Incident /\ incidents[id] # Absent /\ e \in Incident /\ e # Absent
      /\ notes \in Texts /\ AckDue(r)
      /\ e = Transitioned(incidents[id], "acknowledged", call[r].user)
      /\ cols[r] = Changed(e, incidents[id])
  BY <1>1, <1>2 DEF Inv, TypeOK, Call, Row, RequestOK, Saving, BoardOK, AckDue
<1>4. incidents' = [incidents EXCEPT ![id] = e]
  BY <1>2, <1>3, SavedWhole DEF BlindUpdate, Store
<1>5. /\ Others(r) /\ call' = call /\ entity' = entity /\ pc[r] \in InProgress
      /\ pc'[r] = IF notes = NoText THEN "invalidate" ELSE "n_write"
  BY <1>2 DEF Inv, TypeOK, Others, AfterSave, Goto, InProgress
<1>6. incidents'[id] = e
  BY <1>4 DEF Inv, TypeOK
<1>7. BoardOK(r)'
  BY <1>1, <1>3, <1>5, <1>6 DEF BoardOK, Holds
<1>8. \A q \in Requests \ {r} : pc[q] \in Answered
  BY <1>5, OthersAnswered
<1>9. BoardView = incidents
  <2>1. \A q \in Requests : pc[q] # "n_write"
    BY <1>2, <1>8 DEF Answered
  <2>2. View(incidents, pc, call) = incidents
    BY <2>1, PlainView DEF Inv, TypeOK
  <2> QED
    BY <2>2, ViewIsBoard
<1>10. BoardView' = [incidents EXCEPT ![id] =
                       [e EXCEPT !.metadata.notes = IF notes = NoText THEN @ ELSE notes]]
  <2>1. CASE notes = NoText
    <3>1. \A q \in Requests : pc'[q] # "n_write"
      BY <1>5, <1>8, <2>1 DEF Others, Answered
    <3>2. View(incidents', pc', call') = incidents'
      BY <3>1, PlainView DEF Inv, TypeOK
    <3>3. [e EXCEPT !.metadata.notes = IF notes = NoText THEN @ ELSE notes] = e
      BY <1>3, <2>1 DEF Incident, Metadata
    <3> QED
      BY <1>4, <3>2, <3>3, ViewIsBoard
  <2>2. CASE notes # NoText
    <3>1. /\ pc'[r] = "n_write" /\ \A q \in Requests \ {r} : pc'[q] # "n_write"
          /\ incidents' \in [Ids -> Row] /\ call'[r].id = id /\ incidents'[id] # Absent
          /\ call'[r].notes = notes
      BY <1>1, <1>3, <1>5, <1>6, <1>8, <2>2 DEF Others, Answered, Inv, TypeOK
    <3>2. View(incidents', pc', call')
            = [incidents' EXCEPT ![id] = [incidents'[id] EXCEPT !.metadata.notes = call'[r].notes]]
      <4>1. PICK table, p, c : table = incidents' /\ p = pc' /\ c = call'
        OBVIOUS
      <4>2. /\ p[r] = "n_write" /\ \A q \in Requests \ {r} : p[q] # "n_write"
            /\ table \in [Ids -> Row] /\ c[r].id = id /\ table[id] # Absent
        BY <3>1, <4>1
      <4>3. View(table, p, c)
              = [table EXCEPT ![id] = [table[id] EXCEPT !.metadata.notes = c[r].notes]]
        BY <4>2, NotesView
      <4> QED
        BY <4>1, <4>3
    <3>3. View(incidents', pc', call')
            = [incidents EXCEPT ![id] = [e EXCEPT !.metadata.notes = notes]]
      BY <1>4, <1>6, <3>1, <3>2 DEF Inv, TypeOK
    <3>4. [e EXCEPT !.metadata.notes = IF notes = NoText THEN @ ELSE notes]
            = [e EXCEPT !.metadata.notes = notes]
      BY <2>2
    <3> QED
      BY <3>3, <3>4, ViewIsBoard
  <2> QED
    BY <2>1, <2>2
<1>11. Board!Acknowledge(id)
  <2>1. call[r].user \in KnownUsers /\ Board!MayAcknowledge(call[r].user, incidents[id])
    BY <1>1, <1>3 DEF AckDue, Board!MayAcknowledge
  <2>2. Board!canBeAcknowledged(incidents[id])
    BY <1>1, <1>3 DEF AckDue, canBeAcknowledged, Board!canBeAcknowledged
  <2>3. e = Board!Transitioned(incidents[id], "acknowledged", call[r].user)
    BY <1>3 DEF Transitioned, Board!Transitioned
  <2> QED
    BY <1>3, <1>9, <1>10, <2>1, <2>2, <2>3 DEF Board!Acknowledge
<1> QED
  BY <1>7, <1>11 DEF Refines, Board!Next

\* The notes arrive where the board showed them.
LEMMA RefinesNotes ==
  ASSUME Inv, Inv', SerialInv, NEW r \in Requests, BoardOK(r), NotesWrite(r)
  PROVE  Refines(r)
<1>1. PICK id \in Ids : id = call[r].id
  BY DEF Inv, TypeOK, Call
<1> DEFINE row == incidents[id]
           notes == call[r].notes
<1>2. pc[r] = "n_write" /\ row # Absent /\ row \in Incident /\ entity[r] = row
  BY <1>1 DEF NotesWrite, BoardOK, Inv, TypeOK, Row
<1>3. incidents' = [incidents EXCEPT ![id] =
                      [row EXCEPT !.metadata = [custom |-> row.metadata.custom,
                                                notes  |-> notes]]]
  BY <1>1, <1>2 DEF NotesWrite, BlindUpdate, Store
<1>4. Others(r) /\ pc'[r] = "n_reread" /\ pc[r] \in InProgress
  BY <1>2 DEF Inv, TypeOK, Others, NotesWrite, Goto, InProgress
<1>5. \A q \in Requests \ {r} : pc[q] # "n_write" /\ pc'[q] # "n_write"
  BY <1>4, OthersAnswered DEF Others, Answered
<1>6. View(incidents, pc, call) = [incidents EXCEPT ![id] = [row EXCEPT !.metadata.notes = notes]]
  <2>1. incidents \in [Ids -> Row] /\ call[r].id = id
    BY <1>1 DEF Inv, TypeOK
  <2> QED
    BY <1>2, <1>5, <2>1, NotesView
<1>7. View(incidents', pc', call') = incidents'
  BY <1>4, <1>5, PlainView DEF Inv, TypeOK
<1>8. [row EXCEPT !.metadata.notes = notes]
        = [row EXCEPT !.metadata = [custom |-> row.metadata.custom, notes |-> notes]]
  BY <1>2 DEF Incident, Metadata
<1>9. BoardView' = BoardView
  BY <1>3, <1>6, <1>7, <1>8, ViewIsBoard
<1>10. BoardOK(r)'
  BY <1>4 DEF BoardOK, Holds
<1> QED
  BY <1>9, <1>10 DEF Refines

LEMMA RefinesAcknowledge ==
  ASSUME Inv, Inv', SerialInv, NEW r \in Requests, BoardOK(r), Acknowledge(r)
  PROVE  Refines(r)
<1>1. PICK id \in Ids : id = call[r].id
  BY DEF Inv, TypeOK, Call
<1>2. CASE CheckAcknowledge(r)
  <2>1. CASE NoMethod(r) \/ ~MayAcknowledge(r)
    BY <1>2, <2>1, RefinesAnswer DEF CheckAcknowledge, Holds, NoWrite, Answered, InProgress
  <2>2. CASE ~NoMethod(r) /\ MayAcknowledge(r)
    <3>1. /\ Others(r) /\ pc[r] \in {"hit", "found"} /\ pc'[r] = "t_find"
          /\ UNCHANGED <<incidents, call>>
      BY <1>2, <2>2 DEF Inv, TypeOK, Others, CheckAcknowledge, Holds, Pass, Goto, NoWrite
    <3>2. incident[r] = incidents[id] /\ incident[r] # Absent
      BY <1>1, <3>1 DEF BoardOK, Holds, Inv, RequestOK, Holding
    <3>3. AckDue(r)'
      BY <1>1, <2>2, <3>1, <3>2 DEF AckDue, MayAcknowledge
    <3>4. BoardOK(r)'
      BY <3>1, <3>3 DEF BoardOK, Holds
    <3> QED
      BY <3>1, <3>4, RefinesQuiet DEF InProgress
  <2> QED
    BY <2>1, <2>2
<1>3. CASE TransitionFind(r)
  <2>1. /\ Others(r) /\ pc[r] = "t_find" /\ pc'[r] = "s_load" /\ UNCHANGED <<incidents, call>>
        /\ entity'[r] = Transitioned(incidents[id], "acknowledged", call[r].user)
    BY <1>1, <1>3 DEF Inv, TypeOK, Others, TransitionFind, Goto, NoWrite
  <2>2. AckDue(r)'
    BY <2>1 DEF BoardOK, AckDue
  <2>3. BoardOK(r)'
    BY <1>1, <2>1, <2>2 DEF BoardOK, Holds
  <2> QED
    BY <2>1, <2>3, RefinesQuiet DEF InProgress
<1>4. CASE TransitionReject(r)
  BY <1>4, RefinesAnswer DEF TransitionReject, NoWrite, Answered, InProgress
<1>5. CASE SaveLoad(r)
  <2>1. /\ pc[r] = "s_load" /\ AckDue(r) /\ incidents[id] # Absent
        /\ entity[r] = Transitioned(incidents[id], "acknowledged", call[r].user)
    BY <1>1, <1>5 DEF SaveLoad, BoardOK, AckDue
  <2>2. /\ Others(r) /\ pc'[r] = "s_update" /\ UNCHANGED <<incidents, call, entity>>
        /\ cols'[r] = Changed(entity[r], incidents[id])
    BY <1>1, <1>5, <2>1 DEF Inv, TypeOK, Others, SaveLoad, Goto, NoWrite
  <2>3. AckDue(r)'
    BY <2>1, <2>2 DEF AckDue
  <2>4. BoardOK(r)'
    BY <1>1, <2>1, <2>2, <2>3 DEF BoardOK, Holds
  <2> QED
    BY <2>1, <2>2, <2>4, RefinesQuiet DEF InProgress
<1>6. ~SaveInsert(r)
  BY DEF SaveInsert, BoardOK
<1> QED
  BY <1>2, <1>3, <1>4, <1>5, <1>6, RefinesSave, RefinesNotes DEF Acknowledge

\* The DELETE is the board's.
LEMMA RefinesDelete ==
  ASSUME Inv, Inv', SerialInv, NEW r \in Requests, BoardOK(r), CheckDelete(r) \/ Delete(r)
  PROVE  Refines(r)
<1>1. PICK id \in Ids : id = call[r].id
  BY DEF Inv, TypeOK, Call
<1>2. CASE CheckDelete(r)
  <2>1. CASE ~MayDelete(r)
    BY <1>2, <2>1, RefinesAnswer DEF CheckDelete, Holds, NoWrite, Answered, InProgress
  <2>2. CASE MayDelete(r)
    <3>1. /\ Others(r) /\ pc[r] \in {"hit", "found"} /\ pc'[r] = "d_delete"
          /\ UNCHANGED <<incidents, call>>
      BY <1>2, <2>2 DEF Inv, TypeOK, Others, CheckDelete, Holds, Pass, Goto, NoWrite
    <3>2. incident[r] = incidents[id] /\ incident[r] # Absent
      BY <1>1, <3>1 DEF BoardOK, Holds, Inv, RequestOK, Holding
    <3>3. DeleteDue(r)'
      BY <1>1, <2>2, <3>1, <3>2 DEF DeleteDue, MayDelete
    <3>4. BoardOK(r)'
      BY <3>1, <3>3 DEF BoardOK, Holds
    <3> QED
      BY <3>1, <3>4, RefinesQuiet DEF InProgress
  <2> QED
    BY <2>1, <2>2
<1>3. CASE Delete(r)
  <2>1. pc[r] = "d_delete" /\ DeleteDue(r) /\ incidents[id] # Absent
    BY <1>1, <1>3 DEF Delete, BoardOK, DeleteDue
  <2>2. incidents' = [incidents EXCEPT ![id] = Absent]
    BY <1>1, <1>3, <2>1 DEF Delete, Store
  <2>3. Others(r) /\ pc'[r] = "invalidate" /\ pc[r] \in InProgress
    BY <1>1, <1>3, <2>1 DEF Inv, TypeOK, Others, Delete, Proceed, Goto, locals, InProgress
  <2>4. BoardView = incidents /\ BoardView' = incidents'
    BY <2>1, <2>3, OthersAnswered, PlainStep
  <2>5. Board!Delete(id)
    BY <1>1, <2>1, <2>2, <2>4 DEF DeleteDue, Board!Delete, Board!MayDelete
  <2>6. BoardOK(r)'
    BY <2>3 DEF BoardOK, Holds
  <2> QED
    BY <2>5, <2>6 DEF Refines, Board!Next
<1> QED
  BY <1>2, <1>3

LEMMA RefinesInvalidate ==
  ASSUME Inv, Inv', SerialInv, NEW r \in Requests, Invalidate(r)
  PROVE  Refines(r)
BY RefinesAnswer DEF Invalidate, NoWrite, Answered, InProgress

\* A request that is served is in progress, and its step is nobody else's.
LEMMA OnlyItMoves ==
  ASSUME Inv, NEW r \in Requests, Serve(r)
  PROVE  pc[r] \in InProgress /\ Others(r)
<1> USE DEF Inv, TypeOK, Others, InProgress, Answer, Proceed, Pass, Goto, locals
<1>1. CASE Create(r)
  BY <1>1 DEF Create, RejectCreate, CreateInsert, CreateCommit
<1>2. CASE Find(r)
  BY <1>2 DEF Find, FindCached, FindMiss, FindLoad, FindNothing, FindFill
<1>3. CASE Get(r) \/ CheckDelete(r) \/ Delete(r) \/ Invalidate(r)
  BY <1>3 DEF Get, CheckDelete, Delete, Invalidate, Holds
<1>4. CASE Update(r)
  BY <1>4 DEF Update, CheckUpdate, UpdateWrite, Reread, Holds
<1>5. CASE CheckAcknowledge(r) \/ TransitionFind(r) \/ TransitionReject(r)
  BY <1>5 DEF CheckAcknowledge, TransitionFind, TransitionReject, Holds
<1>6. CASE SaveLoad(r) \/ SaveUpdate(r) \/ SaveInsert(r) \/ NotesWrite(r)
  BY <1>6 DEF SaveLoad, SaveUpdate, SaveInsert, NotesWrite, AfterSave
<1> QED
  BY <1>1, <1>2, <1>3, <1>4, <1>5, <1>6 DEF Serve, Acknowledge

\* What the invariant of the refinement says of all requests.
AllBoardOK == \A r \in Requests : BoardOK(r)

LEMMA BoardNext ==
  ASSUME Serial, Faults = {}
  PROVE  Inv /\ SerialInv /\ AllBoardOK /\ [Next]_vars
           => AllBoardOK' /\ [Board!Next]_BoardView
<1> SUFFICES ASSUME Inv, SerialInv, AllBoardOK, [Next]_vars
             PROVE  AllBoardOK' /\ [Board!Next]_BoardView
  OBVIOUS
<1>1. Inv'
  BY NextInv
<1>2. ASSUME NEW r \in Requests, Refines(r), Others(r), \A q \in Requests \ {r} : pc[q] \in Answered
      PROVE  AllBoardOK' /\ [Board!Next]_BoardView
  BY <1>2, BoardOthers DEF Refines, AllBoardOK
<1>3. ASSUME NEW r \in Requests, Begin(r) PROVE AllBoardOK' /\ [Board!Next]_BoardView
  <2>1. Others(r) /\ \A q \in Requests \ {r} : pc[q] \in Answered
    BY <1>3, IncidentsAssumption DEF Inv, TypeOK, Others, Begin, Goto, locals
  <2> QED
    BY <1>1, <1>2, <1>3, <2>1, RefinesBegin
<1>4. ASSUME NEW r \in Requests, Serve(r) PROVE AllBoardOK' /\ [Board!Next]_BoardView
  <2>1. BoardOK(r)
    BY DEF AllBoardOK
  <2>2. Refines(r)
    <3>1. CASE Create(r)
      BY <1>1, <3>1, RefinesCreate
    <3>2. CASE Find(r)
      BY <1>1, <3>2, RefinesFind
    <3>3. CASE Update(r)
      BY <1>1, <2>1, <3>3, RefinesUpdate
    <3>4. CASE Acknowledge(r)
      BY <1>1, <2>1, <3>4, RefinesAcknowledge
    <3>5. CASE CheckDelete(r) \/ Delete(r)
      BY <1>1, <2>1, <3>5, RefinesDelete
    <3>6. CASE Invalidate(r)
      BY <1>1, <3>6, RefinesInvalidate
    <3>7. CASE Get(r)
      BY <1>1, <3>7, RefinesAnswer DEF Get, Holds, NoWrite, Answered, InProgress
    <3> QED
      BY <1>4, <3>1, <3>2, <3>3, <3>4, <3>5, <3>6, <3>7 DEF Serve
  <2>3. pc[r] \in InProgress /\ Others(r)
    BY <1>4, OnlyItMoves
  <2> QED
    BY <1>2, <2>2, <2>3, OthersAnswered
<1>5. ASSUME NEW r \in Requests PROVE ~DatabaseError(r) /\ ~Crash(r)
  BY DEF DatabaseError, Crash
<1>6. CASE UNCHANGED <<incidents, pc, call, incident, entity, cols>>
  <2>1. BoardView' = BoardView
    BY <1>6 DEF BoardView
  <2>2. ASSUME NEW r \in Requests PROVE BoardOK(r)'
    BY <1>6 DEF AllBoardOK, BoardOK, Holds, UnknownAssignee, AckDue, DeleteDue
  <2> QED
    BY <2>1, <2>2 DEF AllBoardOK
<1>7. ASSUME NEW s \in Stores, NEW id \in Ids, CacheExpire(s, id)
      PROVE  UNCHANGED <<incidents, pc, call, incident, entity, cols>>
  BY <1>7 DEF CacheExpire, locals
<1> QED
  BY <1>3, <1>4, <1>5, <1>6, <1>7 DEF Next, vars, locals

\* While requests come one at a time, share one cache and nothing fails, each
\* operation is one step on the board, allowed by the incident as it is at
\* that moment: of its several reads of the incident, from the cache and from
\* the table, none is out of date, save writes the columns of exactly one
\* transition, and the notes are added to what was saved.
THEOREM OneAtATimeImplementsBoard ==
  ASSUME Serial, Faults = {}, NEW CONSTANT store, Stores = {store}
  PROVE  Spec => ImplementsBoard
<1>1. Init => SerialInv
  BY DEF Init, SerialInv, Fresh, Answered, InProgress
<1>2. Inv /\ SerialInv /\ [Next]_vars => SerialInv'
  BY SerialNext
<1>3. Init => AllBoardOK
  BY DEF Init, AllBoardOK, BoardOK, Holds
<1>4. Inv /\ SerialInv /\ AllBoardOK /\ [Next]_vars => AllBoardOK' /\ [Board!Next]_BoardView
  BY BoardNext
<1>5. Init => Board!Init
  <2> SUFFICES ASSUME Init PROVE Board!Init
    OBVIOUS
  <2>1. View(incidents, pc, call) = incidents
    <3>1. incidents \in [Ids -> Row] /\ \A r \in Requests : pc[r] # "n_write"
      BY InitInv DEF Init, Inv, TypeOK
    <3> QED
      BY <3>1, PlainView
  <2>2. BoardView = incidents
    BY <2>1 DEF BoardView, View
  <2>3. incidents \in [Ids -> {Absent} \cup
                          {NewIncident(u, a, t) : u \in Users, a \in Assignable, t \in Texts}]
    BY ExistingAssumption DEF Init
  <2> QED
    BY <2>2, <2>3 DEF Board!Init, Board!Assignable, Assignable, Board!NewIncident, NewIncident
<1> QED
  BY <1>1, <1>2, <1>3, <1>4, <1>5, Invariance, PTL DEF Spec, ImplementsBoard, Board!Spec
====
