---- MODULE IncidentEntity ----
(***************************************************************************)
(* The incident entity: the columns of a row the other modules tell apart, *)
(* the predicates of the entity class, the transition table of             *)
(* IncidentStateMachineService and what its `transition` does to the       *)
(* entity it loaded, and the two ways TypeORM writes an entity back.       *)
(*                                                                         *)
(* Title, description, priority and the time stamps are left out: no       *)
(* operation reads them to decide anything.  The metadata column is one    *)
(* JSON object that is always written whole; `custom` stands for what the  *)
(* clients put in it, `notes` for its key acknowledgementNotes.            *)
(***************************************************************************)
EXTENDS Naturals

CONSTANTS Users,  \* user identifiers, of existing users or not
          NoUser, \* null or '' in a user column
          Texts,  \* contents of a metadata key
          NoText, \* the key is not there
          Absent  \* what looking up a missing row gives

ASSUME EntityAssumption == NoUser \notin Users /\ NoText \in Texts

MaybeUser == Users \cup {NoUser}

IncidentStatus == {"created", "acknowledged", "escalated", "resolved", "closed"}

Metadata == [custom : Texts, notes : Texts]

Incident == [ status         : IncidentStatus,
              assignedTo     : MaybeUser,
              createdBy      : Users,
              acknowledgedBy : MaybeUser,
              resolvedBy     : MaybeUser,
              closedBy       : MaybeUser,
              metadata       : Metadata ]

ASSUME AbsentAssumption == Absent \notin Incident

Columns == {"status", "assignedTo", "createdBy", "acknowledgedBy", "resolvedBy",
            "closedBy", "metadata"}

\* The row IncidentsService.create asks for.
NewIncident(creator, assignee, custom) ==
  [ status         |-> "created",
    assignedTo     |-> assignee,
    createdBy      |-> creator,
    acknowledgedBy |-> NoUser,
    resolvedBy     |-> NoUser,
    closedBy       |-> NoUser,
    metadata       |-> [custom |-> custom, notes |-> NoText] ]
-----------------------------------------------------------------------------
\* The predicates of the entity class.
isActive(incident) == incident.status \in {"created", "acknowledged", "escalated"}
canBeAcknowledged(incident) == incident.status \in {"created", "escalated"}
canBeResolved(incident) == incident.status \in {"acknowledged", "escalated"}
canBeClosed(incident) == incident.status = "resolved"

\* The transition table of the state machine service.
transitions ==
  [ s \in IncidentStatus |->
      CASE s = "created"      -> {"acknowledged", "escalated"}
        [] s = "acknowledged" -> {"escalated", "resolved"}
        [] s = "escalated"    -> {"acknowledged", "resolved"}
        [] s = "resolved"     -> {"closed"}
        [] s = "closed"       -> {} ]

canTransition(from, to) == to \in transitions[from]

\* Planted bug: the acknowledging user is left out of the switch.
WithoutAcknowledger(incident, newStatus, user) == [incident EXCEPT !.status = newStatus]

\* The assignments `transition` makes to the entity before saving it.
Transitioned(incident, newStatus, user) ==
  [ incident EXCEPT
      !.status         = newStatus,
      !.acknowledgedBy = IF newStatus = "acknowledged" THEN user ELSE @,
      !.resolvedBy     = IF newStatus = "resolved" THEN user ELSE @,
      !.closedBy       = IF newStatus = "closed" THEN user ELSE @ ]
-----------------------------------------------------------------------------
\* TypeORM's save reads the row again, compares the entity with it and
\* updates the columns that differ ...
Changed(entity, row) == {c \in Columns : entity[c] # row[c]}

\* ... in whatever the row is by then.
Overwritten(row, entity, cols) ==
  [ status         |-> IF "status" \in cols THEN entity.status ELSE row.status,
    assignedTo     |-> IF "assignedTo" \in cols THEN entity.assignedTo ELSE row.assignedTo,
    createdBy      |-> IF "createdBy" \in cols THEN entity.createdBy ELSE row.createdBy,
    acknowledgedBy |-> IF "acknowledgedBy" \in cols THEN entity.acknowledgedBy
                                                    ELSE row.acknowledgedBy,
    resolvedBy     |-> IF "resolvedBy" \in cols THEN entity.resolvedBy ELSE row.resolvedBy,
    closedBy       |-> IF "closedBy" \in cols THEN entity.closedBy ELSE row.closedBy,
    metadata       |-> IF "metadata" \in cols THEN entity.metadata ELSE row.metadata ]
-----------------------------------------------------------------------------
\* The row says who acknowledged it exactly when it is acknowledged.  (In a
\* module whose only transition is the acknowledgement.)
AckFieldsOf(row) == row.status = "acknowledged" <=> row.acknowledgedBy # NoUser
====
