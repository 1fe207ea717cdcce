---- MODULE IncidentBoard ----
(***************************************************************************)
(* What the incident API promises, without requests, cache or database     *)
(* round trips: a board of incidents on which each operation is one step,  *)
(* allowed by the incident as it is at that moment.                        *)
(***************************************************************************)
EXTENDS IncidentEntity

CONSTANTS Ids, KnownUsers, Leads, Admins

VARIABLE board

MayAcknowledge(user, row) == row.assignedTo = user \/ user \in Leads \cup Admins
MayDelete(user, row) == row.createdBy = user \/ user \in Admins

Assignable == KnownUsers \cup {NoUser}

Init == board \in [Ids -> {Absent} \cup 
                          {NewIncident(u, a, t) : u \in Users, a \in Assignable, t \in Texts}]

Create(id) ==
  /\ board[id] = Absent
  /\ \E u \in Users, a \in Assignable, t \in Texts :
       board' = [board EXCEPT ![id] = NewIncident(u, a, t)]

\* The creator changes the assignee, the metadata, both or something else.
Update(id) ==
  /\ board[id] # Absent
  /\ \E a \in Assignable \cup {board[id].assignedTo},
        m \in [custom : Texts, notes : {NoText}] \cup {board[id].metadata} :
       board' = [board EXCEPT ![id] = [@ EXCEPT !.assignedTo = a, !.metadata = m]]

\* Someone entitled to it acknowledges an incident that can be acknowledged,
\* leaving notes or not.
Acknowledge(id) ==
  /\ board[id] # Absent
  /\ canBeAcknowledged(board[id])
  /\ \E u \in KnownUsers, n \in Texts :
       /\ MayAcknowledge(u, board[id])
       /\ LET row == Transitioned(board[id], "acknowledged", u)
          IN  board' = [board EXCEPT ![id] =
                          [row EXCEPT !.metadata.notes = IF n = NoText THEN @ ELSE n]]

\* Only an incident nobody has reacted to is deleted.
Delete(id) ==
  /\ board[id] # Absent
  /\ board[id].status = "created"
  /\ \E u \in KnownUsers : MayDelete(u, board[id])
  /\ board' = [board EXCEPT ![id] = Absent]

Next == \E id \in Ids : Create(id) \/ Update(id) \/ Acknowledge(id) \/ Delete(id)

Spec == Init /\ [][Next]_board
====
