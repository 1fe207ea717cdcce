---- MODULE ContestedBoard ----
(***************************************************************************)
(* What is left of the promise of IncidentBoard when requests race, a      *)
(* cache is out of date, calls fail half-way and processes stop: each step *)
(* the table takes is still one of five, and what a step may put in a row  *)
(* is decided by who was ever entitled to it.  Compared with IncidentBoard *)
(* an incident may be acknowledged again by somebody else, may be deleted  *)
(* when it has been acknowledged, and a save may bring it back then; but   *)
(* nobody takes an acknowledgement back, puts a stranger's name to one, or *)
(* hands an incident to somebody who is not a user.                        *)
(***************************************************************************)
EXTENDS IncidentEntity

CONSTANTS Ids, KnownUsers, Leads, Admins

VARIABLES board,    \* the incidents
          born,     \* identifiers handed out so far
          assignees \* everyone an incident was ever assigned to

vars == <<board, born, assignees>>

Assignable == KnownUsers \cup {NoUser}

\* Whose acknowledgement of the incident may be on record.
Entitled(id) == KnownUsers \cap (Leads \cup Admins \cup assignees[id])

Init == /\ board \in [Ids -> {Absent} \cup
                        {NewIncident(u, a, t) : u \in Users, a \in Assignable, t \in Texts}]
        /\ born = {id \in Ids : board[id] # Absent}
        /\ assignees = [id \in Ids |-> IF board[id] = Absent THEN {} ELSE {board[id].assignedTo}]

\* The row of one incident becomes another, whose assignee goes on record.
Write(id) == LET row == board'[id] IN
  /\ row # Absent
  /\ row.assignedTo \in Assignable
  /\ board' = [board EXCEPT ![id] = row]
  /\ assignees' = [assignees EXCEPT ![id] = @ \cup {row.assignedTo}]

\* Of a row that is there, nothing but these columns changes.
Only(id, columns) ==
  /\ board[id] # Absent
  /\ \A c \in Columns \ columns : board'[id][c] = board[id][c]

AcknowledgedIn(id) == /\ board'[id].status = "acknowledged"
                      /\ board'[id].acknowledgedBy \in Entitled(id)

Create(id) ==
  /\ id \notin born
  /\ Write(id)
  /\ \E u \in Users, t \in Texts : board'[id] = NewIncident(u, board'[id].assignedTo, t)
  /\ born' = born \cup {id}

Edit(id) == /\ Write(id)
            /\ Only(id, {"assignedTo", "metadata"})
            /\ UNCHANGED born

\* Status and user change in one step.  The assignee and the metadata may be
\* those the acknowledging request read.
Acknowledge(id) == /\ Write(id)
                   /\ Only(id, {"status", "acknowledgedBy", "assignedTo", "metadata"})
                   /\ AcknowledgedIn(id)
                   /\ UNCHANGED born

Delete(id) == /\ board[id] # Absent
              /\ board' = [board EXCEPT ![id] = Absent]
              /\ UNCHANGED <<born, assignees>>

\* An acknowledgement that was under way brings a deleted incident back.
Restore(id) == /\ board[id] = Absent
               /\ id \in born
               /\ Write(id)
               /\ AcknowledgedIn(id)
               /\ board'[id].resolvedBy = NoUser /\ board'[id].closedBy = NoUser
               /\ UNCHANGED born

Next == \E id \in Ids : Create(id) \/ Edit(id) \/ Acknowledge(id) \/ Delete(id) \/ Restore(id)

Spec == Init /\ [][Next]_vars
====
