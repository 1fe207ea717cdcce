---- MODULE MCIncidents ----
(***************************************************************************)
(* Instances of Incidents: one incident, its creator, somebody it can be   *)
(* assigned to, a lead who is an admin as well, and a stranger who is not  *)
(* among the users.  Each configuration takes the calls that its question  *)
(* is about.                                                               *)
(***************************************************************************)
EXTENDS Incidents, TLC

CONSTANTS i1, i2, p1, creator, helper, boss, stranger, nobody, none, text

MCUsers == {creator, helper, boss, stranger}
MCKnownUsers == {creator, helper, boss}
MCTexts == {none, text}

BaseCall == [op |-> "get", id |-> i1, user |-> creator, sets |-> {},
             assignedTo |-> nobody, custom |-> none, notes |-> none]

Acknowledges == { [BaseCall EXCEPT !.op = "acknowledge", !.user = u, !.notes = n] :
                    u \in {helper, boss}, n \in MCTexts }

Updates == { [BaseCall EXCEPT !.op = "update", !.sets = {"assignedTo"}, !.assignedTo = u] :
                u \in {helper, nobody, stranger} }
      \cup { [BaseCall EXCEPT !.op = "update", !.sets = {"metadata"}, !.custom = text] }

Deletes == { [BaseCall EXCEPT !.op = "delete", !.user = u] : u \in {helper, boss} }

Creates == { [BaseCall EXCEPT !.op = "create", !.sets = {"assignedTo"}, !.assignedTo = u] :
                u \in {helper, stranger} }

Gets == {BaseCall}

AllCalls == Acknowledges \cup Updates \cup Deletes \cup Creates \cup Gets

\* Every operation, with the metadata of updates left out: no property of the
\* concurrent configurations looks at it.
MixedCalls == Acknowledges \cup {c \in Updates : c.sets = {"assignedTo"}}
                \cup Deletes \cup Creates \cup Gets

\* Every operation on either of two incidents.
SerialCalls == UNION { {c, [c EXCEPT !.id = i2]} : c \in AllCalls }

\* Every request is served by the same process, or they share Redis.
OneStore == [r \in Requests |-> p1]

MCExisting == {NewIncident(creator, nobody, none), NewIncident(helper, helper, none)}

Symmetry == Permutations(Requests)
====
