---- MODULE MCEscalation ----
(***************************************************************************)
(* Instances of Escalation: one incident, whose escalation may have been   *)
(* scheduled before, one client and one or two workers.                    *)
(***************************************************************************)
EXTENDS Escalation, TLC

\* Every lookup may find somebody ...
AllLevels == 1 .. maxLevel

\* ... or none does, as the code stands: only assignees are ever called.
NoLevel == {}

Symmetry == Permutations(Workers)
====
