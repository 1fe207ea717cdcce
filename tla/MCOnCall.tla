---- MODULE MCOnCall ----
(***************************************************************************)
(* One schedule, three people of whom one is unknown, dates that make runs *)
(* of no, one and several periods, in days.                                *)
(***************************************************************************)
EXTENDS OnCall, TLC

Symmetry == Permutations(Requests)
====
