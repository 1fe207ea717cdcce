---- MODULE MCAccounts ----
(***************************************************************************)
(* An administrator, two accounts to be created, and updates of the three  *)
(* columns, one of them of two at once.                                    *)
(***************************************************************************)
EXTENDS Accounts, TLC

CONSTANTS e1, e2, p1, p2

MCRoles == {"user", "lead", "admin"}
MCFirstRow == [email |-> e1, passwordHash |-> Hash(p1), status |-> "active"]
MCCreates == {[email |-> e2, password |-> p1, roles |-> {"lead"}]}
MCUpdates == { [email |-> e2, status |-> "active"], [passwordHash |-> Hash(p2)] }
Symmetry == Permutations(Requests)
====
