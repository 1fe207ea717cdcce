---- MODULE MCListings ----
(***************************************************************************)
(* Two incidents.  The list of those just created, its first row, and      *)
(* three lists that differ from it in one thing each: the limit, the       *)
(* offset, the status.  The last differs from the statistics in nothing    *)
(* but being a list.                                                       *)
(***************************************************************************)
EXTENDS Listings

MCLists == { [status |-> "created", limit |-> 0, offset |-> 0],
             [status |-> "created", limit |-> 2, offset |-> 0],
             [status |-> "created", limit |-> 0, offset |-> 1],
             [status |-> "any",     limit |-> 0, offset |-> 0] }
====
