---- MODULE MCConnectionPool ----
(***************************************************************************)
(* Two connections and three requests: two creates can hold both and wait  *)
(* for a third, with another request waiting behind them.                  *)
(***************************************************************************)
EXTENDS ConnectionPool
====
