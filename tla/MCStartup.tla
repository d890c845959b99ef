----------------------------- MODULE MCStartup ------------------------------
(***************************************************************************)
(* Two instances start on a small database.                                *)
(***************************************************************************)
EXTENDS Startup, TLC

CONSTANTS i1, i2, a1, a2, t1, t2, m1, m2   \* instances, accounts, rows, addresses

Interchangeable ==
  Permutations({i1, i2}) \cup Permutations({a1, a2}) \cup Permutations({t1, t2})
=============================================================================
