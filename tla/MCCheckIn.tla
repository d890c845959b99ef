------------------------------ MODULE MCCheckIn ------------------------------
(***************************************************************************)
(* CheckIn on small instances.                                             *)
(***************************************************************************)
EXTENDS CheckIn, TLC

\* Gates are interchangeable, and so are starting instances.
Interchangeable == Permutations(Gates) \cup Permutations(Instances)
=============================================================================
