--------------------------- MODULE MCRateLimiter ---------------------------
(***************************************************************************)
(* RateLimiter on small instances.                                         *)
(***************************************************************************)
EXTENDS RateLimiter, TLC

\* Callers are interchangeable, and so are requests.
Interchangeable == Permutations(Keys) \cup Permutations(Procs)
=============================================================================
