----------------------------- MODULE MCCheckout -----------------------------
(***************************************************************************)
(* Checkout on small instances.                                            *)
(***************************************************************************)
EXTENDS Checkout, TLC

\* Requests and the provider's ids are interchangeable.
Interchangeable == Permutations(Procs) \cup Permutations(Intents)
=============================================================================
