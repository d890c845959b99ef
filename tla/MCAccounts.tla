----------------------------- MODULE MCAccounts -----------------------------
(***************************************************************************)
(* Accounts on small instances.                                            *)
(***************************************************************************)
EXTENDS Accounts, TLC

\* Requests, tokens and addresses are interchangeable, and so are unused ids.
Interchangeable ==
  UNION {Permutations(Procs), Permutations(Users), Permutations(Emails),
         Permutations(Tokens), Permutations(Links)}
=============================================================================
