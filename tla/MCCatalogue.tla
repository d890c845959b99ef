---------------------------- MODULE MCCatalogue -----------------------------
(***************************************************************************)
(* The catalogue, its readers and its reports on small instances.          *)
(***************************************************************************)
EXTENDS Discovery, Reports, TLC

CONSTANTS v1, a1, c1, e1, e2, e3, u1, b1, b2   \* ids, each for one collection

KindOf ==
  LET all == (v1 :> "venue") @@ (a1 :> "attraction") @@ (c1 :> "classification")
          @@ (e1 :> "event") @@ (e2 :> "event") @@ (e3 :> "event") @@ (u1 :> "user")
          @@ (b1 :> "booking") @@ (b2 :> "booking")
  IN  [x \in Ids |-> all[x]]

\* An event with a venue, a ticket for it, and an attraction with its genre.
RefsOf ==
  LET all == (e1 :> {v1}) @@ (a1 :> {c1}) @@ (b1 :> {e1, u1})
  IN  [x \in Given |-> IF x \in {e1, a1, b1} THEN all[x] ELSE {}]

RankOf == LET all == (e1 :> 1) @@ (e2 :> 2) @@ (e3 :> 3) IN [e \in Events |-> all[e]]

QtyOf == LET all == (b1 :> 1) @@ (b2 :> 2) IN [b \in Bookings |-> all[b]]

PageValues == {-1, 3}
SizeValues == {0, 1, 9}

Interchangeable == Permutations(Procs)
=============================================================================
