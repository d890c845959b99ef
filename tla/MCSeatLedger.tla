---------------------------- MODULE MCSeatLedger ----------------------------
(***************************************************************************)
(* SeatLedger on small instances.                                          *)
(***************************************************************************)
EXTENDS SeatLedger, TLC

\* Requests are interchangeable, and so are unused booking ids.
Interchangeable == Permutations(Procs) \cup Permutations(Bookings)

MCSoldFloor  == -1

\* A request for fewer than one ticket, and one for two.
MCQuantities == {-1, 2}
=============================================================================
