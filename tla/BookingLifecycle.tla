-------------------------- MODULE BookingLifecycle --------------------------
(***************************************************************************)
(* What the service promises about one booking, whatever its handlers do:  *)
(* the rule stated beside the booking statuses in models.go.  A booking    *)
(* withholds seats while it is held (awaiting payment) or sold, gives them *)
(* back by being closed (cancelled or expired), and never withholds seats  *)
(* again once it has been closed or erased.                                *)
(***************************************************************************)

CONSTANTS Bookings,   \* identifiers a booking can be given
          Modes       \* ways an instance may run: TRUE with payments, FALSE without

VARIABLE stage        \* booking -> where it is in its life

Stages == {"none", "held", "sold", "closed", "erased"}

Init == stage = [b \in Bookings |-> "none"]

Moves(b, from, to) ==
  /\ stage[b] \in from
  /\ stage' = [stage EXCEPT ![b] = to]

\* A purchase withholds the seats until payment, or sells them at once.
Hold(b)  == TRUE \in Modes /\ Moves(b, {"none"}, "held")
Sell(b)  == FALSE \in Modes /\ Moves(b, {"none"}, "sold")

\* A paid hold becomes a sale.
Pay(b)   == Moves(b, {"held"}, "sold")

\* The holder or an administrator withdraws the booking, or its hold expires.
Close(b) == Moves(b, {"held", "sold"}, "closed")

\* An administrator erases the row.
Erase(b) == Moves(b, {"held", "sold", "closed"}, "erased")

Next == \E b \in Bookings : Hold(b) \/ Sell(b) \/ Pay(b) \/ Close(b) \/ Erase(b)

Spec == Init /\ [][Next]_stage
=============================================================================
