----------------------------- MODULE SeatLedger -----------------------------
(***************************************************************************)
(* The ticket count of an event against the bookings that hold its seats.  *)
(*                                                                         *)
(* Two MongoDB collections, events and bookings, are written by request    *)
(* handlers that run in many processes.  One call to the database is one   *)
(* atomic step; a handler is a sequence of such calls and keeps nothing    *)
(* but local variables between them, so another handler, a payment or the  *)
(* clock can move in between, and the handler can die there.               *)
(***************************************************************************)
EXTENDS Integers, FiniteSets

CONSTANTS
  Events,        \* ids an event can be given
  Bookings,      \* ids a booking can be given
  Procs,         \* requests served at the same time, over all instances
  None,          \* the empty id
  Quantities,    \* values of "quantity" in a booking request
  Totals,        \* values of "ticketsTotal" in an event body
  SoldInBody,    \* values of "ticketsSold" in a new event's body
  Modes,         \* payment modes of the running instances (TRUE: payments on)
  SweepLimit,    \* most bookings one sweep reads (500 in the code)
  SoldFloor,     \* bound: no deletion starts once a count has sunk this low
  Handlers,      \* the operations that receive requests
  MayFail        \* can a handler die, or a database call fail?

HandlerKinds == {"create", "update", "deleteEvent", "book", "sweep", "pay",
                 "cancel", "delete"}

ASSUME LedgerAssumption ==
  /\ None \notin Events \cup Bookings
  /\ IsFiniteSet(Bookings)
  /\ IsFiniteSet(Procs)
  /\ Quantities \subseteq Int
  /\ Totals \subseteq Nat
  /\ SoldInBody \subseteq Int
  /\ Modes \subseteq BOOLEAN
  /\ SweepLimit \in Nat \ {0}
  /\ SoldFloor \in Int
  /\ Handlers \subseteq HandlerKinds
  /\ MayFail \in BOOLEAN

VARIABLES
  present,       \* event -> "unborn", "stored" or "removed"
  total,         \* event -> ticketsTotal
  sold,          \* event -> ticketsSold
  onsale,        \* event -> is its status "onsale"?
  status,        \* booking -> its stored status, or why there is no row
  hold,          \* booking -> holdExpiresAt: absent, ahead of the clock or behind it
  eventOf,       \* booking -> eventId
  qtyOf,         \* booking -> quantity
  job,           \* process -> what its handler does next, and its local variables
  taken,         \* history: bookings whose seats were taken and not given back
  drift,         \* history: events whose count was made wrong
  stranded       \* history: bookings some handler left halfway

vars == <<present, total, sold, onsale, status, hold, eventOf, qtyOf, job,
          taken, drift, stranded>>

eventFields   == <<present, total, onsale>>
bookingFields == <<eventOf, qtyOf>>

(***************************************************************************)
(* A handler's program counter and locals.  Each step is named for the     *)
(* database call it is about to make.                                      *)
(***************************************************************************)
Steps == {"idle",
          "find", "claim", "release",         \* ExpireHolds
          "reserve", "insert",                \* Book
          "markPaid",                         \* PayBooking
          "cancelWrite", "cancelRelease",     \* Cancel
          "delRelease", "delRemove",          \* DeleteBooking
          "replace",                          \* UpdateEvent
          "removeEvent"}                      \* DeleteEvent

Job == [at : Steps, event : Events \cup {None}, booking : Bookings \cup {None},
        qty : Nat, todo : SUBSET Bookings, seen : Int]

Idle == [at |-> "idle", event |-> None, booking |-> None, qty |-> 0,
         todo |-> {}, seen |-> 0]

Becomes(p, j) == job' = [job EXCEPT ![p] = j]

Begin(p, kind, j) ==
  /\ kind \in Handlers
  /\ job[p] = Idle
  /\ Becomes(p, j)

Goes(p, step) == Becomes(p, [job[p] EXCEPT !.at = step])
Ends(p)       == Becomes(p, Idle)
At(p, step)   == job[p].at = step

\* Rows of the bookings collection, and HoldsSeats of a row.
Rows     == {b \in Bookings : status[b] \in {"pending", "confirmed", "cancelled", "expired"}}
Holds(b) == status[b] \in {"pending", "confirmed"}

Stored(e) == present[e] = "stored"

\* ReleaseTickets: an unconditional decrement, which finds nothing to change
\* when the event has been removed.
ReleaseTickets(b) ==
  /\ sold' = IF eventOf[b] \in Events /\ Stored(eventOf[b])
             THEN [sold EXCEPT ![eventOf[b]] = @ - qtyOf[b]] ELSE sold
  /\ taken' = taken \ {b}

\* The event's count stops being trustworthy when cond holds of this step.
DriftsWhen(cond, e) == drift' = IF cond THEN drift \cup {e} ELSE drift

(***************************************************************************)
(* Initially nothing is stored.                                            *)
(***************************************************************************)
Init ==
  /\ present  = [e \in Events |-> "unborn"]
  /\ total    = [e \in Events |-> 0]
  /\ sold     = [e \in Events |-> 0]
  /\ onsale   = [e \in Events |-> FALSE]
  /\ status   = [b \in Bookings |-> "none"]
  /\ hold     = [b \in Bookings |-> "nil"]
  /\ eventOf  = [b \in Bookings |-> None]
  /\ qtyOf    = [b \in Bookings |-> 0]
  /\ job      = [p \in Procs |-> Idle]
  /\ taken    = {}
  /\ drift    = {}
  /\ stranded = {}

-----------------------------------------------------------------------------
(***************************************************************************)
(* Events.                                                                 *)
(***************************************************************************)

\* The whole body is inserted, the ticketsSold it may carry included.
CreateEvent(e, t, s, on) ==
  /\ "create" \in Handlers
  /\ present[e] = "unborn"
  /\ present' = [present EXCEPT ![e] = "stored"]
  /\ total'   = [total EXCEPT ![e] = t]
  /\ sold'    = [sold EXCEPT ![e] = s]
  /\ onsale'  = [onsale EXCEPT ![e] = on]
  /\ DriftsWhen(s # 0, e)
  /\ UNCHANGED <<status, hold, bookingFields, job, taken, stranded>>

\* UpdateEvent reads the event; the body is decoded over this copy.
UpdateRead(p, e) ==
  /\ Stored(e)
  /\ Begin(p, "update", [Idle EXCEPT !.at = "replace", !.event = e, !.seen = sold[e]])
  /\ UNCHANGED <<eventFields, sold, status, hold, bookingFields, taken, drift, stranded>>

\* Slip: an edit that forgets to compare the new total with the count.
UpdateReplaceUnchecked(p, t, on) ==
  LET e == job[p].event IN
  /\ At(p, "replace") /\ Stored(e)
  /\ total'  = [total EXCEPT ![e] = t]
  /\ sold'   = [sold EXCEPT ![e] = job[p].seen]
  /\ onsale' = [onsale EXCEPT ![e] = on]
  /\ DriftsWhen(job[p].seen # sold[e], e)
  /\ Ends(p)
  /\ UNCHANGED <<present, status, hold, bookingFields, taken, stranded>>

\* The copy, with the count it was read with, replaces the stored document.
UpdateReplace(p, t, on) ==
  LET e == job[p].event IN
  /\ At(p, "replace")
  /\ t >= job[p].seen
  /\ Stored(e)
  /\ total'  = [total EXCEPT ![e] = t]
  /\ sold'   = [sold EXCEPT ![e] = job[p].seen]
  /\ onsale' = [onsale EXCEPT ![e] = on]
  /\ DriftsWhen(job[p].seen # sold[e], e)
  /\ Ends(p)
  /\ UNCHANGED <<present, status, hold, bookingFields, taken, stranded>>

\* Refused: a total below the count that was read, or the event is gone.
UpdateRefused(p, t) ==
  /\ At(p, "replace")
  /\ t < job[p].seen \/ ~Stored(job[p].event)
  /\ Ends(p)
  /\ UNCHANGED <<eventFields, sold, status, hold, bookingFields, taken, drift, stranded>>

\* activelyHeld: sold, or held with the deadline still ahead.
ActivelyHeld(b) ==
  status[b] = "confirmed" \/ (status[b] = "pending" /\ hold[b] = "running")

\* DeleteEvent looks for a booking that is actively held, then removes.
DeleteEventCheck(p, e) ==
  /\ Stored(e)
  /\ ~\E b \in Rows : eventOf[b] = e /\ ActivelyHeld(b)
  /\ Begin(p, "deleteEvent", [Idle EXCEPT !.at = "removeEvent", !.event = e])
  /\ UNCHANGED <<eventFields, sold, status, hold, bookingFields, taken, drift, stranded>>

DeleteEventRemove(p) ==
  LET e == job[p].event IN
  /\ At(p, "removeEvent")
  /\ present' = [present EXCEPT ![e] = "removed"]
  /\ total'   = [total EXCEPT ![e] = 0]
  /\ sold'    = [sold EXCEPT ![e] = 0]
  /\ onsale'  = [onsale EXCEPT ![e] = FALSE]
  /\ Ends(p)
  /\ UNCHANGED <<status, hold, bookingFields, taken, drift, stranded>>

-----------------------------------------------------------------------------
(***************************************************************************)
(* Book and ExpireHolds.  A sweep with no event is the one at startup; a   *)
(* sweep with an event is the first half of Book.                          *)
(***************************************************************************)

\* Bound: a request enters only if an unused id is left for it.
Unused    == {b \in Bookings : status[b] = "none"}
InBooking == {p \in Procs : job[p].event # None /\ job[p].qty > 0 /\ ~At(p, "insert")}
IdsLeft   == Cardinality(InBooking) < Cardinality(Unused)

\* Slip: Book without its quantity check.
BookStartAnyQuantity(p, e, q) ==
  /\ Stored(e) /\ IdsLeft
  /\ Begin(p, "book", [Idle EXCEPT !.at = "find", !.event = e, !.qty = q])
  /\ UNCHANGED <<eventFields, sold, status, hold, bookingFields, taken, drift, stranded>>

BookStart(p, e, q) ==
  /\ q >= 1
  /\ Stored(e)
  /\ IdsLeft
  /\ Begin(p, "book", [Idle EXCEPT !.at = "find", !.event = e, !.qty = q])
  /\ UNCHANGED <<eventFields, sold, status, hold, bookingFields, taken, drift, stranded>>

\* An instance that takes payments sweeps every event when it starts.
SweepStart(p) ==
  /\ TRUE \in Modes
  /\ Begin(p, "sweep", [Idle EXCEPT !.at = "find"])
  /\ UNCHANGED <<eventFields, sold, status, hold, bookingFields, taken, drift, stranded>>

\* Pending bookings past their deadline, on one event or on all of them.
Lapsed(e) == {b \in Bookings : /\ status[b] = "pending"
                               /\ hold[b] = "lapsed"
                               /\ e = None \/ eventOf[b] = e}

SweepFind(p) ==
  /\ At(p, "find")
  /\ \E found \in SUBSET Lapsed(job[p].event) :
       /\ \/ found = Lapsed(job[p].event) /\ Cardinality(found) <= SweepLimit
          \/ Cardinality(found) = SweepLimit
       /\ Becomes(p, [job[p] EXCEPT !.at = "claim", !.todo = found])
  /\ UNCHANGED <<eventFields, sold, status, hold, bookingFields, taken, drift, stranded>>

\* Slip: a claim by id alone, as SetPaymentIntent and Cancel write.
SweepClaimBlind(p, b) ==
  /\ At(p, "claim") /\ b \in job[p].todo
  /\ status' = [status EXCEPT ![b] = "expired"]
  /\ hold'   = [hold EXCEPT ![b] = "nil"]
  /\ Becomes(p, [job[p] EXCEPT !.at = "release", !.booking = b, !.todo = @ \ {b}])
  /\ DriftsWhen(status[b] = "pending" /\ b \notin taken, eventOf[b])
  /\ UNCHANGED <<eventFields, sold, bookingFields, taken, stranded>>

\* Slip: the claim goes on to the next booking without releasing.
SweepClaimOnly(p, b) ==
  /\ At(p, "claim") /\ b \in job[p].todo /\ status[b] = "pending"
  /\ status' = [status EXCEPT ![b] = "expired"]
  /\ hold'   = [hold EXCEPT ![b] = "nil"]
  /\ Becomes(p, [job[p] EXCEPT !.todo = @ \ {b}])
  /\ DriftsWhen(b \notin taken, eventOf[b])
  /\ UNCHANGED <<eventFields, sold, bookingFields, taken, stranded>>

\* Claim one: only the update that finds it still pending goes on to release.
SweepClaim(p, b) ==
  /\ At(p, "claim")
  /\ b \in job[p].todo
  /\ status[b] = "pending"
  /\ status' = [status EXCEPT ![b] = "expired"]
  /\ hold'   = [hold EXCEPT ![b] = "nil"]
  /\ Becomes(p, [job[p] EXCEPT !.at = "release", !.booking = b, !.todo = @ \ {b}])
  /\ DriftsWhen(b \notin taken, eventOf[b])
  /\ UNCHANGED <<eventFields, sold, bookingFields, taken, stranded>>

\* Someone else got there first.
SweepSkip(p, b) ==
  /\ At(p, "claim")
  /\ b \in job[p].todo
  /\ status[b] # "pending"
  /\ Becomes(p, [job[p] EXCEPT !.todo = @ \ {b}])
  /\ UNCHANGED <<eventFields, sold, status, hold, bookingFields, taken, drift, stranded>>

SweepRelease(p) ==
  /\ At(p, "release")
  /\ ReleaseTickets(job[p].booking)
  /\ Becomes(p, [job[p] EXCEPT !.at = "claim", !.booking = None])
  /\ UNCHANGED <<eventFields, status, hold, bookingFields, drift, stranded>>

\* Slip: the loop over the found bookings returns early.
SweepDoneEarly(p) ==
  /\ At(p, "claim")
  /\ IF job[p].event = None THEN Ends(p)
     ELSE Becomes(p, [job[p] EXCEPT !.at = "reserve", !.todo = {}])
  /\ UNCHANGED <<eventFields, sold, status, hold, bookingFields, taken, drift, stranded>>

SweepDone(p) ==
  /\ At(p, "claim")
  /\ job[p].todo = {}
  /\ IF job[p].event = None THEN Ends(p) ELSE Goes(p, "reserve")
  /\ UNCHANGED <<eventFields, sold, status, hold, bookingFields, taken, drift, stranded>>

\* Slip: a reservation that leaves the quantity out of the comparison.
BookableIfAnyLeft(e, q) == Stored(e) /\ onsale[e] /\ total[e] - sold[e] >= 0

\* The condition of the conditional update that reserves the seats.
Bookable(e, q) == Stored(e) /\ onsale[e] /\ total[e] - sold[e] >= q

Reserve(p, b) ==
  LET e == job[p].event  q == job[p].qty IN
  /\ At(p, "reserve")
  /\ Bookable(e, q)
  /\ b \in Unused
  /\ sold'    = [sold EXCEPT ![e] = @ + q]
  /\ status'  = [status EXCEPT ![b] = "reserved"]
  /\ eventOf' = [eventOf EXCEPT ![b] = e]
  /\ qtyOf'   = [qtyOf EXCEPT ![b] = q]
  /\ taken'   = taken \cup {b}
  /\ Becomes(p, [job[p] EXCEPT !.at = "insert", !.booking = b])
  /\ UNCHANGED <<eventFields, hold, drift, stranded>>

SoldOut(p) ==
  /\ At(p, "reserve")
  /\ ~Bookable(job[p].event, job[p].qty)
  /\ Ends(p)
  /\ UNCHANGED <<eventFields, sold, status, hold, bookingFields, taken, drift, stranded>>

\* The row: pending with a deadline when this instance takes payments.
InsertBooking(p, holdSeats) ==
  LET b == job[p].booking IN
  /\ At(p, "insert")
  /\ status' = [status EXCEPT ![b] = IF holdSeats THEN "pending" ELSE "confirmed"]
  /\ hold'   = [hold EXCEPT ![b] = IF holdSeats THEN "running" ELSE "nil"]
  /\ Ends(p)
  /\ UNCHANGED <<eventFields, sold, bookingFields, taken, drift, stranded>>

\* The clock passes a deadline.
HoldLapses(b) ==
  /\ hold[b] = "running"
  /\ hold' = [hold EXCEPT ![b] = "lapsed"]
  /\ UNCHANGED <<eventFields, sold, status, bookingFields, job, taken, drift, stranded>>

-----------------------------------------------------------------------------
(***************************************************************************)
(* PayBooking, Cancel and DeleteBooking.                                   *)
(***************************************************************************)

\* PendingBooking: the status is checked here, the deadline is not.
PayRead(p, b) ==
  /\ TRUE \in Modes
  /\ status[b] = "pending"
  /\ Begin(p, "pay", [Idle EXCEPT !.at = "markPaid", !.booking = b])
  /\ UNCHANGED <<eventFields, sold, status, hold, bookingFields, taken, drift, stranded>>

\* Slip: a payment that is recorded whatever became of the booking.
MarkPaidBlind(p) ==
  LET b == job[p].booking IN
  /\ At(p, "markPaid") /\ b \in Rows
  /\ status' = [status EXCEPT ![b] = "confirmed"]
  /\ hold'   = [hold EXCEPT ![b] = "nil"]
  /\ Ends(p)
  /\ UNCHANGED <<eventFields, sold, bookingFields, taken, drift, stranded>>

\* MarkPaid, after the provider has vouched for the charge.
MarkPaid(p) ==
  LET b == job[p].booking IN
  /\ At(p, "markPaid")
  /\ status[b] = "pending"
  /\ status' = [status EXCEPT ![b] = "confirmed"]
  /\ hold'   = [hold EXCEPT ![b] = "nil"]
  /\ Ends(p)
  /\ UNCHANGED <<eventFields, sold, bookingFields, taken, drift, stranded>>

\* The charge is not through, or the booking stopped being pending.
PayRefused(p) ==
  /\ At(p, "markPaid")
  /\ Ends(p)
  /\ UNCHANGED <<eventFields, sold, status, hold, bookingFields, taken, drift, stranded>>

\* Cancel looks at the copy its caller read.
CancelRead(p, b) ==
  /\ b \in Rows
  /\ Holds(b)
  /\ Begin(p, "cancel", [Idle EXCEPT !.at = "cancelWrite", !.booking = b])
  /\ UNCHANGED <<eventFields, sold, status, hold, bookingFields, taken, drift, stranded>>

\* Slip: a cancellation that gives the seats back and leaves the status.
CancelWriteLost(p) ==
  LET b == job[p].booking IN
  /\ At(p, "cancelWrite")
  /\ DriftsWhen(~(Holds(b) /\ b \in taken), eventOf[b])
  /\ Goes(p, "cancelRelease")
  /\ UNCHANGED <<eventFields, sold, status, hold, bookingFields, taken, stranded>>

\* ... and writes the status whatever the row has become; holdExpiresAt stays.
CancelWrite(p) ==
  LET b == job[p].booking IN
  /\ At(p, "cancelWrite")
  /\ status' = IF b \in Rows THEN [status EXCEPT ![b] = "cancelled"] ELSE status
  /\ DriftsWhen(~(Holds(b) /\ b \in taken), eventOf[b])
  /\ Goes(p, "cancelRelease")
  /\ UNCHANGED <<eventFields, sold, hold, bookingFields, taken, stranded>>

CancelRelease(p) ==
  /\ At(p, "cancelRelease")
  /\ ReleaseTickets(job[p].booking)
  /\ Ends(p)
  /\ UNCHANGED <<eventFields, status, hold, bookingFields, drift, stranded>>

\* DeleteBooking releases first when the copy it read holds seats.
DeleteRead(p, b) ==
  /\ b \in Rows
  /\ eventOf[b] \in Events => sold[eventOf[b]] > SoldFloor
  /\ Begin(p, "delete", [Idle EXCEPT !.booking = b,
                                     !.at = IF Holds(b) THEN "delRelease" ELSE "delRemove"])
  /\ UNCHANGED <<eventFields, sold, status, hold, bookingFields, taken, drift, stranded>>

DeleteRelease(p) ==
  LET b == job[p].booking IN
  /\ At(p, "delRelease")
  /\ ReleaseTickets(b)
  /\ DriftsWhen(~(Holds(b) /\ b \in taken), eventOf[b])
  /\ Goes(p, "delRemove")
  /\ UNCHANGED <<eventFields, status, hold, bookingFields, stranded>>

DeleteRemove(p) ==
  LET b == job[p].booking IN
  /\ At(p, "delRemove")
  /\ status' = [status EXCEPT ![b] = "deleted"]
  /\ hold'   = [hold EXCEPT ![b] = "nil"]
  /\ Ends(p)
  /\ UNCHANGED <<eventFields, sold, bookingFields, taken, drift, stranded>>

-----------------------------------------------------------------------------
\* A crash, a lost connection or the five-second deadline ends a handler
\* between two of its calls.  Half-done work on a booking stays half done.
Midway == {"insert", "release", "cancelRelease", "delRemove"}

Abort(p) ==
  /\ MayFail
  /\ ~At(p, "idle")
  /\ Ends(p)
  /\ stranded' = IF job[p].at \in Midway THEN stranded \cup {job[p].booking} ELSE stranded
  /\ UNCHANGED <<eventFields, sold, status, hold, bookingFields, taken, drift>>

\* A request arrives.
Arrives(p) ==
  \/ SweepStart(p)
  \/ \E e \in Events : \/ UpdateRead(p, e)
                       \/ DeleteEventCheck(p, e)
                       \/ \E q \in Quantities : BookStart(p, e, q)
  \/ \E b \in Bookings : PayRead(p, b) \/ CancelRead(p, b) \/ DeleteRead(p, b)

\* A handler makes its next database call.
Continues(p) ==
  \/ SweepFind(p) \/ SweepRelease(p) \/ SweepDone(p) \/ SoldOut(p)
  \/ \E b \in Bookings : SweepClaim(p, b) \/ SweepSkip(p, b) \/ Reserve(p, b)
  \/ \E m \in Modes : InsertBooking(p, m)
  \/ MarkPaid(p) \/ PayRefused(p)
  \/ CancelWrite(p) \/ CancelRelease(p)
  \/ DeleteRelease(p) \/ DeleteRemove(p)
  \/ \E t \in Totals : UpdateRefused(p, t) \/ \E on \in BOOLEAN : UpdateReplace(p, t, on)
  \/ DeleteEventRemove(p)

Next ==
  \/ \E e \in Events, t \in Totals, s \in SoldInBody, on \in BOOLEAN : CreateEvent(e, t, s, on)
  \/ \E b \in Bookings : HoldLapses(b)
  \/ \E p \in Procs : Arrives(p) \/ Continues(p) \/ Abort(p)

Spec == Init /\ [][Next]_vars

\* Every handler that has started is scheduled until it returns.
FairSpec == Spec /\ \A p \in Procs : WF_vars(Continues(p))

-----------------------------------------------------------------------------
(***************************************************************************)
(* Properties.                                                             *)
(***************************************************************************)

\* TypeOK: every variable keeps its shape; a count may go below zero, as the
\* unchecked decrement of ReleaseTickets allows.
TypeOK ==
  /\ present \in [Events -> {"unborn", "stored", "removed"}]
  /\ total \in [Events -> Nat]
  /\ sold \in [Events -> Int]
  /\ onsale \in [Events -> BOOLEAN]
  /\ status \in [Bookings -> {"none", "reserved", "pending", "confirmed",
                              "cancelled", "expired", "deleted"}]
  /\ hold \in [Bookings -> {"nil", "running", "lapsed"}]
  /\ eventOf \in [Bookings -> Events \cup {None}]
  /\ qtyOf \in [Bookings -> Nat]
  /\ job \in [Procs -> Job]
  /\ taken \subseteq Bookings
  /\ drift \subseteq Events
  /\ stranded \subseteq Bookings

\* How many seats a set of bookings stands for: the sum of their quantities,
\* counted seat by seat.
SeatsOf(S, qty) == Cardinality(UNION {{b} \X (1 .. qty[b]) : b \in S})
SeatCount(S)    == SeatsOf(S, qtyOf)

Taken(e)   == {b \in taken : eventOf[b] = e}
Holders(e) == {b \in Bookings : Holds(b) /\ eventOf[b] = e}

\* The handler that still owes booking b a database call of one of these kinds.
Working(b, steps) == \E p \in Procs : job[p].at \in steps /\ job[p].booking = b

\* LedgerExact: the ticketsSold of an event is the number of seats its bookings
\* took and have not given back, through every interleaving of bookings,
\* sweeps, payments, cancellations, deletions, edits and crashes, except on an
\* event in drift, which only these five steps cause: an event created with a
\* count in its body, an edit that overwrites a count that moved since it was
\* read, a cancellation or a deletion of a booking that stopped holding its
\* seats since it was read, and a sweep of a booking that is being deleted.
LedgerExact == \A e \in Events \ drift : Stored(e) => sold[e] = SeatCount(Taken(e))

\* A deletion has given back b's seats and has not removed its row, or died
\* before it could.
BeingErased(b) == b \in stranded \/ Working(b, {"delRemove"})

\* HoldersCounted: a pending or confirmed booking is counted in its event's
\* ticketsSold, so nobody else can be sold the same seats, unless DeleteBooking
\* stopped between its release and its removal of the row.
HoldersCounted == \A b \in Bookings : Holds(b) => b \in taken \/ BeingErased(b)

\* NoOversell: the pending and confirmed bookings of an event never stand for
\* more seats than the event has, however its total is edited, so long as its
\* count has not drifted and no deletion is halfway.
NoOversell ==
  \A e \in Events \ drift :
    (Stored(e) /\ \A b \in Holders(e) : ~BeingErased(b))
      => SeatCount(Holders(e)) <= total[e]

\* NoSeatStranded: seats taken from an event that no pending or confirmed
\* booking holds have a handler at work that will insert their booking or give
\* them back; only a handler that dies between its two calls can strand them.
NoSeatStranded ==
  \A b \in taken : Holds(b) \/ b \in stranded
                   \/ Working(b, {"insert", "release", "cancelRelease"})

\* SoldStaysWithinTotal: whatever else goes wrong, no step takes an event whose
\* ticketsSold is within its ticketsTotal to one where it is not: Reserve checks
\* and increments in one call, and UpdateEvent checks the pair it writes.
SoldStaysWithinTotal ==
  [][\A e \in Events : Stored(e) /\ sold[e] <= total[e] => sold'[e] <= total'[e]]_vars

\* ReleasesOnlyTaken: the seats of a booking are given back at most once, which
\* ExpireHolds promises of its own releases ("two concurrent sweeps - or a
\* sweep racing a payment - cannot both act on the same booking") and Cancel
\* of its ("a no-op on an already-cancelled booking, so retries stay safe").
ReleasesOnlyTaken ==
  [][\A p \in Procs : SweepRelease(p) \/ CancelRelease(p) \/ DeleteRelease(p)
                        => job[p].booking \in taken]_vars

\* Each booking keeps to the life the status rule of models.go gives it.
Stage(s) == CASE s \in {"none", "reserved"}     -> "none"
              [] s = "pending"                  -> "held"
              [] s = "confirmed"                -> "sold"
              [] s \in {"cancelled", "expired"} -> "closed"
              [] s = "deleted"                  -> "erased"

Lifecycle == INSTANCE BookingLifecycle WITH stage <- [b \in Bookings |-> Stage(status[b])]

\* FollowsLifecycle: the handlers implement BookingLifecycle: no interleaving
\* confirms a booking that was cancelled, expired or deleted, or revives one.
FollowsLifecycle == Lifecycle!Spec

\* SeatsComeBack: when nothing fails, the seats of a booking that expired
\* return to its event.
SeatsComeBack == \A b \in Bookings : (status[b] = "expired") ~> (b \notin taken)

\* FoundHoldsEnd: a lapsed hold that a sweep has read stops being pending:
\* this sweep, another one, a payment or a cancellation settles it.
FoundHoldsEnd ==
  \A b \in Bookings : (\E p \in Procs : b \in job[p].todo) ~> (status[b] # "pending")

(***************************************************************************)
(* The inductive invariants behind the theorems of SeatLedgerProofs.       *)
(***************************************************************************)

\* A booking that has, or had, a row; and one whose row can no longer hold.
HadRow(b) == status[b] \in {"pending", "confirmed", "cancelled", "expired", "deleted"}
Over(b)   == status[b] \in {"cancelled", "expired", "deleted"}

OnBooking == {"release", "insert", "markPaid", "cancelWrite", "cancelRelease",
              "delRelease", "delRemove"}
OnEvent   == {"reserve", "replace", "removeEvent"}

\* What a handler may rely on between two of its calls.
JobFits(p) ==
  /\ job[p].at \in OnEvent => job[p].event \in Events
  /\ job[p].at \in OnBooking => job[p].booking \in Bookings
  /\ At(p, "insert") => status[job[p].booking] = "reserved"
  /\ job[p].at \in OnBooking \ {"insert"} => HadRow(job[p].booking)
  /\ job[p].at \in {"release", "cancelRelease"} => Over(job[p].booking)
  /\ \A b \in job[p].todo : HadRow(b)

\* Control: handlers act on bookings of real events, and two of them never
\* insert the same booking.
Control ==
  /\ \A b \in Bookings : status[b] = "none" \/ eventOf[b] \in Events
  /\ \A p \in Procs : JobFits(p)
  /\ \A p, q \in Procs : At(p, "insert") /\ At(q, "insert") /\ job[p].booking = job[q].booking
                           => p = q

\* Accounted: who answers for the seats of each booking.
Accounted ==
  /\ HoldersCounted
  /\ NoSeatStranded
  /\ \A b \in Bookings : status[b] = "reserved" => b \in taken
  /\ \A b \in taken : status[b] # "none"
  /\ \A p \in Procs : At(p, "delRemove") => ~(Holds(job[p].booking) /\ job[p].booking \in taken)

\* Owned: on an event that has not drifted, a handler about to give seats back
\* is the only one, and the seats are there to be given.
Releases == {"release", "cancelRelease"}

Owned ==
  /\ \A p \in Procs : job[p].at \in Releases
       => job[p].booking \in taken \/ eventOf[job[p].booking] \in drift
  /\ \A p, q \in Procs :
       /\ job[p].at \in Releases
       /\ job[q].at \in Releases
       /\ job[p].booking = job[q].booking
       => p = q \/ eventOf[job[p].booking] \in drift
  /\ \A b \in taken : present[eventOf[b]] # "unborn" /\ status[b] # "none"

WithinTotal == \A e \in Events \ drift : Stored(e) => sold[e] <= total[e]

Exact == Owned /\ LedgerExact /\ WithinTotal

\* GivenBackOnce: where no booking is cancelled or deleted, a booking has its
\* seats until a sweep claims it, and from then on that sweep's handler is the
\* only one that will give them back.
GivenBackOnce ==
  /\ \A p \in Procs :
       job[p].at \notin {"cancelWrite", "cancelRelease", "delRelease", "delRemove"}
  /\ \A b \in Bookings : status[b] \in {"reserved", "pending", "confirmed"} => b \in taken
  /\ \A p \in Procs : At(p, "release") => job[p].booking \in taken /\ Over(job[p].booking)
  /\ \A p, q \in Procs : At(p, "release") /\ At(q, "release") /\ job[p].booking = job[q].booking
                           => p = q
=============================================================================
