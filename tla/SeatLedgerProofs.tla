-------------------------- MODULE SeatLedgerProofs --------------------------
(***************************************************************************)
(* Theorems about SeatLedger, for any sets of events, bookings and         *)
(* requests, any quantities and any traffic.                               *)
(***************************************************************************)
EXTENDS SeatLedger, FiniteSetTheorems, TLAPS

-----------------------------------------------------------------------------
(***************************************************************************)
(* Counting seats.                                                         *)
(***************************************************************************)

\* RowCount: a booking for n tickets stands for n seats.
LEMMA RowCount ==
  ASSUME NEW c, NEW n \in Nat
  PROVE  IsFiniteSet({c} \X (1 .. n)) /\ Cardinality({c} \X (1 .. n)) = n
<1>1. IsFiniteSet(1 .. n) /\ Cardinality(1 .. n) = IF 1 > n THEN 0 ELSE n - 1 + 1
  BY FS_Interval
<1>2. Cardinality(1 .. n) = n
  BY <1>1
<1>3. IsFiniteSet({c}) /\ Cardinality({c}) = 1
  BY FS_Singleton
<1>4. IsFiniteSet({c} \X (1 .. n)) /\ Cardinality({c} \X (1 .. n)) = 1 * n
  BY <1>1, <1>2, <1>3, FS_Product
<1> QED BY <1>4

\* SeatsFinite: the seats of finitely many bookings are finitely many.
LEMMA SeatsFinite ==
  ASSUME NEW S, IsFiniteSet(S), NEW qty, \A b \in S : qty[b] \in Nat
  PROVE  /\ IsFiniteSet(UNION {{b} \X (1 .. qty[b]) : b \in S})
         /\ SeatsOf(S, qty) \in Nat
<1> DEFINE Row == [b \in S |-> {b} \X (1 .. qty[b])]
           T   == {{b} \X (1 .. qty[b]) : b \in S}
<1>1. Row \in Surjection(S, T)
  BY DEF Surjection
<1>2. IsFiniteSet(T)
  BY <1>1, FS_Surjection
<1>3. \A b \in S : IsFiniteSet({b} \X (1 .. qty[b]))
  BY RowCount
<1>4. IsFiniteSet(UNION T)
  BY <1>2, <1>3, FS_UNION
<1> QED BY <1>4, FS_CardinalityType DEF SeatsOf

\* SeatsAdd: one more booking adds its own quantity.
LEMMA SeatsAdd ==
  ASSUME NEW S, IsFiniteSet(S), NEW c, c \notin S,
         NEW qty, \A b \in S \cup {c} : qty[b] \in Nat
  PROVE  SeatsOf(S \cup {c}, qty) = SeatsOf(S, qty) + qty[c]
<1> DEFINE Seats(X) == UNION {{b} \X (1 .. qty[b]) : b \in X}
           Row == {c} \X (1 .. qty[c])
<1>1. Seats(S \cup {c}) = Seats(S) \cup Row
  OBVIOUS
<1>2. Seats(S) \cap Row = {}
  OBVIOUS
<1>3. IsFiniteSet(Seats(S)) /\ Cardinality(Seats(S)) \in Nat
  BY SeatsFinite DEF SeatsOf
<1>4. IsFiniteSet(Row) /\ Cardinality(Row) = qty[c]
  BY RowCount
<1>5. Cardinality(Seats(S) \cup Row) = Cardinality(Seats(S)) + Cardinality(Row)
  <2>1. Cardinality(Seats(S) \cup Row)
          = Cardinality(Seats(S)) + Cardinality(Row) - Cardinality(Seats(S) \cap Row)
    BY <1>3, <1>4, FS_Union
  <2>2. Cardinality(Seats(S) \cap Row) = 0
    BY <1>2, FS_EmptySet
  <2> QED BY <2>1, <2>2, <1>3, <1>4
<1> QED BY <1>1, <1>4, <1>5 DEF SeatsOf

\* SeatsMonotone: fewer bookings stand for no more seats.
LEMMA SeatsMonotone ==
  ASSUME NEW S, IsFiniteSet(S), NEW R \in SUBSET S, NEW qty, \A b \in S : qty[b] \in Nat
  PROVE  SeatsOf(R, qty) <= SeatsOf(S, qty)
<1> DEFINE Seats(X) == UNION {{b} \X (1 .. qty[b]) : b \in X}
<1>1. Seats(R) \in SUBSET Seats(S)
  OBVIOUS
<1>2. IsFiniteSet(Seats(S))
  BY SeatsFinite
<1> QED BY <1>1, <1>2, FS_Subset DEF SeatsOf

\* SeatsNone: no bookings, no seats.
LEMMA SeatsNone ==
  ASSUME NEW qty
  PROVE  SeatsOf({}, qty) = 0
<1>1. UNION {{b} \X (1 .. qty[b]) : b \in {}} = {}
  OBVIOUS
<1> QED BY <1>1, FS_EmptySet DEF SeatsOf

\* SeatsAgree: only the quantities of the bookings in the set matter.
LEMMA SeatsAgree ==
  ASSUME NEW S, NEW f, NEW g, \A b \in S : f[b] = g[b]
  PROVE  SeatsOf(S, f) = SeatsOf(S, g)
<1>1. {{b} \X (1 .. f[b]) : b \in S} = {{b} \X (1 .. g[b]) : b \in S}
  OBVIOUS
<1> QED BY <1>1 DEF SeatsOf

-----------------------------------------------------------------------------
(***************************************************************************)
(* Control, and with it the types.                                         *)
(***************************************************************************)

\* IdleIsJob: a process that serves no request is in its type.
LEMMA IdleIsJob == Idle \in Job
BY DEF Idle, Job, Steps

\* JobsTyped: one handler moving on keeps every handler's locals in their type.
LEMMA JobsTyped ==
  ASSUME TypeOK, NEW p \in Procs, NEW j \in Job, Becomes(p, j)
  PROVE  job' \in [Procs -> Job] /\ job'[p] = j /\ \A q \in Procs \ {p} : job'[q] = job[q]
BY DEF TypeOK, Becomes

\* JobTyped: the locals of a handler, one by one.
LEMMA JobTyped ==
  ASSUME TypeOK, NEW p \in Procs
  PROVE  /\ job[p] \in Job
         /\ job[p].event \in Events \cup {None} /\ job[p].booking \in Bookings \cup {None}
         /\ job[p].qty \in Nat /\ job[p].todo \in SUBSET Bookings /\ job[p].seen \in Int
BY DEF TypeOK, Job

\* OnlyJobMoves: a step that changes nothing but a handler's locals keeps the types.
LEMMA OnlyJobMoves ==
  ASSUME TypeOK, NEW p \in Procs, NEW j \in Job, Becomes(p, j),
         UNCHANGED <<eventFields, sold, status, hold, bookingFields, taken, drift, stranded>>
  PROVE  TypeOK'
<1>1. job' \in [Procs -> Job]
  BY JobsTyped
<1> QED BY <1>1 DEF TypeOK, eventFields, bookingFields

\* OneBookingTyped: nor does one that writes the status and the deadline of bookings.
LEMMA OneBookingTyped ==
  ASSUME TypeOK, NEW p \in Procs, NEW j \in Job, Becomes(p, j), NEW b, NEW s, NEW h,
         status' = [status EXCEPT ![b] = s] \/ status' = status,
         s \in {"none", "reserved", "pending", "confirmed", "cancelled", "expired", "deleted"},
         hold' = [hold EXCEPT ![b] = h] \/ hold' = hold,
         h \in {"nil", "running", "lapsed"},
         drift' \subseteq Events,
         UNCHANGED <<eventFields, sold, bookingFields, taken, stranded>>
  PROVE  TypeOK'
<1>1. job' \in [Procs -> Job]
  BY JobsTyped
<1>2. status' \in [Bookings -> {"none", "reserved", "pending", "confirmed", "cancelled",
                                "expired", "deleted"}]
  BY DEF TypeOK
<1>3. hold' \in [Bookings -> {"nil", "running", "lapsed"}]
  BY DEF TypeOK
<1> QED BY <1>1, <1>2, <1>3 DEF TypeOK, eventFields, bookingFields

\* ReleaseTyped: ReleaseTickets keeps the counts integers.
LEMMA ReleaseTyped ==
  ASSUME TypeOK, NEW b \in Bookings, ReleaseTickets(b)
  PROVE  sold' \in [Events -> Int] /\ taken' \subseteq Bookings
<1>1. qtyOf[b] \in Nat
  BY DEF TypeOK
<1>2. CASE eventOf[b] \in Events /\ Stored(eventOf[b])
  <2>1. sold[eventOf[b]] - qtyOf[b] \in Int
    BY <1>1, <1>2 DEF TypeOK
  <2> QED BY <1>2, <2>1 DEF ReleaseTickets, TypeOK
<1>3. CASE ~(eventOf[b] \in Events /\ Stored(eventOf[b]))
  BY <1>3 DEF ReleaseTickets, TypeOK
<1> QED BY <1>2, <1>3

\* DriftTyped: only events drift.
LEMMA DriftTyped ==
  ASSUME TypeOK, NEW e, NEW cond, DriftsWhen(cond, e), e \in Events
  PROVE  drift' \subseteq Events
BY DEF DriftsWhen, TypeOK

\* RowIsOfEvent: a booking that has or had a row is of an event.
LEMMA RowIsOfEvent ==
  ASSUME Control, NEW b \in Bookings, HadRow(b) \/ status[b] = "reserved"
  PROVE  eventOf[b] \in Events
BY DEF Control, HadRow

\* ActsOnRow: a handler past its first write acts on a booking that has or had a
\* row, and on an event.
LEMMA ActsOnRow ==
  ASSUME Control, NEW p \in Procs, job[p].at \in OnBooking \ {"insert"}
  PROVE  /\ job[p].booking \in Bookings /\ HadRow(job[p].booking)
         /\ eventOf[job[p].booking] \in Events
<1>1. job[p].booking \in Bookings /\ HadRow(job[p].booking)
  BY DEF Control, JobFits
<1> QED BY <1>1, RowIsOfEvent

\* RowsStay: a row that exists, or is over, stays so; and bookings are of events.
RowsStay == \A b \in Bookings : /\ HadRow(b) => HadRow(b)'
                                /\ Over(b) => Over(b)'
                                /\ status'[b] = "none" \/ eventOf'[b] \in Events

\* NobodyElseInserts: no other handler is about to insert b.
NobodyElseInserts(p, b) == \A q \in Procs \ {p} : At(q, "insert") => job[q].booking # b

\* StillInControl: a handler's step keeps Control if its own locals fit what it
\* does next and it leaves the other handlers what they rely on.
LEMMA StillInControl ==
  ASSUME TypeOK, Control, NEW p \in Procs, NEW j \in Job, Becomes(p, j), JobFits(p)', RowsStay,
         j.at = "insert" => NobodyElseInserts(p, j.booking),
         \A q \in Procs \ {p} : At(q, "insert") => status'[job[q].booking] = "reserved"
  PROVE  Control'
<1>1. job'[p] = j /\ \A q \in Procs \ {p} : job'[q] = job[q]
  BY JobsTyped
<1>2. (\A q \in Procs : JobFits(q))'
  <2> SUFFICES ASSUME NEW q \in Procs \ {p} PROVE JobFits(q)'
    OBVIOUS
  <2>1. JobFits(q) /\ job'[q] = job[q] /\ job[q].todo \subseteq Bookings
    BY <1>1, JobTyped DEF Control
  <2>2. \A b \in Bookings : (HadRow(b) => HadRow(b)') /\ (Over(b) => Over(b)')
    BY DEF RowsStay
  <2>3. job[q].at \in OnBooking \ {"insert"} => HadRow(job[q].booking)'
    BY <2>1, <2>2 DEF JobFits, HadRow
  <2>4. job[q].at \in {"release", "cancelRelease"} => Over(job[q].booking)'
    BY <2>1, <2>2 DEF JobFits, OnBooking, Over
  <2>5. \A b \in job[q].todo : HadRow(b)'
    BY <2>1, <2>2 DEF JobFits
  <2> QED BY <2>1, <2>3, <2>4, <2>5 DEF JobFits, At, HadRow, Over
<1>3. (\A b \in Bookings : status[b] = "none" \/ eventOf[b] \in Events)'
  BY DEF RowsStay
<1>4. (\A q, r \in Procs : At(q, "insert") /\ At(r, "insert") /\ job[q].booking = job[r].booking
                             => q = r)'
  BY <1>1 DEF Control, At, NobodyElseInserts
<1> QED BY <1>2, <1>3, <1>4 DEF Control

\* QuietControl: so does a step that writes no booking and is not about to insert one.
LEMMA QuietControl ==
  ASSUME TypeOK, Control, NEW p \in Procs, NEW j \in Job, Becomes(p, j), JobFits(p)',
         j.at # "insert", UNCHANGED <<status, eventOf>>
  PROVE  Control'
<1>1. RowsStay
  BY DEF RowsStay, HadRow, Over, Control
<1>2. \A q \in Procs \ {p} : At(q, "insert") => status'[job[q].booking] = "reserved"
  BY DEF Control, JobFits
<1> QED BY <1>1, <1>2, StillInControl

\* IdleFits: a handler that has returned relies on nothing.
LEMMA IdleFits ==
  ASSUME TypeOK, NEW p \in Procs, Ends(p)
  PROVE  Becomes(p, Idle) /\ JobFits(p)'
<1>1. job'[p] = Idle
  BY JobsTyped, IdleIsJob DEF Ends
<1> QED BY <1>1 DEF Ends, Idle, JobFits, OnEvent, OnBooking, At

\* Returning: a handler that returns and writes nothing keeps both.
LEMMA Returning ==
  ASSUME TypeOK, Control, NEW p \in Procs, Ends(p),
         UNCHANGED <<eventFields, sold, status, hold, bookingFields, taken, drift, stranded>>
  PROVE  TypeOK' /\ Control'
<1>1. Becomes(p, Idle) /\ JobFits(p)' /\ Idle.at # "insert"
  BY IdleFits DEF Idle
<1>2. TypeOK'
  BY <1>1, IdleIsJob, OnlyJobMoves
<1>3. Control'
  BY <1>1, IdleIsJob, QuietControl DEF bookingFields
<1> QED BY <1>2, <1>3

\* OneRowStays: writing one booking's status, of an event, from a row to a row
\* leaves every handler what it relies on.
LEMMA OneRowStays ==
  ASSUME TypeOK, Control, NEW p \in Procs, NEW b \in Bookings, NEW s,
         status' = [status EXCEPT ![b] = s], eventOf' = eventOf, eventOf[b] \in Events,
         s \in {"pending", "confirmed", "cancelled", "expired", "deleted"},
         Over(b) => s \in {"cancelled", "expired", "deleted"},
         NobodyElseInserts(p, b)
  PROVE  RowsStay /\ \A q \in Procs \ {p} : At(q, "insert") => status'[job[q].booking] = "reserved"
<1>1. \A c \in Bookings : status'[c] = IF c = b THEN s ELSE status[c]
  BY DEF TypeOK
<1>2. RowsStay
  BY <1>1 DEF RowsStay, HadRow, Over, Control
<1>3. ASSUME NEW q \in Procs \ {p}, At(q, "insert") PROVE status'[job[q].booking] = "reserved"
  <2>1. job[q].booking \in Bookings /\ status[job[q].booking] = "reserved"
    BY <1>3 DEF Control, JobFits, OnBooking, At
  <2>2. job[q].booking # b
    BY <1>3 DEF NobodyElseInserts
  <2> QED BY <1>1, <2>1, <2>2
<1> QED BY <1>2, <1>3

\* NobodyInsertsRow: nobody is about to insert a booking that has or had a row.
LEMMA NobodyInsertsRow ==
  ASSUME Control, NEW b \in Bookings, HadRow(b), NEW p
  PROVE  NobodyElseInserts(p, b)
BY DEF NobodyElseInserts, Control, JobFits, HadRow, At

\* Moving: a handler that only moves on keeps both, if its locals fit its next call.
LEMMA Moving ==
  ASSUME TypeOK, Control, NEW p \in Procs, NEW j \in Job, Becomes(p, j),
         UNCHANGED <<eventFields, sold, status, hold, bookingFields, taken, drift, stranded>>,
         j.at # "insert",
         j.at \in OnEvent => j.event \in Events,
         j.at \in OnBooking => j.booking \in Bookings /\ HadRow(j.booking),
         j.at \in {"release", "cancelRelease"} => Over(j.booking),
         \A b \in j.todo : HadRow(b)
  PROVE  TypeOK' /\ Control'
<1>1. TypeOK'
  BY OnlyJobMoves
<1>2. UNCHANGED <<status, eventOf>> /\ job'[p] = j
  BY JobsTyped DEF bookingFields
<1>3. JobFits(p)'
  BY <1>2 DEF JobFits, At, HadRow, Over
<1>4. Control'
  BY <1>2, <1>3, QuietControl
<1> QED BY <1>1, <1>4

\* ControlInv: TypeOK and Control are preserved together: a step keeps the types
\* because its handler acts on a booking of a real event.
THEOREM ControlInv == Spec => [](TypeOK /\ Control)
<1>1. Init => TypeOK /\ Control
  <2> SUFFICES ASSUME Init PROVE TypeOK /\ Control
    OBVIOUS
  <2>1. TypeOK
    BY IdleIsJob DEF Init, TypeOK
  <2>2. Control
    BY DEF Init, Idle, Control, JobFits, OnEvent, OnBooking, At
  <2> QED BY <2>1, <2>2
<1>2. TypeOK /\ Control /\ [Next]_vars => TypeOK' /\ Control'
  <2> SUFFICES ASSUME TypeOK, Control, [Next]_vars PROVE TypeOK' /\ Control'
    OBVIOUS
  <2>1. ASSUME NEW e \in Events, NEW t \in Totals, NEW s \in SoldInBody, NEW on \in BOOLEAN,
               CreateEvent(e, t, s, on)
        PROVE  TypeOK' /\ Control'
    <3>1. t \in Nat /\ s \in Int
      BY LedgerAssumption
    <3>2. TypeOK'
      BY <2>1, <3>1 DEF CreateEvent, DriftsWhen, TypeOK, bookingFields
    <3>3. UNCHANGED <<status, eventOf, job>>
      BY <2>1 DEF CreateEvent, bookingFields
    <3>4. Control'
      BY <3>3 DEF Control, JobFits, HadRow, Over, At
    <3> QED BY <3>2, <3>4
  <2>2. ASSUME NEW b \in Bookings, HoldLapses(b) PROVE TypeOK' /\ Control'
    <3>1. TypeOK'
      BY <2>2 DEF HoldLapses, TypeOK, eventFields, bookingFields
    <3>2. UNCHANGED <<status, eventOf, job>>
      BY <2>2 DEF HoldLapses, bookingFields
    <3>3. Control'
      BY <3>2 DEF Control, JobFits, HadRow, Over, At
    <3> QED BY <3>1, <3>3
  <2>3. ASSUME NEW p \in Procs, Arrives(p) PROVE TypeOK' /\ Control'
    <3>1. CASE SweepStart(p)
      <4> DEFINE j == [Idle EXCEPT !.at = "find"]
      <4>1. j \in Job
        BY IdleIsJob DEF Job, Steps
      <4>2. j.at = "find" /\ j.todo = {}
        BY DEF Idle
      <4> HIDE DEF j
      <4>3. Becomes(p, j)
        BY <3>1 DEF SweepStart, Begin, j
      <4> QED BY <3>1, <4>1, <4>2, <4>3, Moving DEF SweepStart, OnEvent, OnBooking
    <3>2. ASSUME NEW e \in Events, UpdateRead(p, e) PROVE TypeOK' /\ Control'
      <4> DEFINE j == [Idle EXCEPT !.at = "replace", !.event = e, !.seen = sold[e]]
      <4>1. j \in Job
        BY IdleIsJob DEF TypeOK, Job, Steps
      <4>2. j.at = "replace" /\ j.event = e /\ j.todo = {}
        BY DEF Idle
      <4> HIDE DEF j
      <4>3. Becomes(p, j)
        BY <3>2 DEF UpdateRead, Begin, j
      <4> QED BY <3>2, <4>1, <4>2, <4>3, Moving DEF UpdateRead, OnEvent, OnBooking
    <3>3. ASSUME NEW e \in Events, DeleteEventCheck(p, e) PROVE TypeOK' /\ Control'
      <4> DEFINE j == [Idle EXCEPT !.at = "removeEvent", !.event = e]
      <4>1. j \in Job
        BY IdleIsJob DEF Job, Steps
      <4>2. j.at = "removeEvent" /\ j.event = e /\ j.todo = {}
        BY DEF Idle
      <4> HIDE DEF j
      <4>3. Becomes(p, j)
        BY <3>3 DEF DeleteEventCheck, Begin, j
      <4> QED BY <3>3, <4>1, <4>2, <4>3, Moving DEF DeleteEventCheck, OnEvent, OnBooking
    <3>4. ASSUME NEW e \in Events, NEW q \in Quantities, BookStart(p, e, q) PROVE TypeOK' /\ Control'
      <4> DEFINE j == [Idle EXCEPT !.at = "find", !.event = e, !.qty = q]
      <4>1. q \in Nat
        BY <3>4, LedgerAssumption DEF BookStart
      <4>2. j \in Job
        BY <4>1, IdleIsJob DEF Job, Steps
      <4>3. j.at = "find" /\ j.todo = {}
        BY DEF Idle
      <4> HIDE DEF j
      <4>4. Becomes(p, j)
        BY <3>4 DEF BookStart, Begin, j
      <4> QED BY <3>4, <4>2, <4>3, <4>4, Moving DEF BookStart, OnEvent, OnBooking
    <3>5. ASSUME NEW b \in Bookings, PayRead(p, b) PROVE TypeOK' /\ Control'
      <4> DEFINE j == [Idle EXCEPT !.at = "markPaid", !.booking = b]
      <4>1. j \in Job
        BY IdleIsJob DEF Job, Steps
      <4>2. j.at = "markPaid" /\ j.booking = b /\ j.todo = {}
        BY DEF Idle
      <4> HIDE DEF j
      <4>3. Becomes(p, j) /\ HadRow(b)
        BY <3>5 DEF PayRead, Begin, HadRow, j
      <4> QED BY <3>5, <4>1, <4>2, <4>3, Moving DEF PayRead, OnEvent, OnBooking
    <3>6. ASSUME NEW b \in Bookings, CancelRead(p, b) PROVE TypeOK' /\ Control'
      <4> DEFINE j == [Idle EXCEPT !.at = "cancelWrite", !.booking = b]
      <4>1. j \in Job
        BY IdleIsJob DEF Job, Steps
      <4>2. j.at = "cancelWrite" /\ j.booking = b /\ j.todo = {}
        BY DEF Idle
      <4> HIDE DEF j
      <4>3. Becomes(p, j) /\ HadRow(b)
        BY <3>6 DEF CancelRead, Begin, Holds, HadRow, j
      <4> QED BY <3>6, <4>1, <4>2, <4>3, Moving DEF CancelRead, OnEvent, OnBooking
    <3>7. ASSUME NEW b \in Bookings, DeleteRead(p, b) PROVE TypeOK' /\ Control'
      <4> DEFINE j == [Idle EXCEPT !.booking = b,
                                   !.at = IF Holds(b) THEN "delRelease" ELSE "delRemove"]
      <4>1. j \in Job
        BY IdleIsJob DEF Job, Steps
      <4>2. j.at \in {"delRelease", "delRemove"} /\ j.booking = b /\ j.todo = {}
        BY DEF Idle
      <4> HIDE DEF j
      <4>3. Becomes(p, j) /\ HadRow(b)
        BY <3>7 DEF DeleteRead, Begin, Rows, HadRow, j
      <4> QED BY <3>7, <4>1, <4>2, <4>3, Moving DEF DeleteRead, OnEvent, OnBooking
    <3> QED BY <2>3, <3>1, <3>2, <3>3, <3>4, <3>5, <3>6, <3>7 DEF Arrives
  <2>4. ASSUME NEW p \in Procs, Continues(p) PROVE TypeOK' /\ Control'
    <3>1. CASE SweepFind(p)
      <4>1. PICK found \in SUBSET Lapsed(job[p].event) :
              Becomes(p, [job[p] EXCEPT !.at = "claim", !.todo = found])
        BY <3>1 DEF SweepFind
      <4>2. found \subseteq Bookings /\ \A b \in found : HadRow(b)
        BY <4>1 DEF Lapsed, HadRow
      <4> DEFINE j == [job[p] EXCEPT !.at = "claim", !.todo = found]
      <4>3. j \in Job /\ j.at = "claim" /\ j.todo = found
        BY <4>2, JobTyped DEF Job, Steps
      <4>4. Becomes(p, j)
        BY <4>1
      <4> HIDE DEF j
      <4> QED BY <3>1, <4>2, <4>3, <4>4, Moving DEF SweepFind, OnEvent, OnBooking
    <3>2. CASE SweepRelease(p)
      <4> DEFINE j == [job[p] EXCEPT !.at = "claim", !.booking = None]
      <4>1. j \in Job /\ j.at = "claim" /\ j.todo = job[p].todo
        BY JobTyped DEF Job, Steps
      <4>2. /\ Becomes(p, j)
            /\ ReleaseTickets(job[p].booking)
            /\ UNCHANGED <<eventFields, status, hold, bookingFields, drift, stranded>>
        BY <3>2 DEF SweepRelease
      <4> HIDE DEF j
      <4>3. job[p].booking \in Bookings
        BY <3>2, ActsOnRow DEF SweepRelease, OnBooking, At
      <4>4. sold' \in [Events -> Int] /\ taken' \subseteq Bookings /\ job' \in [Procs -> Job]
        BY <4>1, <4>2, <4>3, ReleaseTyped, JobsTyped
      <4>5. TypeOK'
        BY <4>2, <4>4 DEF TypeOK, eventFields, bookingFields
      <4>6. JobFits(p)'
        <5>1. job'[p] = j /\ status' = status /\ \A b \in job[p].todo : HadRow(b)
          BY <4>1, <4>2, JobsTyped DEF Control, JobFits
        <5> QED BY <4>1, <5>1 DEF JobFits, OnEvent, OnBooking, At, HadRow
      <4>7. Control'
        BY <4>1, <4>2, <4>6, QuietControl DEF bookingFields
      <4> QED BY <4>5, <4>7
    <3>3. CASE SweepDone(p)
      <4>1. CASE Ends(p)
        BY <3>3, <4>1, Returning DEF SweepDone
      <4>2. CASE job[p].event # None /\ Goes(p, "reserve")
        <5> DEFINE j == [job[p] EXCEPT !.at = "reserve"]
        <5>1. j \in Job /\ j.at = "reserve" /\ j.event = job[p].event /\ j.todo = job[p].todo
          BY JobTyped DEF Job, Steps
        <5>2. Becomes(p, j)
          BY <4>2 DEF Goes
        <5> HIDE DEF j
        <5>3. job[p].event \in Events /\ job[p].todo = {}
          BY <3>3, <4>2, JobTyped DEF SweepDone
        <5> QED BY <3>3, <5>1, <5>2, <5>3, Moving DEF SweepDone, OnEvent, OnBooking
      <4> QED BY <3>3, <4>1, <4>2 DEF SweepDone
    <3>4. CASE SoldOut(p)
      BY <3>4, Returning DEF SoldOut
    <3>5. ASSUME NEW b \in Bookings, SweepClaim(p, b) PROVE TypeOK' /\ Control'
      <4> DEFINE j == [job[p] EXCEPT !.at = "release", !.booking = b, !.todo = @ \ {b}]
      <4>1. j \in Job /\ j.at = "release" /\ j.booking = b /\ j.todo = job[p].todo \ {b}
        BY JobTyped DEF Job, Steps
      <4>2. /\ Becomes(p, j)
            /\ status' = [status EXCEPT ![b] = "expired"]
            /\ hold' = [hold EXCEPT ![b] = "nil"]
            /\ DriftsWhen(b \notin taken, eventOf[b])
            /\ UNCHANGED <<eventFields, sold, bookingFields, taken, stranded>>
        BY <3>5 DEF SweepClaim
      <4> HIDE DEF j
      <4>3. status[b] = "pending" /\ HadRow(b) /\ ~Over(b)
        BY <3>5 DEF SweepClaim, HadRow, Over
      <4>4. eventOf[b] \in Events /\ NobodyElseInserts(p, b)
        BY <4>3, RowIsOfEvent, NobodyInsertsRow
      <4>5. drift' \subseteq Events
        BY <4>2, <4>4, DriftTyped
      <4>6. TypeOK'
        BY <4>1, <4>2, <4>5, OneBookingTyped
      <4>7. RowsStay /\ \A q \in Procs \ {p} : At(q, "insert") => status'[job[q].booking] = "reserved"
        BY <4>2, <4>3, <4>4, OneRowStays DEF bookingFields
      <4>8. JobFits(p)'
        <5>1. job'[p] = j /\ status'[b] = "expired"
          BY <4>1, <4>2, JobsTyped DEF TypeOK
        <5>2. \A c \in job[p].todo : HadRow(c)'
          BY <4>7, JobTyped DEF Control, JobFits, RowsStay
        <5> QED BY <4>1, <5>1, <5>2 DEF JobFits, OnEvent, OnBooking, At, HadRow, Over
      <4>9. Control'
        BY <4>1, <4>2, <4>7, <4>8, StillInControl
      <4> QED BY <4>6, <4>9
    <3>6. ASSUME NEW b \in Bookings, SweepSkip(p, b) PROVE TypeOK' /\ Control'
      <4> DEFINE j == [job[p] EXCEPT !.todo = @ \ {b}]
      <4>1. j \in Job /\ j.at = job[p].at /\ j.todo = job[p].todo \ {b}
        BY JobTyped DEF Job
      <4>2. Becomes(p, j)
        BY <3>6 DEF SweepSkip
      <4> HIDE DEF j
      <4>3. job[p].at = "claim" /\ \A c \in job[p].todo : HadRow(c)
        BY <3>6 DEF SweepSkip, At, Control, JobFits
      <4> QED BY <3>6, <4>1, <4>2, <4>3, Moving DEF SweepSkip, OnEvent, OnBooking
    <3>7. ASSUME NEW b \in Bookings, Reserve(p, b) PROVE TypeOK' /\ Control'
      <4> DEFINE j == [job[p] EXCEPT !.at = "insert", !.booking = b]
                 e == job[p].event
                 n == job[p].qty
      <4>1. j \in Job /\ j.at = "insert" /\ j.booking = b /\ j.todo = job[p].todo
        BY JobTyped DEF Job, Steps
      <4>2. /\ Becomes(p, j)
            /\ sold' = [sold EXCEPT ![e] = @ + n]
            /\ status' = [status EXCEPT ![b] = "reserved"]
            /\ eventOf' = [eventOf EXCEPT ![b] = e]
            /\ qtyOf' = [qtyOf EXCEPT ![b] = n]
            /\ taken' = taken \cup {b}
            /\ UNCHANGED <<eventFields, hold, drift, stranded>>
        BY <3>7 DEF Reserve
      <4>3. status[b] = "none" /\ n \in Nat
        BY <3>7, JobTyped DEF Reserve, Unused
      <4>4. e \in Events
        BY <3>7 DEF Reserve, Control, JobFits, OnEvent, At
      <4> HIDE DEF j, e, n
      <4>5. TypeOK'
        <5>1. sold' \in [Events -> Int]
          BY <4>2, <4>3, <4>4 DEF TypeOK
        <5>2. status' \in [Bookings -> {"none", "reserved", "pending", "confirmed", "cancelled",
                                        "expired", "deleted"}]
          BY <4>2 DEF TypeOK
        <5>3. eventOf' \in [Bookings -> Events \cup {None}] /\ qtyOf' \in [Bookings -> Nat]
          BY <4>2, <4>3, <4>4 DEF TypeOK
        <5>4. job' \in [Procs -> Job] /\ taken' \subseteq Bookings
          BY <4>1, <4>2, JobsTyped DEF TypeOK
        <5> QED BY <4>2, <5>1, <5>2, <5>3, <5>4 DEF TypeOK, eventFields
      <4>6. \A c \in Bookings : /\ status'[c] = IF c = b THEN "reserved" ELSE status[c]
                                /\ eventOf'[c] = IF c = b THEN e ELSE eventOf[c]
        BY <4>2 DEF TypeOK
      <4>7. RowsStay
        BY <4>3, <4>4, <4>6 DEF RowsStay, HadRow, Over, Control
      <4>8. \A q \in Procs \ {p} : At(q, "insert")
              => job[q].booking \in Bookings /\ status[job[q].booking] = "reserved"
        BY DEF Control, JobFits, OnBooking, At
      <4>9. NobodyElseInserts(p, b)
        BY <4>3, <4>8 DEF NobodyElseInserts
      <4>10. \A q \in Procs \ {p} : At(q, "insert") => status'[job[q].booking] = "reserved"
        BY <4>6, <4>8
      <4>11. JobFits(p)'
        <5>1. job'[p] = j /\ status'[b] = "reserved"
          BY <4>1, <4>2, <4>6, JobsTyped
        <5>2. \A c \in job[p].todo : HadRow(c)'
          BY <4>7, JobTyped DEF Control, JobFits, RowsStay
        <5> QED BY <4>1, <5>1, <5>2 DEF JobFits, OnEvent, OnBooking, At, HadRow
      <4>12. Control'
        BY <4>1, <4>2, <4>7, <4>9, <4>10, <4>11, StillInControl
      <4> QED BY <4>5, <4>12
    <3>8. ASSUME NEW m \in Modes, InsertBooking(p, m) PROVE TypeOK' /\ Control'
      <4> DEFINE b == job[p].booking
                 s == IF m THEN "pending" ELSE "confirmed"
                 h == IF m THEN "running" ELSE "nil"
      <4>1. /\ At(p, "insert") /\ Ends(p)
            /\ status' = [status EXCEPT ![b] = s]
            /\ hold' = [hold EXCEPT ![b] = h]
            /\ UNCHANGED <<eventFields, sold, bookingFields, taken, drift, stranded>>
        BY <3>8 DEF InsertBooking
      <4>2. s \in {"pending", "confirmed"} /\ h \in {"nil", "running"}
        OBVIOUS
      <4>3. b \in Bookings /\ status[b] = "reserved" /\ ~Over(b)
        BY <4>1 DEF Control, JobFits, OnBooking, Over, At
      <4>4. eventOf[b] \in Events
        BY <4>3, RowIsOfEvent
      <4>5. NobodyElseInserts(p, b)
        BY <4>1 DEF NobodyElseInserts, Control
      <4> HIDE DEF b, s, h
      <4>6. Becomes(p, Idle) /\ JobFits(p)' /\ Idle.at # "insert"
        BY <4>1, IdleFits DEF Idle
      <4>7. TypeOK'
        <5>1. drift' \subseteq Events
          BY <4>1 DEF TypeOK
        <5> QED BY <4>1, <4>2, <4>6, <5>1, IdleIsJob, OneBookingTyped
      <4>8. RowsStay /\ \A q \in Procs \ {p} : At(q, "insert") => status'[job[q].booking] = "reserved"
        BY <4>1, <4>2, <4>3, <4>4, <4>5, OneRowStays DEF bookingFields
      <4>9. Control'
        BY <4>6, <4>8, IdleIsJob, StillInControl
      <4> QED BY <4>7, <4>9
    <3>9. CASE MarkPaid(p)
      <4> DEFINE b == job[p].booking
      <4>1. /\ At(p, "markPaid") /\ Ends(p)
            /\ status[b] = "pending"
            /\ status' = [status EXCEPT ![b] = "confirmed"]
            /\ hold' = [hold EXCEPT ![b] = "nil"]
            /\ UNCHANGED <<eventFields, sold, bookingFields, taken, drift, stranded>>
        BY <3>9 DEF MarkPaid
      <4>2. b \in Bookings /\ HadRow(b) /\ eventOf[b] \in Events
        BY <4>1, ActsOnRow DEF OnBooking, At
      <4>3. ~Over(b) /\ NobodyElseInserts(p, b)
        BY <4>1, <4>2, NobodyInsertsRow DEF Over
      <4> HIDE DEF b
      <4>4. Becomes(p, Idle) /\ JobFits(p)' /\ Idle.at # "insert"
        BY <4>1, IdleFits DEF Idle
      <4>5. TypeOK'
        <5>1. drift' \subseteq Events
          BY <4>1 DEF TypeOK
        <5> QED BY <4>1, <4>4, <5>1, IdleIsJob, OneBookingTyped
      <4>6. RowsStay /\ \A q \in Procs \ {p} : At(q, "insert") => status'[job[q].booking] = "reserved"
        BY <4>1, <4>2, <4>3, OneRowStays DEF bookingFields
      <4>7. Control'
        BY <4>4, <4>6, IdleIsJob, StillInControl
      <4> QED BY <4>5, <4>7
    <3>10. CASE PayRefused(p)
      BY <3>10, Returning DEF PayRefused
    <3>11. CASE CancelWrite(p)
      <4> DEFINE b == job[p].booking
                 j == [job[p] EXCEPT !.at = "cancelRelease"]
      <4>1. j \in Job /\ j.at = "cancelRelease" /\ j.booking = b /\ j.todo = job[p].todo
        BY JobTyped DEF Job, Steps
      <4>2. /\ At(p, "cancelWrite") /\ Becomes(p, j)
            /\ status' = IF b \in Rows THEN [status EXCEPT ![b] = "cancelled"] ELSE status
            /\ DriftsWhen(~(Holds(b) /\ b \in taken), eventOf[b])
            /\ UNCHANGED <<eventFields, sold, hold, bookingFields, taken, stranded>>
        BY <3>11 DEF CancelWrite, Goes
      <4>3. b \in Bookings /\ HadRow(b) /\ eventOf[b] \in Events
        BY <4>2, ActsOnRow DEF OnBooking, At
      <4> HIDE DEF j, b
      <4>4. drift' \subseteq Events
        BY <4>2, <4>3, DriftTyped
      <4>5. TypeOK'
        <5>1. status' = [status EXCEPT ![b] = "cancelled"] \/ status' = status
          BY <4>2
        <5> QED BY <4>1, <4>2, <4>4, <5>1, OneBookingTyped
      <4>6. \A c \in Bookings : status'[c] = IF c = b /\ b \in Rows THEN "cancelled" ELSE status[c]
        BY <4>2 DEF TypeOK
      <4>7. RowsStay
        BY <4>2, <4>3, <4>6 DEF RowsStay, HadRow, Over, Control, bookingFields
      <4>8. NobodyElseInserts(p, b)
        BY <4>3, NobodyInsertsRow
      <4>9. \A q \in Procs \ {p} : At(q, "insert") => status'[job[q].booking] = "reserved"
        BY <4>6, <4>8 DEF Control, JobFits, OnBooking, NobodyElseInserts, At
      <4>10. JobFits(p)'
        <5>1. job'[p] = j
          BY <4>1, <4>2, JobsTyped
        <5>2. \A c \in job[p].todo : HadRow(c)'
          BY <4>7, JobTyped DEF Control, JobFits, RowsStay
        <5>3. status'[b] \in {"cancelled", "expired", "deleted"}
          BY <4>3, <4>6 DEF HadRow, Rows
        <5> QED BY <4>1, <4>3, <5>1, <5>2, <5>3 DEF JobFits, OnEvent, OnBooking, At, HadRow, Over
      <4>11. Control'
        BY <4>1, <4>2, <4>7, <4>9, <4>10, StillInControl
      <4> QED BY <4>5, <4>11
    <3>12. CASE CancelRelease(p)
      <4>1. /\ At(p, "cancelRelease") /\ Ends(p)
            /\ ReleaseTickets(job[p].booking)
            /\ UNCHANGED <<eventFields, status, hold, bookingFields, drift, stranded>>
        BY <3>12 DEF CancelRelease
      <4>2. job[p].booking \in Bookings
        BY <4>1, ActsOnRow DEF OnBooking, At
      <4>3. Becomes(p, Idle) /\ JobFits(p)' /\ Idle.at # "insert"
        BY <4>1, IdleFits DEF Idle
      <4>4. sold' \in [Events -> Int] /\ taken' \subseteq Bookings /\ job' \in [Procs -> Job]
        BY <4>1, <4>2, <4>3, ReleaseTyped, JobsTyped, IdleIsJob
      <4>5. TypeOK'
        BY <4>1, <4>4 DEF TypeOK, eventFields, bookingFields
      <4>6. Control'
        BY <4>1, <4>3, IdleIsJob, QuietControl DEF bookingFields
      <4> QED BY <4>5, <4>6
    <3>13. CASE DeleteRelease(p)
      <4> DEFINE b == job[p].booking
                 j == [job[p] EXCEPT !.at = "delRemove"]
      <4>1. j \in Job /\ j.at = "delRemove" /\ j.booking = b /\ j.todo = job[p].todo
        BY JobTyped DEF Job, Steps
      <4>2. /\ At(p, "delRelease") /\ Becomes(p, j)
            /\ ReleaseTickets(b)
            /\ DriftsWhen(~(Holds(b) /\ b \in taken), eventOf[b])
            /\ UNCHANGED <<eventFields, status, hold, bookingFields, stranded>>
        BY <3>13 DEF DeleteRelease, Goes
      <4>3. b \in Bookings /\ HadRow(b) /\ eventOf[b] \in Events
        BY <4>2, ActsOnRow DEF OnBooking, At
      <4> HIDE DEF j, b
      <4>4. sold' \in [Events -> Int] /\ taken' \subseteq Bookings /\ job' \in [Procs -> Job]
        BY <4>1, <4>2, <4>3, ReleaseTyped, JobsTyped
      <4>5. drift' \subseteq Events
        BY <4>2, <4>3, DriftTyped
      <4>6. TypeOK'
        BY <4>2, <4>4, <4>5 DEF TypeOK, eventFields, bookingFields
      <4>7. JobFits(p)'
        <5>1. job'[p] = j /\ status' = status
          BY <4>1, <4>2, JobsTyped
        <5>2. \A c \in job[p].todo : HadRow(c)
          BY DEF Control, JobFits
        <5> QED BY <4>1, <4>3, <5>1, <5>2 DEF JobFits, OnEvent, OnBooking, At, HadRow
      <4>8. Control'
        BY <4>1, <4>2, <4>7, QuietControl DEF bookingFields
      <4> QED BY <4>6, <4>8
    <3>14. CASE DeleteRemove(p)
      <4> DEFINE b == job[p].booking
      <4>1. /\ At(p, "delRemove") /\ Ends(p)
            /\ status' = [status EXCEPT ![b] = "deleted"]
            /\ hold' = [hold EXCEPT ![b] = "nil"]
            /\ UNCHANGED <<eventFields, sold, bookingFields, taken, drift, stranded>>
        BY <3>14 DEF DeleteRemove
      <4>2. b \in Bookings /\ HadRow(b) /\ eventOf[b] \in Events
        BY <4>1, ActsOnRow DEF OnBooking, At
      <4>3. NobodyElseInserts(p, b)
        BY <4>2, NobodyInsertsRow
      <4> HIDE DEF b
      <4>4. Becomes(p, Idle) /\ JobFits(p)' /\ Idle.at # "insert"
        BY <4>1, IdleFits DEF Idle
      <4>5. TypeOK'
        <5>1. drift' \subseteq Events
          BY <4>1 DEF TypeOK
        <5> QED BY <4>1, <4>4, <5>1, IdleIsJob, OneBookingTyped
      <4>6. RowsStay /\ \A q \in Procs \ {p} : At(q, "insert") => status'[job[q].booking] = "reserved"
        BY <4>1, <4>2, <4>3, OneRowStays DEF bookingFields
      <4>7. Control'
        BY <4>4, <4>6, IdleIsJob, StillInControl
      <4> QED BY <4>5, <4>7
    <3>15. ASSUME NEW t \in Totals, UpdateRefused(p, t) PROVE TypeOK' /\ Control'
      BY <3>15, Returning DEF UpdateRefused
    <3>16. ASSUME NEW t \in Totals, NEW on \in BOOLEAN, UpdateReplace(p, t, on) PROVE TypeOK' /\ Control'
      <4> DEFINE e == job[p].event
                 n == job[p].seen
      <4>1. /\ Ends(p)
            /\ total' = [total EXCEPT ![e] = t]
            /\ sold' = [sold EXCEPT ![e] = n]
            /\ onsale' = [onsale EXCEPT ![e] = on]
            /\ DriftsWhen(n # sold[e], e)
            /\ UNCHANGED <<present, status, hold, bookingFields, taken, stranded>>
        BY <3>16 DEF UpdateReplace
      <4>2. e \in Events /\ n \in Int /\ t \in Nat
        BY <3>16, JobTyped, LedgerAssumption DEF UpdateReplace, Control, JobFits, OnEvent, At
      <4> HIDE DEF e, n
      <4>3. Becomes(p, Idle) /\ JobFits(p)' /\ Idle.at # "insert"
        BY <4>1, IdleFits DEF Idle
      <4>4. drift' \subseteq Events /\ job' \in [Procs -> Job]
        BY <4>1, <4>2, <4>3, DriftTyped, JobsTyped, IdleIsJob
      <4>5. total' \in [Events -> Nat] /\ sold' \in [Events -> Int] /\ onsale' \in [Events -> BOOLEAN]
        BY <4>1, <4>2 DEF TypeOK
      <4>6. TypeOK'
        BY <4>1, <4>4, <4>5 DEF TypeOK, bookingFields
      <4>7. Control'
        BY <4>1, <4>3, IdleIsJob, QuietControl DEF bookingFields
      <4> QED BY <4>6, <4>7
    <3>17. CASE DeleteEventRemove(p)
      <4> DEFINE e == job[p].event
      <4>1. /\ Ends(p)
            /\ present' = [present EXCEPT ![e] = "removed"]
            /\ total' = [total EXCEPT ![e] = 0]
            /\ sold' = [sold EXCEPT ![e] = 0]
            /\ onsale' = [onsale EXCEPT ![e] = FALSE]
            /\ UNCHANGED <<status, hold, bookingFields, taken, drift, stranded>>
        BY <3>17 DEF DeleteEventRemove
      <4> HIDE DEF e
      <4>2. Becomes(p, Idle) /\ JobFits(p)' /\ Idle.at # "insert"
        BY <4>1, IdleFits DEF Idle
      <4>3. job' \in [Procs -> Job]
        BY <4>2, JobsTyped, IdleIsJob
      <4>4. /\ present' \in [Events -> {"unborn", "stored", "removed"}]
            /\ total' \in [Events -> Nat] /\ sold' \in [Events -> Int]
            /\ onsale' \in [Events -> BOOLEAN]
        <5>1. present' \in [Events -> {"unborn", "stored", "removed"}]
          BY <4>1 DEF TypeOK
        <5>2. total' \in [Events -> Nat]
          BY <4>1 DEF TypeOK
        <5>3. sold' \in [Events -> Int]
          <6>1. sold \in [Events -> Int] /\ 0 \in Int
            BY DEF TypeOK
          <6> QED BY <4>1, <6>1
        <5>4. onsale' \in [Events -> BOOLEAN]
          BY <4>1 DEF TypeOK
        <5> QED BY <5>1, <5>2, <5>3, <5>4
      <4>5. TypeOK'
        BY <4>1, <4>3, <4>4 DEF TypeOK, bookingFields
      <4>6. Control'
        BY <4>1, <4>2, IdleIsJob, QuietControl DEF bookingFields
      <4> QED BY <4>5, <4>6
    <3> QED BY <2>4, <3>1, <3>2, <3>3, <3>4, <3>5, <3>6, <3>7, <3>8, <3>9, <3>10, <3>11, <3>12,
       <3>13, <3>14, <3>15, <3>16, <3>17 DEF Continues
  <2>5. ASSUME NEW p \in Procs, Abort(p) PROVE TypeOK' /\ Control'
    <3>1. /\ Ends(p)
          /\ stranded' = IF job[p].at \in Midway THEN stranded \cup {job[p].booking} ELSE stranded
          /\ UNCHANGED <<eventFields, sold, status, hold, bookingFields, taken, drift>>
      BY <2>5 DEF Abort
    <3>2. Becomes(p, Idle) /\ JobFits(p)' /\ Idle.at # "insert"
      BY <3>1, IdleFits DEF Idle
    <3>3. stranded' \subseteq Bookings
      <4>1. job[p].at \in Midway => job[p].booking \in Bookings
        BY DEF Midway, Control, JobFits, OnBooking
      <4> QED BY <3>1, <4>1 DEF TypeOK
    <3>4. job' \in [Procs -> Job]
      BY <3>2, JobsTyped, IdleIsJob
    <3>5. TypeOK'
      BY <3>1, <3>3, <3>4 DEF TypeOK, eventFields, bookingFields
    <3>6. Control'
      BY <3>1, <3>2, IdleIsJob, QuietControl DEF bookingFields
    <3> QED BY <3>5, <3>6
  <2>6. CASE UNCHANGED vars
    <3>1. TypeOK'
      BY <2>6 DEF vars, TypeOK, eventFields, bookingFields
    <3>2. Control'
      BY <2>6 DEF vars, bookingFields, Control, JobFits, HadRow, Over, At
    <3> QED BY <3>1, <3>2
  <2> QED BY <2>1, <2>2, <2>3, <2>4, <2>5, <2>6 DEF Next
<1> QED BY <1>1, <1>2, PTL DEF Spec

\* Typing: every behaviour keeps every variable in its type.
THEOREM Typing == Spec => []TypeOK
  BY ControlInv, PTL

-----------------------------------------------------------------------------
(***************************************************************************)
(* Accounted.                                                              *)
(***************************************************************************)

\* AccountedInv: whatever the handlers do and wherever they die, every booking
\* that holds seats is counted, and seats that nobody holds have a handler that
\* will settle them or were stranded by one that died.
THEOREM AccountedInv == Spec => []Accounted
<1>1. Init => Accounted
  BY LedgerAssumption DEF Init, Idle, TypeOK, Job, Steps, eventFields, bookingFields, Control,
     JobFits, HadRow, Over, OnBooking, OnEvent, At, Accounted, HoldersCounted, NoSeatStranded,
     BeingErased, Working, Holds
<1>2. TypeOK /\ Control /\ Accounted /\ [Next]_vars => Accounted'
  <2> SUFFICES ASSUME TypeOK, Control, Accounted, [Next]_vars PROVE Accounted'
    OBVIOUS
  <2>1. ASSUME NEW e \in Events, NEW t \in Totals, NEW s \in SoldInBody, NEW on \in BOOLEAN,
               CreateEvent(e, t, s, on)
        PROVE  Accounted'
    BY <2>1, LedgerAssumption DEF CreateEvent, DriftsWhen, TypeOK, Job, Steps, eventFields,
       bookingFields, Control, JobFits, HadRow, Over, OnBooking, OnEvent, At, Accounted,
       HoldersCounted, NoSeatStranded, BeingErased, Working, Holds
  <2>2. ASSUME NEW b \in Bookings, HoldLapses(b) PROVE Accounted'
    BY <2>2, LedgerAssumption DEF HoldLapses, TypeOK, Job, Steps, eventFields, bookingFields,
       Control, JobFits, HadRow, Over, OnBooking, OnEvent, At, Accounted, HoldersCounted,
       NoSeatStranded, BeingErased, Working, Holds
  <2>3. ASSUME NEW p \in Procs, Arrives(p) PROVE Accounted'
    <3>1. ASSUME SweepStart(p) PROVE Accounted'
      BY <3>1, LedgerAssumption DEF SweepStart, Begin, Idle, Becomes, TypeOK, Job, Steps,
         eventFields, bookingFields, Control, JobFits, HadRow, Over, OnBooking, OnEvent, At,
         Accounted, HoldersCounted, NoSeatStranded, BeingErased, Working, Holds
    <3>2. ASSUME NEW e \in Events, UpdateRead(p, e) PROVE Accounted'
      BY <3>2, LedgerAssumption DEF UpdateRead, Begin, Idle, Becomes, TypeOK, Job, Steps,
         eventFields, bookingFields, Control, JobFits, HadRow, Over, OnBooking, OnEvent, At,
         Accounted, HoldersCounted, NoSeatStranded, BeingErased, Working, Holds
    <3>3. ASSUME NEW e \in Events, DeleteEventCheck(p, e) PROVE Accounted'
      BY <3>3, LedgerAssumption DEF DeleteEventCheck, Begin, Idle, Becomes, TypeOK, Job, Steps,
         eventFields, bookingFields, Control, JobFits, HadRow, Over, OnBooking, OnEvent, At,
         Accounted, HoldersCounted, NoSeatStranded, BeingErased, Working, Holds
    <3>4. ASSUME NEW e \in Events, NEW q \in Quantities, BookStart(p, e, q) PROVE Accounted'
      BY <3>4, LedgerAssumption DEF BookStart, Begin, Idle, Becomes, TypeOK, Job, Steps,
         eventFields, bookingFields, Control, JobFits, HadRow, Over, OnBooking, OnEvent, At,
         Accounted, HoldersCounted, NoSeatStranded, BeingErased, Working, Holds
    <3>5. ASSUME NEW b \in Bookings, PayRead(p, b) PROVE Accounted'
      BY <3>5, LedgerAssumption DEF PayRead, Begin, Idle, Becomes, TypeOK, Job, Steps, eventFields,
         bookingFields, Control, JobFits, HadRow, Over, OnBooking, OnEvent, At, Accounted,
         HoldersCounted, NoSeatStranded, BeingErased, Working, Holds
    <3>6. ASSUME NEW b \in Bookings, CancelRead(p, b) PROVE Accounted'
      BY <3>6, LedgerAssumption DEF CancelRead, Begin, Rows, Idle, Becomes, TypeOK, Job, Steps,
         eventFields, bookingFields, Control, JobFits, HadRow, Over, OnBooking, OnEvent, At,
         Accounted, HoldersCounted, NoSeatStranded, BeingErased, Working, Holds
    <3>7. ASSUME NEW b \in Bookings, DeleteRead(p, b) PROVE Accounted'
      BY <3>7, LedgerAssumption DEF DeleteRead, Begin, Rows, Idle, Becomes, TypeOK, Job, Steps,
         eventFields, bookingFields, Control, JobFits, HadRow, Over, OnBooking, OnEvent, At,
         Accounted, HoldersCounted, NoSeatStranded, BeingErased, Working, Holds
    <3> QED BY <2>3, <3>1, <3>2, <3>3, <3>4, <3>5, <3>6, <3>7 DEF Arrives
  <2>4. ASSUME NEW p \in Procs, Continues(p) PROVE Accounted'
    <3>1. ASSUME SweepFind(p) PROVE Accounted'
      BY <3>1, LedgerAssumption DEF SweepFind, At, Lapsed, Becomes, TypeOK, Job, Steps, eventFields,
         bookingFields, Control, JobFits, HadRow, Over, OnBooking, OnEvent, Accounted,
         HoldersCounted, NoSeatStranded, BeingErased, Working, Holds
    <3>2. ASSUME SweepRelease(p) PROVE Accounted'
      BY <3>2, LedgerAssumption DEF SweepRelease, At, ReleaseTickets, Becomes, TypeOK, Job, Steps,
         eventFields, bookingFields, Control, JobFits, HadRow, Over, OnBooking, OnEvent, Accounted,
         HoldersCounted, NoSeatStranded, BeingErased, Working, Holds
    <3>3. ASSUME SweepDone(p) PROVE Accounted'
      <4>1. UNCHANGED <<status, taken, stranded>> /\ job[p].at = "claim"
        BY <3>3 DEF SweepDone, At
      <4>2. CASE Ends(p)
        BY <4>1, <4>2 DEF Ends, Becomes, Idle, TypeOK, Job, Steps, eventFields,
            bookingFields, Control, JobFits, HadRow, Over, OnBooking, OnEvent, At,
            Accounted, HoldersCounted, NoSeatStranded, BeingErased, Working, Holds
      <4>3. CASE Goes(p, "reserve")
        BY <4>1, <4>3 DEF Goes, Becomes, TypeOK, Job, Steps, eventFields,
            bookingFields, Control, JobFits, HadRow, Over, OnBooking, OnEvent, At,
            Accounted, HoldersCounted, NoSeatStranded, BeingErased, Working, Holds
      <4> QED BY <3>3, <4>2, <4>3 DEF SweepDone
    <3>4. ASSUME SoldOut(p) PROVE Accounted'
      BY <3>4, LedgerAssumption DEF SoldOut, At, Ends, Idle, Becomes, TypeOK, Job, Steps,
         eventFields, bookingFields, Control, JobFits, HadRow, Over, OnBooking, OnEvent, Accounted,
         HoldersCounted, NoSeatStranded, BeingErased, Working, Holds
    <3>5. ASSUME NEW b \in Bookings, SweepClaim(p, b) PROVE Accounted'
      BY <3>5, LedgerAssumption DEF SweepClaim, At, DriftsWhen, Becomes, TypeOK, Job, Steps,
         eventFields, bookingFields, Control, JobFits, HadRow, Over, OnBooking, OnEvent, Accounted,
         HoldersCounted, NoSeatStranded, BeingErased, Working, Holds
    <3>6. ASSUME NEW b \in Bookings, SweepSkip(p, b) PROVE Accounted'
      BY <3>6, LedgerAssumption DEF SweepSkip, At, Becomes, TypeOK, Job, Steps, eventFields,
         bookingFields, Control, JobFits, HadRow, Over, OnBooking, OnEvent, Accounted,
         HoldersCounted, NoSeatStranded, BeingErased, Working, Holds
    <3>7. ASSUME NEW b \in Bookings, Reserve(p, b) PROVE Accounted'
      BY <3>7, LedgerAssumption DEF Reserve, At, Unused, Becomes, TypeOK, Job, Steps, eventFields,
         bookingFields, Control, JobFits, HadRow, Over, OnBooking, OnEvent, Accounted,
         HoldersCounted, NoSeatStranded, BeingErased, Working, Holds
    <3>8. ASSUME NEW m \in Modes, InsertBooking(p, m) PROVE Accounted'
      BY <3>8, LedgerAssumption DEF InsertBooking, At, Ends, Idle, Becomes, TypeOK, Job, Steps,
         eventFields, bookingFields, Control, JobFits, HadRow, Over, OnBooking, OnEvent, Accounted,
         HoldersCounted, NoSeatStranded, BeingErased, Working, Holds
    <3>9. ASSUME MarkPaid(p) PROVE Accounted'
      BY <3>9, LedgerAssumption DEF MarkPaid, At, Ends, Idle, Becomes, TypeOK, Job, Steps,
         eventFields, bookingFields, Control, JobFits, HadRow, Over, OnBooking, OnEvent, Accounted,
         HoldersCounted, NoSeatStranded, BeingErased, Working, Holds
    <3>10. ASSUME PayRefused(p) PROVE Accounted'
      BY <3>10, LedgerAssumption DEF PayRefused, At, Ends, Idle, Becomes, TypeOK, Job, Steps,
         eventFields, bookingFields, Control, JobFits, HadRow, Over, OnBooking, OnEvent, Accounted,
         HoldersCounted, NoSeatStranded, BeingErased, Working, Holds
    <3>11. ASSUME CancelWrite(p) PROVE Accounted'
      BY <3>11, LedgerAssumption DEF CancelWrite, At, DriftsWhen, Goes, Rows, Becomes, TypeOK, Job,
         Steps, eventFields, bookingFields, Control, JobFits, HadRow, Over, OnBooking, OnEvent,
         Accounted, HoldersCounted, NoSeatStranded, BeingErased, Working, Holds
    <3>12. ASSUME CancelRelease(p) PROVE Accounted'
      BY <3>12, LedgerAssumption DEF CancelRelease, At, ReleaseTickets, Ends, Idle, Becomes, TypeOK,
         Job, Steps, eventFields, bookingFields, Control, JobFits, HadRow, Over, OnBooking, OnEvent,
         Accounted, HoldersCounted, NoSeatStranded, BeingErased, Working, Holds
    <3>13. ASSUME DeleteRelease(p) PROVE Accounted'
      BY <3>13, LedgerAssumption DEF DeleteRelease, At, DriftsWhen, Goes, ReleaseTickets, Becomes,
         TypeOK, Job, Steps, eventFields, bookingFields, Control, JobFits, HadRow, Over, OnBooking,
         OnEvent, Accounted, HoldersCounted, NoSeatStranded, BeingErased, Working, Holds
    <3>14. ASSUME DeleteRemove(p) PROVE Accounted'
      BY <3>14, LedgerAssumption DEF DeleteRemove, At, Ends, Idle, Becomes, TypeOK, Job, Steps,
         eventFields, bookingFields, Control, JobFits, HadRow, Over, OnBooking, OnEvent, Accounted,
         HoldersCounted, NoSeatStranded, BeingErased, Working, Holds
    <3>15. ASSUME NEW t \in Totals, UpdateRefused(p, t) PROVE Accounted'
      BY <3>15, LedgerAssumption DEF UpdateRefused, At, Ends, Idle, Becomes, TypeOK, Job, Steps,
         eventFields, bookingFields, Control, JobFits, HadRow, Over, OnBooking, OnEvent, Accounted,
         HoldersCounted, NoSeatStranded, BeingErased, Working, Holds
    <3>16. ASSUME NEW t \in Totals, NEW on \in BOOLEAN, UpdateReplace(p, t, on) PROVE Accounted'
      BY <3>16, LedgerAssumption DEF UpdateReplace, At, Ends, DriftsWhen, Idle, Becomes, TypeOK,
         Job, Steps, eventFields, bookingFields, Control, JobFits, HadRow, Over, OnBooking, OnEvent,
         Accounted, HoldersCounted, NoSeatStranded, BeingErased, Working, Holds
    <3>17. ASSUME DeleteEventRemove(p) PROVE Accounted'
      BY <3>17, LedgerAssumption DEF DeleteEventRemove, At, Ends, Idle, Becomes, TypeOK, Job, Steps,
         eventFields, bookingFields, Control, JobFits, HadRow, Over, OnBooking, OnEvent, Accounted,
         HoldersCounted, NoSeatStranded, BeingErased, Working, Holds
    <3> QED BY <2>4, <3>1, <3>2, <3>3, <3>4, <3>5, <3>6, <3>7, <3>8, <3>9, <3>10, <3>11, <3>12,
       <3>13, <3>14, <3>15, <3>16, <3>17 DEF Continues
  <2>5. ASSUME NEW p \in Procs, Abort(p) PROVE Accounted'
    BY <2>5, LedgerAssumption DEF Abort, At, Ends, Midway, Idle, Becomes, TypeOK, Job, Steps,
       eventFields, bookingFields, Control, JobFits, HadRow, Over, OnBooking, OnEvent, Accounted,
       HoldersCounted, NoSeatStranded, BeingErased, Working, Holds
  <2>6. CASE UNCHANGED vars
    BY <2>6 DEF vars, TypeOK, Job, Steps, eventFields, bookingFields, Control, JobFits, HadRow,
       Over, OnBooking, OnEvent, At, Accounted, HoldersCounted, NoSeatStranded, BeingErased,
       Working, Holds
  <2> QED BY <2>1, <2>2, <2>3, <2>4, <2>5, <2>6 DEF Next
<1> QED BY <1>1, <1>2, ControlInv, PTL DEF Spec

-----------------------------------------------------------------------------
(***************************************************************************)
(* The ledger.                                                             *)
(***************************************************************************)

\* TakenFinite: finitely many bookings have seats taken from an event.
LEMMA TakenFinite ==
  ASSUME TypeOK
  PROVE  \A e : IsFiniteSet(Taken(e)) /\ Taken(e) \subseteq Bookings
<1>1. \A e : Taken(e) \in SUBSET Bookings
  BY DEF Taken, TypeOK
<1> QED BY <1>1, LedgerAssumption, FS_Subset

\* ReleaseKeepsLedger: giving back the seats of a booking that has them keeps the
\* ledger of its event exact; the ledgers of the others are not touched.
LEMMA ReleaseKeepsLedger ==
  ASSUME TypeOK, LedgerExact, WithinTotal, NEW c \in Bookings, eventOf[c] \in Events,
         c \in taken \/ eventOf[c] \in drift',
         ReleaseTickets(c), drift \subseteq drift',
         UNCHANGED <<present, total, eventOf, qtyOf>>
  PROVE  LedgerExact' /\ WithinTotal'
<1> DEFINE ev == eventOf[c]
<1>1. ASSUME NEW e \in Events \ drift', Stored(e)
      PROVE  sold'[e] = SeatsOf(Taken(e)', qtyOf) /\ sold'[e] <= total[e]
  <2>1. sold[e] = SeatsOf(Taken(e), qtyOf) /\ sold[e] <= total[e]
    BY <1>1 DEF LedgerExact, WithinTotal, SeatCount
  <2>2. CASE e # ev
    <3>1. Taken(e)' = Taken(e)
      BY <2>2 DEF Taken, ReleaseTickets
    <3>2. sold'[e] = sold[e]
      BY <2>2 DEF ReleaseTickets, TypeOK
    <3> QED BY <2>1, <3>1, <3>2
  <2>3. CASE e = ev
    <3>1. c \in taken
      BY <1>1, <2>3
    <3>2. Taken(e)' = Taken(e) \ {c}
      BY <2>3 DEF Taken, ReleaseTickets
    <3>3. sold'[e] = sold[e] - qtyOf[c]
      BY <1>1, <2>3 DEF ReleaseTickets, TypeOK, Stored
    <3>4. c \in Taken(e) /\ qtyOf[c] \in Nat
      BY <2>3, <3>1 DEF Taken, TypeOK
    <3> DEFINE R == Taken(e) \ {c}
    <3>5. IsFiniteSet(R) /\ R \subseteq Bookings /\ c \notin R
      BY TakenFinite, FS_Subset
    <3>6. \A b \in R \cup {c} : qtyOf[b] \in Nat
      BY <3>5 DEF TypeOK
    <3>7. SeatsOf(R \cup {c}, qtyOf) = SeatsOf(R, qtyOf) + qtyOf[c]
      BY <3>5, <3>6, SeatsAdd
    <3>8. SeatsOf(R, qtyOf) \in Nat
      BY <3>5, <3>6, SeatsFinite
    <3>9. R \cup {c} = Taken(e)
      BY <3>4
    <3>10. sold[e] \in Int /\ total[e] \in Int
      BY DEF TypeOK
    <3>11. sold[e] = SeatsOf(R, qtyOf) + qtyOf[c]
      BY <2>1, <3>7, <3>9
    <3>12. sold'[e] = SeatsOf(R, qtyOf) /\ sold'[e] <= sold[e]
      BY <3>3, <3>4, <3>8, <3>10, <3>11
    <3>13. sold'[e] \in Int
      BY <3>3, <3>4, <3>10
    <3> QED BY <2>1, <3>2, <3>10, <3>12, <3>13
  <2> QED BY <2>2, <2>3
<1> QED BY <1>1 DEF LedgerExact, WithinTotal, Stored, SeatCount

\* ExactInv: on an event that has not drifted, the count is exact, fits in the
\* total, and the seats a handler is about to give back are its own to give.
THEOREM ExactInv == Spec => []Exact
<1>1. Init => Exact
  BY LedgerAssumption DEF Init, Idle, TypeOK, Job, Steps, eventFields, bookingFields, Control,
     JobFits, HadRow, Over, OnBooking, OnEvent, At, Exact, Owned, LedgerExact, WithinTotal,
     Releases, Taken, Stored, SeatCount, Holds
<1>2. TypeOK /\ Control /\ Exact /\ [Next]_vars => Exact'
  <2> SUFFICES ASSUME TypeOK, Control, Exact, [Next]_vars PROVE Exact'
    OBVIOUS
  <2>1. ASSUME NEW e \in Events, NEW t \in Totals, NEW s \in SoldInBody, NEW on \in BOOLEAN,
               CreateEvent(e, t, s, on)
        PROVE  Exact'
    <3>1. Owned'
      BY <2>1, LedgerAssumption DEF CreateEvent, DriftsWhen, TypeOK, Job, Steps, eventFields,
         bookingFields, Control, JobFits, HadRow, Over, OnBooking, OnEvent, At, Exact, Owned,
         LedgerExact, WithinTotal, Releases, Taken, Stored, SeatCount, Holds
    <3>2. LedgerExact'
      <4>1. ASSUME NEW x \in Events \ drift', Stored(x)'
            PROVE  sold'[x] = SeatCount(Taken(x))'
        <5>1. UNCHANGED <<qtyOf, eventOf, taken>>
          BY <2>1 DEF CreateEvent, bookingFields
        <5>2. CASE x = e
          <6>1. Taken(e) = {}
            BY <2>1 DEF CreateEvent, Exact, Owned, Taken
          <6>2. Taken(x)' = {}
            BY <5>1, <5>2, <6>1 DEF Taken
          <6>3. sold'[x] = 0
            BY <2>1, <4>1, <5>2 DEF CreateEvent, DriftsWhen, TypeOK
          <6> QED BY <6>2, <6>3, SeatsNone DEF SeatCount
        <5>3. CASE x # e
          <6>1. sold'[x] = sold[x] /\ Stored(x) /\ x \notin drift
            BY <2>1, <4>1, <5>3 DEF CreateEvent, DriftsWhen, Stored, TypeOK
          <6> QED BY <5>1, <6>1 DEF Exact, LedgerExact, SeatCount, Taken
        <5> QED BY <5>2, <5>3
      <4> QED BY <4>1 DEF LedgerExact
    <3>3. WithinTotal'
      BY <2>1, LedgerAssumption DEF CreateEvent, DriftsWhen, TypeOK, Job, Steps, eventFields,
         bookingFields, Control, JobFits, HadRow, Over, OnBooking, OnEvent, At, Exact, Owned,
         LedgerExact, WithinTotal, Releases, Taken, Stored, SeatCount, Holds
    <3> QED BY <3>1, <3>2, <3>3 DEF Exact
  <2>2. ASSUME NEW b \in Bookings, HoldLapses(b) PROVE Exact'
    <3>1. Owned'
      BY <2>2, LedgerAssumption DEF HoldLapses, TypeOK, Job, Steps, eventFields, bookingFields,
         Control, JobFits, HadRow, Over, OnBooking, OnEvent, At, Exact, Owned, LedgerExact,
         WithinTotal, Releases, Taken, Stored, SeatCount, Holds
    <3>2. LedgerExact'
      BY <2>2, LedgerAssumption DEF HoldLapses, TypeOK, Job, Steps, eventFields, bookingFields,
         Control, JobFits, HadRow, Over, OnBooking, OnEvent, At, Exact, Owned, LedgerExact,
         WithinTotal, Releases, Taken, Stored, SeatCount, Holds
    <3>3. WithinTotal'
      BY <2>2, LedgerAssumption DEF HoldLapses, TypeOK, Job, Steps, eventFields, bookingFields,
         Control, JobFits, HadRow, Over, OnBooking, OnEvent, At, Exact, Owned, LedgerExact,
         WithinTotal, Releases, Taken, Stored, SeatCount, Holds
    <3> QED BY <3>1, <3>2, <3>3 DEF Exact
  <2>3. ASSUME NEW p \in Procs, Arrives(p) PROVE Exact'
    <3>1. ASSUME SweepStart(p) PROVE Exact'
      <4>1. Owned'
        BY <3>1, LedgerAssumption DEF SweepStart, Begin, Idle, Becomes, TypeOK, Job, Steps,
           eventFields, bookingFields, Control, JobFits, HadRow, Over, OnBooking, OnEvent, At, Exact,
           Owned, LedgerExact, WithinTotal, Releases, Taken, Stored, SeatCount, Holds
      <4>2. LedgerExact'
        BY <3>1, LedgerAssumption DEF SweepStart, Begin, Idle, Becomes, TypeOK, Job, Steps,
           eventFields, bookingFields, Control, JobFits, HadRow, Over, OnBooking, OnEvent, At, Exact,
           Owned, LedgerExact, WithinTotal, Releases, Taken, Stored, SeatCount, Holds
      <4>3. WithinTotal'
        BY <3>1, LedgerAssumption DEF SweepStart, Begin, Idle, Becomes, TypeOK, Job, Steps,
           eventFields, bookingFields, Control, JobFits, HadRow, Over, OnBooking, OnEvent, At, Exact,
           Owned, LedgerExact, WithinTotal, Releases, Taken, Stored, SeatCount, Holds
      <4> QED BY <4>1, <4>2, <4>3 DEF Exact
    <3>2. ASSUME NEW e \in Events, UpdateRead(p, e) PROVE Exact'
      <4>1. Owned'
        BY <3>2, LedgerAssumption DEF UpdateRead, Begin, Idle, Becomes, TypeOK, Job, Steps,
           eventFields, bookingFields, Control, JobFits, HadRow, Over, OnBooking, OnEvent, At, Exact,
           Owned, LedgerExact, WithinTotal, Releases, Taken, Stored, SeatCount, Holds
      <4>2. LedgerExact'
        BY <3>2, LedgerAssumption DEF UpdateRead, Begin, Idle, Becomes, TypeOK, Job, Steps,
           eventFields, bookingFields, Control, JobFits, HadRow, Over, OnBooking, OnEvent, At, Exact,
           Owned, LedgerExact, WithinTotal, Releases, Taken, Stored, SeatCount, Holds
      <4>3. WithinTotal'
        BY <3>2, LedgerAssumption DEF UpdateRead, Begin, Idle, Becomes, TypeOK, Job, Steps,
           eventFields, bookingFields, Control, JobFits, HadRow, Over, OnBooking, OnEvent, At, Exact,
           Owned, LedgerExact, WithinTotal, Releases, Taken, Stored, SeatCount, Holds
      <4> QED BY <4>1, <4>2, <4>3 DEF Exact
    <3>3. ASSUME NEW e \in Events, DeleteEventCheck(p, e) PROVE Exact'
      <4>1. Owned'
        BY <3>3, LedgerAssumption DEF DeleteEventCheck, Begin, Idle, Becomes, TypeOK, Job, Steps,
           eventFields, bookingFields, Control, JobFits, HadRow, Over, OnBooking, OnEvent, At, Exact,
           Owned, LedgerExact, WithinTotal, Releases, Taken, Stored, SeatCount, Holds
      <4>2. LedgerExact'
        BY <3>3, LedgerAssumption DEF DeleteEventCheck, Begin, Idle, Becomes, TypeOK, Job, Steps,
           eventFields, bookingFields, Control, JobFits, HadRow, Over, OnBooking, OnEvent, At, Exact,
           Owned, LedgerExact, WithinTotal, Releases, Taken, Stored, SeatCount, Holds
      <4>3. WithinTotal'
        BY <3>3, LedgerAssumption DEF DeleteEventCheck, Begin, Idle, Becomes, TypeOK, Job, Steps,
           eventFields, bookingFields, Control, JobFits, HadRow, Over, OnBooking, OnEvent, At, Exact,
           Owned, LedgerExact, WithinTotal, Releases, Taken, Stored, SeatCount, Holds
      <4> QED BY <4>1, <4>2, <4>3 DEF Exact
    <3>4. ASSUME NEW e \in Events, NEW q \in Quantities, BookStart(p, e, q) PROVE Exact'
      <4>1. Owned'
        BY <3>4, LedgerAssumption DEF BookStart, Begin, Idle, Becomes, TypeOK, Job, Steps,
           eventFields, bookingFields, Control, JobFits, HadRow, Over, OnBooking, OnEvent, At, Exact,
           Owned, LedgerExact, WithinTotal, Releases, Taken, Stored, SeatCount, Holds
      <4>2. LedgerExact'
        BY <3>4, LedgerAssumption DEF BookStart, Begin, Idle, Becomes, TypeOK, Job, Steps,
           eventFields, bookingFields, Control, JobFits, HadRow, Over, OnBooking, OnEvent, At, Exact,
           Owned, LedgerExact, WithinTotal, Releases, Taken, Stored, SeatCount, Holds
      <4>3. WithinTotal'
        BY <3>4, LedgerAssumption DEF BookStart, Begin, Idle, Becomes, TypeOK, Job, Steps,
           eventFields, bookingFields, Control, JobFits, HadRow, Over, OnBooking, OnEvent, At, Exact,
           Owned, LedgerExact, WithinTotal, Releases, Taken, Stored, SeatCount, Holds
      <4> QED BY <4>1, <4>2, <4>3 DEF Exact
    <3>5. ASSUME NEW b \in Bookings, PayRead(p, b) PROVE Exact'
      <4>1. Owned'
        BY <3>5, LedgerAssumption DEF PayRead, Begin, Idle, Becomes, TypeOK, Job, Steps, eventFields,
           bookingFields, Control, JobFits, HadRow, Over, OnBooking, OnEvent, At, Exact, Owned,
           LedgerExact, WithinTotal, Releases, Taken, Stored, SeatCount, Holds
      <4>2. LedgerExact'
        BY <3>5, LedgerAssumption DEF PayRead, Begin, Idle, Becomes, TypeOK, Job, Steps, eventFields,
           bookingFields, Control, JobFits, HadRow, Over, OnBooking, OnEvent, At, Exact, Owned,
           LedgerExact, WithinTotal, Releases, Taken, Stored, SeatCount, Holds
      <4>3. WithinTotal'
        BY <3>5, LedgerAssumption DEF PayRead, Begin, Idle, Becomes, TypeOK, Job, Steps, eventFields,
           bookingFields, Control, JobFits, HadRow, Over, OnBooking, OnEvent, At, Exact, Owned,
           LedgerExact, WithinTotal, Releases, Taken, Stored, SeatCount, Holds
      <4> QED BY <4>1, <4>2, <4>3 DEF Exact
    <3>6. ASSUME NEW b \in Bookings, CancelRead(p, b) PROVE Exact'
      <4>1. Owned'
        BY <3>6, LedgerAssumption DEF CancelRead, Begin, Rows, Idle, Becomes, TypeOK, Job, Steps,
           eventFields, bookingFields, Control, JobFits, HadRow, Over, OnBooking, OnEvent, At, Exact,
           Owned, LedgerExact, WithinTotal, Releases, Taken, Stored, SeatCount, Holds
      <4>2. LedgerExact'
        BY <3>6, LedgerAssumption DEF CancelRead, Begin, Rows, Idle, Becomes, TypeOK, Job, Steps,
           eventFields, bookingFields, Control, JobFits, HadRow, Over, OnBooking, OnEvent, At, Exact,
           Owned, LedgerExact, WithinTotal, Releases, Taken, Stored, SeatCount, Holds
      <4>3. WithinTotal'
        BY <3>6, LedgerAssumption DEF CancelRead, Begin, Rows, Idle, Becomes, TypeOK, Job, Steps,
           eventFields, bookingFields, Control, JobFits, HadRow, Over, OnBooking, OnEvent, At, Exact,
           Owned, LedgerExact, WithinTotal, Releases, Taken, Stored, SeatCount, Holds
      <4> QED BY <4>1, <4>2, <4>3 DEF Exact
    <3>7. ASSUME NEW b \in Bookings, DeleteRead(p, b) PROVE Exact'
      <4>1. Owned'
        BY <3>7, LedgerAssumption DEF DeleteRead, Begin, Rows, Idle, Becomes, TypeOK, Job, Steps,
           eventFields, bookingFields, Control, JobFits, HadRow, Over, OnBooking, OnEvent, At, Exact,
           Owned, LedgerExact, WithinTotal, Releases, Taken, Stored, SeatCount, Holds
      <4>2. LedgerExact'
        BY <3>7, LedgerAssumption DEF DeleteRead, Begin, Rows, Idle, Becomes, TypeOK, Job, Steps,
           eventFields, bookingFields, Control, JobFits, HadRow, Over, OnBooking, OnEvent, At, Exact,
           Owned, LedgerExact, WithinTotal, Releases, Taken, Stored, SeatCount, Holds
      <4>3. WithinTotal'
        BY <3>7, LedgerAssumption DEF DeleteRead, Begin, Rows, Idle, Becomes, TypeOK, Job, Steps,
           eventFields, bookingFields, Control, JobFits, HadRow, Over, OnBooking, OnEvent, At, Exact,
           Owned, LedgerExact, WithinTotal, Releases, Taken, Stored, SeatCount, Holds
      <4> QED BY <4>1, <4>2, <4>3 DEF Exact
    <3> QED BY <2>3, <3>1, <3>2, <3>3, <3>4, <3>5, <3>6, <3>7 DEF Arrives
  <2>4. ASSUME NEW p \in Procs, Continues(p) PROVE Exact'
    <3>1. ASSUME SweepFind(p) PROVE Exact'
      <4>1. Owned'
        BY <3>1, LedgerAssumption DEF SweepFind, At, Lapsed, Becomes, TypeOK, Job, Steps, eventFields,
           bookingFields, Control, JobFits, HadRow, Over, OnBooking, OnEvent, Exact, Owned,
           LedgerExact, WithinTotal, Releases, Taken, Stored, SeatCount, Holds
      <4>2. LedgerExact'
        BY <3>1, LedgerAssumption DEF SweepFind, At, Lapsed, Becomes, TypeOK, Job, Steps, eventFields,
           bookingFields, Control, JobFits, HadRow, Over, OnBooking, OnEvent, Exact, Owned,
           LedgerExact, WithinTotal, Releases, Taken, Stored, SeatCount, Holds
      <4>3. WithinTotal'
        BY <3>1, LedgerAssumption DEF SweepFind, At, Lapsed, Becomes, TypeOK, Job, Steps, eventFields,
           bookingFields, Control, JobFits, HadRow, Over, OnBooking, OnEvent, Exact, Owned,
           LedgerExact, WithinTotal, Releases, Taken, Stored, SeatCount, Holds
      <4> QED BY <4>1, <4>2, <4>3 DEF Exact
    <3>2. ASSUME SweepRelease(p) PROVE Exact'
      <4>1. Owned'
        BY <3>2, LedgerAssumption DEF SweepRelease, At, ReleaseTickets, Becomes, TypeOK, Job, Steps,
           eventFields, bookingFields, Control, JobFits, HadRow, Over, OnBooking, OnEvent, Exact,
           Owned, LedgerExact, WithinTotal, Releases, Taken, Stored, SeatCount, Holds
      <4>2. LedgerExact'
        <5>1. job[p].booking \in Bookings /\ eventOf[job[p].booking] \in Events
          BY <3>2 DEF SweepRelease, At, Control, JobFits, OnBooking, HadRow
        <5>2. job[p].booking \in taken \/ eventOf[job[p].booking] \in drift
          BY <3>2 DEF SweepRelease, At, Exact, Owned, Releases
        <5>3. /\ ReleaseTickets(job[p].booking)
              /\ UNCHANGED <<present, total, eventOf, qtyOf, drift>>
          BY <3>2 DEF SweepRelease, eventFields, bookingFields
        <5> QED BY <5>1, <5>2, <5>3, ReleaseKeepsLedger DEF Exact
      <4>3. WithinTotal'
        BY <3>2, LedgerAssumption DEF SweepRelease, At, ReleaseTickets, Becomes, TypeOK, Job, Steps,
           eventFields, bookingFields, Control, JobFits, HadRow, Over, OnBooking, OnEvent, Exact,
           Owned, LedgerExact, WithinTotal, Releases, Taken, Stored, SeatCount, Holds
      <4> QED BY <4>1, <4>2, <4>3 DEF Exact
    <3>3. ASSUME SweepDone(p) PROVE Exact'
      <4>1. Owned'
        BY <3>3, LedgerAssumption DEF SweepDone, At, Ends, Goes, Idle, Becomes, TypeOK, Job, Steps,
           eventFields, bookingFields, Control, JobFits, HadRow, Over, OnBooking, OnEvent, Exact,
           Owned, LedgerExact, WithinTotal, Releases, Taken, Stored, SeatCount, Holds
      <4>2. LedgerExact'
        BY <3>3, LedgerAssumption DEF SweepDone, At, Ends, Goes, Idle, Becomes, TypeOK, Job, Steps,
           eventFields, bookingFields, Control, JobFits, HadRow, Over, OnBooking, OnEvent, Exact,
           Owned, LedgerExact, WithinTotal, Releases, Taken, Stored, SeatCount, Holds
      <4>3. WithinTotal'
        BY <3>3, LedgerAssumption DEF SweepDone, At, Ends, Goes, Idle, Becomes, TypeOK, Job, Steps,
           eventFields, bookingFields, Control, JobFits, HadRow, Over, OnBooking, OnEvent, Exact,
           Owned, LedgerExact, WithinTotal, Releases, Taken, Stored, SeatCount, Holds
      <4> QED BY <4>1, <4>2, <4>3 DEF Exact
    <3>4. ASSUME SoldOut(p) PROVE Exact'
      <4>1. Owned'
        BY <3>4, LedgerAssumption DEF SoldOut, At, Ends, Idle, Becomes, TypeOK, Job, Steps,
           eventFields, bookingFields, Control, JobFits, HadRow, Over, OnBooking, OnEvent, Exact,
           Owned, LedgerExact, WithinTotal, Releases, Taken, Stored, SeatCount, Holds
      <4>2. LedgerExact'
        BY <3>4, LedgerAssumption DEF SoldOut, At, Ends, Idle, Becomes, TypeOK, Job, Steps,
           eventFields, bookingFields, Control, JobFits, HadRow, Over, OnBooking, OnEvent, Exact,
           Owned, LedgerExact, WithinTotal, Releases, Taken, Stored, SeatCount, Holds
      <4>3. WithinTotal'
        BY <3>4, LedgerAssumption DEF SoldOut, At, Ends, Idle, Becomes, TypeOK, Job, Steps,
           eventFields, bookingFields, Control, JobFits, HadRow, Over, OnBooking, OnEvent, Exact,
           Owned, LedgerExact, WithinTotal, Releases, Taken, Stored, SeatCount, Holds
      <4> QED BY <4>1, <4>2, <4>3 DEF Exact
    <3>5. ASSUME NEW b \in Bookings, SweepClaim(p, b) PROVE Exact'
      <4>1. Owned'
        <5>1. /\ status[b] = "pending"
              /\ eventOf[b] \in drift' \/ b \in taken
              /\ drift \subseteq drift'
              /\ UNCHANGED <<present, eventOf, taken>>
              /\ \A c \in Bookings : status'[c] # "none" \/ status[c] = "none"
          BY <3>5 DEF SweepClaim, DriftsWhen, TypeOK, eventFields, bookingFields
        <5>2. \A q \in Procs : job[q].at \in Releases => job[q].booking # b
          BY <5>1 DEF Releases, At, Control, JobFits, Over
        <5>3. /\ \A q \in Procs \ {p} : job'[q] = job[q]
              /\ job'[p].booking = b
          BY <3>5 DEF SweepClaim, Becomes, TypeOK, Job
        <5>4. \A q \in Procs : job'[q].at \in Releases => \/ job'[q].booking \in taken'
                                               \/ eventOf'[job'[q].booking] \in drift'
          <6> SUFFICES ASSUME NEW q \in Procs, job'[q].at \in Releases
                       PROVE  job'[q].booking \in taken' \/ eventOf'[job'[q].booking] \in drift'
            OBVIOUS
          <6>1. CASE q = p
            BY <5>1, <5>3, <6>1
          <6>2. CASE q # p
            <7>1. job[q].at \in Releases /\ job'[q] = job[q]
              BY <5>3, <6>2
            <7>2. job[q].booking \in taken \/ eventOf[job[q].booking] \in drift
              BY <7>1 DEF Exact, Owned
            <7> QED BY <5>1, <7>1, <7>2
          <6> QED BY <6>1, <6>2
        <5>5. \A q, r \in Procs :
                job'[q].at \in Releases /\ job'[r].at \in Releases /\ job'[q].booking = job'[r].booking
                  => q = r \/ eventOf'[job'[q].booking] \in drift'
          <6> SUFFICES ASSUME NEW q \in Procs, NEW r \in Procs, job'[q].at \in Releases, job'[r].at \in Releases,
                              job'[q].booking = job'[r].booking, q # r
                       PROVE  eventOf'[job'[q].booking] \in drift'
            OBVIOUS
          <6>1. q # p /\ r # p
            <7>1. CASE q = p
              BY <5>2, <5>3, <7>1
            <7>2. CASE r = p
              BY <5>2, <5>3, <7>2
            <7> QED BY <7>1, <7>2
          <6>2. job[q].at \in Releases /\ job[r].at \in Releases /\ job'[q] = job[q] /\ job'[r] = job[r]
            BY <5>3, <6>1
          <6>3. eventOf[job[q].booking] \in drift
            BY <6>2 DEF Exact, Owned
          <6> QED BY <5>1, <6>2, <6>3
        <5>6. \A c \in taken' : present'[eventOf'[c]] # "unborn" /\ status'[c] # "none"
          BY <5>1 DEF Exact, Owned, TypeOK
        <5> QED BY <5>4, <5>5, <5>6 DEF Owned
      <4>2. LedgerExact'
        BY <3>5, LedgerAssumption DEF SweepClaim, At, DriftsWhen, Becomes, TypeOK, Job, Steps,
           eventFields, bookingFields, Control, JobFits, HadRow, Over, OnBooking, OnEvent, Exact,
           Owned, LedgerExact, WithinTotal, Releases, Taken, Stored, SeatCount, Holds
      <4>3. WithinTotal'
        BY <3>5, LedgerAssumption DEF SweepClaim, At, DriftsWhen, Becomes, TypeOK, Job, Steps,
           eventFields, bookingFields, Control, JobFits, HadRow, Over, OnBooking, OnEvent, Exact,
           Owned, LedgerExact, WithinTotal, Releases, Taken, Stored, SeatCount, Holds
      <4> QED BY <4>1, <4>2, <4>3 DEF Exact
    <3>6. ASSUME NEW b \in Bookings, SweepSkip(p, b) PROVE Exact'
      <4>1. Owned'
        BY <3>6, LedgerAssumption DEF SweepSkip, At, Becomes, TypeOK, Job, Steps, eventFields,
           bookingFields, Control, JobFits, HadRow, Over, OnBooking, OnEvent, Exact, Owned,
           LedgerExact, WithinTotal, Releases, Taken, Stored, SeatCount, Holds
      <4>2. LedgerExact'
        BY <3>6, LedgerAssumption DEF SweepSkip, At, Becomes, TypeOK, Job, Steps, eventFields,
           bookingFields, Control, JobFits, HadRow, Over, OnBooking, OnEvent, Exact, Owned,
           LedgerExact, WithinTotal, Releases, Taken, Stored, SeatCount, Holds
      <4>3. WithinTotal'
        BY <3>6, LedgerAssumption DEF SweepSkip, At, Becomes, TypeOK, Job, Steps, eventFields,
           bookingFields, Control, JobFits, HadRow, Over, OnBooking, OnEvent, Exact, Owned,
           LedgerExact, WithinTotal, Releases, Taken, Stored, SeatCount, Holds
      <4> QED BY <4>1, <4>2, <4>3 DEF Exact
    <3>7. ASSUME NEW b \in Bookings, Reserve(p, b) PROVE Exact'
      <4> DEFINE ev == job[p].event
                 n  == job[p].qty
      <4>1. ev \in Events /\ n \in Nat /\ Stored(ev) /\ sold[ev] + n <= total[ev]
        BY <3>7 DEF Reserve, Bookable, At, Control, JobFits, OnEvent, TypeOK, Job
      <4>2. status[b] = "none" /\ b \notin taken
        BY <3>7 DEF Reserve, Unused, Exact, Owned
      <4>3. /\ sold' = [sold EXCEPT ![ev] = sold[ev] + n]
            /\ qtyOf' = [qtyOf EXCEPT ![b] = n]
            /\ eventOf' = [eventOf EXCEPT ![b] = ev]
            /\ status' = [status EXCEPT ![b] = "reserved"]
            /\ taken' = taken \cup {b}
            /\ UNCHANGED <<present, total, drift>>
        BY <3>7 DEF Reserve, eventFields
      <4>4. \A q \in Procs : job'[q].at \in Releases => /\ job[q].at \in Releases
                                             /\ job'[q].booking = job[q].booking
                                             /\ job[q].booking # b
        <5>1. \A q \in Procs : job'[q].at \in Releases => q # p /\ job'[q] = job[q]
          BY <3>7 DEF Reserve, Becomes, Releases, At, TypeOK, Job
        <5> QED
          BY <5>1, <4>2 DEF Releases, At, Control, JobFits, OnBooking, HadRow
      <4>5. \A c \in Bookings \ {b} : eventOf'[c] = eventOf[c] /\ qtyOf'[c] = qtyOf[c]
                                     /\ status'[c] = status[c]
        BY <4>3 DEF TypeOK
      <4>6. eventOf'[b] = ev /\ qtyOf'[b] = n /\ status'[b] = "reserved"
        BY <4>3 DEF TypeOK
      <4>7. Owned'
        <5>1. \A q \in Procs : job[q].at \in Releases => job[q].booking \in Bookings
          BY DEF Releases, At, Control, JobFits, OnBooking
        <5>2. \A c \in taken' : present'[eventOf'[c]] # "unborn" /\ status'[c] # "none"
          BY <4>1, <4>3, <4>5, <4>6 DEF Exact, Owned, Stored, TypeOK
        <5>3. \A q \in Procs : job'[q].at \in Releases => \/ job'[q].booking \in taken'
                                               \/ eventOf'[job'[q].booking] \in drift'
          BY <4>3, <4>4, <4>5, <5>1 DEF Exact, Owned
        <5>4. \A q, r \in Procs :
                job'[q].at \in Releases /\ job'[r].at \in Releases /\ job'[q].booking = job'[r].booking
                  => q = r \/ eventOf'[job'[q].booking] \in drift'
          BY <4>3, <4>4, <4>5, <5>1 DEF Exact, Owned
        <5> QED BY <5>2, <5>3, <5>4 DEF Owned
      <4>8. LedgerExact'
        <5> SUFFICES ASSUME NEW e \in Events \ drift, Stored(e)
                     PROVE  sold'[e] = SeatsOf(Taken(e)', qtyOf')
          BY <4>3 DEF LedgerExact, Stored, SeatCount
        <5>1. sold[e] = SeatsOf(Taken(e), qtyOf)
          BY DEF Exact, LedgerExact, SeatCount
        <5>2. \A c \in Taken(e) : c \in Bookings \ {b}
          BY <4>2, TakenFinite DEF Taken
        <5>3. SeatsOf(Taken(e), qtyOf') = SeatsOf(Taken(e), qtyOf)
          BY <4>5, <5>2, SeatsAgree
        <5>4. CASE e # ev
          <6>1. Taken(e)' = Taken(e)
            <7>1. \A c \in Bookings : c \in Taken(e)' <=> c \in Taken(e)
              BY <4>3, <4>5, <4>6, <5>2, <5>4 DEF Taken
            <7>2. Taken(e) \subseteq Bookings /\ Taken(e)' \subseteq Bookings
              BY <4>3, TakenFinite DEF Taken, TypeOK
            <7> QED BY <7>1, <7>2
          <6>2. sold'[e] = sold[e]
            BY <4>3, <5>4 DEF TypeOK
          <6> QED BY <5>1, <5>3, <6>1, <6>2
        <5>5. CASE e = ev
          <6>1. Taken(e)' = Taken(e) \cup {b}
            BY <4>3, <4>5, <4>6, <5>5 DEF Taken, TypeOK
          <6>2. IsFiniteSet(Taken(e)) /\ b \notin Taken(e)
            BY <5>2, TakenFinite
          <6>3. \A c \in Taken(e) \cup {b} : qtyOf'[c] \in Nat
            BY <4>1, <4>5, <4>6, <5>2 DEF TypeOK
          <6>4. SeatsOf(Taken(e) \cup {b}, qtyOf') = SeatsOf(Taken(e), qtyOf') + qtyOf'[b]
            BY <6>2, <6>3, SeatsAdd
          <6>5. sold'[e] = sold[e] + n
            BY <4>3, <5>5 DEF TypeOK
          <6> QED BY <4>6, <5>1, <5>3, <6>1, <6>4, <6>5
        <5> QED BY <5>4, <5>5
      <4>9. WithinTotal'
        BY <4>1, <4>3 DEF Exact, WithinTotal, Stored, TypeOK
      <4> QED BY <4>7, <4>8, <4>9 DEF Exact
    <3>8. ASSUME NEW m \in Modes, InsertBooking(p, m) PROVE Exact'
      <4>1. Owned'
        BY <3>8, LedgerAssumption DEF InsertBooking, At, Ends, Idle, Becomes, TypeOK, Job, Steps,
           eventFields, bookingFields, Control, JobFits, HadRow, Over, OnBooking, OnEvent, Exact,
           Owned, LedgerExact, WithinTotal, Releases, Taken, Stored, SeatCount, Holds
      <4>2. LedgerExact'
        BY <3>8, LedgerAssumption DEF InsertBooking, At, Ends, Idle, Becomes, TypeOK, Job, Steps,
           eventFields, bookingFields, Control, JobFits, HadRow, Over, OnBooking, OnEvent, Exact,
           Owned, LedgerExact, WithinTotal, Releases, Taken, Stored, SeatCount, Holds
      <4>3. WithinTotal'
        BY <3>8, LedgerAssumption DEF InsertBooking, At, Ends, Idle, Becomes, TypeOK, Job, Steps,
           eventFields, bookingFields, Control, JobFits, HadRow, Over, OnBooking, OnEvent, Exact,
           Owned, LedgerExact, WithinTotal, Releases, Taken, Stored, SeatCount, Holds
      <4> QED BY <4>1, <4>2, <4>3 DEF Exact
    <3>9. ASSUME MarkPaid(p) PROVE Exact'
      <4>1. Owned'
        BY <3>9, LedgerAssumption DEF MarkPaid, At, Ends, Idle, Becomes, TypeOK, Job, Steps,
           eventFields, bookingFields, Control, JobFits, HadRow, Over, OnBooking, OnEvent, Exact,
           Owned, LedgerExact, WithinTotal, Releases, Taken, Stored, SeatCount, Holds
      <4>2. LedgerExact'
        BY <3>9, LedgerAssumption DEF MarkPaid, At, Ends, Idle, Becomes, TypeOK, Job, Steps,
           eventFields, bookingFields, Control, JobFits, HadRow, Over, OnBooking, OnEvent, Exact,
           Owned, LedgerExact, WithinTotal, Releases, Taken, Stored, SeatCount, Holds
      <4>3. WithinTotal'
        BY <3>9, LedgerAssumption DEF MarkPaid, At, Ends, Idle, Becomes, TypeOK, Job, Steps,
           eventFields, bookingFields, Control, JobFits, HadRow, Over, OnBooking, OnEvent, Exact,
           Owned, LedgerExact, WithinTotal, Releases, Taken, Stored, SeatCount, Holds
      <4> QED BY <4>1, <4>2, <4>3 DEF Exact
    <3>10. ASSUME PayRefused(p) PROVE Exact'
      <4>1. Owned'
        BY <3>10, LedgerAssumption DEF PayRefused, At, Ends, Idle, Becomes, TypeOK, Job, Steps,
           eventFields, bookingFields, Control, JobFits, HadRow, Over, OnBooking, OnEvent, Exact,
           Owned, LedgerExact, WithinTotal, Releases, Taken, Stored, SeatCount, Holds
      <4>2. LedgerExact'
        BY <3>10, LedgerAssumption DEF PayRefused, At, Ends, Idle, Becomes, TypeOK, Job, Steps,
           eventFields, bookingFields, Control, JobFits, HadRow, Over, OnBooking, OnEvent, Exact,
           Owned, LedgerExact, WithinTotal, Releases, Taken, Stored, SeatCount, Holds
      <4>3. WithinTotal'
        BY <3>10, LedgerAssumption DEF PayRefused, At, Ends, Idle, Becomes, TypeOK, Job, Steps,
           eventFields, bookingFields, Control, JobFits, HadRow, Over, OnBooking, OnEvent, Exact,
           Owned, LedgerExact, WithinTotal, Releases, Taken, Stored, SeatCount, Holds
      <4> QED BY <4>1, <4>2, <4>3 DEF Exact
    <3>11. ASSUME CancelWrite(p) PROVE Exact'
      <4>1. Owned'
        BY <3>11, LedgerAssumption DEF CancelWrite, At, DriftsWhen, Goes, Rows, Becomes, TypeOK, Job,
           Steps, eventFields, bookingFields, Control, JobFits, HadRow, Over, OnBooking, OnEvent,
           Exact, Owned, LedgerExact, WithinTotal, Releases, Taken, Stored, SeatCount, Holds
      <4>2. LedgerExact'
        BY <3>11, LedgerAssumption DEF CancelWrite, At, DriftsWhen, Goes, Rows, Becomes, TypeOK, Job,
           Steps, eventFields, bookingFields, Control, JobFits, HadRow, Over, OnBooking, OnEvent,
           Exact, Owned, LedgerExact, WithinTotal, Releases, Taken, Stored, SeatCount, Holds
      <4>3. WithinTotal'
        BY <3>11, LedgerAssumption DEF CancelWrite, At, DriftsWhen, Goes, Rows, Becomes, TypeOK, Job,
           Steps, eventFields, bookingFields, Control, JobFits, HadRow, Over, OnBooking, OnEvent,
           Exact, Owned, LedgerExact, WithinTotal, Releases, Taken, Stored, SeatCount, Holds
      <4> QED BY <4>1, <4>2, <4>3 DEF Exact
    <3>12. ASSUME CancelRelease(p) PROVE Exact'
      <4>1. Owned'
        BY <3>12, LedgerAssumption DEF CancelRelease, At, ReleaseTickets, Ends, Idle, Becomes, TypeOK,
           Job, Steps, eventFields, bookingFields, Control, JobFits, HadRow, Over, OnBooking, OnEvent,
           Exact, Owned, LedgerExact, WithinTotal, Releases, Taken, Stored, SeatCount, Holds
      <4>2. LedgerExact'
        <5>1. job[p].booking \in Bookings /\ eventOf[job[p].booking] \in Events
          BY <3>12 DEF CancelRelease, At, Control, JobFits, OnBooking, HadRow
        <5>2. job[p].booking \in taken \/ eventOf[job[p].booking] \in drift
          BY <3>12 DEF CancelRelease, At, Exact, Owned, Releases
        <5>3. /\ ReleaseTickets(job[p].booking)
              /\ UNCHANGED <<present, total, eventOf, qtyOf, drift>>
          BY <3>12 DEF CancelRelease, eventFields, bookingFields
        <5> QED BY <5>1, <5>2, <5>3, ReleaseKeepsLedger DEF Exact
      <4>3. WithinTotal'
        BY <3>12, LedgerAssumption DEF CancelRelease, At, ReleaseTickets, Ends, Idle, Becomes, TypeOK,
           Job, Steps, eventFields, bookingFields, Control, JobFits, HadRow, Over, OnBooking, OnEvent,
           Exact, Owned, LedgerExact, WithinTotal, Releases, Taken, Stored, SeatCount, Holds
      <4> QED BY <4>1, <4>2, <4>3 DEF Exact
    <3>13. ASSUME DeleteRelease(p) PROVE Exact'
      <4>1. Owned'
        <5> DEFINE c == job[p].booking
        <5>1. /\ eventOf[c] \in drift' \/ Holds(c)
              /\ drift \subseteq drift'
              /\ taken' = taken \ {c}
              /\ UNCHANGED <<present, eventOf, status>>
          BY <3>13 DEF DeleteRelease, DriftsWhen, ReleaseTickets, eventFields, bookingFields
        <5>2. \A q \in Procs : job[q].at \in Releases /\ job[q].booking = c => eventOf[c] \in drift'
          BY <5>1 DEF Releases, Control, JobFits, Over, Holds
        <5>3. /\ \A q \in Procs \ {p} : job'[q] = job[q]
              /\ job'[p].at \notin Releases
          BY <3>13 DEF DeleteRelease, Goes, Becomes, Releases, TypeOK, Job
        <5>4. ASSUME NEW q \in Procs, job'[q].at \in Releases
              PROVE  q # p /\ job'[q] = job[q] /\ job[q].at \in Releases
          BY <5>3, <5>4
        <5>5. \A q \in Procs : job'[q].at \in Releases => \/ job'[q].booking \in taken'
                                                         \/ eventOf'[job'[q].booking] \in drift'
          BY <5>1, <5>2, <5>4 DEF Exact, Owned
        <5>6. \A q, r \in Procs :
                job'[q].at \in Releases /\ job'[r].at \in Releases /\ job'[q].booking = job'[r].booking
                  => q = r \/ eventOf'[job'[q].booking] \in drift'
          BY <5>1, <5>4 DEF Exact, Owned
        <5>7. \A d \in taken' : present'[eventOf'[d]] # "unborn" /\ status'[d] # "none"
          BY <5>1 DEF Exact, Owned
        <5> QED BY <5>5, <5>6, <5>7 DEF Owned
      <4>2. LedgerExact'
        <5>1. job[p].booking \in Bookings /\ eventOf[job[p].booking] \in Events
          BY <3>13 DEF DeleteRelease, At, Control, JobFits, OnBooking, HadRow
        <5>2. /\ job[p].booking \in taken \/ eventOf[job[p].booking] \in drift'
              /\ drift \subseteq drift'
          BY <3>13 DEF DeleteRelease, DriftsWhen
        <5>3. /\ ReleaseTickets(job[p].booking)
              /\ UNCHANGED <<present, total, eventOf, qtyOf>>
          BY <3>13 DEF DeleteRelease, eventFields, bookingFields
        <5> QED BY <5>1, <5>2, <5>3, ReleaseKeepsLedger DEF Exact
      <4>3. WithinTotal'
        BY <3>13, LedgerAssumption DEF DeleteRelease, At, DriftsWhen, Goes, ReleaseTickets, Becomes,
           TypeOK, Job, Steps, eventFields, bookingFields, Control, JobFits, HadRow, Over, OnBooking,
           OnEvent, Exact, Owned, LedgerExact, WithinTotal, Releases, Taken, Stored, SeatCount, Holds
      <4> QED BY <4>1, <4>2, <4>3 DEF Exact
    <3>14. ASSUME DeleteRemove(p) PROVE Exact'
      <4>1. Owned'
        BY <3>14, LedgerAssumption DEF DeleteRemove, At, Ends, Idle, Becomes, TypeOK, Job, Steps,
           eventFields, bookingFields, Control, JobFits, HadRow, Over, OnBooking, OnEvent, Exact,
           Owned, LedgerExact, WithinTotal, Releases, Taken, Stored, SeatCount, Holds
      <4>2. LedgerExact'
        BY <3>14, LedgerAssumption DEF DeleteRemove, At, Ends, Idle, Becomes, TypeOK, Job, Steps,
           eventFields, bookingFields, Control, JobFits, HadRow, Over, OnBooking, OnEvent, Exact,
           Owned, LedgerExact, WithinTotal, Releases, Taken, Stored, SeatCount, Holds
      <4>3. WithinTotal'
        BY <3>14, LedgerAssumption DEF DeleteRemove, At, Ends, Idle, Becomes, TypeOK, Job, Steps,
           eventFields, bookingFields, Control, JobFits, HadRow, Over, OnBooking, OnEvent, Exact,
           Owned, LedgerExact, WithinTotal, Releases, Taken, Stored, SeatCount, Holds
      <4> QED BY <4>1, <4>2, <4>3 DEF Exact
    <3>15. ASSUME NEW t \in Totals, UpdateRefused(p, t) PROVE Exact'
      <4>1. Owned'
        BY <3>15, LedgerAssumption DEF UpdateRefused, At, Ends, Idle, Becomes, TypeOK, Job, Steps,
           eventFields, bookingFields, Control, JobFits, HadRow, Over, OnBooking, OnEvent, Exact,
           Owned, LedgerExact, WithinTotal, Releases, Taken, Stored, SeatCount, Holds
      <4>2. LedgerExact'
        BY <3>15, LedgerAssumption DEF UpdateRefused, At, Ends, Idle, Becomes, TypeOK, Job, Steps,
           eventFields, bookingFields, Control, JobFits, HadRow, Over, OnBooking, OnEvent, Exact,
           Owned, LedgerExact, WithinTotal, Releases, Taken, Stored, SeatCount, Holds
      <4>3. WithinTotal'
        BY <3>15, LedgerAssumption DEF UpdateRefused, At, Ends, Idle, Becomes, TypeOK, Job, Steps,
           eventFields, bookingFields, Control, JobFits, HadRow, Over, OnBooking, OnEvent, Exact,
           Owned, LedgerExact, WithinTotal, Releases, Taken, Stored, SeatCount, Holds
      <4> QED BY <4>1, <4>2, <4>3 DEF Exact
    <3>16. ASSUME NEW t \in Totals, NEW on \in BOOLEAN, UpdateReplace(p, t, on) PROVE Exact'
      <4>1. Owned'
        BY <3>16, LedgerAssumption DEF UpdateReplace, At, Ends, DriftsWhen, Idle, Becomes, TypeOK,
           Job, Steps, eventFields, bookingFields, Control, JobFits, HadRow, Over, OnBooking, OnEvent,
           Exact, Owned, LedgerExact, WithinTotal, Releases, Taken, Stored, SeatCount, Holds
      <4>2. LedgerExact'
        BY <3>16, LedgerAssumption DEF UpdateReplace, At, Ends, DriftsWhen, Idle, Becomes, TypeOK,
           Job, Steps, eventFields, bookingFields, Control, JobFits, HadRow, Over, OnBooking, OnEvent,
           Exact, Owned, LedgerExact, WithinTotal, Releases, Taken, Stored, SeatCount, Holds
      <4>3. WithinTotal'
        BY <3>16, LedgerAssumption DEF UpdateReplace, At, Ends, DriftsWhen, Idle, Becomes, TypeOK,
           Job, Steps, eventFields, bookingFields, Control, JobFits, HadRow, Over, OnBooking, OnEvent,
           Exact, Owned, LedgerExact, WithinTotal, Releases, Taken, Stored, SeatCount, Holds
      <4> QED BY <4>1, <4>2, <4>3 DEF Exact
    <3>17. ASSUME DeleteEventRemove(p) PROVE Exact'
      <4>1. Owned'
        BY <3>17, LedgerAssumption DEF DeleteEventRemove, At, Ends, Idle, Becomes, TypeOK, Job, Steps,
           eventFields, bookingFields, Control, JobFits, HadRow, Over, OnBooking, OnEvent, Exact,
           Owned, LedgerExact, WithinTotal, Releases, Taken, Stored, SeatCount, Holds
      <4>2. LedgerExact'
        BY <3>17, LedgerAssumption DEF DeleteEventRemove, At, Ends, Idle, Becomes, TypeOK, Job, Steps,
           eventFields, bookingFields, Control, JobFits, HadRow, Over, OnBooking, OnEvent, Exact,
           Owned, LedgerExact, WithinTotal, Releases, Taken, Stored, SeatCount, Holds
      <4>3. WithinTotal'
        BY <3>17, LedgerAssumption DEF DeleteEventRemove, At, Ends, Idle, Becomes, TypeOK, Job, Steps,
           eventFields, bookingFields, Control, JobFits, HadRow, Over, OnBooking, OnEvent, Exact,
           Owned, LedgerExact, WithinTotal, Releases, Taken, Stored, SeatCount, Holds
      <4> QED BY <4>1, <4>2, <4>3 DEF Exact
    <3> QED BY <2>4, <3>1, <3>2, <3>3, <3>4, <3>5, <3>6, <3>7, <3>8, <3>9, <3>10, <3>11, <3>12,
       <3>13, <3>14, <3>15, <3>16, <3>17 DEF Continues
  <2>5. ASSUME NEW p \in Procs, Abort(p) PROVE Exact'
    <3>1. Owned'
      BY <2>5, LedgerAssumption DEF Abort, At, Ends, Midway, Idle, Becomes, TypeOK, Job, Steps,
         eventFields, bookingFields, Control, JobFits, HadRow, Over, OnBooking, OnEvent, Exact,
         Owned, LedgerExact, WithinTotal, Releases, Taken, Stored, SeatCount, Holds
    <3>2. LedgerExact'
      BY <2>5, LedgerAssumption DEF Abort, At, Ends, Midway, Idle, Becomes, TypeOK, Job, Steps,
         eventFields, bookingFields, Control, JobFits, HadRow, Over, OnBooking, OnEvent, Exact,
         Owned, LedgerExact, WithinTotal, Releases, Taken, Stored, SeatCount, Holds
    <3>3. WithinTotal'
      BY <2>5, LedgerAssumption DEF Abort, At, Ends, Midway, Idle, Becomes, TypeOK, Job, Steps,
         eventFields, bookingFields, Control, JobFits, HadRow, Over, OnBooking, OnEvent, Exact,
         Owned, LedgerExact, WithinTotal, Releases, Taken, Stored, SeatCount, Holds
    <3> QED BY <3>1, <3>2, <3>3 DEF Exact
  <2>6. CASE UNCHANGED vars
    BY <2>6 DEF vars, TypeOK, Job, Steps, eventFields, bookingFields, Control, JobFits, HadRow,
       Over, OnBooking, OnEvent, At, Exact, Owned, LedgerExact, WithinTotal, Releases, Taken,
       Stored, SeatCount, Holds
  <2> QED BY <2>1, <2>2, <2>3, <2>4, <2>5, <2>6 DEF Next
<1> QED BY <1>1, <1>2, ControlInv, PTL DEF Spec

-----------------------------------------------------------------------------
(***************************************************************************)
(* What the invariants give.                                               *)
(***************************************************************************)

\* LedgerIsExact: LedgerExact holds of every behaviour, so a count is wrong only
\* on an event that one of the five drift steps has touched.
THEOREM LedgerIsExact == Spec => []LedgerExact
<1>1. Exact => LedgerExact
  BY DEF Exact
<1> QED BY <1>1, ExactInv, PTL

\* HoldersAreCounted: a booking that holds its seats is counted by its event.
THEOREM HoldersAreCounted == Spec => []HoldersCounted
<1>1. Accounted => HoldersCounted
  BY DEF Accounted
<1> QED BY <1>1, AccountedInv, PTL

\* SeatsAreNotStranded: seats nobody holds have a handler at work on them, or
\* lost it to a crash.
THEOREM SeatsAreNotStranded == Spec => []NoSeatStranded
<1>1. Accounted => NoSeatStranded
  BY DEF Accounted
<1> QED BY <1>1, AccountedInv, PTL

\* NeverOversold: the bookings that hold seats of an event fit in its total.
THEOREM NeverOversold == Spec => []NoOversell
<1>1. TypeOK /\ Accounted /\ Exact => NoOversell
  <2> SUFFICES ASSUME TypeOK, Accounted, Exact, NEW e \in Events \ drift,
                      Stored(e), \A b \in Holders(e) : ~BeingErased(b)
               PROVE  SeatCount(Holders(e)) <= total[e]
    BY DEF NoOversell
  <2>1. Holders(e) \in SUBSET Taken(e)
    BY DEF Holders, Taken, Accounted, HoldersCounted
  <2>2. IsFiniteSet(Taken(e)) /\ \A b \in Taken(e) : qtyOf[b] \in Nat
    BY TakenFinite DEF TypeOK
  <2>3. SeatsOf(Holders(e), qtyOf) <= SeatsOf(Taken(e), qtyOf)
    BY <2>1, <2>2, SeatsMonotone
  <2>4. SeatsOf(Taken(e), qtyOf) = sold[e] /\ sold[e] <= total[e]
    BY DEF Exact, LedgerExact, WithinTotal, SeatCount
  <2>5. IsFiniteSet(Holders(e)) /\ \A b \in Holders(e) : qtyOf[b] \in Nat
    BY <2>1, <2>2, FS_Subset
  <2>6. SeatsOf(Holders(e), qtyOf) \in Nat
    BY <2>5, SeatsFinite
  <2>7. sold[e] \in Int /\ total[e] \in Nat
    BY DEF TypeOK
  <2> QED BY <2>3, <2>4, <2>6, <2>7 DEF SeatCount
<1> QED BY <1>1, ControlInv, AccountedInv, ExactInv, PTL

\* SoldNeverPassesTotal: no step pushes a count above its event's total.
THEOREM SoldNeverPassesTotal == Spec => SoldStaysWithinTotal
<1>1. TypeOK /\ Control /\ [Next]_vars
      => \A x \in Events : Stored(x) /\ sold[x] <= total[x] => sold'[x] <= total'[x]
  <2> SUFFICES ASSUME TypeOK, Control, [Next]_vars, NEW x \in Events, Stored(x), sold[x] <= total[x]
               PROVE  sold'[x] <= total'[x]
    OBVIOUS
  <2>1. ASSUME NEW e \in Events, NEW t \in Totals, NEW s \in SoldInBody, NEW on \in BOOLEAN,
               CreateEvent(e, t, s, on)
        PROVE  sold'[x] <= total'[x]
    BY <2>1, LedgerAssumption DEF CreateEvent, DriftsWhen, TypeOK, Control, JobFits, OnBooking,
       OnEvent, HadRow, At, Stored, Bookable, eventFields, bookingFields
  <2>2. ASSUME NEW b \in Bookings, HoldLapses(b) PROVE sold'[x] <= total'[x]
    BY <2>2, LedgerAssumption DEF HoldLapses, TypeOK, Control, JobFits, OnBooking, OnEvent,
       HadRow, At, Stored, Bookable, eventFields, bookingFields
  <2>3. ASSUME NEW p \in Procs, Arrives(p) PROVE sold'[x] <= total'[x]
    <3>1. ASSUME SweepStart(p) PROVE sold'[x] <= total'[x]
      BY <3>1, LedgerAssumption DEF SweepStart, Begin, Idle, Becomes, TypeOK, Control, JobFits,
         OnBooking, OnEvent, HadRow, At, Stored, Bookable, eventFields, bookingFields
    <3>2. ASSUME NEW e \in Events, UpdateRead(p, e) PROVE sold'[x] <= total'[x]
      BY <3>2, LedgerAssumption DEF UpdateRead, Begin, Idle, Becomes, TypeOK, Control, JobFits,
         OnBooking, OnEvent, HadRow, At, Stored, Bookable, eventFields, bookingFields
    <3>3. ASSUME NEW e \in Events, DeleteEventCheck(p, e) PROVE sold'[x] <= total'[x]
      BY <3>3, LedgerAssumption DEF DeleteEventCheck, Begin, Idle, Becomes, TypeOK, Control,
         JobFits, OnBooking, OnEvent, HadRow, At, Stored, Bookable, eventFields, bookingFields
    <3>4. ASSUME NEW e \in Events, NEW q \in Quantities, BookStart(p, e, q) PROVE sold'[x] <= total'[x]
      BY <3>4, LedgerAssumption DEF BookStart, Begin, Idle, Becomes, TypeOK, Control, JobFits,
         OnBooking, OnEvent, HadRow, At, Stored, Bookable, eventFields, bookingFields
    <3>5. ASSUME NEW b \in Bookings, PayRead(p, b) PROVE sold'[x] <= total'[x]
      BY <3>5, LedgerAssumption DEF PayRead, Begin, Idle, Becomes, TypeOK, Control, JobFits,
         OnBooking, OnEvent, HadRow, At, Stored, Bookable, eventFields, bookingFields
    <3>6. ASSUME NEW b \in Bookings, CancelRead(p, b) PROVE sold'[x] <= total'[x]
      BY <3>6, LedgerAssumption DEF CancelRead, Begin, Rows, Idle, Becomes, TypeOK, Control,
         JobFits, OnBooking, OnEvent, HadRow, At, Stored, Bookable, eventFields, bookingFields
    <3>7. ASSUME NEW b \in Bookings, DeleteRead(p, b) PROVE sold'[x] <= total'[x]
      BY <3>7, LedgerAssumption DEF DeleteRead, Begin, Rows, Idle, Becomes, TypeOK, Control,
         JobFits, OnBooking, OnEvent, HadRow, At, Stored, Bookable, eventFields, bookingFields
    <3> QED BY <2>3, <3>1, <3>2, <3>3, <3>4, <3>5, <3>6, <3>7 DEF Arrives
  <2>4. ASSUME NEW p \in Procs, Continues(p) PROVE sold'[x] <= total'[x]
    <3>1. ASSUME SweepFind(p) PROVE sold'[x] <= total'[x]
      BY <3>1, LedgerAssumption DEF SweepFind, At, Lapsed, Becomes, TypeOK, Control, JobFits,
         OnBooking, OnEvent, HadRow, Stored, Bookable, eventFields, bookingFields
    <3>2. ASSUME SweepRelease(p) PROVE sold'[x] <= total'[x]
      BY <3>2, LedgerAssumption DEF SweepRelease, At, ReleaseTickets, Becomes, TypeOK, Control,
         JobFits, OnBooking, OnEvent, HadRow, Stored, Bookable, eventFields, bookingFields
    <3>3. ASSUME SweepDone(p) PROVE sold'[x] <= total'[x]
      BY <3>3, LedgerAssumption DEF SweepDone, At, Ends, Goes, Idle, Becomes, TypeOK, Control,
         JobFits, OnBooking, OnEvent, HadRow, Stored, Bookable, eventFields, bookingFields
    <3>4. ASSUME SoldOut(p) PROVE sold'[x] <= total'[x]
      BY <3>4, LedgerAssumption DEF SoldOut, At, Ends, Idle, Becomes, TypeOK, Control, JobFits,
         OnBooking, OnEvent, HadRow, Stored, Bookable, eventFields, bookingFields
    <3>5. ASSUME NEW b \in Bookings, SweepClaim(p, b) PROVE sold'[x] <= total'[x]
      BY <3>5, LedgerAssumption DEF SweepClaim, At, DriftsWhen, Becomes, TypeOK, Control, JobFits,
         OnBooking, OnEvent, HadRow, Stored, Bookable, eventFields, bookingFields
    <3>6. ASSUME NEW b \in Bookings, SweepSkip(p, b) PROVE sold'[x] <= total'[x]
      BY <3>6, LedgerAssumption DEF SweepSkip, At, Becomes, TypeOK, Control, JobFits, OnBooking,
         OnEvent, HadRow, Stored, Bookable, eventFields, bookingFields
    <3>7. ASSUME NEW b \in Bookings, Reserve(p, b) PROVE sold'[x] <= total'[x]
      <4> DEFINE ev == job[p].event
                 n  == job[p].qty
      <4>1. At(p, "reserve") /\ Bookable(ev, n) /\ sold' = [sold EXCEPT ![ev] = @ + n] /\ total' = total
        BY <3>7 DEF Reserve, eventFields
      <4>2. ev \in Events
        BY <4>1 DEF At, Control, JobFits, OnEvent
      <4>3. CASE x = ev
        <5>1. n \in Nat /\ sold[ev] \in Int /\ total[ev] \in Nat
          BY <4>2 DEF TypeOK, Job
        <5>2. sold'[x] = sold[ev] + n
          BY <4>1, <4>2, <4>3 DEF TypeOK
        <5> QED BY <4>1, <4>3, <5>1, <5>2 DEF Bookable
      <4>4. CASE x # ev
        BY <4>1, <4>2, <4>4 DEF TypeOK
      <4> QED BY <4>3, <4>4
    <3>8. ASSUME NEW m \in Modes, InsertBooking(p, m) PROVE sold'[x] <= total'[x]
      BY <3>8, LedgerAssumption DEF InsertBooking, At, Ends, Idle, Becomes, TypeOK, Control,
         JobFits, OnBooking, OnEvent, HadRow, Stored, Bookable, eventFields, bookingFields
    <3>9. ASSUME MarkPaid(p) PROVE sold'[x] <= total'[x]
      BY <3>9, LedgerAssumption DEF MarkPaid, At, Ends, Idle, Becomes, TypeOK, Control, JobFits,
         OnBooking, OnEvent, HadRow, Stored, Bookable, eventFields, bookingFields
    <3>10. ASSUME PayRefused(p) PROVE sold'[x] <= total'[x]
      BY <3>10, LedgerAssumption DEF PayRefused, At, Ends, Idle, Becomes, TypeOK, Control, JobFits,
         OnBooking, OnEvent, HadRow, Stored, Bookable, eventFields, bookingFields
    <3>11. ASSUME CancelWrite(p) PROVE sold'[x] <= total'[x]
      BY <3>11, LedgerAssumption DEF CancelWrite, At, DriftsWhen, Goes, Rows, Becomes, TypeOK,
         Control, JobFits, OnBooking, OnEvent, HadRow, Stored, Bookable, eventFields, bookingFields
    <3>12. ASSUME CancelRelease(p) PROVE sold'[x] <= total'[x]
      BY <3>12, LedgerAssumption DEF CancelRelease, At, ReleaseTickets, Ends, Idle, Becomes, TypeOK,
         Control, JobFits, OnBooking, OnEvent, HadRow, Stored, Bookable, eventFields, bookingFields
    <3>13. ASSUME DeleteRelease(p) PROVE sold'[x] <= total'[x]
      BY <3>13, LedgerAssumption DEF DeleteRelease, At, DriftsWhen, Goes, ReleaseTickets, Becomes,
         TypeOK, Control, JobFits, OnBooking, OnEvent, HadRow, Stored, Bookable, eventFields,
         bookingFields
    <3>14. ASSUME DeleteRemove(p) PROVE sold'[x] <= total'[x]
      BY <3>14, LedgerAssumption DEF DeleteRemove, At, Ends, Idle, Becomes, TypeOK, Control,
         JobFits, OnBooking, OnEvent, HadRow, Stored, Bookable, eventFields, bookingFields
    <3>15. ASSUME NEW t \in Totals, UpdateRefused(p, t) PROVE sold'[x] <= total'[x]
      BY <3>15, LedgerAssumption DEF UpdateRefused, At, Ends, Idle, Becomes, TypeOK, Control,
         JobFits, OnBooking, OnEvent, HadRow, Stored, Bookable, eventFields, bookingFields
    <3>16. ASSUME NEW t \in Totals, NEW on \in BOOLEAN, UpdateReplace(p, t, on) PROVE sold'[x] <= total'[x]
      BY <3>16, LedgerAssumption DEF UpdateReplace, At, Ends, DriftsWhen, Idle, Becomes, TypeOK,
         Control, JobFits, OnBooking, OnEvent, HadRow, Stored, Bookable, eventFields, bookingFields
    <3>17. ASSUME DeleteEventRemove(p) PROVE sold'[x] <= total'[x]
      BY <3>17, LedgerAssumption DEF DeleteEventRemove, At, Ends, Idle, Becomes, TypeOK, Control,
         JobFits, OnBooking, OnEvent, HadRow, Stored, Bookable, eventFields, bookingFields
    <3> QED BY <2>4, <3>1, <3>2, <3>3, <3>4, <3>5, <3>6, <3>7, <3>8, <3>9, <3>10, <3>11, <3>12,
       <3>13, <3>14, <3>15, <3>16, <3>17 DEF Continues
  <2>5. ASSUME NEW p \in Procs, Abort(p) PROVE sold'[x] <= total'[x]
    BY <2>5, LedgerAssumption DEF Abort, At, Ends, Midway, Idle, Becomes, TypeOK, Control,
       JobFits, OnBooking, OnEvent, HadRow, Stored, Bookable, eventFields, bookingFields
  <2>6. CASE UNCHANGED vars
    BY <2>6 DEF vars
  <2> QED BY <2>1, <2>2, <2>3, <2>4, <2>5, <2>6 DEF Next
<1>2. TypeOK /\ Control /\ [Next]_vars
      => [\A e \in Events : Stored(e) /\ sold[e] <= total[e] => sold'[e] <= total'[e]]_vars
  BY <1>1
<1> QED BY <1>2, ControlInv, PTL DEF Spec, SoldStaysWithinTotal

-----------------------------------------------------------------------------
(***************************************************************************)
(* Giving seats back once.                                                 *)
(***************************************************************************)

\* StillGivenBackOnce: a step after which its handler is not about to give seats
\* back keeps GivenBackOnce, if the bookings others will give back still have
\* their seats and those that hold theirs do too.
LEMMA StillGivenBackOnce ==
  ASSUME TypeOK, GivenBackOnce, NEW p \in Procs, NEW j, Becomes(p, j),
         j.at \notin {"release", "cancelWrite", "cancelRelease", "delRelease", "delRemove"},
         \A b \in Bookings : status'[b] \in {"reserved", "pending", "confirmed"} => b \in taken',
         \A q \in Procs : q # p /\ At(q, "release")
           => job[q].booking \in taken' /\ status'[job[q].booking] \in {"cancelled", "expired", "deleted"}
  PROVE  GivenBackOnce'
<1>1. \A q \in Procs : job'[q] = IF q = p THEN j ELSE job[q]
  BY DEF Becomes, TypeOK
<1>2. \A q \in Procs : At(q, "release")' => q # p /\ At(q, "release") /\ job'[q] = job[q]
  BY <1>1 DEF At
<1>3. (\A q \in Procs : job[q].at \notin {"cancelWrite", "cancelRelease", "delRelease", "delRemove"})'
  BY <1>1 DEF GivenBackOnce
<1>4. (\A q \in Procs : At(q, "release") => job[q].booking \in taken /\ Over(job[q].booking))'
  BY <1>2 DEF Over
<1>5. (\A q, r \in Procs : At(q, "release") /\ At(r, "release") /\ job[q].booking = job[r].booking
                            => q = r)'
  BY <1>2 DEF GivenBackOnce
<1> QED BY <1>3, <1>4, <1>5 DEF GivenBackOnce

\* QuietStep: so does a step that writes no booking and takes no seats.
LEMMA QuietStep ==
  ASSUME TypeOK, GivenBackOnce, NEW p \in Procs, NEW j, Becomes(p, j),
         j.at \notin {"release", "cancelWrite", "cancelRelease", "delRelease", "delRemove"},
         UNCHANGED <<status, taken>>
  PROVE  GivenBackOnce'
BY StillGivenBackOnce DEF GivenBackOnce, Over

\* GivenBackOnceInv: with no cancellations and no deletions of bookings, sweeps
\* keep GivenBackOnce against each other, payments, edits and crashes.
THEOREM GivenBackOnceInv ==
  ASSUME Handlers \cap {"cancel", "delete"} = {}
  PROVE  Spec => []GivenBackOnce
<1>1. Init => GivenBackOnce
  BY DEF Init, GivenBackOnce, Idle, At
<1>2. TypeOK /\ Control /\ GivenBackOnce /\ [Next]_vars => GivenBackOnce'
  <2> SUFFICES ASSUME TypeOK, Control, GivenBackOnce, [Next]_vars PROVE GivenBackOnce'
    OBVIOUS
  <2>1. ASSUME NEW e \in Events, NEW t \in Totals, NEW s \in SoldInBody, NEW on \in BOOLEAN,
               CreateEvent(e, t, s, on)
        PROVE  GivenBackOnce'
    BY <2>1 DEF CreateEvent, GivenBackOnce, At, Over
  <2>2. ASSUME NEW b \in Bookings, HoldLapses(b) PROVE GivenBackOnce'
    BY <2>2 DEF HoldLapses, GivenBackOnce, At, Over
  <2>3. ASSUME NEW p \in Procs, Arrives(p) PROVE GivenBackOnce'
    <3>1. CASE SweepStart(p)
      BY <3>1, QuietStep DEF SweepStart, Begin, Idle
    <3>2. ASSUME NEW e \in Events, UpdateRead(p, e) PROVE GivenBackOnce'
      BY <3>2, QuietStep DEF UpdateRead, Begin, Idle
    <3>3. ASSUME NEW e \in Events, DeleteEventCheck(p, e) PROVE GivenBackOnce'
      BY <3>3, QuietStep DEF DeleteEventCheck, Begin, Idle
    <3>4. ASSUME NEW e \in Events, NEW q \in Quantities, BookStart(p, e, q) PROVE GivenBackOnce'
      BY <3>4, QuietStep DEF BookStart, Begin, Idle
    <3>5. ASSUME NEW b \in Bookings, PayRead(p, b) PROVE GivenBackOnce'
      BY <3>5, QuietStep DEF PayRead, Begin, Idle
    <3>6. ~\E b \in Bookings : CancelRead(p, b) \/ DeleteRead(p, b)
      BY DEF CancelRead, DeleteRead, Begin
    <3> QED BY <2>3, <3>1, <3>2, <3>3, <3>4, <3>5, <3>6 DEF Arrives
  <2>4. ASSUME NEW p \in Procs, Continues(p) PROVE GivenBackOnce'
    <3> DEFINE j == job[p]
    <3>1. CASE SweepFind(p)
      <4>1. PICK found \in SUBSET Bookings : Becomes(p, [j EXCEPT !.at = "claim", !.todo = found])
        BY <3>1 DEF SweepFind, Lapsed
      <4> QED BY <3>1, <4>1, QuietStep DEF SweepFind, TypeOK, Job
    <3>2. CASE SweepRelease(p)
      <4> DEFINE b == j.booking
      <4>1. At(p, "release") /\ taken' = taken \ {b} /\ status' = status
            /\ Becomes(p, [j EXCEPT !.at = "claim", !.booking = None])
        BY <3>2 DEF SweepRelease, ReleaseTickets
      <4>2. status[b] \in {"cancelled", "expired", "deleted"}
        BY <4>1 DEF GivenBackOnce, Over
      <4>3. \A c \in Bookings : status'[c] \in {"reserved", "pending", "confirmed"} => c \in taken'
        BY <4>1, <4>2 DEF GivenBackOnce
      <4>4. \A q \in Procs : q # p /\ At(q, "release")
              => job[q].booking \in taken' /\ status'[job[q].booking] \in {"cancelled", "expired", "deleted"}
        BY <4>1 DEF GivenBackOnce, Over
      <4>5. [j EXCEPT !.at = "claim", !.booking = None].at = "claim"
        BY DEF TypeOK, Job
      <4> QED BY <4>1, <4>3, <4>4, <4>5, StillGivenBackOnce
    <3>3. CASE SweepDone(p)
      <4>1. CASE Ends(p)
        BY <3>3, <4>1, QuietStep DEF SweepDone, Ends, Idle
      <4>2. CASE Goes(p, "reserve")
        BY <3>3, <4>2, QuietStep DEF SweepDone, Goes, TypeOK, Job
      <4> QED BY <3>3, <4>1, <4>2 DEF SweepDone
    <3>4. CASE SoldOut(p)
      BY <3>4, QuietStep DEF SoldOut, Ends, Idle
    <3>5. ASSUME NEW b \in Bookings, SweepClaim(p, b) PROVE GivenBackOnce'
      <4>1. /\ status[b] = "pending"
            /\ status' = [status EXCEPT ![b] = "expired"]
            /\ taken' = taken
            /\ Becomes(p, [j EXCEPT !.at = "release", !.booking = b, !.todo = @ \ {b}])
        BY <3>5 DEF SweepClaim
      <4>2. \A q \in Procs : q # p => job'[q] = job[q]
        BY <4>1 DEF Becomes, TypeOK
      <4>3. job'[p].at = "release" /\ job'[p].booking = b
        BY <4>1 DEF Becomes, TypeOK, Job
      <4>4. \A c \in Bookings : status'[c] = IF c = b THEN "expired" ELSE status[c]
        BY <4>1 DEF TypeOK
      <4>5. b \in taken
        BY <4>1 DEF GivenBackOnce
      <4>6. \A q \in Procs : At(q, "release") => job[q].booking # b /\ job[q].booking \in Bookings
        BY <4>1 DEF GivenBackOnce, Over, TypeOK
      <4>7. (\A q \in Procs :
               job[q].at \notin {"cancelWrite", "cancelRelease", "delRelease", "delRemove"})'
        BY <4>2, <4>3 DEF GivenBackOnce
      <4>8. (\A c \in Bookings : status[c] \in {"reserved", "pending", "confirmed"} => c \in taken)'
        BY <4>1, <4>4 DEF GivenBackOnce
      <4>9. (\A q \in Procs : At(q, "release") => job[q].booking \in taken /\ Over(job[q].booking))'
        BY <4>1, <4>2, <4>3, <4>4, <4>5, <4>6 DEF GivenBackOnce, Over, At
      <4>10. (\A q, r \in Procs : At(q, "release") /\ At(r, "release")
                                    /\ job[q].booking = job[r].booking => q = r)'
        BY <4>2, <4>3, <4>6 DEF GivenBackOnce, At
      <4> QED BY <4>7, <4>8, <4>9, <4>10 DEF GivenBackOnce
    <3>6. ASSUME NEW b \in Bookings, SweepSkip(p, b) PROVE GivenBackOnce'
      BY <3>6, QuietStep DEF SweepSkip, At, TypeOK, Job
    <3>7. ASSUME NEW b \in Bookings, Reserve(p, b) PROVE GivenBackOnce'
      <4>1. /\ status[b] = "none"
            /\ status' = [status EXCEPT ![b] = "reserved"]
            /\ taken' = taken \cup {b}
            /\ Becomes(p, [j EXCEPT !.at = "insert", !.booking = b])
        BY <3>7 DEF Reserve, Unused
      <4>2. \A c \in Bookings : status'[c] = IF c = b THEN "reserved" ELSE status[c]
        BY <4>1 DEF TypeOK
      <4>3. \A c \in Bookings : status'[c] \in {"reserved", "pending", "confirmed"} => c \in taken'
        BY <4>1, <4>2 DEF GivenBackOnce
      <4>4. \A q \in Procs : q # p /\ At(q, "release")
              => job[q].booking \in taken' /\ status'[job[q].booking] \in {"cancelled", "expired", "deleted"}
        BY <4>1, <4>2 DEF GivenBackOnce, Over, TypeOK
      <4>5. [j EXCEPT !.at = "insert", !.booking = b].at = "insert"
        BY DEF TypeOK, Job
      <4> QED BY <4>1, <4>3, <4>4, <4>5, StillGivenBackOnce
    <3>8. ASSUME NEW m \in Modes, InsertBooking(p, m) PROVE GivenBackOnce'
      <4> DEFINE b == j.booking
      <4>1. /\ At(p, "insert")
            /\ status' = [status EXCEPT ![b] = IF m THEN "pending" ELSE "confirmed"]
            /\ taken' = taken
            /\ Becomes(p, Idle)
        BY <3>8 DEF InsertBooking, Ends
      <4>2. b \in Bookings /\ status[b] = "reserved"
        BY <4>1 DEF Control, JobFits, OnBooking, At
      <4>3. \A c \in Bookings : c # b => status'[c] = status[c]
        BY <4>1 DEF TypeOK
      <4>4. \A c \in Bookings : status'[c] \in {"reserved", "pending", "confirmed"} => c \in taken'
        BY <4>1, <4>2, <4>3 DEF GivenBackOnce
      <4>5. \A q \in Procs : q # p /\ At(q, "release")
              => job[q].booking \in taken' /\ status'[job[q].booking] \in {"cancelled", "expired", "deleted"}
        BY <4>1, <4>2, <4>3 DEF GivenBackOnce, Over, TypeOK
      <4> QED BY <4>1, <4>4, <4>5, StillGivenBackOnce DEF Idle
    <3>9. CASE MarkPaid(p)
      <4> DEFINE b == j.booking
      <4>1. /\ At(p, "markPaid")
            /\ status[b] = "pending"
            /\ status' = [status EXCEPT ![b] = "confirmed"]
            /\ taken' = taken
            /\ Becomes(p, Idle)
        BY <3>9 DEF MarkPaid, Ends
      <4>2. \A c \in Bookings : c # b => status'[c] = status[c]
        BY <4>1 DEF TypeOK
      <4>3. \A c \in Bookings : status'[c] \in {"reserved", "pending", "confirmed"} => c \in taken'
        BY <4>1, <4>2 DEF GivenBackOnce
      <4>4. \A q \in Procs : q # p /\ At(q, "release")
              => job[q].booking \in taken' /\ status'[job[q].booking] \in {"cancelled", "expired", "deleted"}
        BY <4>1, <4>2 DEF GivenBackOnce, Over, TypeOK
      <4> QED BY <4>1, <4>3, <4>4, StillGivenBackOnce DEF Idle
    <3>10. CASE PayRefused(p)
      BY <3>10, QuietStep DEF PayRefused, Ends, Idle
    <3>11. ~(CancelWrite(p) \/ CancelRelease(p) \/ DeleteRelease(p) \/ DeleteRemove(p))
      BY DEF CancelWrite, CancelRelease, DeleteRelease, DeleteRemove, At, GivenBackOnce
    <3>12. ASSUME NEW t \in Totals, UpdateRefused(p, t) PROVE GivenBackOnce'
      BY <3>12, QuietStep DEF UpdateRefused, Ends, Idle
    <3>13. ASSUME NEW t \in Totals, NEW on \in BOOLEAN, UpdateReplace(p, t, on) PROVE GivenBackOnce'
      BY <3>13, QuietStep DEF UpdateReplace, Ends, Idle
    <3>14. CASE DeleteEventRemove(p)
      BY <3>14, QuietStep DEF DeleteEventRemove, Ends, Idle
    <3> QED BY <2>4, <3>1, <3>2, <3>3, <3>4, <3>5, <3>6, <3>7, <3>8, <3>9, <3>10, <3>11, <3>12,
       <3>13, <3>14 DEF Continues
  <2>5. ASSUME NEW p \in Procs, Abort(p) PROVE GivenBackOnce'
    BY <2>5, QuietStep DEF Abort, Ends, Idle
  <2>6. CASE UNCHANGED vars
    BY <2>6 DEF vars, GivenBackOnce, At, Over
  <2> QED BY <2>1, <2>2, <2>3, <2>4, <2>5, <2>6 DEF Next
<1> QED BY <1>1, <1>2, ControlInv, PTL DEF Spec

\* ReleasedOnce: where bookings are neither cancelled nor deleted, which race
\* with a sweep, seats are never given back twice: the promise of ExpireHolds.
THEOREM ReleasedOnce ==
  ASSUME Handlers \cap {"cancel", "delete"} = {}
  PROVE  Spec => ReleasesOnlyTaken
<1>1. GivenBackOnce /\ [Next]_vars
      => [\A p \in Procs : SweepRelease(p) \/ CancelRelease(p) \/ DeleteRelease(p)
                              => job[p].booking \in taken]_vars
  <2> SUFFICES ASSUME GivenBackOnce, NEW p \in Procs,
                      SweepRelease(p) \/ CancelRelease(p) \/ DeleteRelease(p)
               PROVE  job[p].booking \in taken
    OBVIOUS
  <2>1. At(p, "release")
    BY DEF SweepRelease, CancelRelease, DeleteRelease, At, GivenBackOnce
  <2> QED BY <2>1 DEF GivenBackOnce
<1> QED BY <1>1, GivenBackOnceInv, PTL DEF Spec, ReleasesOnlyTaken

-----------------------------------------------------------------------------
(***************************************************************************)
(* The abstract specification.                                             *)
(***************************************************************************)

\* StageMoves: writing a status moves its booking, and no other, to the stage of
\* that status.
LEMMA StageMoves ==
  ASSUME TypeOK, NEW b \in Bookings, NEW s, status' = [status EXCEPT ![b] = s]
  PROVE  [c \in Bookings |-> Stage(status[c])]'
           = [[c \in Bookings |-> Stage(status[c])] EXCEPT ![b] = Stage(s)]
<1> DEFINE old == [c \in Bookings |-> Stage(status[c])]
           new == [c \in Bookings |-> Stage(status'[c])]
<1>1. \A c \in Bookings : status'[c] = IF c = b THEN s ELSE status[c]
  BY DEF TypeOK
<1>2. \A c \in Bookings : new[c] = IF c = b THEN Stage(s) ELSE old[c]
  BY <1>1
<1>3. new = [old EXCEPT ![b] = Stage(s)]
  <2> HIDE DEF Stage
  <2>1. new = [c \in Bookings |-> IF c = b THEN Stage(s) ELSE Stage(status[c])]
    BY <1>1
  <2>2. [old EXCEPT ![b] = Stage(s)] = [c \in Bookings |-> IF c = b THEN Stage(s) ELSE Stage(status[c])]
    OBVIOUS
  <2> QED BY <2>1, <2>2
<1> QED BY <1>3

\* Stays: a step that leaves the statuses alone is a stuttering step of the
\* abstract specification.
LEMMA Stays ==
  ASSUME UNCHANGED status
  PROVE  UNCHANGED [c \in Bookings |-> Stage(status[c])]
OBVIOUS

\* ImplementsLifecycle: every step of a handler is a step of BookingLifecycle or
\* leaves it alone: no booking is revived, none is paid twice or after its end.
THEOREM ImplementsLifecycle == Spec => FollowsLifecycle
<1> DEFINE stages == [b \in Bookings |-> Stage(status[b])]
<1>1. Init => Lifecycle!Init
  BY DEF Init, Lifecycle!Init, Stage
<1>2. TypeOK /\ Control /\ [Next]_vars => [Lifecycle!Next]_([b \in Bookings |-> Stage(status[b])])
  <2> SUFFICES ASSUME TypeOK, Control, [Next]_vars
               PROVE  [Lifecycle!Next]_stages
    OBVIOUS
  <2>1. ASSUME NEW e \in Events, NEW t \in Totals, NEW s \in SoldInBody, NEW on \in BOOLEAN,
               CreateEvent(e, t, s, on)
        PROVE  [Lifecycle!Next]_stages
    BY <2>1, Stays DEF CreateEvent
  <2>2. ASSUME NEW b \in Bookings, HoldLapses(b) PROVE [Lifecycle!Next]_stages
    BY <2>2, Stays DEF HoldLapses
  <2>3. ASSUME NEW p \in Procs, Arrives(p) PROVE [Lifecycle!Next]_stages
    <3>1. ASSUME SweepStart(p) PROVE [Lifecycle!Next]_stages
      BY <3>1, Stays DEF SweepStart
    <3>2. ASSUME NEW e \in Events, UpdateRead(p, e) PROVE [Lifecycle!Next]_stages
      BY <3>2, Stays DEF UpdateRead
    <3>3. ASSUME NEW e \in Events, DeleteEventCheck(p, e) PROVE [Lifecycle!Next]_stages
      BY <3>3, Stays DEF DeleteEventCheck
    <3>4. ASSUME NEW e \in Events, NEW q \in Quantities, BookStart(p, e, q) PROVE [Lifecycle!Next]_stages
      BY <3>4, Stays DEF BookStart
    <3>5. ASSUME NEW b \in Bookings, PayRead(p, b) PROVE [Lifecycle!Next]_stages
      BY <3>5, Stays DEF PayRead
    <3>6. ASSUME NEW b \in Bookings, CancelRead(p, b) PROVE [Lifecycle!Next]_stages
      BY <3>6, Stays DEF CancelRead
    <3>7. ASSUME NEW b \in Bookings, DeleteRead(p, b) PROVE [Lifecycle!Next]_stages
      BY <3>7, Stays DEF DeleteRead
    <3> QED BY <2>3, <3>1, <3>2, <3>3, <3>4, <3>5, <3>6, <3>7 DEF Arrives
  <2>4. ASSUME NEW p \in Procs, Continues(p) PROVE [Lifecycle!Next]_stages
    <3>1. ASSUME SweepFind(p) PROVE [Lifecycle!Next]_stages
      BY <3>1, Stays DEF SweepFind
    <3>2. ASSUME SweepRelease(p) PROVE [Lifecycle!Next]_stages
      BY <3>2, Stays DEF SweepRelease
    <3>3. ASSUME SweepDone(p) PROVE [Lifecycle!Next]_stages
      BY <3>3, Stays DEF SweepDone
    <3>4. ASSUME SoldOut(p) PROVE [Lifecycle!Next]_stages
      BY <3>4, Stays DEF SoldOut
    <3>5. ASSUME NEW b \in Bookings, SweepClaim(p, b) PROVE [Lifecycle!Next]_stages
      <4>1. stages' = [stages EXCEPT ![b] = "closed"] /\ stages[b] = "held"
        BY <3>5, StageMoves DEF SweepClaim, Stage
      <4> QED BY <4>1 DEF Lifecycle!Next, Lifecycle!Close, Lifecycle!Moves
    <3>6. ASSUME NEW b \in Bookings, SweepSkip(p, b) PROVE [Lifecycle!Next]_stages
      BY <3>6, Stays DEF SweepSkip
    <3>7. ASSUME NEW b \in Bookings, Reserve(p, b) PROVE [Lifecycle!Next]_stages
      <4>1. stages' = [stages EXCEPT ![b] = "none"] /\ stages[b] = "none"
        BY <3>7, StageMoves DEF Reserve, Unused, Stage
      <4> QED BY <4>1
    <3>8. ASSUME NEW m \in Modes, InsertBooking(p, m) PROVE [Lifecycle!Next]_stages
      <4> DEFINE c == job[p].booking
      <4>1. c \in Bookings /\ status[c] = "reserved" /\ m \in BOOLEAN
        BY <3>8, LedgerAssumption DEF InsertBooking, At, Control, JobFits, OnBooking
      <4>2. stages[c] = "none"
        BY <4>1 DEF Stage
      <4>3. CASE m
        <5>1. stages' = [stages EXCEPT ![c] = "held"]
          BY <3>8, <4>1, <4>3, StageMoves DEF InsertBooking, Stage
        <5> QED BY <4>1, <4>2, <4>3, <5>1 DEF Lifecycle!Next, Lifecycle!Hold, Lifecycle!Moves
      <4>4. CASE ~m
        <5>1. stages' = [stages EXCEPT ![c] = "sold"]
          BY <3>8, <4>1, <4>4, StageMoves DEF InsertBooking, Stage
        <5>2. FALSE \in Modes
          BY <4>1, <4>4
        <5> QED BY <4>1, <4>2, <5>1, <5>2 DEF Lifecycle!Next, Lifecycle!Sell, Lifecycle!Moves
      <4> QED BY <4>3, <4>4
    <3>9. ASSUME MarkPaid(p) PROVE [Lifecycle!Next]_stages
      <4> DEFINE c == job[p].booking
      <4>1. c \in Bookings
        BY <3>9 DEF MarkPaid, At, Control, JobFits, OnBooking
      <4>2. stages' = [stages EXCEPT ![c] = "sold"] /\ stages[c] = "held"
        BY <3>9, <4>1, StageMoves DEF MarkPaid, Stage
      <4> QED BY <4>1, <4>2 DEF Lifecycle!Next, Lifecycle!Pay, Lifecycle!Moves
    <3>10. ASSUME PayRefused(p) PROVE [Lifecycle!Next]_stages
      BY <3>10, Stays DEF PayRefused
    <3>11. ASSUME CancelWrite(p) PROVE [Lifecycle!Next]_stages
      <4> DEFINE c == job[p].booking
      <4>1. c \in Bookings /\ HadRow(c)
        BY <3>11 DEF CancelWrite, At, Control, JobFits, OnBooking
      <4>2. CASE c \notin Rows
        BY <3>11, <4>2, Stays DEF CancelWrite
      <4>3. CASE c \in Rows
        <5>1. stages' = [stages EXCEPT ![c] = "closed"]
          BY <3>11, <4>1, <4>3, StageMoves DEF CancelWrite, Stage
        <5>2. stages[c] \in {"held", "sold", "closed"}
          BY <4>1, <4>3 DEF Rows, Stage
        <5>3. CASE stages[c] = "closed"
          BY <4>1, <5>1, <5>3
        <5>4. CASE stages[c] \in {"held", "sold"}
          BY <4>1, <5>1, <5>4 DEF Lifecycle!Next, Lifecycle!Close, Lifecycle!Moves
        <5> QED BY <5>2, <5>3, <5>4
      <4> QED BY <4>2, <4>3
    <3>12. ASSUME CancelRelease(p) PROVE [Lifecycle!Next]_stages
      BY <3>12, Stays DEF CancelRelease
    <3>13. ASSUME DeleteRelease(p) PROVE [Lifecycle!Next]_stages
      BY <3>13, Stays DEF DeleteRelease
    <3>14. ASSUME DeleteRemove(p) PROVE [Lifecycle!Next]_stages
      <4> DEFINE c == job[p].booking
      <4>1. c \in Bookings /\ HadRow(c)
        BY <3>14 DEF DeleteRemove, At, Control, JobFits, OnBooking
      <4>2. stages' = [stages EXCEPT ![c] = "erased"]
        BY <3>14, <4>1, StageMoves DEF DeleteRemove, Stage
      <4>3. stages[c] \in {"held", "sold", "closed", "erased"}
        BY <4>1 DEF HadRow, Stage
      <4>4. CASE stages[c] = "erased"
        BY <4>1, <4>2, <4>4
      <4>5. CASE stages[c] # "erased"
        BY <4>1, <4>2, <4>3, <4>5 DEF Lifecycle!Next, Lifecycle!Erase, Lifecycle!Moves
      <4> QED BY <4>4, <4>5
    <3>15. ASSUME NEW t \in Totals, UpdateRefused(p, t) PROVE [Lifecycle!Next]_stages
      BY <3>15, Stays DEF UpdateRefused
    <3>16. ASSUME NEW t \in Totals, NEW on \in BOOLEAN, UpdateReplace(p, t, on) PROVE [Lifecycle!Next]_stages
      BY <3>16, Stays DEF UpdateReplace
    <3>17. ASSUME DeleteEventRemove(p) PROVE [Lifecycle!Next]_stages
      BY <3>17, Stays DEF DeleteEventRemove
    <3> QED BY <2>4, <3>1, <3>2, <3>3, <3>4, <3>5, <3>6, <3>7, <3>8, <3>9, <3>10, <3>11, <3>12,
       <3>13, <3>14, <3>15, <3>16, <3>17 DEF Continues
  <2>5. ASSUME NEW p \in Procs, Abort(p) PROVE [Lifecycle!Next]_stages
    BY <2>5, Stays DEF Abort
  <2>6. CASE UNCHANGED vars
    BY <2>6, Stays DEF vars
  <2> QED BY <2>1, <2>2, <2>3, <2>4, <2>5, <2>6 DEF Next
<1> QED BY <1>1, <1>2, ControlInv, PTL DEF Spec, FollowsLifecycle, Lifecycle!Spec
=============================================================================
