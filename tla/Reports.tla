------------------------------ MODULE Reports -------------------------------
(***************************************************************************)
(* The dashboard: aggregation pipelines over bookings, joined with events  *)
(* and classifications that may be gone.  A pipeline is a set of rows that *)
(* each stage maps to another; a row keeps the booking it came from.       *)
(***************************************************************************)
EXTENDS Catalogue

CONSTANTS
  Qty,          \* booking -> quantity
  TopEvents     \* bars of the revenue chart

ASSUME ReportsAssumption ==
  /\ IsFiniteSet({x \in Ids : Kind[x] = "booking"})
  /\ Qty \in [{x \in Ids : Kind[x] = "booking"} -> Nat \ {0}]
  /\ TopEvents \in Nat \ {0}

\* $match: confirmed bookings, used or not.
Sold == {b \in Bookings : Stored(b) /\ status[b] \in {"confirmed", "admitted"}}

\* The value of the field of x that names a document of kind k.
Named(x, k) == {y \in refs[x] : Kind[y] = k}

\* $lookup: the stored documents with one of these ids; none when it is gone.
Lookup(ids) == {y \in ids : Stored(y)}

\* $sum, as the number of pairs of a row and one of the units it counts for.
Total(count) == Cardinality(UNION {{row} \X (1 .. count[row]) : row \in DOMAIN count})

Tickets(bs) == Total([b \in bs |-> Qty[b]])

\* revenueByEvent, one price for all: $group by event, and the highest bars,
\* whether their event is still there or not.
EventBars == {[event |-> Named(b, "event"),
               tickets |-> Tickets({c \in Sold : Named(c, "event") = Named(b, "event")})] : b \in Sold}

TopBars ==
  CHOOSE top \in SUBSET EventBars :
    /\ Cardinality(top) = IF Cardinality(EventBars) < TopEvents THEN Cardinality(EventBars) ELSE TopEvents
    /\ \A r \in top, s \in EventBars \ top : r.tickets >= s.tickets

\* Slip: an $unwind that drops the rows whose event is gone.
JoinedDropping ==
  {[booking |-> b, class |-> UNION {Named(e, "classification") : e \in Named(b, "event")}]
     : b \in {b \in Sold : Lookup(Named(b, "event")) # {}}}

\* ticketsByCategory: $lookup and $unwind keep a booking whose event is gone,
\* with no classification.
Joined == {[booking |-> b,
            class |-> UNION {Named(e, "classification") : e \in Lookup(Named(b, "event"))}] : b \in Sold}

\* $group by classification; a bar whose classification is gone is labelled
\* "Uncategorised", a label and no bar of its own.
CategoryBars == {[class |-> row.class,
                  tickets |-> Tickets({r.booking : r \in {r \in Joined : r.class = row.class}}),
                  named |-> Lookup(row.class) # {}] : row \in Joined}

\* Door: per event, what was sold and how much of it has walked in.
DoorRows == {[event |-> r.event, sold |-> r.tickets,
              admitted |-> Tickets({b \in Sold : Named(b, "event") = r.event /\ status[b] = "admitted"})]
               : r \in EventBars}

\* BarsAddUp: bookings whose event or classification is missing are grouped
\* "rather than dropped, so the bars always sum to the tickets actually sold";
\* the three reports agree, whatever was deleted, as long as the revenue chart
\* is not cut; and nobody is let in unsold.
BarsAddUp ==
  LET sold == Tickets(Sold) IN
  /\ Total([r \in CategoryBars |-> r.tickets]) = sold
  /\ Total([r \in DoorRows |-> r.sold]) = sold
  /\ Cardinality(EventBars) <= TopEvents => Total([r \in TopBars |-> r.tickets]) = sold
  /\ \A r \in DoorRows : r.admitted <= r.sold
=============================================================================
