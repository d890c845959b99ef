--------------------------- MODULE ReadersProofs ----------------------------
(***************************************************************************)
(* Theorems about those who read the catalogue: the reports and a client   *)
(* that goes through the pages, for any documents, any requests and any    *)
(* page sizes.                                                             *)
(***************************************************************************)
EXTENDS Discovery, Reports, CatalogueProofs, FiniteSetTheorems, FunctionTheorems

-----------------------------------------------------------------------------
(***************************************************************************)
(* Counting units.                                                         *)
(***************************************************************************)

Units(count) == UNION {{row} \X (1 .. count[row]) : row \in DOMAIN count}

\* UnitIs: a unit is a row and one of the numbers it counts to.
LEMMA UnitIs ==
  ASSUME NEW count, NEW u
  PROVE  u \in Units(count)
           <=> \E row \in DOMAIN count : \E k \in 1 .. count[row] : u = <<row, k>>
BY DEF Units

\* TotalIs: a total is a number of units.
LEMMA TotalIs ==
  ASSUME NEW count
  PROVE  Total(count) = Cardinality(Units(count))
BY DEF Total, Units

\* UnitsFinite: finitely many rows, each for some number, have finitely many
\* units.
LEMMA UnitsFinite ==
  ASSUME NEW D, IsFiniteSet(D), NEW count \in [D -> Nat]
  PROVE  IsFiniteSet(Units(count)) /\ Total(count) \in Nat
<1> DEFINE Row == [r \in D |-> {r} \X (1 .. count[r])]
           T   == {{r} \X (1 .. count[r]) : r \in D}
<1>1. IsFiniteSet(T)
  <2>1. Row \in Surjection(D, T)
    BY DEF Surjection
  <2> QED BY <2>1, FS_Surjection
<1>2. \A r \in D : IsFiniteSet({r} \X (1 .. count[r]))
  <2> SUFFICES ASSUME NEW r \in D PROVE IsFiniteSet({r} \X (1 .. count[r]))
    OBVIOUS
  <2>1. IsFiniteSet(1 .. count[r])
    BY FS_Interval
  <2>2. IsFiniteSet({r})
    BY FS_Singleton
  <2> QED BY <2>1, <2>2, FS_Product
<1>3. IsFiniteSet(UNION T)
  BY <1>1, <1>2, FS_UNION
<1>4. Units(count) = UNION T
  BY DEF Units
<1> QED BY <1>3, <1>4, TotalIs, FS_CardinalityType

\* GroupsAddUp: what is counted group by group adds up to what there is, if
\* every member is in one group and in no other.
LEMMA GroupsAddUp ==
  ASSUME NEW S, IsFiniteSet(S), NEW bars, NEW count \in [bars -> Nat],
         NEW part \in [bars -> SUBSET S],
         \A r \in bars : Cardinality(part[r]) = count[r],
         \A s \in S : \E r \in bars : s \in part[r],
         \A r, q \in bars : part[r] \cap part[q] # {} => r = q
  PROVE  Total(count) = Cardinality(S)
<1> DEFINE h == [r \in bars |-> CHOOSE f : f \in Bijection(1 .. count[r], part[r])]
           F == [u \in Units(count) |-> h[u[1]][u[2]]]
<1>1. \A r \in bars : h[r] \in Bijection(1 .. count[r], part[r])
  <2> SUFFICES ASSUME NEW r \in bars PROVE h[r] \in Bijection(1 .. count[r], part[r])
    OBVIOUS
  <2>1. IsFiniteSet(part[r])
    BY FS_Subset
  <2>2. \E f : f \in Bijection(1 .. count[r], part[r])
    BY <2>1, FS_CardinalityType DEF ExistsBijection
  <2> QED BY <2>2
<1>2. \A r \in bars : /\ \A k \in 1 .. count[r] : h[r][k] \in part[r]
                      /\ \A i, k \in 1 .. count[r] : h[r][i] = h[r][k] => i = k
                      /\ \A s \in part[r] : \E k \in 1 .. count[r] : h[r][k] = s
  <2> HIDE DEF h
  <2> SUFFICES ASSUME NEW r \in bars
               PROVE  /\ \A k \in 1 .. count[r] : h[r][k] \in part[r]
                      /\ \A i, k \in 1 .. count[r] : h[r][i] = h[r][k] => i = k
                      /\ \A s \in part[r] : \E k \in 1 .. count[r] : h[r][k] = s
    OBVIOUS
  <2>1. h[r] \in Bijection(1 .. count[r], part[r])
    BY <1>1
  <2>2. /\ h[r] \in [1 .. count[r] -> part[r]]
        /\ \A i, k \in 1 .. count[r] : h[r][i] = h[r][k] => i = k
        /\ \A s \in part[r] : \E k \in 1 .. count[r] : h[r][k] = s
    BY <2>1, Fun_BijectionProperties
  <2> QED BY <2>2
<1> HIDE DEF h
<1>3. DOMAIN count = bars
  OBVIOUS
<1>4. \A u \in Units(count) : \E r \in bars : \E k \in 1 .. count[r] : u = <<r, k>> /\ F[u] = h[r][k]
  BY <1>3, UnitIs
<1>5. F \in Injection(Units(count), S)
  <2>1. F \in [Units(count) -> S]
    BY <1>2, <1>4
  <2>2. ASSUME NEW u \in Units(count), NEW v \in Units(count), F[u] = F[v]
        PROVE  u = v
    <3>1. PICK r \in bars : \E k \in 1 .. count[r] : u = <<r, k>> /\ F[u] = h[r][k]
      BY <1>4
    <3>2. PICK k \in 1 .. count[r] : u = <<r, k>> /\ F[u] = h[r][k]
      BY <3>1
    <3>3. PICK q \in bars : \E i \in 1 .. count[q] : v = <<q, i>> /\ F[v] = h[q][i]
      BY <1>4
    <3>4. PICK i \in 1 .. count[q] : v = <<q, i>> /\ F[v] = h[q][i]
      BY <3>3
    <3> HIDE DEF F
    <3>5. h[r][k] \in part[r] \cap part[q]
      BY <1>2, <2>2, <3>2, <3>4
    <3>6. r = q
      BY <3>5
    <3>7. k = i
      BY <1>2, <2>2, <3>2, <3>4, <3>6
    <3> QED BY <3>2, <3>4, <3>6, <3>7
  <2> HIDE DEF F
  <2> QED BY <2>1, <2>2 DEF Injection, IsInjective
<1>6. F \in Surjection(Units(count), S)
  <2>1. ASSUME NEW s \in S PROVE \E u \in Units(count) : F[u] = s
    <3>1. PICK r \in bars : s \in part[r]
      OBVIOUS
    <3>2. PICK k \in 1 .. count[r] : h[r][k] = s
      BY <1>2, <3>1
    <3>3. <<r, k>> \in Units(count)
      BY <1>3, UnitIs
    <3> QED BY <3>2, <3>3
  <2>2. F \in [Units(count) -> S]
    BY <1>5, Fun_InjectionProperties
  <2> HIDE DEF F
  <2> QED BY <2>1, <2>2, Fun_IsSurj
<1> HIDE DEF F
<1> QED BY <1>5, <1>6, FS_Injection, TotalIs

-----------------------------------------------------------------------------
(***************************************************************************)
(* The reports.                                                            *)
(***************************************************************************)

\* SoldIsFinite: there are finitely many bookings to count, and so of any tickets.
LEMMA SoldIsFinite ==
  ASSUME NEW bs \in SUBSET Sold
  PROVE  /\ IsFiniteSet(bs)
         /\ [b \in bs |-> Qty[b]] \in [bs -> Nat]
         /\ Tickets(bs) \in Nat
<1>1. bs \subseteq {x \in Ids : Kind[x] = "booking"}
  BY DEF Sold, Bookings
<1>2. IsFiniteSet(bs)
  BY <1>1, FS_Subset, ReportsAssumption
<1>3. [b \in bs |-> Qty[b]] \in [bs -> Nat]
  BY <1>1, ReportsAssumption
<1> QED BY <1>2, <1>3, UnitsFinite DEF Tickets

\* FewerTickets: some of the bookings are for no more tickets than all of them.
LEMMA FewerTickets ==
  ASSUME NEW bs \in SUBSET Sold, NEW cs \in SUBSET bs
  PROVE  Tickets(cs) <= Tickets(bs)
<1>1. Units([b \in cs |-> Qty[b]]) \subseteq Units([b \in bs |-> Qty[b]])
  BY UnitIs
<1>2. IsFiniteSet(Units([b \in bs |-> Qty[b]]))
  BY SoldIsFinite, UnitsFinite
<1> QED BY <1>1, <1>2, FS_Subset, TotalIs DEF Tickets

\* BarsOfSold: a chart of the tickets sold adds up, if it groups the bookings.
LEMMA BarsOfSold ==
  ASSUME NEW bars, NEW group \in [bars -> SUBSET Sold],
         NEW count, DOMAIN count = bars, \A r \in bars : count[r] = Tickets(group[r]),
         count = [r \in bars |-> count[r]],
         \A b \in Sold : \E r \in bars : b \in group[r],
         \A r, q \in bars : group[r] \cap group[q] # {} => r = q
  PROVE  Total(count) = Tickets(Sold)
<1> DEFINE S == Units([b \in Sold |-> Qty[b]])
           part == [r \in bars |-> Units([b \in group[r] |-> Qty[b]])]
<1>0. \A r \in bars : group[r] \in SUBSET Sold
  OBVIOUS
<1>1. IsFiniteSet(S)
  BY SoldIsFinite, UnitsFinite
<1>2. count \in [bars -> Nat]
  BY <1>0, SoldIsFinite
<1>3. ASSUME NEW bs \in SUBSET Sold, NEW s
      PROVE  s \in Units([b \in bs |-> Qty[b]])
               <=> \E b \in bs : \E k \in 1 .. Qty[b] : s = <<b, k>>
  BY UnitIs
<1>4. part \in [bars -> SUBSET S]
  <2>1. ASSUME NEW r \in bars PROVE part[r] \subseteq S
    BY <1>0, <1>3
  <2> QED BY <2>1
<1>5. \A r \in bars : Cardinality(part[r]) = count[r]
  BY TotalIs DEF Tickets
<1>6. \A s \in S : \E r \in bars : s \in part[r]
  <2> SUFFICES ASSUME NEW s \in S PROVE \E r \in bars : s \in part[r]
    OBVIOUS
  <2>1. PICK b \in Sold : \E k \in 1 .. Qty[b] : s = <<b, k>>
    BY <1>3
  <2>2. PICK r \in bars : b \in group[r]
    OBVIOUS
  <2>3. s \in Units([c \in group[r] |-> Qty[c]])
    BY <1>0, <1>3, <2>1, <2>2
  <2> QED BY <2>3
<1>7. \A r, q \in bars : part[r] \cap part[q] # {} => r = q
  <2> HIDE DEF part
  <2> SUFFICES ASSUME NEW r \in bars, NEW q \in bars, NEW s, s \in part[r], s \in part[q]
               PROVE  r = q
    OBVIOUS
  <2> USE DEF part
  <2>1. PICK b \in group[r] : \E k \in 1 .. Qty[b] : s = <<b, k>>
    BY <1>0, <1>3
  <2>2. PICK c \in group[q] : \E k \in 1 .. Qty[c] : s = <<c, k>>
    BY <1>0, <1>3
  <2>3. b = c
    BY <2>1, <2>2
  <2> QED BY <2>3
<1> HIDE DEF part, S
<1>8. Total(count) = Cardinality(S)
  BY <1>1, <1>2, <1>4, <1>5, <1>6, <1>7, GroupsAddUp
<1> QED BY <1>8, TotalIs DEF S, Tickets

SoldTo(event) == {c \in Sold : Named(c, "event") = event}

\* EventBarIs: a bar of the revenue chart counts the bookings of its event.
LEMMA EventBarIs ==
  /\ \A r \in EventBars : r = [event |-> r.event, tickets |-> Tickets(SoldTo(r.event))]
  /\ \A b \in Sold : \E r \in EventBars : r.event = Named(b, "event")
<1> DEFINE TicketsTo(event) == Tickets(SoldTo(event))
           Bar(event) == [event |-> event, tickets |-> TicketsTo(event)]
<1>1. EventBars = {Bar(Named(b, "event")) : b \in Sold}
  BY DEF EventBars, SoldTo
<1> HIDE DEF TicketsTo
<1>2. \A event : Bar(event).event = event /\ Bar(event).tickets = TicketsTo(event)
  OBVIOUS
<1> HIDE DEF Bar
<1>3. \A r \in EventBars : r = Bar(r.event)
  BY <1>1, <1>2
<1>4. \A b \in Sold : \E r \in EventBars : r.event = Named(b, "event")
  BY <1>1, <1>2
<1> QED BY <1>3, <1>4 DEF Bar, TicketsTo

\* EventBarsAddUp: the revenue chart before it is cut.
LEMMA EventBarsAddUp == Total([r \in EventBars |-> r.tickets]) = Tickets(Sold)
<1> DEFINE count == [r \in EventBars |-> r.tickets]
           group == [r \in EventBars |-> SoldTo(r.event)]
<1>1. group \in [EventBars -> SUBSET Sold]
  BY DEF SoldTo
<1>2. \A r \in EventBars : count[r] = Tickets(group[r])
  BY EventBarIs
<1>3. \A b \in Sold : \E r \in EventBars : b \in group[r]
  BY EventBarIs DEF SoldTo
<1>4. ASSUME NEW r \in EventBars, NEW q \in EventBars, group[r] \cap group[q] # {}
      PROVE  r = q
  <2>1. r.event = q.event
    BY <1>4 DEF SoldTo
  <2> QED BY <2>1, EventBarIs
<1>5. DOMAIN count = EventBars /\ count = [r \in EventBars |-> count[r]]
  OBVIOUS
<1> HIDE DEF count, group
<1>6. Total(count) = Tickets(Sold)
  BY <1>1, <1>2, <1>3, <1>4, <1>5, BarsOfSold
<1> QED BY <1>6 DEF count

\* EventBarsFinite: there are no more bars than bookings.
LEMMA EventBarsFinite == IsFiniteSet(EventBars)
<1> DEFINE Bar(b) == [event |-> Named(b, "event"), tickets |-> Tickets(SoldTo(Named(b, "event")))]
           f == [b \in Sold |-> Bar(b)]
<1>1. EventBars = {Bar(b) : b \in Sold}
  BY DEF EventBars, SoldTo
<1>2. f \in Surjection(Sold, EventBars)
  BY <1>1 DEF Surjection
<1>3. IsFiniteSet(Sold)
  BY SoldIsFinite
<1> HIDE DEF f
<1> QED BY <1>2, <1>3, FS_Surjection

\* NotCut: a chart with no more bars than there is room for is shown whole.
LEMMA NotCut ==
  ASSUME Cardinality(EventBars) <= TopEvents
  PROVE  TopBars = EventBars
<1> DEFINE Size == IF Cardinality(EventBars) < TopEvents THEN Cardinality(EventBars) ELSE TopEvents
           Top(top) == /\ Cardinality(top) = Size
                       /\ \A r \in top, s \in EventBars \ top : r.tickets >= s.tickets
<1>1. Size = Cardinality(EventBars)
  BY EventBarsFinite, FS_CardinalityType, ReportsAssumption
<1>2. EventBars \in SUBSET EventBars /\ Top(EventBars)
  BY <1>1
<1>3. TopBars = CHOOSE top \in SUBSET EventBars : Top(top)
  BY DEF TopBars
<1> HIDE DEF Top
<1>4. TopBars \in SUBSET EventBars /\ Top(TopBars)
  BY <1>2, <1>3
<1>5. Cardinality(TopBars) = Cardinality(EventBars)
  BY <1>1, <1>4 DEF Top
<1> QED BY <1>4, <1>5, EventBarsFinite, FS_Subset

\* DoorAddsUp: the door report counts what the revenue chart counts, and lets
\* in nobody but those.
LEMMA DoorAddsUp ==
  /\ Total([r \in DoorRows |-> r.sold]) = Tickets(Sold)
  /\ \A r \in DoorRows : r.admitted <= r.sold
<1> DEFINE Admitted(event) == {b \in Sold : Named(b, "event") = event /\ status[b] = "admitted"}
           count == [r \in DoorRows |-> r.sold]
           group == [r \in DoorRows |-> SoldTo(r.event)]
           Row(bar) == [event |-> bar.event, sold |-> bar.tickets,
                        admitted |-> Tickets(Admitted(bar.event))]
<1>0. DoorRows = {Row(bar) : bar \in EventBars}
  BY DEF DoorRows
<1>1. \A r \in DoorRows : \E bar \in EventBars : r = Row(bar)
  BY <1>0
<1>2. \A r \in DoorRows : r = [event |-> r.event, sold |-> Tickets(SoldTo(r.event)),
                              admitted |-> Tickets(Admitted(r.event))]
  <2> HIDE DEF Admitted
  <2> SUFFICES ASSUME NEW r \in DoorRows
               PROVE  r = [event |-> r.event, sold |-> Tickets(SoldTo(r.event)),
                           admitted |-> Tickets(Admitted(r.event))]
    OBVIOUS
  <2>1. PICK bar \in EventBars : r = Row(bar)
    BY <1>1
  <2>2. bar.tickets = Tickets(SoldTo(bar.event))
    BY EventBarIs
  <2> QED BY <2>1, <2>2
<1>3. \A bar \in EventBars : \E r \in DoorRows : r.event = bar.event
  <2> HIDE DEF Admitted
  <2>1. \A bar \in EventBars : Row(bar).event = bar.event
    OBVIOUS
  <2> HIDE DEF Row
  <2> QED BY <2>1, <1>0
<1>4. group \in [DoorRows -> SUBSET Sold]
  BY DEF SoldTo
<1>5. \A r \in DoorRows : count[r] = Tickets(group[r])
  <2> HIDE DEF Admitted
  <2> SUFFICES ASSUME NEW r \in DoorRows PROVE r.sold = Tickets(SoldTo(r.event))
    OBVIOUS
  <2> QED BY <1>2
<1>6. \A b \in Sold : \E r \in DoorRows : b \in group[r]
  BY <1>3, EventBarIs DEF SoldTo
<1>7. ASSUME NEW r \in DoorRows, NEW q \in DoorRows, group[r] \cap group[q] # {}
      PROVE  r = q
  <2>1. r.event = q.event
    BY <1>7 DEF SoldTo
  <2> HIDE DEF Admitted
  <2> QED BY <2>1, <1>2
<1>8. DOMAIN count = DoorRows /\ count = [r \in DoorRows |-> count[r]]
  OBVIOUS
<1>9. Total(count) = Tickets(Sold)
  <2> HIDE DEF count, group
  <2> QED BY <1>4, <1>5, <1>6, <1>7, <1>8, BarsOfSold
<1>10. ASSUME NEW r \in DoorRows PROVE r.admitted <= r.sold
  <2>1. Admitted(r.event) \subseteq SoldTo(r.event) /\ SoldTo(r.event) \subseteq Sold
    BY DEF SoldTo
  <2> HIDE DEF Admitted
  <2>2. Tickets(Admitted(r.event)) <= Tickets(SoldTo(r.event))
    BY <2>1, FewerTickets
  <2>3. r.admitted = Tickets(Admitted(r.event)) /\ r.sold = Tickets(SoldTo(r.event))
    BY <1>2
  <2> QED BY <2>2, <2>3
<1> QED BY <1>9, <1>10

\* CategoriesAddUp: joining events that may be gone, and their classifications,
\* loses no booking and counts none twice.
LEMMA CategoriesAddUp == Total([r \in CategoryBars |-> r.tickets]) = Tickets(Sold)
<1> DEFINE Class(b) == UNION {Named(e, "classification") : e \in Lookup(Named(b, "event"))}
           OfClass(class) == {b \in Sold : Class(b) = class}
           count == [r \in CategoryBars |-> r.tickets]
           group == [r \in CategoryBars |-> OfClass(r.class)]
           JoinedRow(b) == [booking |-> b, class |-> Class(b)]
           Bar(class) == [class |-> class, tickets |-> Tickets(OfClass(class)),
                          named |-> Lookup(class) # {}]
<1>1. Joined = {JoinedRow(b) : b \in Sold}
  BY DEF Joined
<1> HIDE DEF Class
<1>2. \A b : JoinedRow(b).booking = b /\ JoinedRow(b).class = Class(b)
  OBVIOUS
<1> HIDE DEF JoinedRow
<1>3. /\ \A r \in CategoryBars : r = Bar(r.class)
      /\ \A b \in Sold : \E r \in CategoryBars : r.class = Class(b)
  <2> DEFINE Group(class) == {r.booking : r \in {r \in Joined : r.class = class}}
             GroupedBar(class) == [class |-> class, tickets |-> Tickets(Group(class)),
                                named |-> Lookup(class) # {}]
  <2>1. ASSUME NEW class PROVE Group(class) = OfClass(class)
    BY <1>1, <1>2
  <2>2. CategoryBars = {GroupedBar(row.class) : row \in Joined}
    BY DEF CategoryBars
  <2> HIDE DEF Group
  <2>3. ASSUME NEW class PROVE GroupedBar(class) = Bar(class)
    BY <2>1
  <2>4. \A class : Bar(class).class = class
    OBVIOUS
  <2> HIDE DEF Bar, GroupedBar
  <2> QED BY <1>1, <1>2, <2>2, <2>3, <2>4
<1>4. group \in [CategoryBars -> SUBSET Sold]
  OBVIOUS
<1>5. \A r \in CategoryBars : count[r] = Tickets(group[r])
  <2> HIDE DEF OfClass
  <2> SUFFICES ASSUME NEW r \in CategoryBars PROVE r.tickets = Tickets(OfClass(r.class))
    OBVIOUS
  <2> QED BY <1>3
<1>6. \A b \in Sold : \E r \in CategoryBars : b \in group[r]
  BY <1>3
<1>7. ASSUME NEW r \in CategoryBars, NEW q \in CategoryBars, group[r] \cap group[q] # {}
      PROVE  r = q
  <2>1. r.class = q.class
    BY <1>7
  <2> HIDE DEF OfClass
  <2> QED BY <2>1, <1>3
<1>8. DOMAIN count = CategoryBars /\ count = [r \in CategoryBars |-> count[r]]
  OBVIOUS
<1> HIDE DEF count, group
<1>9. Total(count) = Tickets(Sold)
  BY <1>4, <1>5, <1>6, <1>7, <1>8, BarsOfSold
<1> QED BY <1>9 DEF count

\* ReportsAddUp: whatever was deleted, in whatever order, the charts add up to
\* the tickets sold.
THEOREM ReportsAddUp == DiscoverySpec => []BarsAddUp
<1>1. BarsAddUp
  BY CategoriesAddUp, DoorAddsUp, NotCut, EventBarsAddUp DEF BarsAddUp
<1> QED BY <1>1, PTL

-----------------------------------------------------------------------------
(***************************************************************************)
(* A client that reads changes nothing: what is proved of the catalogue    *)
(* holds beside it.                                                        *)
(***************************************************************************)

\* ReadersOnlyRead: every step of a reader is a step of the catalogue or
\* leaves the catalogue alone.
THEOREM ReadersOnlyRead == DiscoverySpec => Spec
<1>1. DiscoveryInit => Init
  BY DEF DiscoveryInit
<1>2. [DiscoveryNext]_discoveryVars => [Next]_vars
  <2> SUFFICES ASSUME [DiscoveryNext]_discoveryVars PROVE [Next]_vars
    OBVIOUS
  <2>1. CASE CatalogueStep
    BY <2>1 DEF CatalogueStep
  <2>2. CASE UNCHANGED discoveryVars
    BY <2>2 DEF discoveryVars
  <2>3. ASSUME NEW filter \in Filters, NEW number \in Pages, NEW size \in Sizes,
               Open(filter, number, size)
        PROVE  UNCHANGED vars
    BY <2>3 DEF Open
  <2>4. CASE FindVenues \/ Count \/ Find \/ Turn \/ Leave
    BY <2>4 DEF FindVenues, Count, Find, Turn, Leave
  <2> QED BY <2>1, <2>2, <2>3, <2>4 DEF DiscoveryNext
<1> QED BY <1>1, <1>2, PTL DEF DiscoverySpec, Spec

\* ReadCatalogue: the types and the references of the catalogue, with readers.
THEOREM ReadCatalogue == DiscoverySpec => [](TypeOK /\ NoOrphans)
BY ReadersOnlyRead, Typing, GuardedDeletes, PTL

-----------------------------------------------------------------------------
(***************************************************************************)
(* The order of _id.                                                       *)
(***************************************************************************)

\* EventsFinite: a query finds finitely many events, no more than there are.
LEMMA EventsFinite ==
  ASSUME NEW S \in SUBSET Events
  PROVE  /\ IsFiniteSet(S)
         /\ Cardinality(S) \in Nat
         /\ Cardinality(S) <= Cardinality(Events)
         /\ Cardinality(Events) \in Nat
         /\ \A e \in S : Rank[e] \in Nat
BY DiscoveryAssumption, FS_Subset, FS_CardinalityType

\* PlaceInRange: the places of a set are those from zero on.
LEMMA PlaceInRange ==
  ASSUME NEW S \in SUBSET Events, NEW e \in S
  PROVE  Place(e, S) \in 0 .. Cardinality(S) - 1
<1> DEFINE Before == {f \in S : Rank[f] < Rank[e]}
<1>1. IsFiniteSet(S) /\ Cardinality(S) \in Nat /\ Rank[e] \in Nat
  BY EventsFinite
<1>2. Before \in SUBSET S /\ e \notin Before
  BY <1>1
<1>3. IsFiniteSet(Before) /\ Cardinality(Before) <= Cardinality(S)
      /\ (Cardinality(S) = Cardinality(Before) => S = Before)
  BY <1>1, <1>2, FS_Subset
<1>4. Cardinality(Before) \in Nat
  BY <1>3, FS_CardinalityType
<1>5. Cardinality(Before) # Cardinality(S)
  BY <1>2, <1>3
<1> QED BY <1>1, <1>3, <1>4, <1>5 DEF Place

\* PlaceGrows: who is ranked higher has a higher place.
LEMMA PlaceGrows ==
  ASSUME NEW S \in SUBSET Events, NEW e \in S, NEW f \in S, Rank[e] < Rank[f]
  PROVE  Place(e, S) < Place(f, S)
<1> DEFINE Before(x) == {g \in S : Rank[g] < Rank[x]}
<1>1. IsFiniteSet(S) /\ \A x \in S : Rank[x] \in Nat
  BY EventsFinite
<1>2. Before(e) \subseteq Before(f) /\ e \in Before(f) /\ e \notin Before(e)
  BY <1>1
<1>3. IsFiniteSet(Before(f))
  BY <1>1, FS_Subset
<1>4. Cardinality(Before(e)) <= Cardinality(Before(f))
      /\ (Cardinality(Before(f)) = Cardinality(Before(e)) => Before(f) = Before(e))
      /\ IsFiniteSet(Before(e))
  BY <1>2, <1>3, FS_Subset
<1>5. Cardinality(Before(e)) \in Nat /\ Cardinality(Before(f)) \in Nat
  BY <1>3, <1>4, FS_CardinalityType
<1>6. Cardinality(Before(e)) # Cardinality(Before(f))
  BY <1>2, <1>4
<1> QED BY <1>4, <1>5, <1>6 DEF Place

\* PlaceIsOne: no two events have one place, and no place is empty.
LEMMA PlaceIsOne ==
  ASSUME NEW S \in SUBSET Events
  PROVE  /\ \A e, f \in S : Place(e, S) = Place(f, S) => e = f
         /\ \A i \in 0 .. Cardinality(S) - 1 : \E e \in S : Place(e, S) = i
<1> DEFINE n == Cardinality(S)
           place == [e \in S |-> Place(e, S)]
<1>1. IsFiniteSet(S) /\ n \in Nat /\ \A x \in S : Rank[x] \in Nat
  BY EventsFinite
<1>2. ASSUME NEW e \in S, NEW f \in S, Place(e, S) = Place(f, S)
      PROVE  e = f
  <2>1. ~(Rank[e] < Rank[f]) /\ ~(Rank[f] < Rank[e])
    BY <1>2, PlaceGrows, PlaceInRange, <1>1
  <2>2. Rank[e] = Rank[f]
    BY <1>1, <2>1
  <2> QED BY <2>2, DiscoveryAssumption
<1>3. place \in Injection(S, 0 .. n - 1)
  <2>1. place \in [S -> 0 .. n - 1]
    BY PlaceInRange
  <2>2. \A e, f \in S : place[e] = place[f] => e = f
    BY <1>2
  <2> HIDE DEF place, n
  <2> QED BY <2>1, <2>2 DEF Injection, IsInjective
<1>4. IsFiniteSet(0 .. n - 1) /\ Cardinality(0 .. n - 1) = n
  BY <1>1, FS_Interval
<1>5. place \in Surjection(S, 0 .. n - 1)
  <2> HIDE DEF place
  <2> QED BY <1>3, <1>4, FS_Injection
<1>6. \A i \in 0 .. n - 1 : \E e \in S : place[e] = i
  <2> HIDE DEF place, n
  <2> QED BY <1>5 DEF Surjection
<1> QED BY <1>2, <1>6

\* SortedByPlace: the sorted documents are those at the places, in order.
LEMMA SortedByPlace ==
  ASSUME NEW S \in SUBSET Events
  PROVE  /\ Sorted(S) \in [1 .. Cardinality(S) -> S]
         /\ \A i \in 1 .. Cardinality(S) : Place(Sorted(S)[i], S) = i - 1
<1>1. Cardinality(S) \in Nat
  BY EventsFinite
<1>2. Sorted(S) = [i \in 1 .. Cardinality(S) |-> CHOOSE e \in S : Place(e, S) = i - 1]
  BY DEF Sorted, Place
<1>3. \A i \in 1 .. Cardinality(S) : \E e \in S : Place(e, S) = i - 1
  <2> SUFFICES ASSUME NEW i \in 1 .. Cardinality(S) PROVE \E e \in S : Place(e, S) = i - 1
    OBVIOUS
  <2>1. i - 1 \in 0 .. Cardinality(S) - 1
    BY <1>1
  <2> QED BY <2>1, PlaceIsOne
<1> QED BY <1>2, <1>3

\* Where e is in a sequence, and positions moved up.
OccursIn(s, e) == {i \in DOMAIN s : s[i] = e}
Once(s, e)     == \E i \in DOMAIN s : OccursIn(s, e) = {i}
Shifted(X, n)  == {i + n : i \in X}

\* The documents of S at the places of a page, each once.
HoldsPage(page, S, skip, limit) ==
  /\ page \in Seq(S)
  /\ \A i \in DOMAIN page : Place(page[i], S) \in skip .. skip + limit - 1
  /\ \A e \in S : Place(e, S) \in skip .. skip + limit - 1 => Once(page, e)

\* PageIs: a page holds the documents at its places, each once.
LEMMA PageIs ==
  ASSUME NEW S \in SUBSET Events, NEW skip \in Nat, NEW limit \in Nat,
         NEW page, page = Slice(Sorted(S), skip, limit)
  PROVE  HoldsPage(page, S, skip, limit)
<1> DEFINE n == Cardinality(S)
           last == AtMost(skip + limit, n)
<1>1. n \in Nat
  BY EventsFinite
<1>2. Sorted(S) \in [1 .. n -> S] /\ \A i \in 1 .. n : Place(Sorted(S)[i], S) = i - 1
  BY SortedByPlace
<1> HIDE DEF n
<1>3. Sorted(S) \in Seq(S) /\ Len(Sorted(S)) = n
  BY <1>1, <1>2
<1>4. last \in Nat /\ last <= n /\ last <= skip + limit /\ (last = n \/ last = skip + limit)
  BY <1>1 DEF AtMost
<1>5. page = SubSeq(Sorted(S), skip + 1, last)
  BY <1>3 DEF Slice
<1> HIDE DEF last
<1>6. DOMAIN page = 1 .. (last - skip) /\ \A i \in 1 .. (last - skip) : page[i] = Sorted(S)[i + skip]
  BY <1>3, <1>4, <1>5
<1>7. \A i \in DOMAIN page : page[i] \in S /\ Place(page[i], S) = i + skip - 1
  <2> SUFFICES ASSUME NEW i \in 1 .. (last - skip)
               PROVE  page[i] \in S /\ Place(page[i], S) = i + skip - 1
    BY <1>6
  <2>1. i + skip \in 1 .. n
    BY <1>1, <1>4
  <2> QED BY <2>1, <1>2, <1>6
<1>8. page \in Seq(S)
  BY <1>3, <1>4, <1>5, <1>6, <1>7
<1>9. ASSUME NEW e \in S, Place(e, S) \in skip .. skip + limit - 1
      PROVE  Once(page, e)
  <2> DEFINE i == Place(e, S) - skip + 1
  <2>1. Place(e, S) \in 0 .. n - 1
    BY PlaceInRange DEF n
  <2>2. i \in 1 .. (last - skip) /\ Place(e, S) = i + skip - 1
    BY <1>1, <1>4, <1>9, <2>1
  <2>3. page[i] = e
    <3> HIDE DEF i
    <3>1. page[i] \in S /\ Place(page[i], S) = Place(e, S)
      BY <1>6, <1>7, <2>2
    <3> QED BY <3>1, PlaceIsOne
  <2>4. ASSUME NEW j \in DOMAIN page, page[j] = e PROVE j = i
    <3>1. Place(e, S) = j + skip - 1 /\ j \in 1 .. (last - skip)
      BY <1>6, <1>7, <2>4
    <3> HIDE DEF i
    <3> QED BY <3>1, <2>2, <1>4
  <2> HIDE DEF i
  <2> QED BY <1>6, <2>2, <2>3, <2>4 DEF OccursIn, Once
<1>10. \A i \in DOMAIN page : Place(page[i], S) \in skip .. skip + limit - 1
  <2> SUFFICES ASSUME NEW i \in 1 .. (last - skip)
               PROVE  Place(page[i], S) \in skip .. skip + limit - 1
    BY <1>6
  <2>1. Place(page[i], S) = i + skip - 1
    BY <1>6, <1>7
  <2> QED BY <2>1, <1>4
<1> QED BY <1>8, <1>9, <1>10 DEF HoldsPage

-----------------------------------------------------------------------------
(***************************************************************************)
(* Pages of a size.                                                        *)
(***************************************************************************)

\* Times: the products the pages are counted with are ordered as their factors.
LEMMA Times ==
  ASSUME NEW a \in Nat, NEW b \in Nat, NEW c \in Nat, a <= b
  PROVE  /\ a * c \in Nat /\ b * c \in Nat /\ a * c <= b * c
         /\ (a + 1) * c = a * c + c
OBVIOUS

\* Quotient: how many times b goes into a.
LEMMA Quotient ==
  ASSUME NEW a \in Nat, NEW b \in Nat \ {0}
  PROVE  a \div b \in Nat /\ (a \div b) * b <= a /\ a < (a \div b) * b + b
OBVIOUS

\* QuotientIs: the page of a place is the only one whose places reach it.
LEMMA QuotientIs ==
  ASSUME NEW a \in Nat, NEW b \in Nat \ {0}, NEW q \in Nat
  PROVE  a \div b = q <=> (q * b <= a /\ a < q * b + b)
<1> DEFINE d == a \div b
<1>1. d \in Nat /\ d * b <= a /\ a < d * b + b
  BY Quotient
<1> HIDE DEF d
<1>2. ASSUME q * b <= a, a < q * b + b PROVE d = q
  <2>1. ASSUME d < q PROVE FALSE
    <3>1. (d + 1) * b <= q * b /\ (d + 1) * b = d * b + b
      BY <2>1, <1>1, Times
    <3> QED BY <3>1, <1>1, <1>2
  <2>2. ASSUME q < d PROVE FALSE
    <3>1. (q + 1) * b <= d * b /\ (q + 1) * b = q * b + b
      BY <2>2, <1>1, Times
    <3> QED BY <3>1, <1>1, <1>2
  <2> QED BY <1>1, <2>1, <2>2
<1> QED BY <1>1, <1>2 DEF d

\* LastPage: there is a next page as long as it begins before the end.
LEMMA LastPage ==
  ASSUME NEW total \in Nat, NEW size \in Nat \ {0}, NEW number \in Nat
  PROVE  /\ TotalPages(total, size) \in Nat
         /\ number < TotalPages(total, size) <=> number * size < total
<1> DEFINE q == TotalPages(total, size)
<1>1. q \in Nat /\ q * size <= total + size - 1 /\ total + size - 1 < q * size + size
  <2>1. total + size - 1 \in Nat
    OBVIOUS
  <2> QED BY <2>1, Quotient DEF TotalPages
<1> HIDE DEF q
<1>2. ASSUME number < q PROVE number * size < total
  <2>1. (number + 1) * size <= q * size /\ (number + 1) * size = number * size + size
    BY <1>1, <1>2, Times
  <2> QED BY <2>1, <1>1, Times
<1>3. ASSUME number * size < total PROVE number < q
  <2>1. SUFFICES ASSUME q <= number PROVE FALSE
    BY <1>1
  <2>2. q * size <= number * size
    BY <2>1, <1>1, Times
  <2> QED BY <2>2, <1>1, <1>3, Times
<1> QED BY <1>1, <1>2, <1>3 DEF q

\* SkipFits: a skip below the limit is what it should be.
LEMMA SkipFits ==
  ASSUME NEW number \in Nat, NEW size \in 1 .. MaxPageSize, NEW p,
         p = Normalise([number |-> number, size |-> size])
  PROVE  /\ p = [number |-> number, size |-> size]
         /\ number * size < Limit => Skip(p) = number * size
<1>1. p = [number |-> number, size |-> size]
  BY DiscoveryAssumption DEF Normalise, AtMost
<1>2. ASSUME NEW i \in Nat, i < Limit PROVE Wrap(i) = i
  <2>1. i + Limit \in Nat /\ i + Limit < 2 * Limit /\ 2 * Limit \in Nat \ {0} /\ Limit \in Nat
    BY <1>2, DiscoveryAssumption
  <2>2. (i + Limit) % (2 * Limit) = i + Limit
    BY <2>1
  <2> QED BY <2>1, <2>2 DEF Wrap
<1>3. number * size \in Nat
  BY Times, DiscoveryAssumption
<1> QED BY <1>1, <1>2, <1>3 DEF Skip

-----------------------------------------------------------------------------
(***************************************************************************)
(* A walk through the pages.                                               *)
(***************************************************************************)

\* MatchingEvents: a query finds events.
LEMMA MatchingEvents ==
  ASSUME NEW filter, NEW venues
  PROVE  Matching(filter, venues) \in SUBSET Events
BY DEF Matching

\* SameFinds: what is found changes with the catalogue only.
LEMMA SameFinds ==
  ASSUME UNCHANGED vars, walk'.filter = walk.filter
  PROVE  /\ StoredVenues' = StoredVenues
         /\ Found' = Found
         /\ walk'.venues = walk.venues => Queried' = Queried
BY DEF vars, StoredVenues, Found, Queried, Matching, Stored

\* CalmAgrees: while something is calm, what is found now is what the queries
\* of this page find.
LEMMA CalmAgrees ==
  ASSUME CalmIsFound, walk.filter \in Filters, walk.at \in {"count", "find", "answered"}, calm # {}
  PROVE  Queried = Found
<1>1. CASE walk.filter = "city"
  BY <1>1 DEF CalmIsFound, Queried, Found
<1>2. CASE walk.filter = "all"
  BY <1>2 DEF Queried, Found, Matching
<1> QED BY <1>1, <1>2 DEF Filters

\* The invariant of a walk, from the start and over each of its steps.
LEMMA WalkInit == DiscoveryInit => WalkInv
<1> SUFFICES ASSUME DiscoveryInit PROVE WalkInv
  OBVIOUS
<1>1. walk = NoWalk /\ calm = {}
  BY DEF DiscoveryInit
<1>2. WalkFits
  BY <1>1 DEF WalkFits, Walk, NoWalk, Filters
<1>3. CalmIsFound /\ CountHolds /\ PageHolds /\ SeenSoFar
  BY <1>1 DEF CalmIsFound, CountHolds, PageHolds, SeenSoFar, NoWalk
<1> QED BY <1>2, <1>3 DEF WalkInv

LEMMA WalkStutters ==
  ASSUME WalkInv, UNCHANGED discoveryVars
  PROVE  WalkInv'
<1>1. UNCHANGED <<vars, walk, calm, still>>
  BY DEF discoveryVars
<1>2. Found' = Found /\ Queried' = Queried /\ StoredVenues' = StoredVenues
  BY <1>1, SameFinds
<1>3. WalkFits'
  BY <1>1 DEF WalkInv, WalkFits
<1>4. CalmIsFound' /\ CountHolds' /\ PageHolds'
  BY <1>1, <1>2 DEF WalkInv, CalmIsFound, CountHolds, PageHolds
<1>5. SeenSoFar'
  BY <1>1, <1>2 DEF WalkInv, SeenSoFar, Passed, Occurs
<1> QED BY <1>3, <1>4, <1>5 DEF WalkInv

LEMMA WalkOpens ==
  ASSUME WalkInv, NEW filter \in Filters, NEW number \in Pages, NEW size \in Sizes,
         Open(filter, number, size)
  PROVE  WalkInv'
<1> DEFINE p == PageParams(number, size)
<1>1. p.number \in Nat /\ p.size \in 1 .. MaxPageSize /\ p.size \in Nat
  BY DiscoveryAssumption DEF PageParams, AtoiDefault, AtMost
<1>2. walk = NoWalk
  BY DEF WalkInv, WalkFits, Open
<1>3. walk' = [walk EXCEPT !.at = FirstQuery(filter), !.filter = filter,
                           !.number = p.number, !.size = p.size, !.whole = (p.number = 0)]
  BY DEF Open
<1> HIDE DEF p
<1>4. /\ walk'.at = FirstQuery(filter) /\ walk'.filter = filter /\ walk'.number = p.number
      /\ walk'.size = p.size /\ walk'.whole = (p.number = 0) /\ walk'.seen = <<>>
  BY <1>2, <1>3 DEF NoWalk
<1>5. walk'.at \in {"venues", "count"} /\ (walk'.at = "venues" <=> filter = "city")
  BY <1>4 DEF FirstQuery, Filters
<1>6. walk' \in Walk
  <2> DEFINE whole == p.number = 0
  <2>1. whole \in BOOLEAN
    OBVIOUS
  <2> HIDE DEF whole
  <2>2. walk' = [walk EXCEPT !.at = FirstQuery(filter), !.filter = filter,
                             !.number = p.number, !.size = p.size, !.whole = whole]
    BY <1>3 DEF whole
  <2>3. walk \in Walk /\ FirstQuery(filter) \in {"venues", "count"}
    BY DEF WalkInv, WalkFits, FirstQuery
  <2> QED BY <1>1, <2>1, <2>2, <2>3 DEF Walk
<1>7. WalkFits'
  BY <1>1, <1>4, <1>5, <1>6 DEF WalkFits
<1>8. calm' = Found'
  BY <1>4 DEF Open, Found, StoredVenues, Matching, Stored, vars
<1>9. CalmIsFound'
  BY <1>4, <1>5, <1>8 DEF CalmIsFound
<1>10. CountHolds' /\ PageHolds'
  BY <1>5 DEF CountHolds, PageHolds
<1>11. SeenSoFar'
  <2> SUFFICES ASSUME walk'.whole PROVE /\ walk'.number * walk'.size < Limit
                                        /\ \A e \in calm' : ~(Place(e, Found') < Passed') /\ Occurs(e)' = {}
    BY DEF SeenSoFar
  <2>1. walk'.number = 0 /\ walk'.size \in Nat
    BY <1>1, <1>4
  <2>2. walk'.number * walk'.size = 0 /\ Passed' = 0
    BY <1>5, <2>1 DEF Passed
  <2>3. \A e \in calm' : Place(e, Found') \in Nat
    <3>1. calm' \in SUBSET Events /\ Found' \in SUBSET Events
      BY <1>8 DEF Found, Matching
    <3>2. \A e \in calm' : Place(e, Found') \in 0 .. Cardinality(Found') - 1
      BY <1>8, <3>1, PlaceInRange
    <3>3. Cardinality(Found') \in Nat
      BY <3>1, EventsFinite
    <3> QED BY <3>2, <3>3
  <2>4. \A e : Occurs(e)' = {}
    BY <1>4 DEF Occurs
  <2> QED BY <2>2, <2>3, <2>4, DiscoveryAssumption
<1> QED BY <1>7, <1>9, <1>10, <1>11 DEF WalkInv

LEMMA WalkFindsVenues ==
  ASSUME WalkInv, FindVenues
  PROVE  WalkInv'
<1>1. /\ walk \in Walk /\ walk.at = "venues" /\ walk.size \in 1 .. MaxPageSize
      /\ UNCHANGED <<vars, calm>>
      /\ walk' = [walk EXCEPT !.at = "count", !.venues = StoredVenues]
  BY DEF WalkInv, WalkFits, FindVenues, StoredVenues
<1>2. /\ walk'.at = "count" /\ walk'.venues = StoredVenues /\ walk'.filter = walk.filter
      /\ walk'.number = walk.number /\ walk'.size = walk.size /\ walk'.whole = walk.whole
      /\ walk'.seen = walk.seen
  BY <1>1 DEF Walk
<1>3. Found' = Found /\ StoredVenues' = StoredVenues /\ calm' = calm
  BY <1>1, <1>2, SameFinds
<1>4. WalkFits'
  <2>1. StoredVenues \in SUBSET Venues
    BY DEF StoredVenues
  <2>2. walk' \in Walk
    BY <1>1, <2>1 DEF Walk
  <2> QED BY <1>1, <1>2, <2>2 DEF WalkFits
<1>5. CalmIsFound'
  BY <1>2, <1>3 DEF WalkInv, CalmIsFound
<1>6. CountHolds' /\ PageHolds'
  BY <1>2 DEF CountHolds, PageHolds
<1>7. SeenSoFar'
  BY <1>1, <1>2, <1>3 DEF WalkInv, SeenSoFar, Passed, Occurs
<1> QED BY <1>4, <1>5, <1>6, <1>7 DEF WalkInv

LEMMA WalkCounts ==
  ASSUME WalkInv, Count
  PROVE  WalkInv'
<1> DEFINE total == Cardinality(Queried)
<1>1. /\ walk \in Walk /\ walk.at = "count" /\ walk.size \in 1 .. MaxPageSize
      /\ UNCHANGED <<vars, calm>>
      /\ walk' = [walk EXCEPT !.at = "find", !.total = total]
  BY DEF WalkInv, WalkFits, Count, Queried
<1>2. Queried \in SUBSET Events /\ total \in Nat /\ total <= Cardinality(Events)
  BY MatchingEvents, EventsFinite DEF Queried
<1> HIDE DEF total
<1>3. /\ walk'.at = "find" /\ walk'.venues = walk.venues /\ walk'.filter = walk.filter
      /\ walk'.number = walk.number /\ walk'.size = walk.size /\ walk'.whole = walk.whole
      /\ walk'.seen = walk.seen /\ walk'.total = total
  BY <1>1 DEF Walk
<1>4. Found' = Found /\ StoredVenues' = StoredVenues /\ calm' = calm /\ Queried' = Queried
  BY <1>1, <1>3, SameFinds
<1>5. WalkFits'
  <2>1. walk' \in Walk
    BY <1>1, <1>2 DEF Walk
  <2> QED BY <1>1, <1>3, <2>1 DEF WalkFits
<1>6. CalmIsFound'
  BY <1>1, <1>3, <1>4 DEF WalkInv, CalmIsFound
<1>7. CountHolds'
  <2>1. ASSUME NEW e \in calm PROVE Place(e, Found) < total
    <3>1. Queried = Found
      BY <1>1, CalmAgrees DEF WalkInv, Walk
    <3>2. e \in Found
      BY DEF WalkInv, CalmIsFound
    <3>3. Place(e, Found) \in 0 .. Cardinality(Found) - 1
      BY <1>2, <3>1, <3>2, PlaceInRange
    <3>4. Cardinality(Found) = total
      BY <3>1 DEF total
    <3> QED BY <1>2, <3>3, <3>4
  <2>2. total = Cardinality(Queried')
    BY <1>4 DEF total
  <2>3. \A e \in calm' : Place(e, Found') < total
    BY <1>4, <2>1
  <2> QED BY <1>2, <1>3, <2>2, <2>3 DEF CountHolds
<1>8. PageHolds'
  BY <1>3 DEF PageHolds
<1>9. SeenSoFar'
  BY <1>1, <1>3, <1>4 DEF WalkInv, SeenSoFar, Passed, Occurs
<1> QED BY <1>5, <1>6, <1>7, <1>8, <1>9 DEF WalkInv

LEMMA WalkTurns ==
  ASSUME WalkInv, Turn
  PROVE  WalkInv'
<1>1. /\ walk \in Walk /\ walk.at = "answered" /\ walk.size \in 1 .. MaxPageSize
      /\ UNCHANGED <<vars, calm>> /\ walk.whole /\ More
      /\ walk' = [walk EXCEPT !.at = FirstQuery(walk.filter), !.number = walk.number + 1,
                              !.venues = {}, !.total = 0, !.page = <<>>]
  BY DEF WalkInv, WalkFits, Turn
<1>2. FirstQuery(walk.filter) \in {"venues", "count"} /\ (FirstQuery(walk.filter) = "venues" <=> walk.filter = "city")
  BY DEF FirstQuery
<1>3. /\ walk'.at = FirstQuery(walk.filter) /\ walk'.filter = walk.filter
      /\ walk'.number = walk.number + 1 /\ walk'.size = walk.size /\ walk'.whole = walk.whole
      /\ walk'.seen = walk.seen
  BY <1>1 DEF Walk
<1>4. Found' = Found /\ StoredVenues' = StoredVenues /\ calm' = calm
  BY <1>1, <1>3, SameFinds
<1>5. WalkFits'
  <2>1. walk' \in Walk
    <3> DEFINE none == <<>>
               at == FirstQuery(walk.filter)
               number == walk.number + 1
    <3>1. none \in Seq(Events)
      OBVIOUS
    <3>2. walk.number \in Nat
      BY <1>1 DEF Walk
    <3>3. number \in Nat /\ at \in {"venues", "count"} /\ {} \in SUBSET Venues /\ 0 \in Nat
      BY <1>2, <3>2
    <3>4. walk' = [walk EXCEPT !.at = at, !.number = number, !.venues = {}, !.total = 0, !.page = none]
      BY <1>1
    <3>5. walk \in Walk
      BY <1>1
    <3> HIDE DEF none, at, number
    <3> QED BY <3>1, <3>3, <3>4, <3>5 DEF Walk
  <2> QED BY <1>1, <1>2, <1>3, <2>1 DEF WalkFits
<1>6. CalmIsFound'
  <2>1. walk'.filter = "city" => walk'.at = "venues"
    BY <1>2, <1>3
  <2> QED BY <1>4, <2>1 DEF WalkInv, CalmIsFound
<1>7. CountHolds' /\ PageHolds'
  BY <1>2, <1>3 DEF CountHolds, PageHolds
<1>8. SeenSoFar'
  <2>1. walk.number \in Nat /\ walk.size \in Nat \ {0} /\ walk.total \in Nat
    BY <1>1, DiscoveryAssumption DEF Walk
  <2>2. walk.total <= Cardinality(Events) /\ Cardinality(Events) \in Nat
    BY <1>1, DiscoveryAssumption, FS_CardinalityType DEF WalkInv, CountHolds
  <2>3. (walk.number + 1) * walk.size < walk.total
    BY <1>1, <2>1, LastPage DEF More
  <2>4. (walk.number + 1) * walk.size \in Nat
    BY <2>1, Times
  <2>5. (walk.number + 1) * walk.size < Limit
    BY <2>1, <2>2, <2>3, <2>4, DiscoveryAssumption
  <2>6. Passed' = Passed
    BY <1>1, <1>2, <1>3 DEF Passed
  <2> QED BY <1>1, <1>2, <1>3, <1>4, <2>5, <2>6 DEF WalkInv, SeenSoFar, Occurs
<1> QED BY <1>5, <1>6, <1>7, <1>8 DEF WalkInv

LEMMA WalkLeaves ==
  ASSUME WalkInv, Leave
  PROVE  WalkInv'
<1>1. walk' = [NoWalk EXCEPT !.at = "done"] /\ calm' = {}
  BY DEF Leave
<1>2. walk'.at = "done"
  BY <1>1 DEF NoWalk
<1>3. WalkFits'
  <2>1. NoWalk \in Walk
    BY DEF NoWalk, Walk, Filters
  <2>2. walk' \in Walk
    <3> HIDE DEF NoWalk
    <3> QED BY <1>1, <2>1 DEF Walk
  <2> QED BY <1>1, <1>2, <2>2 DEF WalkFits
<1>4. CalmIsFound' /\ CountHolds' /\ PageHolds' /\ SeenSoFar'
  BY <1>1, <1>2 DEF CalmIsFound, CountHolds, PageHolds, SeenSoFar
<1> QED BY <1>3, <1>4 DEF WalkInv

\* Appended: where e occurs in a sequence that another was appended to.
LEMMA Appended ==
  ASSUME NEW E, NEW s \in Seq(E), NEW t \in Seq(E), NEW e
  PROVE  OccursIn(s \o t, e) = OccursIn(s, e) \cup Shifted(OccursIn(t, e), Len(s))
<1> DEFINE u == s \o t
<1>1. /\ Len(s) \in Nat /\ Len(t) \in Nat
      /\ DOMAIN s = 1 .. Len(s) /\ DOMAIN t = 1 .. Len(t) /\ DOMAIN u = 1 .. Len(s) + Len(t)
      /\ \A i \in 1 .. Len(s) + Len(t) : u[i] = IF i <= Len(s) THEN s[i] ELSE t[i - Len(s)]
  OBVIOUS
<1> HIDE DEF u
<1>2. ASSUME NEW i \in DOMAIN u, u[i] = e
      PROVE  i \in {j \in DOMAIN s : s[j] = e} \/ \E j \in DOMAIN t : t[j] = e /\ i = j + Len(s)
  <2>1. CASE i <= Len(s)
    BY <1>1, <1>2, <2>1
  <2>2. CASE ~(i <= Len(s))
    <3>1. i - Len(s) \in 1 .. Len(t) /\ i = (i - Len(s)) + Len(s) /\ t[i - Len(s)] = e
      BY <1>1, <1>2, <2>2
    <3> QED BY <3>1, <1>1
  <2> QED BY <2>1, <2>2
<1>3. ASSUME NEW i \in DOMAIN s, s[i] = e PROVE i \in DOMAIN u /\ u[i] = e
  BY <1>1, <1>3
<1>4. ASSUME NEW j \in DOMAIN t, t[j] = e PROVE j + Len(s) \in DOMAIN u /\ u[j + Len(s)] = e
  <2>1. j + Len(s) \in 1 .. Len(s) + Len(t) /\ ~(j + Len(s) <= Len(s)) /\ (j + Len(s)) - Len(s) = j
    BY <1>1
  <2> QED BY <2>1, <1>1, <1>4
<1>5. {i \in DOMAIN u : u[i] = e}
        = {i \in DOMAIN s : s[i] = e} \cup {i + Len(s) : i \in {j \in DOMAIN t : t[j] = e}}
  BY <1>2, <1>3, <1>4
<1> QED BY <1>5 DEF u, OccursIn, Shifted

LEMMA WalkFinds ==
  ASSUME WalkInv, Find
  PROVE  WalkInv'
<1> DEFINE p == Normalise([number |-> walk.number, size |-> walk.size])
           k == walk.number * walk.size
           page == Slice(Sorted(Queried), Skip(p), walk.size)
<1>1. /\ walk \in Walk /\ walk.at = "find" /\ walk.size \in 1 .. MaxPageSize /\ walk.size \in Nat
      /\ walk.number \in Nat /\ k \in Nat
  <2>1. walk \in Walk /\ walk.at = "find" /\ walk.size \in 1 .. MaxPageSize
    BY DEF WalkInv, WalkFits, Find
  <2>2. walk.number \in Nat /\ walk.size \in Nat
    BY <2>1 DEF Walk
  <2> QED BY <2>1, <2>2, Times
<1>2. p = [number |-> walk.number, size |-> walk.size] /\ (k < Limit => Skip(p) = k)
  BY <1>1, SkipFits
<1>3. Skip(p) \in Int
  <2>1. p.number * p.size \in Nat
    BY <1>1, <1>2
  <2> QED BY <2>1, DiscoveryAssumption DEF Skip, Wrap
<1>4. UNCHANGED <<vars, calm, still>>
  BY DEF Find
<1>5. \/ Skip(p) < 0 /\ walk' = [walk EXCEPT !.at = "failed"]
      \/ Skip(p) >= 0 /\ walk' = [walk EXCEPT !.at = "answered", !.page = page, !.seen = walk.seen \o page]
  <2> DEFINE found == Slice(Sorted(Matching(walk.filter, walk.venues)), Skip(p), p.size)
  <2>1. walk' = IF Skip(p) < 0 THEN [walk EXCEPT !.at = "failed"]
                ELSE [walk EXCEPT !.at = "answered", !.page = found, !.seen = walk.seen \o found]
    BY DEF Find
  <2>2. found = page
    BY <1>2 DEF Queried
  <2> HIDE DEF found, page, p
  <2> QED BY <1>3, <2>1, <2>2
<1>6. Queried \in SUBSET Events
  BY MatchingEvents DEF Queried
<1> HIDE DEF page, p, k
<1>7. CASE Skip(p) < 0
  <2>1. walk' = [walk EXCEPT !.at = "failed"]
    BY <1>3, <1>5, <1>7
  <2>2. /\ walk'.at = "failed" /\ walk'.filter = walk.filter /\ walk'.size = walk.size /\ walk' \in Walk
    BY <1>1, <2>1 DEF Walk
  <2>3. Found' = Found
    BY <1>4, <2>2, SameFinds
  <2>4. WalkFits'
    BY <1>1, <2>2 DEF WalkFits
  <2>5. CalmIsFound' /\ CountHolds' /\ PageHolds' /\ SeenSoFar'
    BY <1>4, <2>2, <2>3 DEF WalkInv, CalmIsFound, CountHolds, PageHolds, SeenSoFar
  <2> QED BY <2>4, <2>5 DEF WalkInv
<1>8. CASE Skip(p) >= 0
  <2>1. walk' = [walk EXCEPT !.at = "answered", !.page = page, !.seen = walk.seen \o page]
    BY <1>3, <1>5, <1>8
  <2>2. page \in Seq(Queried) /\ page \in Seq(Events)
    <3>1. page \in Seq(Queried)
      <4>1. Skip(p) \in Nat /\ walk.size \in Nat /\ page = Slice(Sorted(Queried), Skip(p), walk.size)
        BY <1>1, <1>3, <1>8 DEF page
      <4> HIDE DEF page
      <4>2. HoldsPage(page, Queried, Skip(p), walk.size)
        BY <4>1, <1>6, PageIs
      <4> QED BY <4>2 DEF HoldsPage
    <3> QED BY <3>1, <1>6
  <2>3. walk.seen \in Seq(Events)
    BY <1>1 DEF Walk
  <2>4. walk.seen \o page \in Seq(Events)
    BY <2>2, <2>3
  <2>5. /\ walk'.at = "answered" /\ walk'.venues = walk.venues /\ walk'.filter = walk.filter
        /\ walk'.number = walk.number /\ walk'.size = walk.size /\ walk'.whole = walk.whole
        /\ walk'.seen = walk.seen \o page /\ walk'.page = page /\ walk'.total = walk.total
    BY <1>1, <2>1 DEF Walk
  <2>6. walk' \in Walk
    <3> DEFINE seen == walk.seen \o page
    <3>1. walk' = [walk EXCEPT !.at = "answered", !.page = page, !.seen = seen] /\ seen \in Seq(Events)
      BY <2>1, <2>4
    <3> HIDE DEF seen
    <3> QED BY <1>1, <2>2, <3>1 DEF Walk
  <2>7. Found' = Found /\ Queried' = Queried /\ StoredVenues' = StoredVenues
    BY <1>4, <2>5, SameFinds
  <2>8. WalkFits'
    BY <1>1, <2>5, <2>6 DEF WalkFits
  <2>9. CalmIsFound' /\ CountHolds'
    BY <1>1, <1>4, <2>5, <2>7 DEF WalkInv, CalmIsFound, CountHolds
  <2>10. PageHolds'
    <3>1. k < Limit => page = Slice(Sorted(Queried), k, walk.size)
      BY <1>2 DEF page
    <3> QED BY <2>5, <2>7, <3>1 DEF PageHolds, k
  <2>11. SeenSoFar'
    <3> SUFFICES ASSUME walk.whole
                 PROVE  /\ k < Limit
                        /\ \A e \in calm : IF Place(e, Found) < Passed' THEN \E i \in DOMAIN walk'.seen : Occurs(e)' = {i}
                                                                       ELSE Occurs(e)' = {}
      BY <1>4, <2>5, <2>7 DEF SeenSoFar, k
    <3>1. /\ k < Limit
          /\ \A e \in calm : IF Place(e, Found) < k THEN \E i \in DOMAIN walk.seen : Occurs(e) = {i}
                                                   ELSE Occurs(e) = {}
      BY <1>1 DEF WalkInv, SeenSoFar, Passed, k
    <3>2. Passed' = k + walk.size
      <4>1. Passed' = (walk.number + 1) * walk.size
        BY <2>5 DEF Passed
      <4> QED BY <4>1, <1>1, Times DEF k
    <3>3. page = Slice(Sorted(Queried), k, walk.size)
      BY <1>2, <3>1 DEF page
    <3> SUFFICES ASSUME NEW e \in calm
                 PROVE  IF Place(e, Found) < Passed' THEN \E i \in DOMAIN walk'.seen : Occurs(e)' = {i}
                                                     ELSE Occurs(e)' = {}
      BY <3>1
    <3>4. Queried = Found /\ e \in Found
      <4>1. Queried = Found
        BY <1>1, CalmAgrees DEF WalkInv, Walk
      <4> QED BY <4>1 DEF WalkInv, CalmIsFound
    <3>5. Place(e, Found) \in Nat
      <4>1. Place(e, Found) \in 0 .. Cardinality(Found) - 1 /\ Cardinality(Found) \in Nat
        BY <1>6, <3>4, PlaceInRange, EventsFinite
      <4> QED BY <4>1
    <3> DEFINE InPage == OccursIn(page, e)
    <3>6. Found \in SUBSET Events /\ page = Slice(Sorted(Found), k, walk.size)
      BY <1>6, <3>3, <3>4
    <3>7. /\ \A i \in DOMAIN page : Place(page[i], Found) \in k .. k + walk.size - 1
          /\ \A f \in Found : Place(f, Found) \in k .. k + walk.size - 1 => Once(page, f)
      <4>1. k \in Nat /\ walk.size \in Nat /\ Found \in SUBSET Events
        BY <1>1, <3>6
      <4>2. page = Slice(Sorted(Found), k, walk.size)
        BY <3>6
      <4> HIDE DEF page
      <4>3. HoldsPage(page, Found, k, walk.size)
        BY <4>1, <4>2, PageIs
      <4> QED BY <4>3 DEF HoldsPage
    <3>8. Place(e, Found) \in k .. k + walk.size - 1 => \E i \in DOMAIN page : InPage = {i}
      BY <3>4, <3>7 DEF Once
    <3>9. Place(e, Found) \notin k .. k + walk.size - 1 => InPage = {}
      BY <3>7 DEF OccursIn
    <3>10. Occurs(e)' = Occurs(e) \cup Shifted(InPage, Len(walk.seen))
      <4>1. OccursIn(walk.seen \o page, e) = OccursIn(walk.seen, e) \cup Shifted(InPage, Len(walk.seen))
        BY <2>2, <2>3, Appended
      <4>2. Occurs(e)' = OccursIn(walk.seen \o page, e) /\ Occurs(e) = OccursIn(walk.seen, e)
        BY <2>5 DEF Occurs, OccursIn
      <4> QED BY <4>1, <4>2
    <3> HIDE DEF InPage
    <3>11. Occurs(e)' \subseteq DOMAIN walk'.seen
      BY DEF Occurs
    <3>12. CASE Place(e, Found) < k
      <4>1. InPage = {} /\ Place(e, Found) < Passed'
        BY <1>1, <3>2, <3>5, <3>9, <3>12
      <4>2. PICK i \in DOMAIN walk.seen : Occurs(e) = {i}
        BY <3>1, <3>12
      <4>3. Occurs(e)' = {i}
        BY <3>10, <4>1, <4>2 DEF Shifted
      <4> QED BY <3>11, <4>1, <4>3
    <3>13. CASE Place(e, Found) >= k /\ Place(e, Found) < k + walk.size
      <4>1. Occurs(e) = {} /\ Place(e, Found) < Passed'
        BY <1>1, <3>1, <3>2, <3>5, <3>13
      <4>2. Place(e, Found) \in k .. k + walk.size - 1
        BY <1>1, <3>5, <3>13
      <4>3. PICK i \in DOMAIN page : InPage = {i}
        BY <3>8, <4>2
      <4>4. Occurs(e)' = {i + Len(walk.seen)}
        BY <3>10, <4>1, <4>3 DEF Shifted
      <4> QED BY <3>11, <4>1, <4>4
    <3>14. CASE Place(e, Found) >= k + walk.size
      <4>1. Occurs(e) = {} /\ ~(Place(e, Found) < Passed') /\ Place(e, Found) \notin k .. k + walk.size - 1
        BY <1>1, <3>1, <3>2, <3>5, <3>14
      <4>2. Occurs(e)' = {}
        BY <3>9, <3>10, <4>1 DEF Shifted
      <4> QED BY <4>1, <4>2
    <3> QED BY <1>1, <3>5, <3>12, <3>13, <3>14
  <2> QED BY <2>8, <2>9, <2>10, <2>11 DEF WalkInv
<1> QED BY <1>3, <1>7, <1>8

\* LeavesCalm: a change after an event in the order, and of no venue while
\* there is a city filter, leaves the event found and in its place.
LEMMA LeavesCalm ==
  ASSUME WalkInv, CatalogueStep, NEW e \in calm'
  PROVE  /\ e \in calm /\ e \in Found /\ e \in Found'
         /\ Place(e, Found') = Place(e, Found)
         /\ walk.filter = "city" => StoredVenues' = StoredVenues
<1>1. e \in calm /\ ~Disturbed(e) /\ walk' = walk
  BY DEF CatalogueStep
<1>2. e \in Found /\ e \in Events
  BY <1>1 DEF WalkInv, CalmIsFound, Found, Matching
<1>3. Rank[e] \in Nat /\ \A f \in Events : Rank[f] \in Nat
  BY <1>2, DiscoveryAssumption
<1>4. \A f \in Events : Rank[f] <= Rank[e] => doc'[f] = doc[f] /\ refs'[f] = refs[f]
  BY <1>1 DEF Disturbed, Touched
<1>5. walk.filter = "city" => StoredVenues' = StoredVenues
  <2> SUFFICES ASSUME walk.filter = "city", NEW v \in Venues PROVE doc'[v] = doc[v]
    BY DEF StoredVenues, Stored
  <2>1. v \notin Events
    BY DEF Events, Venues
  <2> QED BY <1>1, <2>1 DEF Disturbed, Touched
<1>6. ASSUME NEW f \in Events, Rank[f] <= Rank[e]
      PROVE  f \in Found' <=> f \in Found
  <2>1. Stored(f)' <=> Stored(f)
    BY <1>4, <1>6 DEF Stored
  <2>2. CASE walk.filter = "city"
    BY <1>1, <1>4, <1>5, <1>6, <2>1, <2>2 DEF Found, Matching
  <2>3. CASE walk.filter # "city"
    BY <1>1, <2>1, <2>3 DEF Found, Matching
  <2> QED BY <2>2, <2>3
<1>7. e \in Found'
  BY <1>2, <1>3, <1>6
<1>8. {f \in Found' : Rank[f] < Rank[e]} = {f \in Found : Rank[f] < Rank[e]}
  <2>1. Found' \subseteq Events /\ Found \subseteq Events
    BY DEF Found, Matching
  <2>2. \A f \in Events : Rank[f] < Rank[e] => Rank[f] <= Rank[e]
    BY <1>3
  <2> QED BY <1>6, <2>1, <2>2
<1> QED BY <1>1, <1>2, <1>5, <1>7, <1>8 DEF Place

LEMMA WalkIsOvertaken ==
  ASSUME WalkInv, CatalogueStep
  PROVE  WalkInv'
<1>1. /\ walk' = walk /\ walk.at \notin {"answered", "failed"} /\ calm' \subseteq calm
      /\ still' => still /\ Touched = {}
  BY DEF CatalogueStep
<1>2. \A e \in calm' :
        /\ e \in calm /\ e \in Found' /\ Place(e, Found') = Place(e, Found)
        /\ walk.filter = "city" => StoredVenues' = StoredVenues
  BY LeavesCalm
<1>3. WalkFits'
  BY <1>1 DEF WalkInv, WalkFits
<1>4. CalmIsFound'
  <2>1. calm' \subseteq Found'
    BY <1>2
  <2>2. calm' # {} /\ walk.filter = "city" => StoredVenues' = StoredVenues /\ calm # {}
    BY <1>2
  <2> QED BY <1>1, <2>1, <2>2 DEF WalkInv, CalmIsFound
<1>5. CountHolds'
  <2>1. still' => Queried' = Queried
    <3> SUFFICES ASSUME still' PROVE Queried' = Queried
      OBVIOUS
    <3>1. \A f \in Events : doc'[f] = doc[f] /\ refs'[f] = refs[f]
      BY <1>1 DEF Touched
    <3> QED BY <1>1, <3>1 DEF Queried, Matching, Stored
  <2>2. walk.at = "find" => \A e \in calm' : Place(e, Found') < walk.total
    BY <1>2 DEF WalkInv, CountHolds
  <2> QED BY <1>1, <2>1, <2>2 DEF WalkInv, CountHolds
<1>6. PageHolds'
  BY <1>1 DEF PageHolds
<1>7. SeenSoFar'
  <2>1. Passed' = Passed /\ \A e : Occurs(e)' = Occurs(e)
    BY <1>1 DEF Passed, Occurs
  <2> QED BY <1>1, <1>2, <2>1 DEF WalkInv, SeenSoFar
<1> QED BY <1>3, <1>4, <1>5, <1>6, <1>7 DEF WalkInv

\* WalkGoesRight: the invariant of a walk.
THEOREM WalkGoesRight == DiscoverySpec => []WalkInv
<1>1. WalkInv /\ [DiscoveryNext]_discoveryVars => WalkInv'
  BY WalkStutters, WalkOpens, WalkFindsVenues, WalkCounts, WalkFinds, WalkTurns, WalkLeaves,
     WalkIsOvertaken DEF DiscoveryNext
<1> QED BY <1>1, WalkInit, PTL DEF DiscoverySpec

\* NothingMissed: a client that began at the first page and was told there are
\* no more has seen every calm event, once.
THEOREM NothingMissed == DiscoverySpec => []WalkSeesAll
<1>1. WalkInv => WalkSeesAll
  <2> SUFFICES ASSUME WalkInv, walk.at = "answered", walk.whole, ~More, NEW e \in calm
               PROVE  Cardinality({i \in DOMAIN walk.seen : walk.seen[i] = e}) = 1
    BY DEF WalkSeesAll
  <2>1. walk.number \in Nat /\ walk.size \in Nat \ {0} /\ walk.total \in Nat
    BY DiscoveryAssumption DEF WalkInv, WalkFits, Walk
  <2>2. walk.total <= (walk.number + 1) * walk.size
    <3>1. walk.number + 1 \in Nat
      BY <2>1
    <3>2. walk.number + 1 < TotalPages(walk.total, walk.size)
            <=> (walk.number + 1) * walk.size < walk.total
      BY <2>1, <3>1, LastPage
    <3>3. (walk.number + 1) * walk.size \in Nat
      BY <2>1, Times
    <3>4. ~((walk.number + 1) * walk.size < walk.total)
      BY <3>2 DEF More
    <3> QED BY <2>1, <3>3, <3>4
  <2>3. Place(e, Found) < walk.total
    BY DEF WalkInv, CountHolds
  <2>4. Place(e, Found) \in Nat
    <3>1. e \in Found /\ Found \in SUBSET Events
      BY MatchingEvents DEF WalkInv, CalmIsFound, Found
    <3>2. Place(e, Found) \in 0 .. Cardinality(Found) - 1 /\ Cardinality(Found) \in Nat
      BY <3>1, PlaceInRange, EventsFinite
    <3> QED BY <3>2
  <2>5. Place(e, Found) < Passed
    <3>1. Passed = (walk.number + 1) * walk.size /\ Passed \in Nat
      BY <2>1, Times DEF Passed
    <3> QED BY <2>1, <2>2, <2>3, <2>4, <3>1
  <2>6. \E i \in DOMAIN walk.seen : Occurs(e) = {i}
    BY <2>5 DEF WalkInv, SeenSoFar
  <2> QED BY <2>6, FS_Singleton DEF Occurs
<1> QED BY <1>1, WalkGoesRight, PTL

\* PagesAreSlices: an undisturbed answer is the page it says it is.
THEOREM PagesAreSlices == DiscoverySpec => []PageIsSlice
<1>1. WalkInv => PageIsSlice
  <2> DEFINE PageOf(e) == Place(e, Queried) \div walk.size
             k == walk.number * walk.size
             pages == TotalPages(walk.total, walk.size)
  <2> SUFFICES ASSUME WalkInv, walk.at = "answered", still, k < Limit
               PROVE  /\ {walk.page[i] : i \in DOMAIN walk.page} = {e \in Queried : PageOf(e) = walk.number}
                      /\ pages = Cardinality({PageOf(e) : e \in Queried})
                      /\ walk.size \in 1 .. MaxPageSize
    BY DEF PageIsSlice, Queried, Place
  <2>1. /\ walk.number \in Nat /\ walk.size \in Nat \ {0} /\ walk.total \in Nat
        /\ walk.size \in 1 .. MaxPageSize
    BY DiscoveryAssumption DEF WalkInv, WalkFits, Walk
  <2>2. k \in Nat
    BY <2>1, Times
  <2>3. Queried \in SUBSET Events
    BY MatchingEvents DEF Queried
  <2>4. walk.page = Slice(Sorted(Queried), k, walk.size)
    BY DEF WalkInv, PageHolds
  <2>5. walk.total = Cardinality(Queried)
    BY DEF WalkInv, CountHolds
  <2>6. \A e \in Queried : Place(e, Queried) \in Nat /\ Place(e, Queried) < walk.total
    <3> SUFFICES ASSUME NEW e \in Queried
                 PROVE  Place(e, Queried) \in Nat /\ Place(e, Queried) < walk.total
      OBVIOUS
    <3>1. Place(e, Queried) \in 0 .. Cardinality(Queried) - 1
      BY <2>3, PlaceInRange
    <3> QED BY <3>1, <2>1, <2>5
  <2>7. ASSUME NEW e \in Queried, NEW q \in Nat
        PROVE  PageOf(e) = q <=> (q * walk.size <= Place(e, Queried) /\ Place(e, Queried) < q * walk.size + walk.size)
    BY <2>1, <2>6, QuotientIs
  <2>8. {walk.page[i] : i \in DOMAIN walk.page} = {e \in Queried : PageOf(e) = walk.number}
    <3>1. /\ walk.page \in Seq(Queried)
          /\ \A i \in DOMAIN walk.page : Place(walk.page[i], Queried) \in k .. k + walk.size - 1
          /\ \A e \in Queried : Place(e, Queried) \in k .. k + walk.size - 1 => Once(walk.page, e)
      <4>1. k \in Nat /\ walk.size \in Nat
        BY <2>1, <2>2
      <4> HIDE DEF k
      <4>2. HoldsPage(walk.page, Queried, k, walk.size)
        BY <4>1, <2>3, <2>4, PageIs
      <4> QED BY <4>2 DEF HoldsPage
    <3>2. \A e \in Queried : PageOf(e) = walk.number <=> Place(e, Queried) \in k .. k + walk.size - 1
      <4> SUFFICES ASSUME NEW e \in Queried
                   PROVE  PageOf(e) = walk.number <=> Place(e, Queried) \in k .. k + walk.size - 1
        OBVIOUS
      <4>1. PageOf(e) = walk.number <=> (k <= Place(e, Queried) /\ Place(e, Queried) < k + walk.size)
        BY <2>1, <2>7
      <4>2. Place(e, Queried) \in Nat
        BY <2>6
      <4> HIDE DEF PageOf, k
      <4> QED BY <4>1, <4>2, <2>1, <2>2
    <3> HIDE DEF PageOf, k
    <3>3. \A i \in DOMAIN walk.page : walk.page[i] \in Queried
      BY <3>1
    <3>4. \A e \in Queried : Once(walk.page, e) => \E i \in DOMAIN walk.page : walk.page[i] = e
      BY DEF Once, OccursIn
    <3>5. ASSUME NEW i \in DOMAIN walk.page
          PROVE  walk.page[i] \in Queried /\ PageOf(walk.page[i]) = walk.number
      BY <3>1, <3>2, <3>3
    <3>6. ASSUME NEW e \in Queried, PageOf(e) = walk.number
          PROVE  \E i \in DOMAIN walk.page : walk.page[i] = e
      BY <3>1, <3>2, <3>4, <3>6
    <3> QED BY <3>5, <3>6
  <2>9. pages = Cardinality({PageOf(e) : e \in Queried})
    <3>1. pages \in Nat /\ \A q \in Nat : q < pages <=> q * walk.size < walk.total
      BY <2>1, LastPage
    <3>2. ASSUME NEW e \in Queried PROVE PageOf(e) \in 0 .. pages - 1
      <4>1. PageOf(e) \in Nat
        BY <2>1, <2>6, Quotient
      <4> DEFINE q == PageOf(e)
      <4>2. q * walk.size <= Place(e, Queried)
        BY <4>1, <2>7
      <4> HIDE DEF q, PageOf, pages
      <4>3. q \in Nat /\ q * walk.size \in Nat
        BY <4>1, <2>1, Times DEF q
      <4>4. q * walk.size < walk.total
        BY <4>2, <4>3, <2>1, <2>6
      <4>5. q < pages
        BY <3>1, <4>3, <4>4
      <4> QED BY <3>1, <4>3, <4>5 DEF q
    <3>3. ASSUME NEW q \in 0 .. pages - 1 PROVE \E e \in Queried : PageOf(e) = q
      <4>1. q \in Nat /\ q < pages
        BY <3>1
      <4>2. q * walk.size \in 0 .. Cardinality(Queried) - 1
        <5>1. q * walk.size \in Nat /\ q * walk.size < walk.total
          BY <3>1, <4>1, <2>1, Times
        <5> QED BY <5>1, <2>1, <2>5
      <4>3. PICK e \in Queried : Place(e, Queried) = q * walk.size
        BY <4>2, <2>3, PlaceIsOne
      <4>4. q * walk.size <= Place(e, Queried) /\ Place(e, Queried) < q * walk.size + walk.size
        BY <4>2, <4>3, <2>1
      <4> QED BY <4>1, <4>4, <2>7
    <3> HIDE DEF PageOf, pages
    <3>4. {PageOf(e) : e \in Queried} = 0 .. pages - 1
      BY <3>2, <3>3
    <3>5. Cardinality(0 .. pages - 1) = pages
      BY <3>1, FS_Interval
    <3> QED BY <3>4, <3>5
  <2> QED BY <2>1, <2>8, <2>9
<1> QED BY <1>1, WalkGoesRight, PTL

=============================================================================
