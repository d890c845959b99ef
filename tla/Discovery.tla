----------------------------- MODULE Discovery ------------------------------
(***************************************************************************)
(* A client reads the events page by page while the catalogue changes.     *)
(*                                                                         *)
(* One page is two or three queries: the venues of the city, when there is *)
(* a city filter, the count, and the page itself.  The client takes the    *)
(* page that the answer says comes next, until there is none.              *)
(***************************************************************************)
EXTENDS Catalogue

CONSTANTS
  Rank,             \* event -> its place in the order of _id
  Pages, Sizes,     \* values of the page and size query parameters
  DefaultPageSize, MaxPageSize,
  Limit             \* the skips are the integers below it, 2^63 in the code

VARIABLES
  walk,    \* the client: its next query, the page it asks for, what it has read
  calm,    \* history: events that no change so far could make it miss or repeat
  still    \* history: has the catalogue stood still since the page's first query?

discoveryVars == <<vars, walk, calm, still>>

Events == {x \in Ids : Kind[x] = "event"}
Venues == {x \in Ids : Kind[x] = "venue"}

\* No two events have one _id, and a collection holds no more of them than an
\* integer can count.
ASSUME DiscoveryAssumption ==
  /\ Rank \in [Events -> Nat]
  /\ \A e, f \in Events : Rank[e] = Rank[f] => e = f
  /\ Pages \subseteq Int /\ Sizes \subseteq Int
  /\ MaxPageSize \in Nat /\ DefaultPageSize \in 1 .. MaxPageSize
  /\ Limit \in Nat \ {0}
  /\ IsFiniteSet(Events) /\ Cardinality(Events) <= Limit

(***************************************************************************)
(* Page parameters.                                                        *)
(***************************************************************************)
AtoiDefault(n, d) == IF n > 0 THEN n ELSE d
AtMost(n, m) == IF n > m THEN m ELSE n

PageParams(number, size) ==
  [number |-> AtoiDefault(number, 0),
   size   |-> AtMost(AtoiDefault(size, DefaultPageSize), MaxPageSize)]

\* The store does not trust its callers to have done that.
Normalise(p) ==
  [number |-> IF p.number < 0 THEN 0 ELSE p.number,
   size   |-> AtMost(IF p.size <= 0 THEN DefaultPageSize ELSE p.size, MaxPageSize)]

\* A signed integer that wraps around at Limit.
Wrap(i) == ((i + Limit) % (2 * Limit)) - Limit

Skip(p) == Wrap(p.number * p.size)

\* Slip: the last page is counted only when it is full.
TotalPagesFloor(total, size) == total \div size

\* totalPages of the answer.
TotalPages(total, size) == (total + size - 1) \div size

-----------------------------------------------------------------------------
(***************************************************************************)
(* The queries of one page.                                                *)
(***************************************************************************)
Filters == {"all", "city"}

\* Events of the filter, given the venues that were found in the city.
Matching(filter, venues) ==
  {e \in Events : Stored(e) /\ (filter = "city" => refs[e] \cap venues # {})}

\* Slip: pages in the order of a field that an edit can change.
SortedByContent(S) ==
  LET Before(e) == {f \in S : \/ Cardinality(refs[f]) < Cardinality(refs[e])
                             \/ /\ Cardinality(refs[f]) = Cardinality(refs[e])
                                /\ Rank[f] < Rank[e]}
  IN  [i \in 1 .. Cardinality(S) |-> CHOOSE e \in S : Cardinality(Before(e)) = i - 1]

\* The documents of a set in the order of _id.
Sorted(S) ==
  LET Before(e) == {f \in S : Rank[f] < Rank[e]}
  IN  [i \in 1 .. Cardinality(S) |-> CHOOSE e \in S : Cardinality(Before(e)) = i - 1]

\* limit documents from skip on.
Slice(seq, skip, limit) == SubSeq(seq, skip + 1, AtMost(skip + limit, Len(seq)))

NoWalk == [at |-> "idle", filter |-> "all", number |-> 0, size |-> 0, whole |-> FALSE,
           venues |-> {}, total |-> 0, page |-> <<>>, seen |-> <<>>]

FirstQuery(filter) == IF filter = "city" THEN "venues" ELSE "count"

DiscoveryInit ==
  /\ Init
  /\ walk = NoWalk
  /\ calm = {}
  /\ still = TRUE

\* The first request.  The walk is whole when it begins at the first page.
Open(filter, number, size) ==
  LET p == PageParams(number, size) IN
  /\ walk.at = "idle"
  /\ walk' = [walk EXCEPT !.at = FirstQuery(filter), !.filter = filter,
                          !.number = p.number, !.size = p.size, !.whole = (p.number = 0)]
  /\ calm' = Matching(filter, {v \in Venues : Stored(v)})
  /\ UNCHANGED <<vars, still>>

\* venueIDsInCity.
FindVenues ==
  /\ walk.at = "venues"
  /\ walk' = [walk EXCEPT !.at = "count", !.venues = {v \in Venues : Stored(v)}]
  /\ still' = TRUE
  /\ UNCHANGED <<vars, calm>>

\* FindPage counts ...
Count ==
  /\ walk.at = "count"
  /\ walk' = [walk EXCEPT !.at = "find",
                          !.total = Cardinality(Matching(walk.filter, walk.venues))]
  /\ still' = (still \/ walk.filter = "all")
  /\ UNCHANGED <<vars, calm>>

\* ... and reads the page; the driver refuses a negative skip.
Find ==
  LET p == Normalise([number |-> walk.number, size |-> walk.size])
      page == Slice(Sorted(Matching(walk.filter, walk.venues)), Skip(p), p.size) IN
  /\ walk.at = "find"
  /\ walk' = IF Skip(p) < 0 THEN [walk EXCEPT !.at = "failed"]
             ELSE [walk EXCEPT !.at = "answered", !.page = page, !.seen = @ \o page]
  /\ UNCHANGED <<vars, calm, still>>

More == walk.number + 1 < TotalPages(walk.total, walk.size)

\* The client asks for the next page, if the answer says there is one.
Turn ==
  /\ walk.at = "answered" /\ walk.whole
  /\ More
  /\ walk' = [walk EXCEPT !.at = FirstQuery(walk.filter), !.number = @ + 1,
                          !.venues = {}, !.total = 0, !.page = <<>>]
  /\ UNCHANGED <<vars, calm, still>>

\* ... and otherwise, or on an error, leaves.  Bound: one client comes.
Leave ==
  /\ \/ walk.at = "answered" /\ ~(walk.whole /\ More)
     \/ walk.at = "failed"
  /\ walk' = [NoWalk EXCEPT !.at = "done"]
  /\ calm' = {} /\ still' = TRUE
  /\ UNCHANGED vars

\* A change of the catalogue disturbs the events ranked with or after a
\* document that changed, and with a city filter, of its venues, all of them.
Touched == {x \in Events \cup Venues : doc'[x] # doc[x] \/ refs'[x] # refs[x]}

Disturbed(e) ==
  \E x \in Touched : IF x \in Events THEN Rank[x] <= Rank[e] ELSE walk.filter = "city"

\* The client looks at an answer at once: what happens before it asks for the
\* next page can as well happen before the first query of that page.
CatalogueStep ==
  /\ walk.at \notin {"answered", "failed"}
  /\ Next
  /\ calm' = {e \in calm : ~Disturbed(e)}
  /\ still' = (still /\ Touched = {})
  /\ UNCHANGED walk

DiscoveryNext ==
  \/ CatalogueStep
  \/ \E filter \in Filters, number \in Pages, size \in Sizes : Open(filter, number, size)
  \/ FindVenues \/ Count \/ Find \/ Turn \/ Leave

DiscoverySpec == DiscoveryInit /\ [][DiscoveryNext]_discoveryVars

-----------------------------------------------------------------------------
(***************************************************************************)
(* Properties.                                                             *)
(***************************************************************************)

\* WalkSeesAll: sorted by _id, no "page 2 could repeat or skip documents from
\* page 1": a client that began at the first page and was told there are no
\* more has seen exactly once every event that was there all along with
\* nothing changed up to its place in the order, whatever happened behind it
\* and between the queries of a page.
WalkSeesAll ==
  walk.at = "answered" /\ walk.whole /\ ~More
    => \A e \in calm : Cardinality({i \in DOMAIN walk.seen : walk.seen[i] = e}) = 1

\* PageIsSlice: when nothing changes between its queries, an answer holds the
\* events whose place in the order is on the page it says it is, and counts the
\* pages there are; except for page numbers whose skip does not fit in an
\* integer, which Normalise does not stop: those fail, or get another page.
PageIsSlice ==
  LET all == Matching(walk.filter, walk.venues)
      PageOf(e) == Cardinality({f \in all : Rank[f] < Rank[e]}) \div walk.size IN
  walk.at = "answered" /\ still /\ walk.number * walk.size < Limit
    => /\ {walk.page[i] : i \in DOMAIN walk.page} = {e \in all : PageOf(e) = walk.number}
       /\ TotalPages(walk.total, walk.size) = Cardinality({PageOf(e) : e \in all})
       /\ walk.size \in 1 .. MaxPageSize

-----------------------------------------------------------------------------
(***************************************************************************)
(* What makes them inductive.                                              *)
(***************************************************************************)

Walk == [at : {"idle", "venues", "count", "find", "answered", "failed", "done"},
         filter : Filters, number : Nat, size : Nat, whole : BOOLEAN,
         venues : SUBSET Venues, total : Nat, page : Seq(Events), seen : Seq(Events)]

\* WalkFits: the client's types, and when it has a page to ask for.
WalkFits ==
  /\ walk \in Walk
  /\ walk.at = "idle" => walk = NoWalk
  /\ walk.at \in {"idle", "done"} => calm = {}
  /\ walk.at \notin {"idle", "done"} => walk.size \in 1 .. MaxPageSize
  /\ walk.at = "venues" => walk.filter = "city"

\* What the filter finds now, and what it finds given the venues that were read.
StoredVenues == {v \in Venues : Stored(v)}
Found        == Matching(walk.filter, StoredVenues)
Queried      == Matching(walk.filter, walk.venues)

\* How many documents of S come before e.
Place(e, S) == Cardinality({f \in S : Rank[f] < Rank[e]})

\* CalmIsFound: what is calm is found; while something is, the venues read are the venues.
CalmIsFound ==
  /\ calm \subseteq Found
  /\ walk.filter = "city" /\ walk.at \in {"count", "find", "answered"} /\ calm # {}
       => walk.venues = StoredVenues

\* CountHolds: the count, once made, is past every calm event, and exact while all is still.
CountHolds ==
  walk.at \in {"find", "answered"} =>
    /\ walk.total <= Cardinality(Events)
    /\ \A e \in calm : Place(e, Found) < walk.total
    /\ still => walk.total = Cardinality(Queried)

\* PageHolds: an answer has the page it was asked for, if its skip fits.
PageHolds ==
  walk.at = "answered" /\ walk.number * walk.size < Limit
    => walk.page = Slice(Sorted(Queried), walk.number * walk.size, walk.size)

\* Places that the pages read so far have passed.
Passed    == (IF walk.at = "answered" THEN walk.number + 1 ELSE walk.number) * walk.size
Occurs(e) == {i \in DOMAIN walk.seen : walk.seen[i] = e}

\* SeenSoFar: a walk from the first page has seen the calm events it has passed, each
\* once, and no other calm event.
SeenSoFar ==
  walk.whole /\ walk.at \notin {"idle", "failed", "done"} =>
    /\ walk.number * walk.size < Limit
    /\ \A e \in calm : IF Place(e, Found) < Passed THEN \E i \in DOMAIN walk.seen : Occurs(e) = {i}
                                                  ELSE Occurs(e) = {}

WalkInv == WalkFits /\ CalmIsFound /\ CountHolds /\ PageHolds /\ SeenSoFar
=============================================================================
