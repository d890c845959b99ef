----------------------------- MODULE Catalogue ------------------------------
(***************************************************************************)
(* The documents of the catalogue and who refers to whom.                  *)
(*                                                                         *)
(* Events name a venue, attractions and a classification; attractions name *)
(* a classification; bookings name an event and a user.  MongoDB checks    *)
(* none of it.  What stands between a deletion and an orphan is a guard:   *)
(* one query per collection that could refer to the document, and then, in *)
(* a call of its own, the removal.  Creations and edits check nothing.     *)
(*                                                                         *)
(* What bookings do to the ticket count is SeatLedger's subject: here      *)
(* their handlers are the writes that begin and end a reference.           *)
(***************************************************************************)
EXTENDS Integers, FiniteSets, Sequences

CONSTANTS
  Ids,           \* document ids, over all collections
  Kind,          \* id -> the collection it is for
  Procs,         \* requests served at the same time
  None,          \* the empty id
  Given,         \* documents stored at the start; bookings are confirmed
  GivenRefs,     \* given document -> the ids it names
  MaxRequests,   \* bound: requests that create, edit, delete or book
  MayFail        \* can a handler die, or a database call fail?

Kinds == {"venue", "attraction", "classification", "event", "user", "booking"}

\* The collections a document of kind k names documents of.
MayRefer(k) ==
  CASE k = "event"      -> {"venue", "attraction", "classification"}
    [] k = "attraction" -> {"classification"}
    [] k = "booking"    -> {"event", "user"}
    [] OTHER            -> {}

\* Slip: a classification is looked for among the events only.
GuardsEventsOnly(k) ==
  CASE k \in {"venue", "attraction", "classification"} -> <<"event">>
    [] k \in {"event", "user"}                         -> <<"booking">>
    [] OTHER                                           -> <<>>

\* The collections that the deletion of a k queries, in order.
Guards(k) ==
  CASE k \in {"venue", "attraction"} -> <<"event">>
    [] k = "classification"          -> <<"event", "attraction">>
    [] k \in {"event", "user"}       -> <<"booking">>
    [] OTHER                         -> <<>>

ASSUME CatalogueAssumption ==
  /\ None \notin Ids
  /\ Kind \in [Ids -> Kinds]
  /\ Given \subseteq Ids
  /\ GivenRefs \in [Given -> SUBSET Given]
  /\ \A x \in Given : \A y \in GivenRefs[x] : Kind[y] \in MayRefer(Kind[x])
  /\ MaxRequests \in Nat
  /\ MayFail \in BOOLEAN

VARIABLES
  doc,           \* id -> "unused", "stored" or "deleted"
  refs,          \* id -> the ids its document names
  status,        \* booking -> its status, a pending one split by its deadline
  job,           \* process -> what its handler does next, and its locals
  requests,      \* requests received so far
  late           \* history: references written too late for a guard to see

vars == <<doc, refs, status, job, requests, late>>

Bookings == {x \in Ids : Kind[x] = "booking"}
Stored(x) == doc[x] = "stored"

\* activelyHeld: paid, or held with the deadline still ahead.
ActivelyHeld(b) == status[b] \in {"running", "confirmed", "admitted"}

\* x refers to y in a way that the guard of y's deletion counts.
Refers(x, y) ==
  Stored(x) /\ y \in refs[x] /\ (Kind[x] = "booking" => ActivelyHeld(x))

\* What the body of a request can name: documents that exist or existed, with
\* one venue and one classification at most, and nobody checks which.
Bodies(x) ==
  {s \in SUBSET {y \in Ids : doc[y] # "unused" /\ Kind[y] \in MayRefer(Kind[x])} :
     \A y, z \in s : Kind[y] = Kind[z] => y = z \/ Kind[y] = "attraction"}

Job == [at : {"idle", "replace", "check", "remove", "reserve", "insert"},
        id : Ids \cup {None}, event : Ids \cup {None}, n : Nat]
Idle == [at |-> "idle", id |-> None, event |-> None, n |-> 0]

Becomes(p, j) == job' = [job EXCEPT ![p] = j]
Ends(p)       == Becomes(p, Idle)
At(p, step)   == job[p].at = step
Begin(p, j)   == /\ job[p] = Idle
                 /\ requests < MaxRequests
                 /\ requests' = requests + 1
                 /\ Becomes(p, j)

\* Some deletion of y has looked at the collection of x and has gone on.
Overlooked(x, y) ==
  \E p \in Procs :
    /\ job[p].id = y
    /\ \/ At(p, "remove")
       \/ At(p, "check") /\ \E i \in 1 .. (job[p].n - 1) : Guards(Kind[y])[i] = Kind[x]

\* x starts to refer to ys: too late for those that are gone or about to go.
NoteLate(x, ys) ==
  late' = late \cup {<<x, y>> : y \in {z \in ys : doc[z] = "deleted" \/ Overlooked(x, z)}}

Init ==
  /\ doc      = [x \in Ids |-> IF x \in Given THEN "stored" ELSE "unused"]
  /\ refs     = [x \in Ids |-> IF x \in Given THEN GivenRefs[x] ELSE {}]
  /\ status   = [b \in Bookings |-> IF b \in Given THEN "confirmed" ELSE "none"]
  /\ job      = [p \in Procs |-> Idle]
  /\ requests = 0
  /\ late     = {}

-----------------------------------------------------------------------------
(***************************************************************************)
(* Creating and editing.                                                   *)
(***************************************************************************)

\* A fresh id and one insert.
Create(x, body) ==
  /\ requests < MaxRequests
  /\ requests' = requests + 1
  /\ Kind[x] # "booking"
  /\ doc[x] = "unused"
  /\ doc'  = [doc EXCEPT ![x] = "stored"]
  /\ refs' = [refs EXCEPT ![x] = body]
  /\ NoteLate(x, body)
  /\ UNCHANGED <<status, job>>

\* An edit reads the document, or answers 404.  The body is decoded over the
\* copy: since a body can name anything, the copy adds nothing to Bodies.
EditRead(p, x) ==
  /\ Stored(x)
  /\ MayRefer(Kind[x]) # {} /\ Kind[x] # "booking"
  /\ Begin(p, [Idle EXCEPT !.at = "replace", !.id = x])
  /\ UNCHANGED <<doc, refs, status, late>>

\* Replace overwrites the document that is there ...
EditReplace(p, body) ==
  LET x == job[p].id IN
  /\ At(p, "replace")
  /\ Stored(x)
  /\ refs' = [refs EXCEPT ![x] = body]
  /\ NoteLate(x, body)
  /\ Ends(p)
  /\ UNCHANGED <<doc, status, requests>>

\* ... and never inserts one: ErrNotFound.
EditMisses(p) ==
  /\ At(p, "replace")
  /\ ~Stored(job[p].id)
  /\ Ends(p)
  /\ UNCHANGED <<doc, refs, status, requests, late>>

-----------------------------------------------------------------------------
(***************************************************************************)
(* Deleting: DeleteVenue, DeleteAttraction, DeleteClassification,          *)
(* DeleteEvent and DeleteUser.                                             *)
(***************************************************************************)

DeleteStart(p, x) ==
  /\ Kind[x] # "booking"
  /\ doc[x] # "unused"
  /\ Begin(p, [Idle EXCEPT !.at = "check", !.id = x, !.n = 1])
  /\ UNCHANGED <<doc, refs, status, late>>

\* AnyMatch on the next collection.
InUse(y, k) == \E x \in Ids : Kind[x] = k /\ Refers(x, y)

DeleteCheck(p) ==
  LET y == job[p].id  n == job[p].n IN
  /\ At(p, "check")
  /\ ~InUse(y, Guards(Kind[y])[n])
  /\ Becomes(p, IF n < Len(Guards(Kind[y])) THEN [job[p] EXCEPT !.n = n + 1]
                                            ELSE [job[p] EXCEPT !.at = "remove"])
  /\ UNCHANGED <<doc, refs, status, requests, late>>

\* ErrInUse.
DeleteRefused(p) ==
  LET y == job[p].id IN
  /\ At(p, "check")
  /\ InUse(y, Guards(Kind[y])[job[p].n])
  /\ Ends(p)
  /\ UNCHANGED <<doc, refs, status, requests, late>>

DeleteRemove(p) ==
  LET y == job[p].id IN
  /\ At(p, "remove")
  /\ doc'  = [doc EXCEPT ![y] = "deleted"]
  /\ refs' = [refs EXCEPT ![y] = {}]
  /\ Ends(p)
  /\ UNCHANGED <<status, requests, late>>

-----------------------------------------------------------------------------
(***************************************************************************)
(* Bookings: Book in three calls, and the single writes that move a        *)
(* booking on afterwards.                                                  *)
(***************************************************************************)

\* Auth finds the caller's account.
BookAuth(p, u) ==
  /\ Kind[u] = "user" /\ Stored(u)
  /\ Begin(p, [Idle EXCEPT !.at = "reserve", !.id = u])
  /\ UNCHANGED <<doc, refs, status, late>>

\* The conditional update finds the event, on sale and with seats left ...
BookReserve(p, e) ==
  /\ At(p, "reserve")
  /\ Kind[e] = "event" /\ Stored(e)
  /\ Becomes(p, [job[p] EXCEPT !.at = "insert", !.event = e])
  /\ UNCHANGED <<doc, refs, status, requests, late>>

\* ... or not: ErrNotFound, ErrSoldOut.
BookRefused(p) ==
  /\ At(p, "reserve")
  /\ Ends(p)
  /\ UNCHANGED <<doc, refs, status, requests, late>>

\* The row is inserted, pending when this instance takes payments.
BookInsert(p, b, holdSeats) ==
  LET named == {job[p].id, job[p].event} IN
  /\ At(p, "insert")
  /\ b \in Bookings /\ doc[b] = "unused"
  /\ doc'    = [doc EXCEPT ![b] = "stored"]
  /\ refs'   = [refs EXCEPT ![b] = named]
  /\ status' = [status EXCEPT ![b] = IF holdSeats THEN "running" ELSE "confirmed"]
  /\ NoteLate(b, named)
  /\ Ends(p)
  /\ UNCHANGED requests

\* The clock passes the deadline of a hold.
HoldLapses(b) ==
  /\ status[b] = "running"
  /\ status' = [status EXCEPT ![b] = "lapsed"]
  /\ UNCHANGED <<doc, refs, job, requests, late>>

\* MarkPaid asks for a pending booking, and not for the time: a lapsed hold
\* that no sweep has found is held again.
MarkPaid(b) ==
  /\ status[b] \in {"running", "lapsed"}
  /\ status' = [status EXCEPT ![b] = "confirmed"]
  /\ NoteLate(b, refs[b])
  /\ UNCHANGED <<doc, refs, job, requests>>

\* CheckIn records a scan.
Scan(b) ==
  /\ status[b] = "confirmed"
  /\ status' = [status EXCEPT ![b] = "admitted"]
  /\ UNCHANGED <<doc, refs, job, requests, late>>

\* Cancel, for any booking that holds seats, used or not; or a sweep.
BookingEnds(b) ==
  /\ status[b] \notin {"none", "over"}
  /\ status' = [status EXCEPT ![b] = "over"]
  /\ UNCHANGED <<doc, refs, job, requests, late>>

\* Slip: the booking of a deleted document goes on.
BookingErasedOnly(b) ==
  /\ b \in Bookings /\ Stored(b)
  /\ doc'    = [doc EXCEPT ![b] = "deleted"]
  /\ refs'   = [refs EXCEPT ![b] = {}]
  /\ UNCHANGED <<status, job, requests, late>>

\* DeleteBooking.
BookingErased(b) ==
  /\ b \in Bookings /\ Stored(b)
  /\ doc'    = [doc EXCEPT ![b] = "deleted"]
  /\ refs'   = [refs EXCEPT ![b] = {}]
  /\ status' = [status EXCEPT ![b] = "over"]
  /\ UNCHANGED <<job, requests, late>>

\* A handler dies, or a call fails, and nothing of it is left.
Abort(p) ==
  /\ MayFail
  /\ job[p] # Idle
  /\ Ends(p)
  /\ UNCHANGED <<doc, refs, status, requests, late>>

-----------------------------------------------------------------------------
RequestStep(p) ==
  \/ \E x \in Ids : EditRead(p, x) \/ DeleteStart(p, x) \/ BookAuth(p, x) \/ BookReserve(p, x)
  \/ At(p, "replace") /\ \E body \in Bodies(job[p].id) : EditReplace(p, body)
  \/ EditMisses(p) \/ DeleteCheck(p) \/ DeleteRefused(p) \/ DeleteRemove(p) \/ BookRefused(p)
  \/ \E b \in Bookings, holdSeats \in BOOLEAN : BookInsert(p, b, holdSeats)
  \/ Abort(p)

BookingStep(b) ==
  HoldLapses(b) \/ MarkPaid(b) \/ Scan(b) \/ BookingEnds(b) \/ BookingErased(b)

Next ==
  \/ \E x \in Ids : doc[x] = "unused" /\ \E body \in Bodies(x) : Create(x, body)
  \/ \E p \in Procs : RequestStep(p)
  \/ \E b \in Bookings : BookingStep(b)

Spec == Init /\ [][Next]_vars

-----------------------------------------------------------------------------
(***************************************************************************)
(* Properties.                                                             *)
(***************************************************************************)

JobFits(j) ==
  /\ j.at # "idle" => j.id \in Ids /\ Kind[j.id] # "booking"
  /\ j.at = "check" => j.n \in 1 .. Len(Guards(Kind[j.id]))
  /\ j.at \in {"reserve", "insert"} => Kind[j.id] = "user"
  /\ j.at = "insert" => j.event \in Ids /\ Kind[j.event] = "event"

\* TypeOK: every variable keeps its shape; documents name only documents of
\* the collections their fields are for; a booking has a status from the time
\* it is stored, and a deleted one is over for good; a handler that is past a
\* lookup works on a document of the collection it looked in.
TypeOK ==
  /\ doc \in [Ids -> {"unused", "stored", "deleted"}]
  /\ refs \in [Ids -> SUBSET Ids]
  /\ \A x \in Ids : \A y \in refs[x] : Kind[y] \in MayRefer(Kind[x])
  /\ status \in [Bookings -> {"none", "running", "lapsed", "confirmed", "admitted", "over"}]
  /\ \A b \in Bookings : /\ doc[b] = "unused" <=> status[b] = "none"
                         /\ doc[b] = "deleted" => status[b] = "over"
  /\ job \in [Procs -> Job]
  /\ \A p \in Procs : JobFits(job[p])
  /\ requests \in 0 .. MaxRequests
  /\ late \subseteq Ids \X Ids

\* NoOrphans: "a record still referenced by another record cannot be deleted".
\* The guards keep this for every reference they could have seen, whatever the
\* other requests do: what a stored document names, or a booking that is held
\* or sold, is gone only if it was named after it was gone or after the guard
\* of its deletion had looked at that collection, or by a hold that had lapsed
\* when the guard looked and was paid for all the same.
NoOrphans ==
  \A x, y \in Ids : Refers(x, y) /\ doc[y] = "deleted" => <<x, y>> \in late

\* What makes NoOrphans inductive: a deletion that has looked at a collection
\* has left no unnoticed reference in it behind.
LookedAt ==
  \A x, y \in Ids : Refers(x, y) /\ Overlooked(x, y) => <<x, y>> \in late
=============================================================================
