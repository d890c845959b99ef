-------------------------- MODULE CatalogueProofs ---------------------------
(***************************************************************************)
(* The guards of the catalogue, proved for every set of documents, every   *)
(* number of requests and any of them at the same time.                    *)
(*                                                                         *)
(* NoOrphans is not inductive: when a deletion removes its document, that  *)
(* nobody refers to it was found out by earlier queries, one a collection. *)
(* LookedAt carries what they found from each query to the removal, and    *)
(* GuardsCover says that no collection was left out.                       *)
(***************************************************************************)
EXTENDS Catalogue, TLAPS

References == NoOrphans /\ LookedAt

-----------------------------------------------------------------------------
(***************************************************************************)
(* The guards and the references they are for.                             *)
(***************************************************************************)

\* Only bookings can be deleted unasked; nothing refers to them.
LEMMA GuardsExist ==
  ASSUME NEW k \in Kinds, k # "booking"
  PROVE  Len(Guards(k)) \in Nat \ {0}
BY DEF Kinds, Guards

\* Every collection whose documents can name one of kind ky is queried before a
\* document of kind ky is deleted.
LEMMA GuardsCover ==
  ASSUME NEW kx \in Kinds, NEW ky \in MayRefer(kx)
  PROVE  \E i \in 1 .. Len(Guards(ky)) : Guards(ky)[i] = kx
<1>1. CASE kx = "event"
  BY <1>1 DEF Guards, MayRefer
<1>2. CASE kx = "attraction"
  <2>1. ky = "classification"
    BY <1>2 DEF MayRefer
  <2>2. Guards(ky) = <<"event", "attraction">>
    BY <2>1 DEF Guards
  <2> QED
    BY <1>2, <2>2
<1>3. CASE kx = "booking"
  BY <1>3 DEF Guards, MayRefer
<1>4. CASE kx \in Kinds \ {"event", "attraction", "booking"}
  BY <1>4 DEF Kinds, MayRefer
<1> QED
  BY <1>1, <1>2, <1>3, <1>4

LEMMA KindsOfIds ==
  ASSUME NEW x \in Ids
  PROVE  Kind[x] \in Kinds
BY CatalogueAssumption

\* A handler that stops, or goes on with anything but a deletion, has
\* overlooked nothing that was not overlooked before.
LEMMA OverlooksNoMore ==
  ASSUME TypeOK, NEW p \in Procs, NEW j, Becomes(p, j), j.at \notin {"check", "remove"}
  PROVE  \A x, y \in Ids : Overlooked(x, y)' => Overlooked(x, y)
<1> SUFFICES ASSUME NEW x \in Ids, NEW y \in Ids, NEW q \in Procs,
                    job'[q].id = y,
                    \/ job'[q].at = "remove"
                    \/ job'[q].at = "check" /\ \E i \in 1 .. (job'[q].n - 1) : Guards(Kind[y])[i] = Kind[x]
             PROVE  Overlooked(x, y)
  BY DEF Overlooked, At
<1>1. job \in [Procs -> Job]
  BY DEF TypeOK
<1>2. q # p
  BY <1>1 DEF Becomes
<1>3. job'[q] = job[q]
  BY <1>1, <1>2 DEF Becomes
<1> QED
  BY <1>3 DEF Overlooked, At

\* A write that begins no reference, deletes nothing and overlooks nothing.
LEMMA NothingNew ==
  ASSUME References,
         \A x, y \in Ids : Refers(x, y)' => Refers(x, y),
         \A x, y \in Ids : Overlooked(x, y)' => Overlooked(x, y),
         \A x, y \in Ids : Refers(x, y) /\ doc'[y] = "deleted" => doc[y] = "deleted",
         late \subseteq late'
  PROVE  References'
BY DEF References, NoOrphans, LookedAt

\* A document that starts to name ys, with all that is too late noted.
LEMMA NotedInTime ==
  ASSUME References, NEW z \in Ids, NEW ys, NoteLate(z, ys),
         \A x, y \in Ids : Refers(x, y)' => Refers(x, y) \/ (x = z /\ y \in ys),
         \A x, y \in Ids : Overlooked(x, y)' => Overlooked(x, y),
         \A y \in Ids : doc'[y] = "deleted" => doc[y] = "deleted"
  PROVE  References'
BY DEF References, NoOrphans, LookedAt, NoteLate

-----------------------------------------------------------------------------
(***************************************************************************)
(* Typing.                                                                 *)
(***************************************************************************)

\* What one write to the documents and one change of a handler may do.
Documents ==
  /\ doc \in [Ids -> {"unused", "stored", "deleted"}]
  /\ refs \in [Ids -> SUBSET Ids]
  /\ \A x \in Ids : \A y \in refs[x] : Kind[y] \in MayRefer(Kind[x])
  /\ status \in [Bookings -> {"none", "running", "lapsed", "confirmed", "admitted", "over"}]
  /\ \A b \in Bookings : /\ doc[b] = "unused" <=> status[b] = "none"
                         /\ doc[b] = "deleted" => status[b] = "over"

Handlers ==
  /\ job \in [Procs -> Job]
  /\ \A p \in Procs : JobFits(job[p])

Histories == requests \in 0 .. MaxRequests /\ late \subseteq Ids \X Ids

LEMMA TypeParts == TypeOK <=> Documents /\ Handlers /\ Histories
BY DEF TypeOK, Documents, Handlers, Histories

LEMMA HandlerBecomes ==
  ASSUME Handlers, NEW p \in Procs, NEW j \in Job, JobFits(j), Becomes(p, j)
  PROVE  Handlers'
BY DEF Handlers, Becomes, JobFits

LEMMA IdleFits == Idle \in Job /\ JobFits(Idle)
BY CatalogueAssumption DEF Idle, Job, JobFits

LEMMA HandlerEnds ==
  ASSUME Handlers, NEW p \in Procs, Ends(p)
  PROVE  Handlers'
BY HandlerBecomes, IdleFits DEF Ends

LEMMA Counted ==
  ASSUME Histories, requests < MaxRequests, requests' = requests + 1, UNCHANGED late
  PROVE  Histories'
BY CatalogueAssumption DEF Histories

LEMMA Noted ==
  ASSUME late \subseteq Ids \X Ids, NEW x \in Ids, NEW ys \in SUBSET Ids, NoteLate(x, ys)
  PROVE  late' \subseteq Ids \X Ids
BY DEF NoteLate

LEMMA SameDocuments ==
  ASSUME Documents, UNCHANGED <<doc, refs, status>>
  PROVE  Documents'
BY DEF Documents, Bookings

LEMMA BodiesFit ==
  ASSUME NEW x \in Ids, NEW body \in Bodies(x)
  PROVE  body \in SUBSET Ids /\ \A y \in body : Kind[y] \in MayRefer(Kind[x])
BY DEF Bodies

\* A handler that only reads, and goes on.
LEMMA Reading ==
  ASSUME Documents, Handlers, Histories, NEW p \in Procs, NEW j \in Job, JobFits(j),
         \/ Begin(p, j)
         \/ Becomes(p, j) /\ UNCHANGED requests,
         UNCHANGED <<doc, refs, status, late>>
  PROVE  TypeOK'
<1>1. Becomes(p, j)
  BY DEF Begin
<1>2. Histories'
  BY Counted DEF Begin, Histories
<1> QED
  BY <1>1, <1>2, HandlerBecomes, SameDocuments, TypeParts DEF TypeOK, Documents, Handlers, Histories

LEMMA TypingInit == Init => TypeOK
<1> SUFFICES ASSUME Init PROVE TypeOK
  OBVIOUS
<1>1. Documents
  BY CatalogueAssumption DEF Init, Documents, Bookings
<1>2. Handlers
  BY IdleFits DEF Init, Handlers
<1>3. Histories
  BY CatalogueAssumption DEF Init, Histories
<1> QED
  BY <1>1, <1>2, <1>3, TypeParts

\* The steps that look a document up.
LEMMA TypingOfLookups ==
  ASSUME TypeOK, NEW p \in Procs, NEW x \in Ids,
         EditRead(p, x) \/ DeleteStart(p, x) \/ BookAuth(p, x) \/ BookReserve(p, x)
  PROVE  TypeOK'
<1>0. /\ Documents /\ Handlers /\ Histories
      /\ job[p] \in Job /\ JobFits(job[p])
  BY TypeParts DEF Handlers
<1>1. CASE EditRead(p, x)
  <2> DEFINE j == [Idle EXCEPT !.at = "replace", !.id = x]
  <2>1. j \in Job /\ JobFits(j)
    BY <1>1, IdleFits DEF EditRead, Idle, Job, JobFits
  <2> QED
    BY <1>0, <1>1, <2>1, Reading DEF EditRead
<1>2. CASE DeleteStart(p, x)
  <2> DEFINE j == [Idle EXCEPT !.at = "check", !.id = x, !.n = 1]
  <2>1. 1 \in 1 .. Len(Guards(Kind[x]))
    BY <1>2, GuardsExist, KindsOfIds DEF DeleteStart
  <2>2. j.at = "check" /\ j.id = x /\ j.n = 1
    BY DEF Idle
  <2>3. j \in Job
    BY IdleFits DEF Job
  <2>4. JobFits(j)
    BY <1>2, <2>1, <2>2 DEF DeleteStart, JobFits
  <2>5. Begin(p, j) /\ UNCHANGED <<doc, refs, status, late>>
    BY <1>2 DEF DeleteStart
  <2> HIDE DEF j
  <2> QED
    BY <1>0, <2>3, <2>4, <2>5, Reading
<1>3. CASE BookAuth(p, x)
  <2> DEFINE j == [Idle EXCEPT !.at = "reserve", !.id = x]
  <2>1. j \in Job /\ JobFits(j)
    BY <1>3, IdleFits DEF BookAuth, Idle, Job, JobFits
  <2> QED
    BY <1>0, <1>3, <2>1, Reading DEF BookAuth
<1>4. CASE BookReserve(p, x)
  <2> DEFINE j == [job[p] EXCEPT !.at = "insert", !.event = x]
  <2>1. j \in Job /\ JobFits(j)
    BY <1>0, <1>4 DEF BookReserve, At, Job, JobFits
  <2> QED
    BY <1>0, <1>4, <2>1, Reading DEF BookReserve
<1> QED
  BY <1>1, <1>2, <1>3, <1>4

\* The other steps of a handler that write nothing.
LEMMA TypingOfReads ==
  ASSUME TypeOK, NEW p \in Procs,
         EditMisses(p) \/ DeleteCheck(p) \/ DeleteRefused(p) \/ BookRefused(p) \/ Abort(p)
  PROVE  TypeOK'
<1>0. /\ Documents /\ Handlers /\ Histories
      /\ job[p] \in Job /\ JobFits(job[p])
  BY TypeParts DEF Handlers
<1>1. CASE DeleteCheck(p)
  <2> DEFINE guards == Guards(Kind[job[p].id])
             j == IF job[p].n < Len(guards) THEN [job[p] EXCEPT !.n = @ + 1]
                                            ELSE [job[p] EXCEPT !.at = "remove"]
  <2>1. /\ job[p].at = "check" /\ job[p].id \in Ids
        /\ Kind[job[p].id] # "booking" /\ job[p].n \in 1 .. Len(guards)
    BY <1>0, <1>1 DEF DeleteCheck, At, JobFits
  <2>2. Len(guards) \in Nat
    BY <2>1, GuardsExist, KindsOfIds
  <2> HIDE DEF guards
  <2>3. j \in Job
    BY <1>0, <2>1, <2>2 DEF Job
  <2>4. /\ j.id = job[p].id
        /\ j.at \in {"check", "remove"}
        /\ j.at = "check" => j.n \in 1 .. Len(guards)
    BY <1>0, <2>1, <2>2 DEF Job
  <2>5. JobFits(j)
    BY <2>1, <2>4 DEF JobFits, guards
  <2>6. Becomes(p, j) /\ UNCHANGED <<doc, refs, status, requests, late>>
    BY <1>1 DEF DeleteCheck, guards
  <2> HIDE DEF j
  <2> QED
    BY <1>0, <2>3, <2>5, <2>6, Reading
<1>2. CASE EditMisses(p) \/ DeleteRefused(p) \/ BookRefused(p) \/ Abort(p)
  BY <1>0, <1>2, IdleFits, Reading DEF EditMisses, DeleteRefused, BookRefused, Abort, Ends
<1> QED
  BY <1>1, <1>2

LEMMA TypingOfCreate ==
  ASSUME TypeOK, NEW x \in Ids, NEW body \in Bodies(x), Create(x, body)
  PROVE  TypeOK'
<1>0. Documents /\ Handlers /\ Histories
  BY TypeParts
<1>1. Documents'
  BY <1>0, BodiesFit DEF Create, Documents, Bookings
<1>2. Handlers'
  BY <1>0 DEF Create, Handlers, JobFits
<1>3. Histories'
  BY <1>0, BodiesFit, Noted, CatalogueAssumption DEF Create, Histories
<1> QED
  BY <1>1, <1>2, <1>3, TypeParts DEF TypeOK, Documents, Handlers, Histories

\* The steps that write.
LEMMA TypingOfWrites ==
  ASSUME TypeOK, NEW p \in Procs,
         \/ \E body \in Bodies(job[p].id) : EditReplace(p, body)
         \/ DeleteRemove(p)
         \/ \E b \in Bookings, holdSeats \in BOOLEAN : BookInsert(p, b, holdSeats)
  PROVE  TypeOK'
<1>0. /\ Documents /\ Handlers /\ Histories
      /\ job[p] \in Job /\ JobFits(job[p])
  BY TypeParts DEF Handlers
<1>1. ASSUME NEW body \in Bodies(job[p].id), EditReplace(p, body) PROVE TypeOK'
  <2>0. job[p].id \in Ids
    BY <1>0, <1>1 DEF EditReplace, At, JobFits
  <2>1. Documents'
    BY <1>0, <1>1, <2>0, BodiesFit DEF EditReplace, Documents, Bookings
  <2>2. Handlers'
    BY <1>0, <1>1, HandlerEnds DEF EditReplace
  <2>3. Histories'
    BY <1>0, <1>1, <2>0, BodiesFit, Noted DEF EditReplace, Histories
  <2> QED
    BY <2>1, <2>2, <2>3, TypeParts DEF TypeOK, Documents, Handlers, Histories
<1>2. ASSUME DeleteRemove(p) PROVE TypeOK'
  <2>0. job[p].id \in Ids \ Bookings
    BY <1>0, <1>2 DEF DeleteRemove, At, JobFits, Bookings
  <2>1. Documents'
    BY <1>0, <1>2, <2>0 DEF DeleteRemove, Documents, Bookings
  <2>2. Handlers'
    BY <1>0, <1>2, HandlerEnds DEF DeleteRemove
  <2>3. Histories'
    BY <1>0, <1>2 DEF DeleteRemove, Histories
  <2> QED
    BY <2>1, <2>2, <2>3, TypeParts DEF TypeOK, Documents, Handlers, Histories
<1>3. ASSUME NEW b \in Bookings, NEW holdSeats \in BOOLEAN, BookInsert(p, b, holdSeats) PROVE TypeOK'
  <2> DEFINE named == {job[p].id, job[p].event}
  <2>0. /\ b \in Ids /\ Kind[b] = "booking"
        /\ named \in SUBSET Ids
        /\ \A y \in named : Kind[y] \in {"event", "user"}
    BY <1>0, <1>3 DEF BookInsert, At, JobFits, Bookings
  <2>1. \A y \in named : Kind[y] \in MayRefer(Kind[b])
    BY <2>0 DEF MayRefer
  <2> HIDE DEF named
  <2>2. Documents'
    <3>1. /\ doc'    = [doc EXCEPT ![b] = "stored"]
          /\ refs'   = [refs EXCEPT ![b] = named]
          /\ status' = [status EXCEPT ![b] = IF holdSeats THEN "running" ELSE "confirmed"]
      BY <1>3 DEF BookInsert, named
    <3> QED
      BY <1>0, <2>0, <2>1, <3>1 DEF Documents, Bookings
  <2>3. Handlers'
    BY <1>0, <1>3, HandlerEnds DEF BookInsert
  <2>4. Histories'
    <3>1. NoteLate(b, named) /\ UNCHANGED requests
      BY <1>3 DEF BookInsert, named
    <3> QED
      BY <1>0, <2>0, <3>1, Noted DEF Histories
  <2> QED
    BY <2>2, <2>3, <2>4, TypeParts DEF TypeOK, Documents, Handlers, Histories
<1> QED
  BY <1>1, <1>2, <1>3

LEMMA TypingOfBookings ==
  ASSUME TypeOK, NEW b \in Bookings, BookingStep(b)
  PROVE  TypeOK'
<1>0. /\ Documents /\ Handlers /\ Histories
      /\ b \in Ids /\ refs[b] \in SUBSET Ids
  BY TypeParts DEF Documents, Bookings
<1>1. Documents'
  <2>1. CASE HoldLapses(b)
    BY <1>0, <2>1 DEF HoldLapses, Documents, Bookings
  <2>2. CASE MarkPaid(b)
    BY <1>0, <2>2 DEF MarkPaid, Documents, Bookings
  <2>3. CASE Scan(b)
    BY <1>0, <2>3 DEF Scan, Documents, Bookings
  <2>4. CASE BookingEnds(b)
    BY <1>0, <2>4 DEF BookingEnds, Documents, Bookings
  <2>5. CASE BookingErased(b)
    BY <1>0, <2>5 DEF BookingErased, Documents, Bookings
  <2> QED
    BY <2>1, <2>2, <2>3, <2>4, <2>5 DEF BookingStep
<1>2. Handlers' /\ UNCHANGED requests
  BY <1>0 DEF BookingStep, HoldLapses, MarkPaid, Scan, BookingEnds, BookingErased, Handlers, JobFits
<1>3. Histories'
  BY <1>0, <1>2, Noted DEF BookingStep, HoldLapses, MarkPaid, Scan, BookingEnds, BookingErased, Histories
<1> QED
  BY <1>1, <1>2, <1>3, TypeParts DEF TypeOK, Documents, Handlers, Histories


\* The steps of Next, one by one.
LEMMA NextSteps ==
  ASSUME Next
  PROVE  \/ \E x \in Ids : \E body \in Bodies(x) : Create(x, body)
         \/ \E p \in Procs, x \in Ids :
              EditRead(p, x) \/ DeleteStart(p, x) \/ BookAuth(p, x) \/ BookReserve(p, x)
         \/ \E p \in Procs :
              EditMisses(p) \/ DeleteCheck(p) \/ DeleteRefused(p) \/ BookRefused(p) \/ Abort(p)
         \/ \E p \in Procs :
              \/ \E body \in Bodies(job[p].id) : EditReplace(p, body)
              \/ DeleteRemove(p)
              \/ \E b \in Bookings, holdSeats \in BOOLEAN : BookInsert(p, b, holdSeats)
         \/ \E b \in Bookings : BookingStep(b)
BY DEF Next, RequestStep

LEMMA TypingStep == TypeOK /\ [Next]_vars => TypeOK'
<1> SUFFICES ASSUME TypeOK, [Next]_vars PROVE TypeOK'
  OBVIOUS
<1>1. CASE UNCHANGED vars
  BY <1>1 DEF vars, TypeOK, JobFits, Bookings
<1>2. CASE Next
  BY <1>2, NextSteps, TypingOfCreate, TypingOfLookups, TypingOfReads, TypingOfWrites,
     TypingOfBookings
<1> QED
  BY <1>1, <1>2

\* TypeOK holds in every state: whatever requests come, and wherever they
\* stop, documents name only documents of the collections their fields are
\* for, a deleted booking stays over, and a handler works on what it looked up.
THEOREM Typing == Spec => []TypeOK
BY TypingInit, TypingStep, PTL DEF Spec

-----------------------------------------------------------------------------
(***************************************************************************)
(* No orphans.                                                             *)
(***************************************************************************)

LEMMA ReferencesInit == Init => References
BY CatalogueAssumption DEF Init, References, NoOrphans, LookedAt, Refers, Stored, Overlooked, At, Idle

\* Handlers that stop, or go on with anything but a deletion.
LEMMA ReferencesOfOthers ==
  ASSUME TypeOK, References, NEW p \in Procs, NEW j, Becomes(p, j), j.at \notin {"check", "remove"},
         UNCHANGED <<doc, refs, status, late>>
  PROVE  References'
<1>1. \A x, y \in Ids : Overlooked(x, y)' => Overlooked(x, y)
  BY OverlooksNoMore
<1>2. \A x, y \in Ids : Refers(x, y)' => Refers(x, y)
  BY DEF Refers, Stored, ActivelyHeld
<1> QED
  BY <1>1, <1>2, NothingNew

LEMMA ReferencesOfLookups ==
  ASSUME TypeOK, References, NEW p \in Procs, NEW x \in Ids,
         EditRead(p, x) \/ DeleteStart(p, x) \/ BookAuth(p, x) \/ BookReserve(p, x)
  PROVE  References'
<1>0. job \in [Procs -> Job] /\ Idle \in Job
  BY IdleFits DEF TypeOK
<1>1. CASE EditRead(p, x)
  <2> DEFINE j == [Idle EXCEPT !.at = "replace", !.id = x]
  <2>1. j.at = "replace"
    BY DEF Idle
  <2> QED
    BY <1>1, <2>1, ReferencesOfOthers DEF EditRead, Begin
<1>2. CASE DeleteStart(p, x)
  <2>1. job'[p].at = "check" /\ job'[p].n = 1
    BY <1>0, <1>2 DEF DeleteStart, Begin, Becomes, Idle
  <2>2. \A q \in Procs \ {p} : job'[q] = job[q]
    BY <1>0, <1>2 DEF DeleteStart, Begin, Becomes
  <2>3. \A y, z \in Ids : Overlooked(y, z)' => Overlooked(y, z)
    BY <2>1, <2>2 DEF Overlooked, At
  <2>4. \A y, z \in Ids : Refers(y, z)' => Refers(y, z)
    BY <1>2 DEF DeleteStart, Refers, Stored, ActivelyHeld
  <2> QED
    BY <1>2, <2>3, <2>4, NothingNew DEF DeleteStart
<1>3. CASE BookAuth(p, x)
  <2> DEFINE j == [Idle EXCEPT !.at = "reserve", !.id = x]
  <2>1. j.at = "reserve"
    BY DEF Idle
  <2> QED
    BY <1>3, <2>1, ReferencesOfOthers DEF BookAuth, Begin
<1>4. CASE BookReserve(p, x)
  <2> DEFINE j == [job[p] EXCEPT !.at = "insert", !.event = x]
  <2>1. j.at = "insert"
    BY <1>0 DEF Job
  <2> QED
    BY <1>4, <2>1, ReferencesOfOthers DEF BookReserve
<1> QED
  BY <1>1, <1>2, <1>3, <1>4

\* A guard that finds nobody: what the deletion overlooks from now on was
\* overlooked before, or would have been found.
LEMMA ReferencesOfCheck ==
  ASSUME TypeOK, References, NEW p \in Procs, DeleteCheck(p)
  PROVE  References'
<1> DEFINE y == job[p].id
           n == job[p].n
           guards == Guards(Kind[y])
<1>1. /\ job \in [Procs -> Job] /\ job[p].at = "check"
      /\ y \in Ids /\ Kind[y] # "booking" /\ n \in 1 .. Len(guards)
  BY DEF TypeOK, DeleteCheck, At, JobFits
<1>2. \A x \in Ids : Kind[x] = guards[n] => ~Refers(x, y)
  BY DEF DeleteCheck, InUse
<1>3. Len(guards) \in Nat
  BY <1>1, GuardsExist, KindsOfIds
<1>4. /\ job'[p].id = y
      /\ job'[p].at = "check"  => job'[p].n = n + 1
      /\ job'[p].at = "remove" => n = Len(guards)
      /\ \A q \in Procs \ {p} : job'[q] = job[q]
  <2>1. CASE n < Len(guards)
    <3>1. job' = [job EXCEPT ![p] = [job[p] EXCEPT !.n = n + 1]]
      BY <2>1 DEF DeleteCheck, Becomes
    <3> QED
      BY <1>1, <3>1 DEF Job
  <2>2. CASE ~(n < Len(guards))
    <3>1. job' = [job EXCEPT ![p] = [job[p] EXCEPT !.at = "remove"]]
      BY <2>2 DEF DeleteCheck, Becomes
    <3>2. n = Len(guards)
      BY <1>1, <1>3, <2>2
    <3> QED
      BY <1>1, <3>1, <3>2 DEF Job
  <2> QED
    BY <2>1, <2>2
<1>5. \A x \in Ids : Refers(x, y) => \E i \in 1 .. Len(guards) : guards[i] = Kind[x]
  BY <1>1, KindsOfIds, GuardsCover DEF TypeOK, Refers
<1>6. ASSUME NEW x \in Ids, NEW z \in Ids, Refers(x, z), Overlooked(x, z)'
      PROVE  Overlooked(x, z)
  <2>1. PICK q \in Procs :
          /\ job'[q].id = z
          /\ \/ job'[q].at = "remove"
             \/ job'[q].at = "check" /\ \E i \in 1 .. (job'[q].n - 1) : Guards(Kind[z])[i] = Kind[x]
    BY <1>6 DEF Overlooked, At
  <2>2. CASE q # p
    BY <1>4, <2>1, <2>2 DEF Overlooked, At
  <2>3. CASE q = p
    <3>1. z = y
      BY <1>4, <2>1, <2>3
    <3> HIDE DEF n, guards
    <3>2. PICK i \in 1 .. n : guards[i] = Kind[x]
      <4>1. CASE job'[q].at = "remove"
        BY <1>4, <1>5, <1>6, <2>3, <3>1, <4>1
      <4>2. CASE job'[q].at = "check" /\ \E i \in 1 .. (job'[q].n - 1) : Guards(Kind[z])[i] = Kind[x]
        <5>1. PICK i \in 1 .. (job'[q].n - 1) : guards[i] = Kind[x]
          BY <3>1, <4>2 DEF guards
        <5>2. job'[q].n - 1 = n
          BY <1>1, <1>3, <1>4, <2>3, <4>2
        <5> QED
          BY <5>1, <5>2
      <4> QED
        BY <2>1, <4>1, <4>2
    <3>3. i # n
      BY <1>2, <1>6, <3>1, <3>2
    <3>4. i \in 1 .. (n - 1)
      BY <1>1, <1>3, <3>2, <3>3
    <3> QED
      BY <1>1, <3>1, <3>2, <3>4 DEF Overlooked, At, guards, n
  <2> QED
    BY <2>2, <2>3
<1>7. \A x, z \in Ids : Refers(x, z)' <=> Refers(x, z)
  BY DEF DeleteCheck, Refers, Stored, ActivelyHeld
<1> QED
  BY <1>6, <1>7 DEF References, NoOrphans, LookedAt, DeleteCheck

LEMMA ReferencesOfReads ==
  ASSUME TypeOK, References, NEW p \in Procs,
         EditMisses(p) \/ DeleteCheck(p) \/ DeleteRefused(p) \/ BookRefused(p) \/ Abort(p)
  PROVE  References'
<1>1. CASE EditMisses(p) \/ DeleteRefused(p) \/ BookRefused(p) \/ Abort(p)
  <2>1. Idle.at \notin {"check", "remove"}
    BY DEF Idle
  <2> QED
    BY <1>1, <2>1, ReferencesOfOthers DEF EditMisses, DeleteRefused, BookRefused, Abort, Ends
<1> QED
  BY <1>1, ReferencesOfCheck

LEMMA EndsOverlooksNoMore ==
  ASSUME TypeOK, NEW p \in Procs, Ends(p)
  PROVE  \A x, y \in Ids : Overlooked(x, y)' => Overlooked(x, y)
<1>1. Idle.at \notin {"check", "remove"}
  BY DEF Idle
<1> QED
  BY <1>1, OverlooksNoMore DEF Ends

LEMMA SameOverlooked ==
  ASSUME UNCHANGED job
  PROVE  \A x, y \in Ids : Overlooked(x, y)' => Overlooked(x, y)
BY DEF Overlooked, At

LEMMA ReferencesOfCreate ==
  ASSUME TypeOK, References, NEW x \in Ids, NEW body \in Bodies(x), Create(x, body)
  PROVE  References'
<1>1. \A z, y \in Ids : Refers(z, y)' => Refers(z, y) \/ (z = x /\ y \in body)
  BY DEF TypeOK, Create, Refers, Stored, ActivelyHeld
<1>2. \A y \in Ids : doc'[y] = "deleted" => doc[y] = "deleted"
  BY DEF TypeOK, Create
<1> QED
  BY <1>1, <1>2, SameOverlooked, NotedInTime DEF Create

LEMMA ReferencesOfWrites ==
  ASSUME TypeOK, References, NEW p \in Procs,
         \/ \E body \in Bodies(job[p].id) : EditReplace(p, body)
         \/ DeleteRemove(p)
         \/ \E b \in Bookings, holdSeats \in BOOLEAN : BookInsert(p, b, holdSeats)
  PROVE  References'
<1>1. ASSUME NEW body \in Bodies(job[p].id), EditReplace(p, body) PROVE References'
  <2>1. job[p].id \in Ids
    BY <1>1 DEF TypeOK, EditReplace, At, JobFits
  <2>2. \A z, y \in Ids : Refers(z, y)' => Refers(z, y) \/ (z = job[p].id /\ y \in body)
    BY <1>1 DEF TypeOK, EditReplace, Refers, Stored, ActivelyHeld
  <2> QED
    BY <1>1, <2>1, <2>2, EndsOverlooksNoMore, NotedInTime DEF EditReplace
<1>2. ASSUME DeleteRemove(p) PROVE References'
  <2> DEFINE y == job[p].id
  <2>1. y \in Ids /\ job[p].at = "remove"
    BY <1>2 DEF TypeOK, DeleteRemove, At, JobFits
  <2>2. \A x, z \in Ids : Overlooked(x, z)' => Overlooked(x, z)
    BY <1>2, EndsOverlooksNoMore DEF DeleteRemove
  <2>3. \A x, z \in Ids : Refers(x, z)' => Refers(x, z)
    BY <1>2, <2>1 DEF TypeOK, DeleteRemove, Refers, Stored, ActivelyHeld
  <2>4. \A x \in Ids : Overlooked(x, y)
    BY <2>1 DEF Overlooked, At
  <2>5. \A z \in Ids : doc'[z] = "deleted" => doc[z] = "deleted" \/ z = y
    BY <1>2, <2>1 DEF TypeOK, DeleteRemove
  <2> HIDE DEF y
  <2> QED
    BY <1>2, <2>2, <2>3, <2>4, <2>5 DEF References, NoOrphans, LookedAt, DeleteRemove
<1>3. ASSUME NEW b \in Bookings, NEW holdSeats \in BOOLEAN, BookInsert(p, b, holdSeats) PROVE References'
  <2> DEFINE named == {job[p].id, job[p].event}
  <2>1. b \in Ids
    BY DEF Bookings
  <2>2. /\ doc'    = [doc EXCEPT ![b] = "stored"]
        /\ refs'   = [refs EXCEPT ![b] = named]
        /\ status' = [status EXCEPT ![b] = IF holdSeats THEN "running" ELSE "confirmed"]
        /\ NoteLate(b, named) /\ Ends(p)
    BY <1>3 DEF BookInsert
  <2> HIDE DEF named
  <2>3. \A z, y \in Ids : Refers(z, y)' => Refers(z, y) \/ (z = b /\ y \in named)
    BY <2>1, <2>2 DEF TypeOK, Refers, Stored, ActivelyHeld, Bookings
  <2>4. \A y \in Ids : doc'[y] = "deleted" => doc[y] = "deleted"
    BY <2>1, <2>2 DEF TypeOK
  <2> QED
    BY <2>1, <2>2, <2>3, <2>4, EndsOverlooksNoMore, NotedInTime
<1> QED
  BY <1>1, <1>2, <1>3

LEMMA ReferencesOfBookings ==
  ASSUME TypeOK, References, NEW b \in Bookings, BookingStep(b)
  PROVE  References'
<1>0. b \in Ids /\ Kind[b] = "booking"
  BY DEF Bookings
<1>1. \A x, y \in Ids : Overlooked(x, y)' => Overlooked(x, y)
  BY SameOverlooked DEF BookingStep, HoldLapses, MarkPaid, Scan, BookingEnds, BookingErased
<1>2. CASE MarkPaid(b)
  <2>1. \A z, y \in Ids : Refers(z, y)' => Refers(z, y) \/ (z = b /\ y \in refs[b])
    BY <1>0, <1>2 DEF TypeOK, MarkPaid, Refers, Stored, ActivelyHeld, Bookings
  <2> QED
    BY <1>0, <1>1, <1>2, <2>1, NotedInTime DEF MarkPaid
<1>3. CASE HoldLapses(b) \/ Scan(b) \/ BookingEnds(b)
  <2>1. \A z, y \in Ids : Refers(z, y)' => Refers(z, y)
    BY <1>0, <1>3 DEF TypeOK, HoldLapses, Scan, BookingEnds, Refers, Stored, ActivelyHeld, Bookings
  <2> QED
    BY <1>1, <1>3, <2>1, NothingNew DEF HoldLapses, Scan, BookingEnds
<1>4. CASE BookingErased(b)
  <2>1. \A z, y \in Ids : Refers(z, y)' => Refers(z, y)
    BY <1>0, <1>4 DEF TypeOK, BookingErased, Refers, Stored, ActivelyHeld, Bookings
  <2>2. \A z \in Ids : ~Refers(z, b)
    BY <1>0, KindsOfIds DEF TypeOK, Refers, MayRefer, Kinds
  <2>3. \A z \in Ids : doc'[z] = "deleted" => doc[z] = "deleted" \/ z = b
    BY <1>0, <1>4 DEF TypeOK, BookingErased
  <2> QED
    BY <1>1, <1>4, <2>1, <2>2, <2>3, NothingNew DEF BookingErased
<1> QED
  BY <1>2, <1>3, <1>4 DEF BookingStep

LEMMA ReferencesStep == TypeOK /\ References /\ [Next]_vars => References'
<1> SUFFICES ASSUME TypeOK, References, [Next]_vars PROVE References'
  OBVIOUS
<1>1. CASE UNCHANGED vars
  BY <1>1 DEF vars, References, NoOrphans, LookedAt, Refers, Stored, ActivelyHeld, Overlooked, At
<1>2. CASE Next
  BY <1>2, NextSteps, ReferencesOfCreate, ReferencesOfLookups, ReferencesOfReads,
     ReferencesOfWrites, ReferencesOfBookings
<1> QED
  BY <1>1, <1>2

\* A document that others refer to is deleted only past its guards: whatever
\* requests are served at the same time, and wherever handlers stop, a stored
\* document, or a booking that is held or sold, names a deleted one only if it
\* came to after the guard of that deletion had looked, or later still.
THEOREM GuardedDeletes == Spec => []NoOrphans
<1>1. Init => TypeOK /\ References
  BY TypingInit, ReferencesInit
<1>2. TypeOK /\ References /\ [Next]_vars => (TypeOK /\ References)'
  BY TypingStep, ReferencesStep
<1>3. References => NoOrphans
  BY DEF References
<1> QED
  BY <1>1, <1>2, <1>3, PTL DEF Spec
=============================================================================
