------------------------------- MODULE CheckIn -------------------------------
(***************************************************************************)
(* Admission at the door: gates that scan one ticket or flush a batch of   *)
(* queued scans, bookings that are paid, cancelled, expired or erased      *)
(* meanwhile, and instances that start up and give codes to bookings made  *)
(* before codes existed.                                                   *)
(*                                                                         *)
(* A scan is a conditional update, then, when that matched nothing, a      *)
(* second read to say why; the booking can change between the two.  The    *)
(* moment a scan records is left out: only that there is one matters here. *)
(***************************************************************************)
EXTENDS Naturals, Sequences, FiniteSets

CONSTANTS
  Bookings,    \* ids of the bookings
  Legacy,      \* bookings stored without a code
  Gates,       \* check-in requests served at the same time
  Instances,   \* instances that start up
  None,        \* no code, and no booking
  MaxBatch,    \* most scans in one batch (1000 in the code)
  MaxScans,    \* bound: requests the gates send altogether
  MayFail      \* can a database call fail, or its answer be lost?

ASSUME CheckInAssumption ==
  /\ Legacy \subseteq Bookings
  /\ IsFiniteSet(Bookings)
  /\ None \notin Nat \cup Bookings
  /\ MaxBatch \in Nat \ {0}
  /\ MaxScans \in Nat
  /\ MayFail \in BOOLEAN

VARIABLES
  status,      \* booking -> its stored status, or "deleted"
  code,        \* booking -> ticketCode, or None
  scanned,     \* bookings whose checkedInAt is set
  at,          \* gate -> the call its handler makes next
  todo,        \* gate -> codes of the batch still to be processed
  found,       \* gate -> the booking its update matched, or None
  filling,     \* instances between listing the bookings without a code and the end
  uncoded,     \* instance -> bookings it listed and has not written yet
  minted,      \* how many codes were drawn; the n-th code drawn is n
  printed,     \* history: <<booking, code>> that a row held, so a holder may carry
  admitted,    \* history: booking -> times a gate was answered "valid"
  refused,     \* history: <<booking, answer>> of the refusals
  broken,      \* history: bookings a failed call may have left scanned or unscanned
  paidMidScan, \* history: bookings paid between the two calls of a scan
  requests     \* requests so far

vars == <<status, code, scanned, at, todo, found, filling, uncoded, minted, printed,
          admitted, refused, broken, paidMidScan, requests>>

tickets == <<status, code, scanned>>
gates   == <<at, todo, found>>
startup == <<filling, uncoded, minted>>
history == <<printed, admitted, refused, broken, paidMidScan, requests>>

Answers  == {"cancelled", "unpaid", "already_used"}
Statuses == {"pending", "confirmed", "cancelled", "expired", "deleted"}
Rows     == {b \in Bookings : status[b] # "deleted"}

\* The row with this code; codes are unique.
WithCode(c) == {b \in Rows : code[b] = c}

\* What gates can read off a ticket: any code that a row has held.
Scannable == {t[2] : t \in printed}

Batches(S) == UNION {[1 .. n -> S] : n \in 1 .. MaxBatch}

Init ==
  /\ status \in [Bookings -> {"pending", "confirmed"}]
  /\ minted = Cardinality(Bookings \ Legacy)
  /\ \E draw \in [Bookings \ Legacy -> 1 .. minted] :
       /\ \A a, b \in Bookings \ Legacy : draw[a] = draw[b] => a = b
       /\ code = [b \in Bookings |-> IF b \in Legacy THEN None ELSE draw[b]]
       /\ printed = {<<b, draw[b]>> : b \in Bookings \ Legacy}
  /\ scanned     = {}
  /\ at          = [g \in Gates |-> "idle"]
  /\ todo        = [g \in Gates |-> <<>>]
  /\ found       = [g \in Gates |-> None]
  /\ filling     = {}
  /\ uncoded     = [n \in Instances |-> {}]
  /\ admitted    = [b \in Bookings |-> 0]
  /\ refused     = {}
  /\ broken      = {}
  /\ paidMidScan = {}
  /\ requests    = 0

-----------------------------------------------------------------------------
(***************************************************************************)
(* CheckIn and CheckInBulk.  A single scan is a batch of one.              *)
(***************************************************************************)

ScanBatch(g, batch) ==
  /\ requests < MaxScans
  /\ at[g] = "idle"
  /\ at'       = [at EXCEPT ![g] = "update"]
  /\ todo'     = [todo EXCEPT ![g] = batch]
  /\ requests' = requests + 1
  /\ UNCHANGED <<tickets, found, startup, printed, admitted, refused, broken, paidMidScan>>

\* Slip: the loop runs once more than there are scans.
NextScanTooFar(g) ==
  /\ todo'  = [todo EXCEPT ![g] = Tail(@)]
  /\ at'    = [at EXCEPT ![g] = IF Len(todo[g]) > 0 THEN "update" ELSE "idle"]
  /\ found' = [found EXCEPT ![g] = None]

\* This scan is answered; go on with the next one, or answer the request.
NextScan(g) ==
  /\ todo'  = [todo EXCEPT ![g] = Tail(@)]
  /\ at'    = [at EXCEPT ![g] = IF Len(todo[g]) > 1 THEN "update" ELSE "idle"]
  /\ found' = [found EXCEPT ![g] = None]

\* Matches the conditional update: confirmed and not scanned yet.
Admissible(c) == {b \in WithCode(c) : status[b] = "confirmed" /\ b \notin scanned}

\* The update finds b and records the scan.
Records(g, b, next) ==
  /\ scanned' = scanned \cup {b}
  /\ found'   = [found EXCEPT ![g] = b]
  /\ at'      = [at EXCEPT ![g] = next]
  /\ UNCHANGED <<status, code, todo, startup, history>>

\* Slip: the update does not ask whether the ticket was used.
AdmitUsedToo(g) ==
  /\ at[g] = "update"
  /\ \E b \in WithCode(Head(todo[g])) : status[b] = "confirmed" /\ Records(g, b, "admitted")

\* Slip: the scan is recorded and then looked up like a refused one.
AdmitThenLook(g) ==
  /\ at[g] = "update"
  /\ \E b \in Admissible(Head(todo[g])) : Records(g, b, "look")

Admit(g) ==
  /\ at[g] = "update"
  /\ \E b \in Admissible(Head(todo[g])) : Records(g, b, "admitted")

NoMatch(g) ==
  /\ at[g] = "update"
  /\ Admissible(Head(todo[g])) = {}
  /\ at' = [at EXCEPT ![g] = "look"]
  /\ UNCHANGED <<tickets, todo, found, startup, history>>

\* WithEvents succeeds, and the gate is told "valid".
AnswerValid(g) ==
  /\ at[g] = "admitted"
  /\ admitted' = [admitted EXCEPT ![found[g]] = @ + 1]
  /\ NextScan(g)
  /\ UNCHANGED <<tickets, startup, printed, refused, broken, paidMidScan, requests>>

\* Slip: everything that is not cancelled was used.
WhyUnpaidIsUsed(b) == IF status[b] = "cancelled" THEN "cancelled" ELSE "already_used"

\* The switch over the status that the second read finds.
Why(b) ==
  CASE status[b] = "cancelled"              -> "cancelled"
    [] status[b] \in {"pending", "expired"} -> "unpaid"
    [] OTHER                                -> "already_used"

Refuse(g) ==
  LET c == Head(todo[g]) IN
  /\ at[g] = "look"
  /\ refused' = refused \cup {<<b, Why(b)>> : b \in WithCode(c)}
  /\ NextScan(g)
  /\ UNCHANGED <<tickets, startup, printed, admitted, broken, paidMidScan, requests>>

\* The booking gate g is at work on.
Scanning(g) == IF found[g] = None THEN WithCode(Head(todo[g])) ELSE {found[g]}

\* Slip: the first failure ends the batch.
ScanFailsBatch(g) ==
  /\ MayFail
  /\ at[g] # "idle"
  /\ at'     = [at EXCEPT ![g] = "idle"]
  /\ todo'   = [todo EXCEPT ![g] = <<>>]
  /\ found'  = [found EXCEPT ![g] = None]
  /\ broken' = broken \cup Scanning(g)
  /\ UNCHANGED <<tickets, startup, printed, admitted, refused, paidMidScan, requests>>

\* A call fails, and the scan is answered "error" (or, by the second read,
\* "not_found"); the update may have been applied all the same.
ScanFails(g) ==
  /\ MayFail
  /\ at[g] # "idle"
  /\ \/ scanned' = scanned
     \/ at[g] = "update" /\ scanned' = scanned \cup Admissible(Head(todo[g]))
  /\ broken' = broken \cup Scanning(g)
  /\ NextScan(g)
  /\ UNCHANGED <<status, code, startup, printed, admitted, refused, paidMidScan, requests>>

-----------------------------------------------------------------------------
(***************************************************************************)
(* The booking meanwhile: one write to its row each.                       *)
(***************************************************************************)
SecondLook(b) == \E g \in Gates : at[g] = "look" /\ Head(todo[g]) = code[b]

\* MarkPaid.
Pay(b) ==
  /\ status[b] = "pending"
  /\ status'      = [status EXCEPT ![b] = "confirmed"]
  /\ paidMidScan' = IF SecondLook(b) THEN paidMidScan \cup {b} ELSE paidMidScan
  /\ UNCHANGED <<code, scanned, gates, startup, printed, admitted, refused, broken, requests>>

\* The claim of a sweep.
Expire(b) ==
  /\ status[b] = "pending"
  /\ status' = [status EXCEPT ![b] = "expired"]
  /\ UNCHANGED <<code, scanned, gates, startup, history>>

\* Cancel writes by id, over a status that may have moved since it was read.
Cancel(b) ==
  /\ b \in Rows
  /\ status' = [status EXCEPT ![b] = "cancelled"]
  /\ UNCHANGED <<code, scanned, gates, startup, history>>

Erase(b) ==
  /\ b \in Rows
  /\ status' = [status EXCEPT ![b] = "deleted"]
  /\ UNCHANGED <<code, scanned, gates, startup, history>>

-----------------------------------------------------------------------------
(***************************************************************************)
(* EnsureTicketCodes: list the rows without a code, then write them by id. *)
(***************************************************************************)

\* Slip: the listing takes every booking.
FillStartsWithAll(n) ==
  /\ n \notin filling
  /\ filling' = filling \cup {n}
  /\ uncoded' = [uncoded EXCEPT ![n] = Rows]
  /\ UNCHANGED <<tickets, gates, minted, history>>

FillStarts(n) ==
  /\ n \notin filling
  /\ filling' = filling \cup {n}
  /\ uncoded' = [uncoded EXCEPT ![n] = {b \in Rows : code[b] = None}]
  /\ UNCHANGED <<tickets, gates, minted, history>>

FillWrites(n, b) ==
  /\ b \in uncoded[n]
  /\ minted'  = minted + 1
  /\ IF b \in Rows
     THEN code' = [code EXCEPT ![b] = minted'] /\ printed' = printed \cup {<<b, minted'>>}
     ELSE UNCHANGED <<code, printed>>
  /\ uncoded' = [uncoded EXCEPT ![n] = @ \ {b}]
  /\ UNCHANGED <<status, scanned, gates, filling, admitted, refused, broken, paidMidScan, requests>>

Next ==
  \/ \E g \in Gates : \/ Admit(g) \/ NoMatch(g) \/ AnswerValid(g) \/ Refuse(g) \/ ScanFails(g)
                     \/ \E batch \in Batches(Scannable) : ScanBatch(g, batch)
  \/ \E b \in Bookings : Pay(b) \/ Expire(b) \/ Cancel(b) \/ Erase(b)
  \/ \E n \in Instances : FillStarts(n) \/ \E b \in Bookings : FillWrites(n, b)

Spec == Init /\ [][Next]_vars

-----------------------------------------------------------------------------
(***************************************************************************)
(* Properties.                                                             *)
(***************************************************************************)

\* TypeOK: every variable keeps its shape.
TypeOK ==
  /\ status \in [Bookings -> Statuses]
  /\ code \in [Bookings -> (1 .. minted) \cup {None}]
  /\ scanned \subseteq Bookings
  /\ at \in [Gates -> {"idle", "update", "admitted", "look"}]
  /\ found \in [Gates -> Bookings \cup {None}]
  /\ todo \in [Gates -> Batches(1 .. minted) \cup {<<>>}]
  /\ \A g \in Gates : at[g] = "idle" <=> todo[g] = <<>>
  /\ filling \subseteq Instances
  /\ uncoded \in [Instances -> SUBSET Bookings]
  /\ minted \in Nat
  /\ printed \subseteq Bookings \X (1 .. minted)
  /\ admitted \in [Bookings -> Nat]
  /\ refused \subseteq Bookings \X Answers
  /\ broken \subseteq Bookings
  /\ paidMidScan \subseteq Bookings
  /\ requests \in 0 .. MaxScans

\* AdmitOnce: a ticket is answered "valid" at most once, whichever gates scan it
\* together, however often it is in a batch or flushed again, and whatever code
\* it carries by then: "two doors scanning the same ticket at the same instant
\* would otherwise both read unused and both admit".
AdmitOnce == \A b \in Bookings : admitted[b] <= 1

\* ScannedWasAdmitted: a ticket is used up only by the scan that admits its
\* holder, or by one whose gate was told of a failure.
ScannedWasAdmitted ==
  \A b \in scanned : admitted[b] = 1 \/ b \in broken \/ \E g \in Gates : found[g] = b

\* UsedMeansScanned: "already_used" is said only of a ticket that a gate has
\* recorded, or that was paid for between the two calls of a scan.
UsedMeansScanned ==
  \A b \in Bookings : <<b, "already_used">> \in refused => b \in scanned \cup paidMidScan

\* PrintedTicketsScan: the code a holder has been shown stays the code of the
\* booking, except for bookings that were stored without one, which two
\* instances starting together may each give a code.
PrintedTicketsScan ==
  \A t \in printed : t[1] \in Legacy \/ code[t[1]] = t[2]

\* BatchGoesOn: "one database hiccup must not discard the rest of a flush": a
\* step takes no more than one scan off a batch, and the ticket of that scan has
\* then been admitted, refused or reported as failed.
BatchGoesOn ==
  [][\A g \in Gates : at[g] # "idle" /\ todo'[g] # todo[g]
       => /\ todo'[g] = Tail(todo[g])
          /\ \A b \in WithCode(Head(todo[g])) :
               \/ admitted'[b] > admitted[b]
               \/ b \in broken'
               \/ \E why \in Answers : <<b, why>> \in refused']_vars

-----------------------------------------------------------------------------
(***************************************************************************)
(* What makes the invariants inductive.                                    *)
(***************************************************************************)

\* A gate whose update matched holds the one admission of its booking.
Holding ==
  /\ \A g \in Gates : at[g] = "admitted" <=> found[g] # None
  /\ \A g \in Gates : found[g] # None => found[g] \in scanned /\ admitted[found[g]] = 0
  /\ \A g, h \in Gates : found[g] # None /\ found[g] = found[h] => g = h
  /\ \A b \in Bookings : admitted[b] # 0 => b \in scanned

\* A gate that looks again finds a confirmed booking only if it was scanned, or
\* paid for since.
LooksAgain ==
  \A g \in Gates : at[g] = "look" =>
    \A b \in WithCode(Head(todo[g])) :
      status[b] = "confirmed" => b \in scanned \cup paidMidScan

\* Codes differ, and only bookings stored without one are given one.
Coded ==
  /\ \A b \in Bookings \ Legacy : code[b] # None
  /\ \A n \in Instances : uncoded[n] \subseteq Legacy
  /\ \A a, b \in Bookings : code[a] = code[b] /\ code[a] # None => a = b
  /\ \A g \in Gates : at[g] = "admitted" => WithCode(Head(todo[g])) \subseteq {found[g]}

-----------------------------------------------------------------------------
(***************************************************************************)
(* What a comment of the code says, and its interleavings refute.          *)
(***************************************************************************)

\* UsedWasScannedBefore: CheckInUsed is documented as "scanned before".
UsedWasScannedBefore ==
  \A b \in Bookings : <<b, "already_used">> \in refused => b \in scanned
=============================================================================
