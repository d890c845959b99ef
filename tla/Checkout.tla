------------------------------ MODULE Checkout ------------------------------
(***************************************************************************)
(* Paying for a held booking: the charge at the payment provider, the row  *)
(* of the booking, what the buyer has been shown and told, and the mail.   *)
(*                                                                         *)
(* The provider and the buyer act on their own.  Between reading a row,    *)
(* asking the provider and writing the row a handler holds no lock, so the *)
(* hold may be swept, cancelled, erased or paid by a second request.       *)
(* Seat counts are SeatLedger's subject and are left out.                  *)
(***************************************************************************)
EXTENDS Naturals, FiniteSets

CONSTANTS
  Bookings,      \* ids a booking can be given
  Intents,       \* ids the provider can give a charge
  Procs,         \* requests served at the same time
  None,          \* the empty id
  TestProvider,  \* TRUE: PAYMENTS=test, whose charges are always paid
  MayFail        \* can a handler die, a call fail, or a mail be refused?

ASSUME CheckoutAssumption ==
  /\ None \notin Bookings \cup Intents
  /\ TestProvider \in BOOLEAN
  /\ MayFail \in BOOLEAN

VARIABLES
  status,        \* booking -> its stored status, or why there is no row
  lapsed,        \* bookings whose holdExpiresAt is behind the clock
  intentOf,      \* booking -> paymentIntentId
  charge,        \* intent -> the provider's view of it
  chargeFor,     \* intent -> the booking in its metadata
  known,         \* intents whose client secret reached the buyer
  job,           \* process -> what its handler does next, and its local variables
  mails,         \* booking -> confirmations sent
  told,          \* history: bookings whose buyer was answered "paid"
  broken         \* history: bookings a handler failed halfway

vars == <<status, lapsed, intentOf, charge, chargeFor, known, job, mails, told, broken>>

provider == <<charge, chargeFor>>
row      == <<status, lapsed, intentOf>>
history  == <<mails, told, broken>>

(***************************************************************************)
(* A handler's program counter and locals.                                 *)
(***************************************************************************)
Steps == {"idle",
          "mint", "record", "respond",        \* CreateBooking and intentFor
          "verify", "markPaid", "mail",       \* PayBooking
          "claim",                            \* ExpireHolds
          "cancelWrite"}                      \* Cancel

Job  == [at : Steps, booking : Bookings \cup {None}, intent : Intents \cup {None}]
Idle == [at |-> "idle", booking |-> None, intent |-> None]

At(p, step)        == job[p].at = step
Does(p, at, b, i)  == job' = [job EXCEPT ![p] = [at |-> at, booking |-> b, intent |-> i]]
Begin(p, at, b, i) == job[p] = Idle /\ Does(p, at, b, i)
Goes(p, at)        == Does(p, at, job[p].booking, job[p].intent)
Ends(p)            == job' = [job EXCEPT ![p] = Idle]

Rows == {b \in Bookings : status[b] \in {"pending", "confirmed", "cancelled", "expired"}}

Init ==
  /\ status    = [b \in Bookings |-> "none"]
  /\ lapsed    = {}
  /\ intentOf  = [b \in Bookings |-> None]
  /\ charge    = [i \in Intents |-> "unborn"]
  /\ chargeFor = [i \in Intents |-> None]
  /\ known     = {}
  /\ job       = [p \in Procs |-> Idle]
  /\ mails     = [b \in Bookings |-> 0]
  /\ told      = {}
  /\ broken    = {}

-----------------------------------------------------------------------------
(***************************************************************************)
(* CreateBooking with payments on: the hold is placed, then its charge is  *)
(* created, recorded on the row and shown to the buyer.                    *)
(***************************************************************************)

\* The last call of Book.
PlaceHold(p, b) ==
  /\ status[b] = "none"
  /\ status' = [status EXCEPT ![b] = "pending"]
  /\ Begin(p, "mint", b, None)
  /\ UNCHANGED <<lapsed, intentOf, provider, known, history>>

\* The provider registers a charge for the booking.
Registers(i, b) ==
  /\ charge[i] = "unborn"
  /\ charge'    = [charge EXCEPT ![i] = IF TestProvider THEN "paid" ELSE "open"]
  /\ chargeFor' = [chargeFor EXCEPT ![i] = b]

CreateIntent(p, i) ==
  /\ At(p, "mint")
  /\ Registers(i, job[p].booking)
  /\ Does(p, "record", job[p].booking, i)
  /\ UNCHANGED <<row, known, history>>

\* The provider refuses, or its answer is lost: the booking is returned with a
\* paymentError and no charge.
CreateIntentFails(p) ==
  /\ MayFail
  /\ At(p, "mint")
  /\ (\E i \in Intents : Registers(i, job[p].booking)) \/ UNCHANGED provider
  /\ broken' = broken \cup {job[p].booking}
  /\ Ends(p)
  /\ UNCHANGED <<row, known, mails, told>>

\* Slip: a failure to record the charge is logged and the charge shown anyway.
SetPaymentIntentLost(p) ==
  /\ At(p, "record")
  /\ Goes(p, "respond")
  /\ UNCHANGED <<row, provider, known, history>>

\* An update by id alone, which changes nothing once the row is gone.
SetPaymentIntent(p) ==
  LET b == job[p].booking IN
  /\ At(p, "record")
  /\ intentOf' = IF b \in Rows THEN [intentOf EXCEPT ![b] = job[p].intent] ELSE intentOf
  /\ Goes(p, "respond")
  /\ UNCHANGED <<status, lapsed, provider, known, history>>

ShowIntent(p) ==
  /\ At(p, "respond")
  /\ known' = known \cup {job[p].intent}
  /\ Ends(p)
  /\ UNCHANGED <<row, provider, history>>

\* The buyer completes the charge with the provider, at any time.
BuyerPays(i) ==
  /\ i \in known
  /\ charge[i] = "open"
  /\ charge' = [charge EXCEPT ![i] = "paid"]
  /\ UNCHANGED <<row, chargeFor, known, job, history>>

-----------------------------------------------------------------------------
(***************************************************************************)
(* PayBooking.                                                             *)
(***************************************************************************)

\* Slip: a hold with no charge starts one here.
PayReadStarting(p, b) ==
  /\ status[b] = "pending"
  /\ IF intentOf[b] = None THEN Begin(p, "mint", b, None) ELSE Begin(p, "verify", b, intentOf[b])
  /\ UNCHANGED <<row, provider, known, history>>

\* A pending booking that has a charge; without one the answer is 409.
PayRead(p, b) ==
  /\ status[b] = "pending"
  /\ intentOf[b] # None
  /\ Begin(p, "verify", b, intentOf[b])
  /\ UNCHANGED <<row, provider, known, history>>

\* A booking that is confirmed already reads as success.
PayAgain(p, b) ==
  /\ status[b] = "confirmed"
  /\ job[p] = Idle
  /\ told' = told \cup {b}
  /\ UNCHANGED <<row, provider, known, job, mails, broken>>

\* Slip: any answer of the provider is taken for success.
VerifyTrusting(p) ==
  /\ At(p, "verify")
  /\ Goes(p, "markPaid")
  /\ UNCHANGED <<row, provider, known, history>>

Verify(p) ==
  /\ At(p, "verify")
  /\ charge[job[p].intent] = "paid"
  /\ Goes(p, "markPaid")
  /\ UNCHANGED <<row, provider, known, history>>

\* 402: the charge has not completed; 502: the provider did not answer.
VerifyRefuses(p) ==
  /\ At(p, "verify")
  /\ charge[job[p].intent] # "paid" \/ MayFail
  /\ Ends(p)
  /\ UNCHANGED <<row, provider, known, history>>

\* Slip: the status is written without looking at it.
MarkPaidBlind(p) ==
  LET b == job[p].booking IN
  /\ At(p, "markPaid") /\ b \in Rows
  /\ status'   = [status EXCEPT ![b] = "confirmed"]
  /\ lapsed'   = lapsed \ {b}
  /\ intentOf' = [intentOf EXCEPT ![b] = job[p].intent]
  /\ Goes(p, "mail")
  /\ UNCHANGED <<provider, known, history>>

\* Slip: the deadline of the hold is left on the paid booking.
MarkPaidKeepsDeadline(p) ==
  LET b == job[p].booking IN
  /\ At(p, "markPaid") /\ status[b] = "pending"
  /\ status' = [status EXCEPT ![b] = "confirmed"]
  /\ Goes(p, "mail")
  /\ UNCHANGED <<lapsed, intentOf, provider, known, history>>

\* Slip: a hold past its deadline is refused here too.
MarkPaidInTime(p) ==
  LET b == job[p].booking IN
  /\ At(p, "markPaid") /\ status[b] = "pending"
  /\ IF b \in lapsed THEN Ends(p) /\ UNCHANGED row
     ELSE /\ Goes(p, "mail")
          /\ status' = [status EXCEPT ![b] = "confirmed"]
          /\ UNCHANGED <<lapsed, intentOf>>
  /\ UNCHANGED <<provider, known, history>>

\* One conditional update: pending, whatever its deadline, becomes confirmed.
MarkPaid(p) ==
  LET b == job[p].booking IN
  /\ At(p, "markPaid")
  /\ status[b] = "pending"
  /\ status'   = [status EXCEPT ![b] = "confirmed"]
  /\ lapsed'   = lapsed \ {b}
  /\ intentOf' = [intentOf EXCEPT ![b] = job[p].intent]
  /\ Goes(p, "mail")
  /\ UNCHANGED <<provider, known, history>>

\* The booking stopped being pending since it was read: 409, or 404.
MarkPaidRefused(p) ==
  /\ At(p, "markPaid")
  /\ status[job[p].booking] # "pending"
  /\ Ends(p)
  /\ UNCHANGED <<row, provider, known, history>>

\* BookingConfirmed, whose failure is logged and swallowed, then the answer.
Mail(p) ==
  LET b == job[p].booking IN
  /\ At(p, "mail")
  /\ \/ mails' = [mails EXCEPT ![b] = @ + 1] /\ UNCHANGED broken
     \/ MayFail /\ broken' = broken \cup {b} /\ UNCHANGED mails
  /\ told' = told \cup {b}
  /\ Ends(p)
  /\ UNCHANGED <<row, provider, known>>

-----------------------------------------------------------------------------
(***************************************************************************)
(* What else may happen to the hold.                                       *)
(***************************************************************************)

HoldLapses(b) ==
  /\ status[b] = "pending"
  /\ b \notin lapsed
  /\ lapsed' = lapsed \cup {b}
  /\ UNCHANGED <<status, intentOf, provider, known, job, history>>

SweepFind(p, b) ==
  /\ status[b] = "pending"
  /\ b \in lapsed
  /\ Begin(p, "claim", b, None)
  /\ UNCHANGED <<row, provider, known, history>>

\* Slip: the sweep expires what it found, paid for since or not.
SweepClaimBlind(p) ==
  LET b == job[p].booking IN
  /\ At(p, "claim")
  /\ status' = [status EXCEPT ![b] = IF b \in Rows THEN "expired" ELSE @]
  /\ lapsed' = lapsed \ {b}
  /\ Ends(p)
  /\ UNCHANGED <<intentOf, provider, known, history>>

\* Only a booking that is still pending is claimed.
SweepClaim(p) ==
  LET b == job[p].booking IN
  /\ At(p, "claim")
  /\ IF status[b] = "pending"
     THEN status' = [status EXCEPT ![b] = "expired"] /\ lapsed' = lapsed \ {b}
     ELSE UNCHANGED <<status, lapsed>>
  /\ Ends(p)
  /\ UNCHANGED <<intentOf, provider, known, history>>

\* Cancel checks the copy it read and writes by id; the deadline stays.
CancelRead(p, b) ==
  /\ status[b] \in {"pending", "confirmed"}
  /\ Begin(p, "cancelWrite", b, None)
  /\ UNCHANGED <<row, provider, known, history>>

CancelWrite(p) ==
  LET b == job[p].booking IN
  /\ At(p, "cancelWrite")
  /\ status' = IF b \in Rows THEN [status EXCEPT ![b] = "cancelled"] ELSE status
  /\ Ends(p)
  /\ UNCHANGED <<lapsed, intentOf, provider, known, history>>

\* DeleteBooking removes the row, its paymentIntentId with it.
Erase(b) ==
  /\ b \in Rows
  /\ status'   = [status EXCEPT ![b] = "deleted"]
  /\ lapsed'   = lapsed \ {b}
  /\ intentOf' = [intentOf EXCEPT ![b] = None]
  /\ UNCHANGED <<provider, known, job, history>>

\* The process dies, or a database call fails, between two calls.
Abort(p) ==
  /\ MayFail
  /\ ~At(p, "idle")
  /\ broken' = broken \cup {job[p].booking}
  /\ Ends(p)
  /\ UNCHANGED <<row, provider, known, mails, told>>

Arrives(p) ==
  \E b \in Bookings : \/ PlaceHold(p, b) \/ PayRead(p, b) \/ PayAgain(p, b)
                      \/ SweepFind(p, b) \/ CancelRead(p, b)

Continues(p) ==
  \/ \E i \in Intents : CreateIntent(p, i)
  \/ CreateIntentFails(p) \/ SetPaymentIntent(p) \/ ShowIntent(p)
  \/ Verify(p) \/ VerifyRefuses(p) \/ MarkPaid(p) \/ MarkPaidRefused(p) \/ Mail(p)
  \/ SweepClaim(p) \/ CancelWrite(p)

Next ==
  \/ \E p \in Procs : Arrives(p) \/ Continues(p) \/ Abort(p)
  \/ \E i \in Intents : BuyerPays(i)
  \/ \E b \in Bookings : HoldLapses(b) \/ Erase(b)

Spec == Init /\ [][Next]_vars

\* Every handler that has started is scheduled until it returns.
FairSpec == Spec /\ \A p \in Procs : WF_vars(Continues(p))

-----------------------------------------------------------------------------
(***************************************************************************)
(* Properties.                                                             *)
(***************************************************************************)

\* TypeOK: every variable keeps its shape, and only a pending booking, or one
\* that Cancel took from there, has a deadline.
TypeOK ==
  /\ status \in [Bookings -> {"none", "pending", "confirmed", "cancelled", "expired", "deleted"}]
  /\ lapsed \subseteq {b \in Bookings : status[b] \in {"pending", "cancelled"}}
  /\ intentOf \in [Bookings -> Intents \cup {None}]
  /\ charge \in [Intents -> {"unborn", "open", "paid"}]
  /\ chargeFor \in [Intents -> Bookings \cup {None}]
  /\ known \subseteq Intents
  /\ job \in [Procs -> Job]
  /\ mails \in [Bookings -> Nat]
  /\ told \subseteq Bookings
  /\ broken \subseteq Bookings

Working(b, steps) == \E p \in Procs : job[p].at \in steps /\ job[p].booking = b

\* ConfirmedIsPaid: a confirmed booking names a charge that the provider made
\* for this very booking and that has been paid, whatever requests interleave:
\* PayBooking asks the provider and never believes the caller.
ConfirmedIsPaid ==
  \A b \in Bookings : status[b] = "confirmed"
    => /\ intentOf[b] \in Intents
       /\ charge[intentOf[b]] = "paid"
       /\ chargeFor[intentOf[b]] = b

\* OneChargeShown: the buyer of a booking is never shown two charges, so cannot
\* be made to pay twice: only the request that created the booking makes one.
OneChargeShown ==
  \A i, j \in known : chargeFor[i] = chargeFor[j] => i = j

\* ShownIsRecorded: a charge the buyer can pay is recorded on the booking's row
\* as long as there is one, so money taken for a hold that expired or was
\* cancelled can be traced to it: paymentIntentId is "the only handle linking a
\* booking to money".
ShownIsRecorded ==
  \A i \in known : intentOf[chargeFor[i]] = i \/ status[chargeFor[i]] = "deleted"

\* PaidStaysPaid: a buyer who was answered "paid" never finds the booking
\* pending or expired afterwards, even if its hold had lapsed and a sweep had
\* already read it; only a cancellation or a deletion takes it away.
PaidStaysPaid == \A b \in told : status[b] \in {"confirmed", "cancelled", "deleted"}

\* ConfirmationSent: a confirmed booking has been mailed, or its handler is
\* about to, unless a handler or the mail server failed it; and however many
\* times the pay button is pressed, no booking is mailed twice: the request
\* whose update found it pending sends the mail.
ConfirmationSent ==
  \A b \in Bookings :
    /\ mails[b] <= 1
    /\ status[b] = "confirmed" => mails[b] = 1 \/ Working(b, {"mail"}) \/ b \in broken

\* VerifiedSettles: a payment the provider has vouched for ends with the
\* booking out of the pending state, even past its deadline, unless a handler
\* of that booking died.
VerifiedSettles ==
  \A b \in Bookings : Working(b, {"markPaid"}) ~> (status[b] # "pending" \/ b \in broken)

\* Where a booking with this status is in its life.
Stage(s) == CASE s = "none"                       -> "none"
              [] s = "pending"                    -> "held"
              [] s = "confirmed"                  -> "sold"
              [] s \in {"cancelled", "expired"}   -> "closed"
              [] s = "deleted"                    -> "erased"

Lifecycle == INSTANCE BookingLifecycle
               WITH Modes <- {TRUE}, stage <- [b \in Bookings |-> Stage(status[b])]

\* FollowsLifecycle: the requests of a checkout keep each booking to the life
\* that SeatLedger shows of the requests that move seats: a late payment never
\* revives a booking, and a late sweep never takes a paid one.
FollowsLifecycle == Lifecycle!Spec

-----------------------------------------------------------------------------
(***************************************************************************)
(* What makes the invariants inductive.                                    *)
(***************************************************************************)

\* One charge to a booking, made for it before anything can name it.
Charged ==
  /\ \A i \in Intents : charge[i] = "unborn" <=> chargeFor[i] = None
  /\ \A i, j \in Intents : chargeFor[i] = chargeFor[j] /\ chargeFor[i] # None => i = j
  /\ \A i \in Intents : chargeFor[i] # None => status[chargeFor[i]] # "none"
  /\ \A b \in Bookings : intentOf[b] # None => chargeFor[intentOf[b]] = b
  /\ \A i \in known : chargeFor[i] # None

\* What a handler holds in its locals: a booking that exists or existed, and a
\* charge made for it, which has been paid when the handler is about to say so.
InHand ==
  \A p \in Procs :
    /\ At(p, "idle") <=> job[p].booking = None
    /\ ~At(p, "idle") => status[job[p].booking] # "none"
    /\ job[p].at \in {"record", "respond", "verify", "markPaid"}
         => job[p].intent \in Intents /\ chargeFor[job[p].intent] = job[p].booking
    /\ At(p, "markPaid") => charge[job[p].intent] = "paid"

\* Until the request that created a booking has recorded its charge, nobody can
\* pay for the booking.
Creating ==
  \A p \in Procs : job[p].at \in {"mint", "record"} =>
    /\ intentOf[job[p].booking] = None
    /\ status[job[p].booking] # "confirmed"
    /\ At(p, "mint") => \A i \in Intents : chargeFor[i] # job[p].booking
    /\ \A q \in Procs : job[q].booking = job[p].booking
         => job[q].at \notin {"respond", "verify", "markPaid"}
              /\ (job[q].at \in {"mint", "record"} => q = p)

\* The charge that is about to be shown is on the row.
Recorded ==
  \A p \in Procs : At(p, "respond")
    => \/ intentOf[job[p].booking] = job[p].intent
       \/ status[job[p].booking] = "deleted"

\* One request mails a booking, after it has left the pending state for good.
Mailing ==
  /\ \A p \in Procs : At(p, "mail") => /\ status[job[p].booking] \notin {"pending", "expired"}
                                       /\ mails[job[p].booking] = 0
  /\ \A p, q \in Procs : At(p, "mail") /\ At(q, "mail") /\ job[p].booking = job[q].booking
                           => p = q
  /\ \A b \in Bookings : status[b] \in {"none", "pending"} => mails[b] = 0

-----------------------------------------------------------------------------
(***************************************************************************)
(* What a comment of the code says, and a failing provider refutes.        *)
(***************************************************************************)

\* HoldCanBePaid: "The hold stands and the caller can retry payment" when the
\* charge could not be created: a pending booking whose request has returned
\* has a charge that PayBooking will accept.
HoldCanBePaid ==
  \A b \in Bookings : status[b] = "pending" /\ ~Working(b, {"mint", "record"})
    => intentOf[b] # None
=============================================================================
