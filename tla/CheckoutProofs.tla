--------------------------- MODULE CheckoutProofs ---------------------------
(***************************************************************************)
(* Paying for a held booking, proved for any number of bookings, charges   *)
(* and requests, for either kind of provider, failing or not.              *)
(***************************************************************************)
EXTENDS Checkout, TLAPS

-----------------------------------------------------------------------------
(***************************************************************************)
(* Typing.                                                                 *)
(***************************************************************************)

\* A handler that goes on keeps the shape of its locals.
LEMMA JobTyping ==
  ASSUME TypeOK, NEW p \in Procs, NEW at \in Steps, NEW b \in Bookings \cup {None},
         NEW i \in Intents \cup {None}
  PROVE  /\ Does(p, at, b, i) => job' \in [Procs -> Job]
         /\ Ends(p) => job' \in [Procs -> Job]
BY DEF TypeOK, Does, Ends, Idle, Job, Steps

LEMMA InJob ==
  ASSUME TypeOK, NEW p \in Procs
  PROVE  /\ job[p].booking \in Bookings \cup {None}
         /\ job[p].intent \in Intents \cup {None}
         /\ job[p].at \in Steps
BY DEF TypeOK, Job

\* A handler at work has a booking.
LEMMA AtWork ==
  ASSUME TypeOK, InHand, NEW p \in Procs, ~At(p, "idle")
  PROVE  job[p].booking \in Bookings
BY InJob DEF InHand

LEMMA TypingStep == TypeOK /\ InHand /\ [Next]_vars => TypeOK'
<1> SUFFICES ASSUME TypeOK, InHand, [Next]_vars PROVE TypeOK'
  OBVIOUS
<1> USE DEF TypeOK, provider, row, history
<1>1. ASSUME NEW p \in Procs, NEW b \in Bookings,
             \/ PlaceHold(p, b) \/ PayRead(p, b) \/ PayAgain(p, b)
             \/ SweepFind(p, b) \/ CancelRead(p, b)
      PROVE  TypeOK'
  <2>1. job' \in [Procs -> Job]
    BY <1>1 DEF PlaceHold, PayRead, PayAgain, SweepFind, CancelRead, Begin, Does, Job, Steps
  <2> QED
    BY <1>1, <2>1 DEF PlaceHold, PayRead, PayAgain, SweepFind, CancelRead
<1>2. ASSUME NEW p \in Procs, NEW i \in Intents, CreateIntent(p, i) PROVE TypeOK'
  <2>1. job[p].booking \in Bookings \cup {None}
    BY InJob
  <2>2. job' \in [Procs -> Job]
    BY <1>2, <2>1, JobTyping DEF CreateIntent, Steps
  <2> QED
    BY <1>2, <2>1, <2>2 DEF CreateIntent, Registers
<1>3. ASSUME NEW p \in Procs, CreateIntentFails(p) PROVE TypeOK'
  <2>1. job[p].booking \in Bookings
    BY <1>3, AtWork DEF CreateIntentFails, At
  <2>2. job' \in [Procs -> Job]
    BY <1>3, JobTyping DEF CreateIntentFails, Steps
  <2> QED
    BY <1>3, <2>1, <2>2 DEF CreateIntentFails, Registers
<1>4. ASSUME NEW p \in Procs,
             SetPaymentIntent(p) \/ ShowIntent(p) \/ Verify(p) \/ VerifyRefuses(p)
      PROVE  TypeOK'
  <2>1. job[p].booking \in Bookings /\ job[p].intent \in Intents
    BY <1>4, AtWork DEF SetPaymentIntent, ShowIntent, Verify, VerifyRefuses, At, InHand
  <2>2. job' \in [Procs -> Job]
    BY <1>4, <2>1, JobTyping DEF SetPaymentIntent, ShowIntent, Verify, VerifyRefuses, Goes, Steps
  <2> QED
    BY <1>4, <2>1, <2>2 DEF SetPaymentIntent, ShowIntent, Verify, VerifyRefuses
<1>5. ASSUME NEW p \in Procs, MarkPaid(p) \/ MarkPaidRefused(p) PROVE TypeOK'
  <2>1. job[p].booking \in Bookings /\ job[p].intent \in Intents
    BY <1>5, AtWork DEF MarkPaid, MarkPaidRefused, At, InHand
  <2>2. job' \in [Procs -> Job]
    BY <1>5, <2>1, JobTyping DEF MarkPaid, MarkPaidRefused, Goes, Steps
  <2> QED
    BY <1>5, <2>1, <2>2 DEF MarkPaid, MarkPaidRefused
<1>6. ASSUME NEW p \in Procs, Mail(p) PROVE TypeOK'
  <2>1. job[p].booking \in Bookings
    BY <1>6, AtWork DEF Mail, At
  <2>2. job' \in [Procs -> Job]
    BY <1>6, JobTyping DEF Mail, Steps
  <2>3. mails' \in [Bookings -> Nat]
    <3>1. CASE mails' = mails
      BY <3>1
    <3>2. CASE mails' = [mails EXCEPT ![job[p].booking] = mails[job[p].booking] + 1]
      <4>1. mails[job[p].booking] + 1 \in Nat
        BY <2>1
      <4> QED
        BY <3>2, <4>1
    <3> QED
      BY <1>6, <3>1, <3>2 DEF Mail
  <2> QED
    BY <1>6, <2>1, <2>2, <2>3 DEF Mail
<1>7. ASSUME NEW p \in Procs, SweepClaim(p) \/ CancelWrite(p) \/ Abort(p) PROVE TypeOK'
  <2>1. job[p].booking \in Bookings
    BY <1>7, AtWork DEF SweepClaim, CancelWrite, Abort, At
  <2>2. job' \in [Procs -> Job]
    BY <1>7, JobTyping DEF SweepClaim, CancelWrite, Abort, Steps
  <2> QED
    BY <1>7, <2>1, <2>2 DEF SweepClaim, CancelWrite, Abort, Rows
<1>8. ASSUME NEW i \in Intents, BuyerPays(i) PROVE TypeOK'
  BY <1>8 DEF BuyerPays
<1>9. ASSUME NEW b \in Bookings, HoldLapses(b) \/ Erase(b) PROVE TypeOK'
  BY <1>9 DEF HoldLapses, Erase, Rows
<1>10. CASE UNCHANGED vars
  BY <1>10 DEF vars
<1> QED
  BY <1>1, <1>2, <1>3, <1>4, <1>5, <1>6, <1>7, <1>8, <1>9, <1>10
  DEF Next, Arrives, Continues

-----------------------------------------------------------------------------
(***************************************************************************)
(* What steps never do.                                                    *)
(***************************************************************************)

\* One process moves at a time.
LEMMA OneMoves ==
  ASSUME TypeOK, Next
  PROVE  \/ job' = job
         \/ \E p \in Procs : /\ \A q \in Procs : q # p => job'[q] = job[q]
                             /\ Arrives(p) \/ Continues(p) \/ Abort(p)
<1>1. ASSUME NEW p \in Procs, Arrives(p) \/ Continues(p) \/ Abort(p)
      PROVE  \A q \in Procs : q # p => job'[q] = job[q]
  BY <1>1 DEF TypeOK, Arrives, Continues, PlaceHold, PayRead, PayAgain, SweepFind, CancelRead,
              CreateIntent, CreateIntentFails, SetPaymentIntent, ShowIntent, Verify,
              VerifyRefuses, MarkPaid, MarkPaidRefused, Mail, SweepClaim, CancelWrite, Abort,
              Begin, Does, Goes, Ends
<1> QED
  BY <1>1 DEF Next, BuyerPays, HoldLapses, Erase

\* The life of a booking: it begins as pending, once; it is pending no more when
\* it has left; only a verified payment confirms it.
LEMMA Lives ==
  ASSUME TypeOK, InHand, [Next]_vars, NEW b \in Bookings
  PROVE  /\ status[b] # "none" => status'[b] # "none"
         /\ status[b] \notin {"none", "pending"}
              => status'[b] = status[b] \/ status'[b] \in {"cancelled", "deleted"}
         /\ status[b] = "deleted" => status'[b] = "deleted"

<1> USE DEF TypeOK
<1>1. ASSUME NEW p \in Procs, Arrives(p) PROVE status'[b] = status[b] \/ status[b] = "none"
  BY <1>1 DEF Arrives, PlaceHold, PayRead, PayAgain, SweepFind, CancelRead, row
<1>2. ASSUME NEW p \in Procs, Arrives(p) PROVE status'[b] = status[b] \/ status'[b] = "pending"
  BY <1>2 DEF Arrives, PlaceHold, PayRead, PayAgain, SweepFind, CancelRead, row
<1>3. ASSUME NEW p \in Procs, Continues(p) \/ Abort(p)
      PROVE  \/ status'[b] = status[b]
             \/ status[b] = "pending" /\ status'[b] \in {"confirmed", "expired"}
             \/ b \in Rows /\ status'[b] = "cancelled"
  BY <1>3 DEF Continues, CreateIntent, CreateIntentFails, SetPaymentIntent, ShowIntent, Verify,
              VerifyRefuses, MarkPaid, MarkPaidRefused, Mail, SweepClaim, CancelWrite, Abort, row
<1>4. ASSUME NEW i \in Intents, BuyerPays(i) PROVE status' = status
  BY <1>4 DEF BuyerPays, row
<1>5. ASSUME NEW a \in Bookings, HoldLapses(a) \/ Erase(a)
      PROVE  status'[b] = status[b] \/ (b \in Rows /\ status'[b] = "deleted")
  BY <1>5 DEF HoldLapses, Erase
<1>6. CASE UNCHANGED vars
  BY <1>6 DEF vars
<1>7. b \in Rows => status[b] \notin {"none", "deleted"}
  BY DEF Rows
<1> QED
  BY <1>1, <1>2, <1>3, <1>4, <1>5, <1>6, <1>7 DEF Next

\* A charge keeps its booking, and stays paid.
LEMMA ChargesStay ==
  ASSUME TypeOK, Charged, [Next]_vars, NEW i \in Intents
  PROVE  /\ chargeFor[i] # None => chargeFor'[i] = chargeFor[i]
         /\ charge[i] = "paid" => charge'[i] = "paid"
<1> USE DEF TypeOK
<1>1. ASSUME NEW j \in Intents, NEW b, Registers(j, b)
      PROVE  /\ chargeFor[i] # None => chargeFor'[i] = chargeFor[i]
             /\ charge[i] = "paid" => charge'[i] = "paid"
  BY <1>1 DEF Registers, Charged
<1>2. CASE UNCHANGED provider
  BY <1>2 DEF provider
<1>3. ASSUME NEW j \in Intents, BuyerPays(j)
      PROVE  chargeFor' = chargeFor /\ (charge[i] = "paid" => charge'[i] = "paid")
  BY <1>3 DEF BuyerPays
<1>4. \/ \E j \in Intents : BuyerPays(j) \/ \E p \in Procs : Registers(j, job[p].booking)
      \/ UNCHANGED provider
  BY DEF Next, vars, Arrives, Continues, PlaceHold, PayRead, PayAgain, SweepFind, CancelRead,
         CreateIntent, CreateIntentFails, SetPaymentIntent, ShowIntent, Verify,
         VerifyRefuses, MarkPaid, MarkPaidRefused, Mail, SweepClaim, CancelWrite, Abort,
         HoldLapses, Erase, provider
<1> QED
  BY <1>1, <1>2, <1>3, <1>4

-----------------------------------------------------------------------------
(***************************************************************************)
(* One charge to a booking.                                                *)
(***************************************************************************)

\* A charge is registered only for a booking that has none.
LEMMA Registering ==
  ASSUME TypeOK, Next
  PROVE  \/ UNCHANGED chargeFor /\ \A i \in Intents : charge'[i] = "unborn" <=> charge[i] = "unborn"
         \/ \E p \in Procs, i \in Intents :
              At(p, "mint") /\ Registers(i, job[p].booking) /\ job'[p].at # "mint"
<1>1. ASSUME NEW j \in Intents, BuyerPays(j)
      PROVE  /\ UNCHANGED chargeFor
             /\ \A i \in Intents : charge'[i] = "unborn" <=> charge[i] = "unborn"
  BY <1>1 DEF BuyerPays, TypeOK
<1>2. \/ UNCHANGED provider
      \/ \E j \in Intents : BuyerPays(j)
      \/ \E p \in Procs, i \in Intents :
           At(p, "mint") /\ Registers(i, job[p].booking) /\ (CreateIntent(p, i) \/ Ends(p))
  BY DEF Next, vars, Arrives, Continues, PlaceHold, PayRead, PayAgain, SweepFind, CancelRead,
         CreateIntent, CreateIntentFails, SetPaymentIntent, ShowIntent, Verify,
         VerifyRefuses, MarkPaid, MarkPaidRefused, Mail, SweepClaim, CancelWrite, Abort,
         HoldLapses, Erase, provider
<1>3. ASSUME NEW p \in Procs, NEW i \in Intents, CreateIntent(p, i) \/ Ends(p)
      PROVE  job'[p].at # "mint"
  BY <1>3 DEF CreateIntent, Does, Ends, Idle, TypeOK
<1> QED
  BY <1>1, <1>2, <1>3 DEF provider

\* Only a charge in the hands of a handler is written to a row.
LEMMA Recording ==
  ASSUME TypeOK, Next, NEW b \in Bookings
  PROVE  \/ intentOf'[b] = intentOf[b]
         \/ intentOf'[b] = None /\ status'[b] = "deleted"
         \/ \E p \in Procs : /\ job[p].at \in {"record", "markPaid"} /\ job[p].booking = b
                             /\ intentOf'[b] = job[p].intent
                             /\ job'[p].at \in {"respond", "mail"}
<1>1. ASSUME NEW p \in Procs, SetPaymentIntent(p)
      PROVE  \/ intentOf'[b] = intentOf[b]
             \/ /\ At(p, "record") /\ job[p].booking = b /\ intentOf'[b] = job[p].intent
                /\ job'[p].at \in {"respond", "mail"}
  BY <1>1 DEF SetPaymentIntent, Goes, Does, TypeOK
<1>2. ASSUME NEW p \in Procs, MarkPaid(p)
      PROVE  \/ intentOf'[b] = intentOf[b]
             \/ /\ At(p, "markPaid") /\ job[p].booking = b /\ intentOf'[b] = job[p].intent
                /\ job'[p].at \in {"respond", "mail"}
  BY <1>2 DEF MarkPaid, Goes, Does, TypeOK
<1>3. ASSUME NEW a \in Bookings, Erase(a)
      PROVE  intentOf'[b] = intentOf[b] \/ (intentOf'[b] = None /\ status'[b] = "deleted")
  BY <1>3 DEF Erase, TypeOK
<1>4. \/ UNCHANGED intentOf
      \/ \E p \in Procs : SetPaymentIntent(p) \/ MarkPaid(p)
      \/ \E a \in Bookings : Erase(a)
  BY DEF Next, vars, Arrives, Continues, PlaceHold, PayRead, PayAgain, SweepFind, CancelRead,
         CreateIntent, CreateIntentFails, ShowIntent, Verify, VerifyRefuses,
         MarkPaidRefused, Mail, SweepClaim, CancelWrite, Abort, BuyerPays, HoldLapses, row
<1> QED
  BY <1>1, <1>2, <1>3, <1>4 DEF At

\* Only the charge of a handler about to answer becomes known.
LEMMA Showing ==
  ASSUME Next
  PROVE  \/ known' = known
         \/ \E p \in Procs : At(p, "respond") /\ known' = known \cup {job[p].intent}
BY DEF Next, vars, Arrives, Continues, PlaceHold, PayRead, PayAgain, SweepFind, CancelRead,
       CreateIntent, CreateIntentFails, SetPaymentIntent, ShowIntent, Verify,
       VerifyRefuses, MarkPaid, MarkPaidRefused, Mail, SweepClaim, CancelWrite, Abort,
       HoldLapses, Erase, BuyerPays

LEMMA ChargedStep == TypeOK /\ Charged /\ InHand /\ Creating /\ [Next]_vars => Charged'
<1> SUFFICES ASSUME TypeOK, Charged, InHand, Creating, [Next]_vars PROVE Charged'
  OBVIOUS
<1>0. None \notin Bookings \cup Intents
  BY CheckoutAssumption
<1>1. CASE UNCHANGED vars
  BY <1>1 DEF Charged, vars
<1>2. CASE Next
  <2>1. /\ \A i \in Intents : charge'[i] = "unborn" <=> chargeFor'[i] = None
        /\ \A i, j \in Intents : chargeFor'[i] = chargeFor'[j] /\ chargeFor'[i] # None => i = j
        /\ \A i \in Intents : chargeFor'[i] # None => chargeFor[i] # None
             \/ \E p \in Procs : ~At(p, "idle") /\ chargeFor'[i] = job[p].booking
    <3>1. CASE UNCHANGED chargeFor /\ \A i \in Intents : charge'[i] = "unborn" <=> charge[i] = "unborn"
      BY <3>1 DEF Charged
    <3>2. ASSUME NEW p \in Procs, NEW i \in Intents,
                 At(p, "mint"), Registers(i, job[p].booking)
          PROVE  <2>1
      <4>1. job[p].booking \in Bookings /\ ~At(p, "idle")
        BY <3>2, AtWork DEF At
      <4>2. \A j \in Intents : chargeFor[j] # job[p].booking
        BY <3>2 DEF Creating, At
      <4>3. /\ chargeFor'[i] = job[p].booking /\ charge'[i] # "unborn"
            /\ \A j \in Intents : j # i => chargeFor'[j] = chargeFor[j] /\ charge'[j] = charge[j]
        BY <3>2 DEF Registers, TypeOK
      <4> QED
        BY <1>0, <4>1, <4>2, <4>3 DEF Charged
    <3> QED
      BY <1>2, <3>1, <3>2, Registering
  <2>2. ASSUME NEW i \in Intents, chargeFor'[i] # None PROVE status'[chargeFor'[i]] # "none"
    <3>1. CASE chargeFor[i] # None
      <4>1. chargeFor'[i] = chargeFor[i] /\ chargeFor[i] \in Bookings
        BY <3>1, ChargesStay DEF TypeOK
      <4> QED
        BY <3>1, <4>1, Lives DEF Charged
    <3>2. ASSUME NEW p \in Procs, ~At(p, "idle"), chargeFor'[i] = job[p].booking
          PROVE  status'[chargeFor'[i]] # "none"
      BY <3>2, AtWork, Lives DEF InHand
    <3> QED
      BY <2>1, <2>2, <3>1, <3>2
  <2>3. ASSUME NEW b \in Bookings, intentOf'[b] # None
        PROVE  chargeFor'[intentOf'[b]] = b
    <3>1. CASE intentOf'[b] = intentOf[b]
      <4>1. intentOf[b] \in Intents /\ chargeFor[intentOf[b]] = b
        BY <2>3, <3>1 DEF Charged, TypeOK
      <4> QED
        BY <1>0, <3>1, <4>1, ChargesStay
    <3>2. ASSUME NEW p \in Procs, job[p].at \in {"record", "markPaid"}, job[p].booking = b,
                 intentOf'[b] = job[p].intent
          PROVE  chargeFor'[intentOf'[b]] = b
      <4>1. job[p].intent \in Intents /\ chargeFor[job[p].intent] = b
        BY <3>2 DEF InHand
      <4> QED
        BY <1>0, <3>2, <4>1, ChargesStay
    <3> QED
      BY <1>2, <2>3, <3>1, <3>2, Recording
  <2>4. ASSUME NEW i \in known' PROVE chargeFor'[i] # None
    <3>1. CASE i \in known
      <4>1. i \in Intents /\ chargeFor[i] # None
        BY <3>1 DEF Charged, TypeOK
      <4> QED
        BY <4>1, ChargesStay
    <3>2. ASSUME NEW p \in Procs, At(p, "respond"), i = job[p].intent
          PROVE  chargeFor'[i] # None
      <4>1. i \in Intents /\ chargeFor[i] = job[p].booking /\ job[p].booking \in Bookings
        BY <3>2, AtWork DEF InHand, At
      <4> QED
        BY <1>0, <4>1, ChargesStay
    <3> QED
      BY <1>2, <2>4, <3>1, <3>2, Showing
  <2> QED
    BY <2>1, <2>2, <2>3, <2>4 DEF Charged
<1> QED
  BY <1>1, <1>2

-----------------------------------------------------------------------------
(***************************************************************************)
(* What a handler has in hand.                                             *)
(***************************************************************************)

\* What becomes of the locals of the process that moves.
LEMMA Moves ==
  ASSUME TypeOK, InHand, NEW p \in Procs, Arrives(p) \/ Continues(p) \/ Abort(p)
  PROVE  \/ job'[p] = Idle
         \/ \E b \in Bookings :
              /\ job[p] = Idle /\ job'[p].booking = b
              /\ \/ /\ job'[p].at = "mint" /\ status[b] = "none" /\ status'[b] = "pending"
                    /\ UNCHANGED intentOf
                 \/ /\ job'[p].at = "verify" /\ job'[p].intent = intentOf[b]
                    /\ intentOf[b] # None /\ status[b] = "pending" /\ UNCHANGED row
                 \/ job'[p].at \in {"claim", "cancelWrite"} /\ status[b] # "none" /\ UNCHANGED row
         \/ job'[p] = job[p]
         \/ /\ ~At(p, "idle") /\ job'[p].booking = job[p].booking
            /\ \/ /\ At(p, "mint") /\ job'[p].at = "record"
                  /\ \E i \in Intents : Registers(i, job[p].booking) /\ job'[p].intent = i
               \/ /\ job'[p].intent = job[p].intent
                  /\ \/ /\ At(p, "record") /\ job'[p].at = "respond" /\ UNCHANGED status
                        /\ job[p].booking \in Rows => intentOf'[job[p].booking] = job[p].intent
                     \/ /\ At(p, "verify") /\ job'[p].at = "markPaid"
                        /\ charge[job[p].intent] = "paid"
                     \/ /\ At(p, "markPaid") /\ job'[p].at = "mail"
                        /\ status[job[p].booking] = "pending"
                        /\ status'[job[p].booking] = "confirmed"
<1>0. job[p].booking \in Bookings \cup {None} /\ job[p].intent \in Intents \cup {None}
  BY InJob
<1>1. ASSUME NEW b \in Bookings, PlaceHold(p, b)
      PROVE  /\ job[p] = Idle /\ job'[p].booking = b /\ job'[p].at = "mint"
             /\ status[b] = "none" /\ status'[b] = "pending" /\ UNCHANGED intentOf
  BY <1>1 DEF PlaceHold, Begin, Does, TypeOK
<1>2. ASSUME NEW b \in Bookings, PayRead(p, b)
      PROVE  /\ job[p] = Idle /\ job'[p].booking = b /\ job'[p].at = "verify"
             /\ job'[p].intent = intentOf[b]
             /\ intentOf[b] # None /\ status[b] = "pending" /\ UNCHANGED row
  BY <1>2 DEF PayRead, Begin, Does, TypeOK
<1>3. ASSUME NEW b \in Bookings, PayAgain(p, b) PROVE job'[p] = job[p]
  BY <1>3 DEF PayAgain
<1>4. ASSUME NEW b \in Bookings, SweepFind(p, b) \/ CancelRead(p, b)
      PROVE  /\ job[p] = Idle /\ job'[p].booking = b /\ job'[p].at \in {"claim", "cancelWrite"}
             /\ status[b] # "none" /\ UNCHANGED row
  BY <1>4 DEF SweepFind, CancelRead, Begin, Does, TypeOK
<1>5. ASSUME NEW i \in Intents, CreateIntent(p, i)
      PROVE  /\ At(p, "mint") /\ job'[p].at = "record" /\ job'[p].booking = job[p].booking
             /\ Registers(i, job[p].booking) /\ job'[p].intent = i
  BY <1>5 DEF CreateIntent, Does, TypeOK
<1>6. ASSUME SetPaymentIntent(p)
      PROVE  /\ At(p, "record") /\ job'[p].at = "respond" /\ job'[p].booking = job[p].booking
             /\ job'[p].intent = job[p].intent /\ UNCHANGED status
             /\ job[p].booking \in Rows => intentOf'[job[p].booking] = job[p].intent
  BY <1>6 DEF SetPaymentIntent, Goes, Does, TypeOK, Rows
<1>7. ASSUME Verify(p)
      PROVE  /\ At(p, "verify") /\ job'[p].at = "markPaid" /\ job'[p].booking = job[p].booking
             /\ job'[p].intent = job[p].intent /\ charge[job[p].intent] = "paid"
  BY <1>7 DEF Verify, Goes, Does, TypeOK
<1>8. ASSUME MarkPaid(p)
      PROVE  /\ At(p, "markPaid") /\ job'[p].at = "mail" /\ job'[p].booking = job[p].booking
             /\ job'[p].intent = job[p].intent
             /\ status[job[p].booking] = "pending" /\ status'[job[p].booking] = "confirmed"
  <2>1. job[p].booking \in Bookings
    BY <1>8, AtWork DEF MarkPaid, At
  <2> QED
    BY <1>8, <2>1 DEF MarkPaid, Goes, Does, TypeOK
<1>9. ASSUME \/ CreateIntentFails(p) \/ ShowIntent(p) \/ VerifyRefuses(p) \/ MarkPaidRefused(p)
             \/ Mail(p) \/ SweepClaim(p) \/ CancelWrite(p) \/ Abort(p)
      PROVE  job'[p] = Idle
  BY <1>9 DEF CreateIntentFails, ShowIntent, VerifyRefuses, MarkPaidRefused, Mail, SweepClaim,
              CancelWrite, Abort, Ends, TypeOK
<1> QED
  BY <1>0, <1>1, <1>2, <1>3, <1>4, <1>5, <1>6, <1>7, <1>8, <1>9
  DEF Arrives, Continues, At

LEMMA InHandStep == TypeOK /\ Charged /\ InHand /\ [Next]_vars => InHand'
<1> SUFFICES ASSUME TypeOK, Charged, InHand, [Next]_vars PROVE InHand'
  OBVIOUS
<1>0. None \notin Bookings \cup Intents
  BY CheckoutAssumption
<1> DEFINE Has(q) ==
      /\ At(q, "idle") <=> job[q].booking = None
      /\ ~At(q, "idle") => status[job[q].booking] # "none"
      /\ job[q].at \in {"record", "respond", "verify", "markPaid"}
           => job[q].intent \in Intents /\ chargeFor[job[q].intent] = job[q].booking
      /\ At(q, "markPaid") => charge[job[q].intent] = "paid"
<1>1. ASSUME NEW q \in Procs, job'[q] = job[q] PROVE Has(q)'
  <2>1. CASE At(q, "idle")
    BY <1>1, <2>1 DEF InHand, At
  <2>2. CASE ~At(q, "idle")
    <3>1. job[q].booking \in Bookings /\ status[job[q].booking] # "none"
      BY <2>2, AtWork DEF InHand
    <3>2. status'[job[q].booking] # "none"
      BY <3>1, Lives
    <3>3. job[q].at \in {"record", "respond", "verify", "markPaid"}
            => job[q].intent \in Intents /\ chargeFor'[job[q].intent] = job[q].booking
      BY <1>0, <3>1, ChargesStay DEF InHand
    <3>4. At(q, "markPaid") => charge'[job[q].intent] = "paid"
      BY ChargesStay DEF InHand, At
    <3> QED
      BY <1>0, <1>1, <2>2, <3>1, <3>2, <3>3, <3>4 DEF At
  <2> QED
    BY <2>1, <2>2
<1>2. ASSUME Next, NEW p \in Procs, Arrives(p) \/ Continues(p) \/ Abort(p) PROVE Has(p)'
  <2>1. CASE job'[p] = Idle
    BY <2>1 DEF Idle, At
  <2>2. CASE job'[p] = job[p]
    BY <1>1, <2>2
  <2>3. ASSUME NEW b \in Bookings, job[p] = Idle, job'[p].booking = b,
               job'[p].at = "mint", status'[b] = "pending"
        PROVE  Has(p)'
    BY <1>0, <2>3 DEF At
  <2>4. ASSUME NEW b \in Bookings, job[p] = Idle, job'[p].booking = b,
               job'[p].at = "verify", job'[p].intent = intentOf[b], intentOf[b] # None,
               status[b] = "pending"
        PROVE  Has(p)'
    <3>1. intentOf[b] \in Intents /\ chargeFor[intentOf[b]] = b
      BY <2>4 DEF Charged, TypeOK
    <3>2. chargeFor'[intentOf[b]] = b
      BY <1>0, <3>1, ChargesStay
    <3>3. status'[b] # "none"
      BY <2>4, Lives
    <3> QED
      BY <1>0, <2>4, <3>1, <3>2, <3>3 DEF At
  <2>5. ASSUME NEW b \in Bookings, job'[p].booking = b,
               job'[p].at \in {"claim", "cancelWrite"}, status[b] # "none"
        PROVE  Has(p)'
    <3>1. status'[b] # "none"
      BY <2>5, Lives
    <3> QED
      BY <1>0, <2>5, <3>1 DEF At
  <2>6. CASE ~At(p, "idle") /\ job'[p].booking = job[p].booking
    <3>1. job[p].booking \in Bookings /\ status'[job[p].booking] # "none"
      BY <2>6, AtWork, Lives DEF InHand
    <3>2. ASSUME At(p, "mint"), job'[p].at = "record",
                 NEW i \in Intents, Registers(i, job[p].booking), job'[p].intent = i
          PROVE  Has(p)'
      <4>1. chargeFor'[i] = job[p].booking
        BY <3>2 DEF Registers, TypeOK
      <4> QED
        BY <1>0, <2>6, <3>1, <3>2, <4>1 DEF At
    <3>3. CASE /\ job'[p].intent = job[p].intent
               /\ \/ At(p, "record") /\ job'[p].at = "respond"
                  \/ At(p, "verify") /\ job'[p].at = "markPaid" /\ charge[job[p].intent] = "paid"
      <4>1. job[p].intent \in Intents /\ chargeFor[job[p].intent] = job[p].booking
        BY <3>3 DEF InHand, At
      <4>2. /\ chargeFor'[job[p].intent] = job[p].booking
            /\ charge[job[p].intent] = "paid" => charge'[job[p].intent] = "paid"
        BY <1>0, <3>1, <4>1, ChargesStay
      <4> QED
        BY <1>0, <2>6, <3>1, <3>3, <4>1, <4>2 DEF At
    <3>4. CASE At(p, "markPaid") /\ job'[p].at = "mail"
      BY <1>0, <2>6, <3>1, <3>4 DEF At
    <3>5. \/ \E i \in Intents : /\ At(p, "mint") /\ job'[p].at = "record"
                               /\ Registers(i, job[p].booking) /\ job'[p].intent = i
          \/ /\ job'[p].intent = job[p].intent
             /\ \/ At(p, "record") /\ job'[p].at = "respond"
                \/ At(p, "verify") /\ job'[p].at = "markPaid" /\ charge[job[p].intent] = "paid"
          \/ At(p, "markPaid") /\ job'[p].at = "mail"
          \/ job'[p] = Idle \/ job'[p] = job[p]
      BY <1>2, <2>6, Moves DEF Idle, At
    <3> QED
      BY <2>1, <2>2, <3>2, <3>3, <3>4, <3>5
  <2> QED
    BY <1>2, <2>1, <2>2, <2>3, <2>4, <2>5, <2>6, Moves
<1>3. CASE Next
  BY <1>1, <1>2, <1>3, OneMoves DEF InHand
<1>4. CASE UNCHANGED vars
  BY <1>1, <1>4 DEF InHand, vars
<1> QED
  BY <1>3, <1>4

-----------------------------------------------------------------------------
(***************************************************************************)
(* Until the charge is recorded.                                           *)
(***************************************************************************)

\* Only a verified payment confirms, and records its charge as it does.
LEMMA Confirming ==
  ASSUME TypeOK, Next, NEW b \in Bookings, status'[b] = "confirmed"
  PROVE  \/ status[b] = "confirmed"
         \/ \E p \in Procs : /\ At(p, "markPaid") /\ job[p].booking = b
                             /\ intentOf'[b] = job[p].intent
                             /\ job'[p].at = "mail" /\ job'[p].booking = b
<1>1. ASSUME NEW p \in Procs, MarkPaid(p), status[b] # "confirmed"
      PROVE  /\ At(p, "markPaid") /\ job[p].booking = b
             /\ intentOf'[b] = job[p].intent
             /\ job'[p].at = "mail" /\ job'[p].booking = b
  BY <1>1 DEF MarkPaid, Goes, Does, TypeOK
<1>2. ASSUME NEW p \in Procs, SweepClaim(p) \/ CancelWrite(p) PROVE status[b] = "confirmed"
  BY <1>2 DEF SweepClaim, CancelWrite, TypeOK
<1>3. ASSUME NEW p \in Procs, NEW a \in Bookings, PlaceHold(p, a) PROVE status[b] = "confirmed"
  BY <1>3 DEF PlaceHold, TypeOK
<1>4. ASSUME NEW a \in Bookings, Erase(a) PROVE status[b] = "confirmed"
  BY <1>4 DEF Erase, TypeOK
<1>5. \/ UNCHANGED status
      \/ \E p \in Procs : \/ MarkPaid(p) \/ SweepClaim(p) \/ CancelWrite(p)
                          \/ \E a \in Bookings : PlaceHold(p, a)
      \/ \E a \in Bookings : Erase(a)
  BY DEF Next, Arrives, Continues, PayRead, PayAgain, SweepFind, CancelRead,
         CreateIntent, CreateIntentFails, SetPaymentIntent, ShowIntent, Verify, VerifyRefuses,
         MarkPaidRefused, Mail, Abort, BuyerPays, HoldLapses, row
<1> QED
  BY <1>1, <1>2, <1>3, <1>4, <1>5

LEMMA CreatingStep ==
  TypeOK /\ Charged /\ InHand /\ Creating /\ [Next]_vars => Creating'
<1> SUFFICES ASSUME TypeOK, Charged, InHand, Creating, [Next]_vars PROVE Creating'
  OBVIOUS
<1>0. None \notin Bookings \cup Intents
  BY CheckoutAssumption
<1> DEFINE Alone(p, b) ==
      \A q \in Procs : job[q].booking = b
        => job[q].at \notin {"respond", "verify", "markPaid"}
             /\ (job[q].at \in {"mint", "record"} => q = p)
<1> DEFINE Creates(p) ==
      /\ intentOf[job[p].booking] = None
      /\ status[job[p].booking] # "confirmed"
      /\ At(p, "mint") => \A i \in Intents : chargeFor[i] # job[p].booking
      /\ Alone(p, job[p].booking)
<1>1. CASE UNCHANGED vars
  BY <1>1 DEF Creating, vars, At
<1>2. ASSUME Next, NEW p \in Procs, job'[p].at \in {"mint", "record"} PROVE Creates(p)'
  <2>1. CASE job'[p] # job[p] /\ At(p, "idle")
    <3>1. PICK b \in Bookings : /\ job'[p].booking = b /\ job'[p].at = "mint"
                                /\ status[b] = "none" /\ status'[b] = "pending"
                                /\ UNCHANGED intentOf
      <4>1. Arrives(p) \/ Continues(p) \/ Abort(p)
        BY <1>2, <2>1, OneMoves
      <4> QED
        BY <1>2, <2>1, <4>1, Moves DEF Idle, At
    <3>2. \A i \in Intents : chargeFor[i] # b
      BY <1>0, <3>1 DEF Charged
    <3>3. intentOf'[b] = None
      BY <3>1, <3>2 DEF Charged, TypeOK
    <3>4. \A q \in Procs : job[q].booking # b
      BY <1>0, <3>1 DEF InHand
    <3>5. \A q \in Procs \ {p} : job'[q] = job[q]
      BY <1>2, <2>1, OneMoves
    <3>6. \A i \in Intents : chargeFor'[i] # b
      BY <1>2, <3>2, <3>4, Registering DEF Registers, TypeOK
    <3>7. Alone(p, b)'
      BY <3>1, <3>4, <3>5
    <3> QED
      BY <3>1, <3>3, <3>6, <3>7
  <2>2. CASE /\ job[p].at \in {"mint", "record"} /\ job'[p].booking = job[p].booking
             /\ At(p, "mint") \/ job'[p].at = "record"
    <3> DEFINE b == job[p].booking
    <3>1. b \in Bookings /\ status[b] # "none"
      BY <2>2, AtWork DEF At, InHand
    <3>2. Creates(p)
      BY <2>2 DEF Creating
    <3>3. intentOf'[b] = None
      BY <1>2, <3>1, <3>2, Recording
    <3>4. status'[b] # "confirmed"
      BY <1>2, <3>1, <3>2, Confirming DEF At
    <3>5. ASSUME job'[p].at = "mint", NEW i \in Intents PROVE chargeFor'[i] # b
      <4>1. At(p, "mint") /\ chargeFor[i] # b
        BY <2>2, <3>2, <3>5 DEF At
      <4>2. ASSUME NEW q \in Procs, At(q, "mint"), job'[q].at # "mint" PROVE job[q].booking # b
        BY <3>2, <3>5, <4>2 DEF At
      <4> QED
        BY <1>2, <4>1, <4>2, Registering DEF Registers, TypeOK
    <3>6. ASSUME NEW q \in Procs, job'[q].booking = b
          PROVE  /\ job'[q].at \notin {"respond", "verify", "markPaid"}
                 /\ job'[q].at \in {"mint", "record"} => q = p
      <4>1. CASE q = p
        BY <1>2, <4>1
      <4>2. CASE q # p /\ job'[q] = job[q]
        BY <3>2, <3>6, <4>2
      <4>3. CASE q # p /\ job'[q] # job[q]
        <5>1. Arrives(q) \/ Continues(q) \/ Abort(q)
          BY <1>2, <4>3, OneMoves
        <5>2. job'[q] # Idle
          BY <1>0, <3>1, <3>6 DEF Idle
        <5>3. job[q].booking = b => job[q].at \notin {"respond", "verify", "markPaid", "mint", "record"}
          BY <3>2, <4>3
        <5> QED
          BY <1>2, <3>1, <3>2, <3>6, <4>3, <5>1, <5>2, <5>3, Moves DEF At
      <4> QED
        BY <4>1, <4>2, <4>3
    <3> QED
      BY <2>2, <3>3, <3>4, <3>5, <3>6 DEF At
  <2>3. \/ job'[p] # job[p] /\ At(p, "idle")
        \/ /\ job[p].at \in {"mint", "record"} /\ job'[p].booking = job[p].booking
           /\ At(p, "mint") \/ job'[p].at = "record"
    <3>1. CASE job'[p] = job[p]
      BY <1>2, <3>1 DEF At
    <3>2. CASE job'[p] # job[p]
      <4>1. Arrives(p) \/ Continues(p) \/ Abort(p)
        BY <1>2, <3>2, OneMoves
      <4> QED
        BY <1>2, <3>2, <4>1, Moves DEF At, Idle
    <3> QED
      BY <3>1, <3>2
  <2> QED
    BY <2>1, <2>2, <2>3
<1> QED
  BY <1>1, <1>2 DEF Creating

LEMMA CoreInit == Init => TypeOK /\ Charged /\ InHand /\ Creating /\ Recorded /\ Mailing
<1> SUFFICES ASSUME Init
             PROVE  TypeOK /\ Charged /\ InHand /\ Creating /\ Recorded /\ Mailing
  OBVIOUS
<1>1. TypeOK
  BY DEF Init, TypeOK, Job, Steps, Idle
<1>2. \A p \in Procs : job[p] = Idle
  BY DEF Init
<1>3. Charged
  BY CheckoutAssumption DEF Init, Charged
<1>4. InHand
  BY <1>2 DEF InHand, Idle, At
<1>5. Creating /\ Recorded
  BY <1>2 DEF Creating, Recorded, Idle, At
<1>6. Mailing
  BY <1>2 DEF Mailing, Idle, At, Init
<1> QED
  BY <1>1, <1>3, <1>4, <1>5, <1>6

LEMMA CoreStep ==
  TypeOK /\ Charged /\ InHand /\ Creating /\ [Next]_vars
    => (TypeOK /\ Charged /\ InHand /\ Creating)'
BY TypingStep, ChargedStep, InHandStep, CreatingStep

\* Every variable keeps its shape; in particular a charge that a handler or a row
\* names is one the provider gave.
THEOREM Typing == Spec => []TypeOK
<1> DEFINE IInv == TypeOK /\ Charged /\ InHand /\ Creating
<1>1. Init => IInv
  BY CoreInit
<1>2. IInv /\ [Next]_vars => IInv'
  BY CoreStep
<1> QED
  BY <1>1, <1>2, PTL DEF Spec

-----------------------------------------------------------------------------
(***************************************************************************)
(* Money: what is confirmed is paid, and what can be paid is traced.       *)
(***************************************************************************)

\* A confirmed booking names a charge made for it that has been paid.
THEOREM OnlyThePaidIsConfirmed == Spec => []ConfirmedIsPaid
<1> DEFINE Core == TypeOK /\ Charged /\ InHand /\ Creating
<1>1. Init => Core /\ ConfirmedIsPaid
  BY CoreInit DEF Init, ConfirmedIsPaid
<1>2. Core /\ ConfirmedIsPaid /\ [Next]_vars => (Core /\ ConfirmedIsPaid)'
  <2> SUFFICES ASSUME Core, ConfirmedIsPaid, [Next]_vars PROVE ConfirmedIsPaid'
    BY CoreStep
  <2>0. None \notin Bookings
    BY CheckoutAssumption
  <2> DEFINE PaidBy(b, i) == i \in Intents /\ charge[i] = "paid" /\ chargeFor[i] = b
  <2>1. CASE UNCHANGED vars
    BY <2>1 DEF ConfirmedIsPaid, vars
  <2>2. ASSUME Next, NEW b \in Bookings, status'[b] = "confirmed" PROVE PaidBy(b, intentOf[b])'
    <3>1. ASSUME NEW i, PaidBy(b, i) PROVE charge'[i] = "paid" /\ chargeFor'[i] = b
      BY <2>0, <3>1, ChargesStay
    <3>2. ASSUME NEW p \in Procs, At(p, "markPaid"), job[p].booking = b
          PROVE  PaidBy(b, job[p].intent)
      BY <3>2 DEF InHand, At
    <3>3. CASE status[b] = "confirmed"
      <4>1. PaidBy(b, intentOf[b])
        BY <3>3 DEF ConfirmedIsPaid
      <4>2. ASSUME NEW p \in Procs, job[p].at = "record" PROVE job[p].booking # b
        BY <3>3, <4>2 DEF Creating
      <4>3. \/ intentOf'[b] = intentOf[b]
            \/ \E p \in Procs : /\ At(p, "markPaid") /\ job[p].booking = b
                                /\ intentOf'[b] = job[p].intent
        BY <2>2, <4>2, Recording DEF At
      <4> QED
        BY <3>1, <3>2, <4>1, <4>3
    <3>4. CASE status[b] # "confirmed"
      BY <2>2, <3>1, <3>2, <3>4, Confirming
    <3> QED
      BY <3>3, <3>4
  <2> QED
    BY <2>1, <2>2 DEF ConfirmedIsPaid
<1> QED
  BY <1>1, <1>2, PTL DEF Spec

\* The buyer of a booking is shown one charge at most.
THEOREM NoSecondCharge == Spec => []OneChargeShown
<1> DEFINE Core == TypeOK /\ Charged /\ InHand /\ Creating
<1>1. Init => Core
  BY CoreInit
<1>2. Core /\ [Next]_vars => Core'
  BY CoreStep
<1>3. Core => OneChargeShown
  BY DEF Charged, OneChargeShown, TypeOK
<1> QED
  BY <1>1, <1>2, <1>3, PTL DEF Spec

\* A charge on the row stays on the row until the booking is erased.
LEMMA StaysRecorded ==
  ASSUME TypeOK, Charged, InHand, Creating, [Next]_vars,
         NEW i \in Intents, NEW b \in Bookings, chargeFor[i] = b,
         intentOf[b] = i \/ status[b] = "deleted"
  PROVE  intentOf'[b] = i \/ status'[b] = "deleted"
<1>0. None \notin Bookings \cup Intents
  BY CheckoutAssumption
<1>1. CASE status[b] = "deleted"
  BY <1>1, Lives
<1>2. CASE intentOf[b] = i
  <2>1. ASSUME NEW p \in Procs, job[p].at = "record" PROVE job[p].booking # b
    BY <1>0, <1>2, <2>1 DEF Creating
  <2>2. ASSUME NEW p \in Procs, job[p].at = "markPaid", job[p].booking = b
        PROVE  job[p].intent = i
    BY <1>0, <2>2 DEF InHand, Charged
  <2>3. CASE Next
    BY <1>2, <2>1, <2>2, <2>3, Recording
  <2>4. CASE UNCHANGED vars
    BY <1>2, <2>4 DEF vars
  <2> QED
    BY <2>3, <2>4
<1> QED
  BY <1>1, <1>2

LEMMA RecordedStep ==
  TypeOK /\ Charged /\ InHand /\ Creating /\ Recorded /\ [Next]_vars => Recorded'
<1> SUFFICES ASSUME TypeOK, Charged, InHand, Creating, Recorded, [Next]_vars,
                    NEW p \in Procs, At(p, "respond")'
             PROVE  (intentOf[job[p].booking] = job[p].intent \/ status[job[p].booking] = "deleted")'
  BY DEF Recorded
<1>1. CASE job'[p] = job[p]
  <2>1. /\ At(p, "respond") /\ job[p].booking \in Bookings /\ job[p].intent \in Intents
        /\ chargeFor[job[p].intent] = job[p].booking
    BY <1>1, AtWork DEF At, InHand
  <2> QED
    BY <1>1, <2>1, StaysRecorded DEF Recorded
<1>2. CASE job'[p] # job[p]
  <2>1. Next /\ (Arrives(p) \/ Continues(p) \/ Abort(p))
    BY <1>2, OneMoves DEF vars
  <2>2. /\ At(p, "record") /\ job'[p].booking = job[p].booking /\ job'[p].intent = job[p].intent
        /\ UNCHANGED status
        /\ job[p].booking \in Rows => intentOf'[job[p].booking] = job[p].intent
    BY <1>2, <2>1, Moves DEF At, Idle
  <2>3. job[p].booking \in Bookings /\ status[job[p].booking] # "none"
    BY <2>2, AtWork DEF At, InHand
  <2>4. job[p].booking \in Rows \/ status[job[p].booking] = "deleted"
    BY <2>3 DEF Rows, TypeOK
  <2> QED
    BY <2>2, <2>4
<1> QED
  BY <1>1, <1>2

\* A charge the buyer can pay is on the row of its booking as long as there is
\* one.
THEOREM MoneyIsTraced == Spec => []ShownIsRecorded
<1> DEFINE Core == TypeOK /\ Charged /\ InHand /\ Creating
<1>1. Init => Core /\ Recorded /\ ShownIsRecorded
  BY CoreInit DEF Init, ShownIsRecorded
<1>2. Core /\ Recorded /\ ShownIsRecorded /\ [Next]_vars => (Core /\ Recorded /\ ShownIsRecorded)'
  <2> SUFFICES ASSUME Core, Recorded, ShownIsRecorded, [Next]_vars, NEW i \in known'
               PROVE  (intentOf[chargeFor[i]] = i \/ status[chargeFor[i]] = "deleted")'
    BY CoreStep, RecordedStep DEF ShownIsRecorded
  <2>1. CASE i \in known
    <3>1. i \in Intents /\ chargeFor[i] \in Bookings /\ chargeFor[i] # None
      BY <2>1 DEF Charged, TypeOK
    <3>2. chargeFor'[i] = chargeFor[i]
      BY <3>1, ChargesStay
    <3> QED
      BY <2>1, <3>1, <3>2, StaysRecorded DEF ShownIsRecorded
  <2>2. ASSUME NEW p \in Procs, At(p, "respond"), i = job[p].intent
        PROVE  (intentOf[chargeFor[i]] = i \/ status[chargeFor[i]] = "deleted")'
    <3>1. i \in Intents /\ chargeFor[i] = job[p].booking /\ job[p].booking \in Bookings
      BY <2>2, AtWork DEF InHand, At
    <3>2. chargeFor'[i] = chargeFor[i]
      BY <3>1, ChargesStay, CheckoutAssumption
    <3> QED
      BY <2>2, <3>1, <3>2, StaysRecorded DEF Recorded
  <2>3. CASE Next
    BY <2>1, <2>2, <2>3, Showing
  <2>4. CASE UNCHANGED vars
    BY <2>1, <2>4 DEF vars
  <2> QED
    BY <2>3, <2>4
<1> QED
  BY <1>1, <1>2, PTL DEF Spec

-----------------------------------------------------------------------------
(***************************************************************************)
(* What the buyer is told.                                                 *)
(***************************************************************************)

\* Only the request that confirmed a booking mails it, and ends as it does.
LEMMA Posting ==
  ASSUME TypeOK, Next, NEW b \in Bookings
  PROVE  \/ mails'[b] = mails[b]
         \/ \E p \in Procs : /\ At(p, "mail") /\ job[p].booking = b /\ job'[p] = Idle
                             /\ mails'[b] = mails[b] + 1
<1>1. ASSUME NEW p \in Procs, Mail(p), mails'[b] # mails[b]
      PROVE  /\ At(p, "mail") /\ job[p].booking = b /\ job'[p] = Idle
             /\ mails'[b] = mails[b] + 1
  BY <1>1 DEF Mail, Ends, TypeOK
<1>2. UNCHANGED mails \/ \E p \in Procs : Mail(p)
  BY DEF Next, Arrives, Continues, PlaceHold, PayRead, PayAgain, SweepFind, CancelRead,
         CreateIntent, CreateIntentFails, SetPaymentIntent, ShowIntent, Verify, VerifyRefuses,
         MarkPaid, MarkPaidRefused, SweepClaim, CancelWrite, Abort, BuyerPays, HoldLapses,
         Erase, history
<1> QED
  BY <1>1, <1>2

\* "paid" is answered for a confirmed booking or by the request that mails it.
LEMMA Telling ==
  ASSUME Next, NEW b \in told'
  PROVE  \/ b \in told
         \/ status[b] = "confirmed" /\ status'[b] = "confirmed"
         \/ \E p \in Procs : At(p, "mail") /\ job[p].booking = b /\ UNCHANGED status
BY DEF Next, Arrives, Continues, PlaceHold, PayRead, PayAgain, SweepFind, CancelRead,
       CreateIntent, CreateIntentFails, SetPaymentIntent, ShowIntent, Verify, VerifyRefuses,
       MarkPaid, MarkPaidRefused, Mail, SweepClaim, CancelWrite, Abort, BuyerPays, HoldLapses,
       Erase, history, row

\* A request about to mail does so or is known to have failed.
LEMMA MailingEnds ==
  ASSUME TypeOK, InHand, Next, NEW p \in Procs, At(p, "mail"), job'[p] # job[p]
  PROVE  \/ mails'[job[p].booking] = mails[job[p].booking] + 1
         \/ job[p].booking \in broken'
<1>1. job[p].booking \in Bookings
  BY AtWork DEF At
<1>2. Arrives(p) \/ Continues(p) \/ Abort(p)
  BY OneMoves
<1>3. Mail(p) \/ Abort(p)
  BY <1>2 DEF Arrives, Continues, PlaceHold, PayRead, PayAgain, SweepFind, CancelRead, Begin,
              Idle, At, CreateIntent, CreateIntentFails, SetPaymentIntent, ShowIntent, Verify,
              VerifyRefuses, MarkPaid, MarkPaidRefused, SweepClaim, CancelWrite
<1>4. CASE Mail(p)
  BY <1>1, <1>4 DEF Mail, TypeOK
<1>5. CASE Abort(p)
  BY <1>5 DEF Abort
<1> QED
  BY <1>3, <1>4, <1>5

LEMMA MailingStep == TypeOK /\ InHand /\ Mailing /\ [Next]_vars => Mailing'
<1> SUFFICES ASSUME TypeOK, InHand, Mailing, [Next]_vars PROVE Mailing'
  OBVIOUS
<1>1. CASE UNCHANGED vars
  BY <1>1 DEF Mailing, vars, At
<1>2. CASE Next
  \* Who is about to mail was already, or confirms the booking in this step.
  <2>1. ASSUME NEW p \in Procs, At(p, "mail")'
        PROVE  /\ job'[p].booking = job[p].booking /\ job[p].booking \in Bookings
               /\ \/ At(p, "mail") /\ job'[p] = job[p]
                  \/ /\ status[job[p].booking] = "pending"
                     /\ status'[job[p].booking] = "confirmed"
    <3>1. CASE job'[p] = job[p]
      BY <2>1, <3>1, AtWork DEF At
    <3>2. CASE job'[p] # job[p]
      <4>1. Arrives(p) \/ Continues(p) \/ Abort(p)
        BY <1>2, <3>2, OneMoves
      <4>2. /\ At(p, "markPaid") /\ job'[p].booking = job[p].booking
            /\ status[job[p].booking] = "pending" /\ status'[job[p].booking] = "confirmed"
        BY <2>1, <3>2, <4>1, Moves DEF At, Idle
      <4> QED
        BY <4>2, AtWork DEF At
    <3> QED
      BY <3>1, <3>2
  \* Nobody mails a booking that is pending.
  <2>2. ASSUME NEW q \in Procs, At(q, "mail")
        PROVE  status[job[q].booking] \notin {"none", "pending", "expired"}
    BY <2>2 DEF Mailing, InHand, At
  <2>3. ASSUME NEW p \in Procs, At(p, "mail")'
        PROVE  /\ status'[job'[p].booking] \notin {"pending", "expired"}
               /\ mails'[job'[p].booking] = 0
    <3> DEFINE b == job[p].booking
    <3>1. b \in Bookings /\ job'[p].booking = b
      BY <2>1, <2>3
    <3>2. CASE At(p, "mail") /\ job'[p] = job[p]
      <4>1. status[b] \notin {"none", "pending", "expired"} /\ mails[b] = 0
        BY <2>2, <3>2 DEF Mailing
      <4>2. status'[b] \notin {"pending", "expired"}
        BY <3>1, <4>1, Lives
      <4>3. ASSUME NEW q \in Procs, At(q, "mail"), job[q].booking = b, job'[q] = Idle
            PROVE  FALSE
        BY <2>3, <3>2, <4>3 DEF Mailing, Idle, At
      <4> QED
        BY <1>2, <3>1, <4>1, <4>2, <4>3, Posting
    <3>3. CASE status[b] = "pending" /\ status'[b] = "confirmed"
      <4>1. mails[b] = 0
        BY <3>1, <3>3 DEF Mailing
      <4> QED
        BY <1>2, <2>2, <3>1, <3>3, <4>1, Posting
    <3> QED
      BY <2>1, <2>3, <3>2, <3>3
  <2>4. ASSUME NEW p \in Procs, NEW q \in Procs, At(p, "mail")', At(q, "mail")',
               job'[p].booking = job'[q].booking
        PROVE  p = q
    <3>1. CASE job'[p] = job[p] /\ job'[q] = job[q] /\ At(p, "mail") /\ At(q, "mail")
      BY <2>4, <3>1 DEF Mailing
    <3>2. CASE job'[p] # job[p] /\ job'[q] # job[q]
      BY <1>2, <3>2, OneMoves
    <3>3. CASE (At(p, "mail") \/ At(q, "mail")) /\ status[job[p].booking] = "pending"
      BY <2>1, <2>2, <2>4, <3>3
    <3> QED
      BY <2>1, <2>4, <3>1, <3>2, <3>3 DEF At
  <2>5. ASSUME NEW b \in Bookings, status'[b] \in {"none", "pending"} PROVE mails'[b] = 0
    <3>1. status[b] \in {"none", "pending"}
      BY <2>5, Lives
    <3>2. mails[b] = 0
      BY <3>1 DEF Mailing
    <3> QED
      BY <1>2, <2>2, <3>1, <3>2, Posting
  <2> QED
    BY <2>3, <2>4, <2>5 DEF Mailing
<1> QED
  BY <1>1, <1>2

\* A buyer who was answered "paid" never finds the booking pending or expired.
THEOREM PaidIsFinal == Spec => []PaidStaysPaid
<1> DEFINE Core == TypeOK /\ Charged /\ InHand /\ Creating
<1>1. Init => Core /\ Mailing /\ PaidStaysPaid
  BY CoreInit DEF Init, PaidStaysPaid
<1>2. Core /\ Mailing /\ PaidStaysPaid /\ [Next]_vars => (Core /\ Mailing /\ PaidStaysPaid)'
  <2> SUFFICES ASSUME Core, Mailing, PaidStaysPaid, [Next]_vars, NEW b \in told'
               PROVE  status'[b] \in {"confirmed", "cancelled", "deleted"}
    BY CoreStep, MailingStep DEF PaidStaysPaid
  <2>1. CASE b \in told
    <3>1. b \in Bookings /\ status[b] \in {"confirmed", "cancelled", "deleted"}
      BY <2>1 DEF PaidStaysPaid, TypeOK
    <3> QED
      BY <3>1, Lives
  <2>2. ASSUME NEW p \in Procs, At(p, "mail"), job[p].booking = b, UNCHANGED status
        PROVE  status'[b] \in {"confirmed", "cancelled", "deleted"}
    <3>1. b \in Bookings /\ status[b] # "none"
      BY <2>2, AtWork DEF InHand, At
    <3> QED
      BY <2>2, <3>1 DEF Mailing, TypeOK
  <2>3. CASE Next
    BY <2>1, <2>2, <2>3, Telling
  <2>4. CASE UNCHANGED vars
    BY <2>1, <2>4 DEF vars
  <2> QED
    BY <2>3, <2>4
<1> QED
  BY <1>1, <1>2, PTL DEF Spec

\* A confirmed booking is mailed, once, unless a failure is on record.
THEOREM OneConfirmation == Spec => []ConfirmationSent
<1> DEFINE Core == TypeOK /\ Charged /\ InHand /\ Creating
<1>1. Init => Core /\ Mailing /\ ConfirmationSent
  BY CoreInit DEF Init, ConfirmationSent
<1>2. Core /\ Mailing /\ ConfirmationSent /\ [Next]_vars => (Core /\ Mailing /\ ConfirmationSent)'
  <2> SUFFICES ASSUME Core, Mailing, ConfirmationSent, [Next]_vars, NEW b \in Bookings
               PROVE  /\ mails'[b] <= 1
                      /\ status'[b] = "confirmed"
                           => mails'[b] = 1 \/ Working(b, {"mail"})' \/ b \in broken'
    BY CoreStep, MailingStep DEF ConfirmationSent
  <2>1. CASE UNCHANGED vars
    BY <2>1 DEF ConfirmationSent, Working, vars
  <2>2. CASE Next
    <3>1. mails[b] \in Nat /\ mails[b] <= 1
      BY DEF ConfirmationSent, TypeOK
    <3>2. ASSUME NEW p \in Procs, At(p, "mail"), job[p].booking = b PROVE mails[b] = 0
      BY <3>2 DEF Mailing
    <3>3. mails'[b] <= 1 /\ (mails[b] = 1 => mails'[b] = 1)
      BY <2>2, <3>1, <3>2, Posting
    <3>4. broken \subseteq broken'
      BY <2>2 DEF Next, Arrives, Continues, PlaceHold, PayRead, PayAgain, SweepFind, CancelRead,
             CreateIntent, CreateIntentFails, SetPaymentIntent, ShowIntent, Verify,
             VerifyRefuses, MarkPaid, MarkPaidRefused, Mail, SweepClaim, CancelWrite, Abort,
             BuyerPays, HoldLapses, Erase, history
    <3>5. ASSUME NEW p \in Procs, At(p, "mail"), job[p].booking = b
          PROVE  mails'[b] = 1 \/ Working(b, {"mail"})' \/ b \in broken'
      <4>1. CASE job'[p] = job[p]
        BY <3>5, <4>1 DEF Working, At
      <4>2. CASE job'[p] # job[p]
        BY <2>2, <3>2, <3>5, <4>2, MailingEnds
      <4> QED
        BY <4>1, <4>2
    <3>6. CASE status[b] = "confirmed"
      BY <3>3, <3>4, <3>5, <3>6 DEF ConfirmationSent, Working, At
    <3>7. CASE status'[b] = "confirmed" /\ status[b] # "confirmed"
      BY <2>2, <3>3, <3>7, Confirming DEF Working
    <3> QED
      BY <3>3, <3>6, <3>7
  <2> QED
    BY <2>1, <2>2
<1> QED
  BY <1>1, <1>2, PTL DEF Spec

-----------------------------------------------------------------------------
(***************************************************************************)
(* The abstract specification.                                             *)
(***************************************************************************)

\* One write to a row moves its booking, and no other, to the stage of the new
\* status.
LEMMA StageMoves ==
  ASSUME TypeOK, NEW b \in Bookings, NEW s, status' = [status EXCEPT ![b] = s]
  PROVE  [c \in Bookings |-> Stage(status'[c])]
           = [[c \in Bookings |-> Stage(status[c])] EXCEPT ![b] = Stage(s)]
<1>1. [c \in Bookings |-> Stage(status'[c])]
        = [c \in Bookings |-> IF c = b THEN Stage(s) ELSE Stage(status[c])]
  BY DEF TypeOK
<1>2. [[c \in Bookings |-> Stage(status[c])] EXCEPT ![b] = Stage(s)]
        = [c \in Bookings |-> IF c = b THEN Stage(s) ELSE Stage(status[c])]
  OBVIOUS
<1> QED
  BY <1>1, <1>2

\* WritesOneRow: a step writes the status of one booking, and only in these ways.
LEMMA WritesOneRow ==
  ASSUME TypeOK, InHand, Next
  PROVE  \/ status' = status
         \/ \E b \in Bookings :
              \/ status[b] = "none" /\ status' = [status EXCEPT ![b] = "pending"]
              \/ status[b] = "pending" /\ status' = [status EXCEPT ![b] = "confirmed"]
              \/ status[b] = "pending" /\ status' = [status EXCEPT ![b] = "expired"]
              \/ b \in Rows /\ status' = [status EXCEPT ![b] = "cancelled"]
              \/ b \in Rows /\ status' = [status EXCEPT ![b] = "deleted"]
<1> DEFINE Written(b) ==
      \/ status[b] = "none" /\ status' = [status EXCEPT ![b] = "pending"]
      \/ status[b] = "pending" /\ status' = [status EXCEPT ![b] = "confirmed"]
      \/ status[b] = "pending" /\ status' = [status EXCEPT ![b] = "expired"]
      \/ b \in Rows /\ status' = [status EXCEPT ![b] = "cancelled"]
      \/ b \in Rows /\ status' = [status EXCEPT ![b] = "deleted"]
<1>1. ASSUME NEW p \in Procs, Arrives(p) PROVE status' = status \/ \E b \in Bookings : Written(b)
  BY <1>1 DEF Arrives, PlaceHold, PayRead, PayAgain, SweepFind, CancelRead, row
<1>2. ASSUME NEW p \in Procs, MarkPaid(p) \/ SweepClaim(p) \/ CancelWrite(p)
      PROVE  status' = status \/ \E b \in Bookings : Written(b)
  <2>1. job[p].booking \in Bookings
    BY <1>2, AtWork DEF MarkPaid, SweepClaim, CancelWrite, At
  <2>2. status' = status \/ Written(job[p].booking)
    BY <1>2 DEF MarkPaid, SweepClaim, CancelWrite
  <2> QED
    BY <2>1, <2>2
<1>3. ASSUME NEW p \in Procs, Continues(p) \/ Abort(p)
      PROVE  status' = status \/ \E b \in Bookings : Written(b)
  <2>1. CASE MarkPaid(p) \/ SweepClaim(p) \/ CancelWrite(p)
    BY <1>2, <2>1
  <2>2. CASE ~(MarkPaid(p) \/ SweepClaim(p) \/ CancelWrite(p))
    BY <1>3, <2>2 DEF Continues, CreateIntent, CreateIntentFails, SetPaymentIntent, ShowIntent,
                      Verify, VerifyRefuses, MarkPaidRefused, Mail, Abort, row
  <2> QED
    BY <2>1, <2>2
<1>4. ASSUME NEW i \in Intents, BuyerPays(i) PROVE status' = status
  BY <1>4 DEF BuyerPays, row
<1>5. ASSUME NEW b \in Bookings, HoldLapses(b) \/ Erase(b) PROVE status' = status \/ Written(b)
  BY <1>5 DEF HoldLapses, Erase
<1> QED
  BY <1>1, <1>3, <1>4, <1>5 DEF Next

\* A step of a checkout is a step of BookingLifecycle, or leaves it alone.
LEMMA LifecycleStep ==
  ASSUME TypeOK, InHand, [Next]_vars
  PROVE  [Lifecycle!Next]_([b \in Bookings |-> Stage(status[b])])
<1> DEFINE stages == [b \in Bookings |-> Stage(status[b])]
           after  == [b \in Bookings |-> Stage(status'[b])]
<1>1. stages' = after
  OBVIOUS
<1>2. CASE status' = status
  BY <1>2
<1>3. ASSUME NEW b \in Bookings, status[b] = "none", status' = [status EXCEPT ![b] = "pending"]
      PROVE  Lifecycle!Next
  <2>1. after = [stages EXCEPT ![b] = "held"] /\ stages[b] = "none"
    BY <1>3, StageMoves DEF Stage
  <2> QED
    BY <1>1, <2>1 DEF Lifecycle!Next, Lifecycle!Hold, Lifecycle!Moves
<1>4. ASSUME NEW b \in Bookings, status[b] = "pending", status' = [status EXCEPT ![b] = "confirmed"]
      PROVE  Lifecycle!Next
  <2>1. after = [stages EXCEPT ![b] = "sold"] /\ stages[b] = "held"
    BY <1>4, StageMoves DEF Stage
  <2> QED
    BY <1>1, <2>1 DEF Lifecycle!Next, Lifecycle!Pay, Lifecycle!Moves
<1>5. ASSUME NEW b \in Bookings, NEW s \in {"expired", "cancelled"}, b \in Rows,
             status' = [status EXCEPT ![b] = s]
      PROVE  Lifecycle!Next \/ stages' = stages
  <2>1. after = [stages EXCEPT ![b] = "closed"]
    BY <1>5, StageMoves DEF Stage
  <2>2. stages[b] \in {"held", "sold", "closed"}
    BY <1>5 DEF Rows, Stage
  <2>3. CASE stages[b] = "closed"
    BY <1>1, <2>1, <2>3
  <2>4. CASE stages[b] \in {"held", "sold"}
    BY <1>1, <2>1, <2>4 DEF Lifecycle!Next, Lifecycle!Close, Lifecycle!Moves
  <2> QED
    BY <2>2, <2>3, <2>4
<1>6. ASSUME NEW b \in Bookings, b \in Rows, status' = [status EXCEPT ![b] = "deleted"]
      PROVE  Lifecycle!Next
  <2>1. after = [stages EXCEPT ![b] = "erased"]
    BY <1>6, StageMoves DEF Stage
  <2>2. stages[b] \in {"held", "sold", "closed"}
    BY <1>6 DEF Rows, Stage
  <2> QED
    BY <1>1, <2>1, <2>2 DEF Lifecycle!Next, Lifecycle!Erase, Lifecycle!Moves
<1>7. CASE UNCHANGED vars
  BY <1>2, <1>7 DEF vars
<1>8. \A b \in Bookings : status[b] = "pending" => b \in Rows
  BY DEF Rows
<1>9. CASE Next
  BY <1>2, <1>3, <1>4, <1>5, <1>6, <1>8, <1>9, WritesOneRow
<1> QED
  BY <1>7, <1>9

\* FollowsLifecycle: whatever interleaves, a checkout implements the life of a
\* booking that the requests for seats implement too.
THEOREM ImplementsLifecycle == Spec => FollowsLifecycle
<1> DEFINE Core == TypeOK /\ Charged /\ InHand /\ Creating
<1>1. Init => Core /\ Lifecycle!Init
  BY CoreInit DEF Init, Lifecycle!Init, Stage
<1>2. Core /\ [Next]_vars => Core'
  BY CoreStep
<1>3. Core /\ [Next]_vars => [Lifecycle!Next]_([b \in Bookings |-> Stage(status[b])])
  BY LifecycleStep
<1> QED
  BY <1>1, <1>2, <1>3, PTL DEF Spec, FollowsLifecycle, Lifecycle!Spec
=============================================================================
