# A verification project for ticketmaster-backend

The service sells tickets: a Go HTTP API over MongoDB that runs as several
independent instances, long-lived servers (`cmd/server`) or serverless
functions (`api/index.go`). Nothing is shared between two requests but the
database, and the code uses no transactions: every database call is atomic by
itself and nothing is atomic across two of them. Almost everything that is hard
about the program is therefore a question about what other requests, the clock,
the payment provider or a crash do between two calls of a handler. That is
what these modules model.

One convention runs through all of them: **one database call is one action**. A
handler is a small program counter with its local variables (`job`, or `at` and
`todo`); the guards of its actions are the code's conditions and early returns,
and what it read earlier is in its locals, not in the database.

## Inventory

| Component | Source (under `src/internal/`) | State | Operations | What is hard |
|---|---|---|---|---|
| Seat ledger | `store/user/{bookings,holds}.go`, `store/core/bookings.go`, `store/admin/{bookings,catalogue}.go`, `httpapi/admin/discovery.go` | `events.ticketsSold/ticketsTotal/status`, `bookings.status/holdExpiresAt/quantity/eventId` | Book, ExpireHolds, MarkPaid, Cancel, DeleteBooking, Create/Update/DeleteEvent | two collections kept in step without transactions; check-then-act; crashes between the two writes |
| Checkout | `httpapi/user/{bookings,payments}.go`, `payment/`, `mail/` | `bookings.paymentIntentId/paidAt`, the provider's charges | CreateBooking, intentFor, PayBooking, Verify | the provider and the buyer act on their own; retries; failures after the money moved |
| Check-in | `store/admin/checkin.go`, `httpapi/admin/checkin.go`, `store/core/auth.go` (ticket codes) | `bookings.ticketCode/checkedInAt` | CheckIn, CheckInBulk, EnsureTicketCodes | several gates, flushed batches, two-step refusal, two instances starting at once |
| Accounts | `store/core/{auth,password}.go`, `store/user/passwordreset.go`, `store/admin/users.go`, `httpapi/{user,admin}/{auth,profile,users}.go` | `users`, `tokens`, `resets` | Register, Login, Logout, CreateReset, ResetPassword, UpdateMe, admin user edits and deletion | single-use tokens, whole-document writes, revocation racing a sign-in |
| Catalogue | `store/core/catalogue.go`, `store/admin/{catalogue,users}.go`, `httpapi/admin/discovery.go` | `events`, `venues`, `attractions`, `classifications`, and who names whom | create, replace, guarded delete, search | delete guards are check-then-act, one query per collection; creations and edits check nothing |
| Rate limiter | `httpapi/web/ratelimit.go` | a map of request times per client, under a mutex | Allow, sweep | timestamps taken outside the lock, entries removed while clients return |
| Paging | `store/core/store.go`, `httpapi/web/response.go` | none | normalise, FindPage, PageParams, WritePage | count and page are two queries, and pages are read at different times; overflow of the skip |
| Search history | `store/user/searches.go` | `searches` | record, list, forget | an upsert is a lookup and an insert; unique only by an index that may not be there |
| Analytics, door report | `store/admin/{analytics,door}.go` | none | aggregation pipelines | joins with documents that are gone; reports that must agree |
| Startup | `cmd/server`, `api/index.go`, `httpapi/router.go`, `store/core/auth.go` | the indexes | EnsureIndexes, EnsureAdmin, ticket codes, hold sweep | several instances start, crash and restart together; failures are only logged |

How they interact: `CreateBooking` calls Book (seat ledger), then intentFor
(checkout); Book itself calls ExpireHolds before it reserves. `PayBooking`
asks the provider and calls MarkPaid. `CheckIn` reads the status the ledger
writes and is the only writer of `checkedInAt`. Startup calls ExpireHolds for
every event and EnsureTicketCodes. Accounts decide who may call, and touch
bookings only in the guard of DeleteUser.

What makes each correct: *seat ledger*, the count equals the seats held, no
event is sold beyond its total, no seat is lost or given back twice; *checkout*,
a ticket only for money, one charge per booking, money always traceable;
*check-in*, a ticket admits once and refusals are true; *accounts*, a reset link
works once and revoked sessions stay revoked; *catalogue*, no reference to
something deleted, a client that pages sees what was there, reports add up;
*rate limiter*, no more than the limit in any window; *startup*, an
administrator to sign in as, and the unique indexes the others rely on.

## Modules

| Module | Models | Status |
|---|---|---|
| `BookingLifecycle` | the promise about one booking: the status rule of `models.go:80-92` | abstract specification |
| `SeatLedger`, `MCSeatLedger` | events and bookings under every handler that writes them | checked; refines `BookingLifecycle` |
| `SeatLedgerProofs` | its theorems | proved |
| `Checkout`, `MCCheckout` | charges, provider, buyer, confirmation mail | checked; refines `BookingLifecycle` |
| `CheckoutProofs` | its theorems | proved |
| `CheckIn`, `MCCheckIn` | gates, batches, ticket codes | checked |
| `CheckInProofs` | its theorems | proved |
| `Accounts`, `MCAccounts` | accounts, sessions, reset links | checked |
| `AccountsProofs` | its theorems | proved |
| `Catalogue` | documents, references, delete guards | checked, in `MCCatalogue` |
| `CatalogueProofs` | its theorems | proved |
| `Discovery` | a client paging through the events; extends `Catalogue` | checked, in `MCCatalogue` |
| `Reports` | dashboard and door report; extends `Catalogue` | checked, in `MCCatalogue` |
| `ReadersProofs` | theorems of `Discovery` and `Reports` | proved |
| `MCCatalogue` | the three together | |
| `Startup`, `MCStartup` | instances, indexes, the seeded administrator, search terms | checked |
| `StartupProofs` | its theorems | proved |
| `RateLimiter`, `MCRateLimiter` | the sliding window of one process | checked |
| `RateLimiterProofs` | its theorems | proved |

### SeatLedger

State: `present`, `total`, `sold` (`ticketsSold`, an unbounded integer because
ReleaseTickets decrements without looking), `onsale` per event; `status`,
`hold` (`holdExpiresAt`: absent, ahead of the clock, behind it), `eventOf`,
`qtyOf` per booking; `job` per request. `"none"`, `"reserved"` and `"deleted"`
are the statuses of a booking without a row: an unused id, seats reserved and
the row not inserted yet, row removed. Three history variables only observe:
`taken` (bookings whose seats were reserved and not given back), `drift` (events
whose count was made wrong) and `stranded` (bookings left halfway by a handler
that died).

| Code | Actions |
|---|---|
| Book | `BookStart`, then the sweep, then `Reserve` or `SoldOut`, `InsertBooking` |
| ExpireHolds | `SweepStart` (startup), `SweepFind`, per booking `SweepClaim` and `SweepRelease`, or `SweepSkip`; `SweepDone` |
| PayBooking, MarkPaid | `PayRead`, `MarkPaid` or `PayRefused` |
| Cancel (user and admin) | `CancelRead`, `CancelWrite`, `CancelRelease` |
| DeleteBooking | `DeleteRead`, `DeleteRelease` if the copy held seats, `DeleteRemove` |
| CreateEvent, UpdateEvent, DeleteEvent | `CreateEvent`; `UpdateRead`, `UpdateReplace` or `UpdateRefused`; `DeleteEventCheck`, `DeleteEventRemove` |
| crash, lost connection, 5 s deadline | `Abort` between any two calls |

The main property is `LedgerExact`: the stored count is the number of seats
taken and not given back, on every event that is not in `drift`. What makes it
informative is how little puts an event into `drift`. Exactly five steps do, and
each is a defect of the code or of its use:

1. an event created with `ticketsSold` in its body (`store/admin/catalogue.go:24`);
2. an edit that writes back a count that moved since it was read (`httpapi/admin/discovery.go:43`);
3. a cancellation of a booking that stopped holding its seats since it was read (`store/core/bookings.go:22`);
4. a deletion of one (`store/admin/bookings.go:51`);
5. a sweep that claims a booking whose deletion has already released its seats.

Everything else, including any number of concurrent bookings, sweeps, payments
and crashes, keeps the count exact. A crash does not make the count wrong: it
leaves seats counted that nobody holds, which `NoSeatStranded` is about.

`FollowsLifecycle` is the refinement: with `stage` the `Stage` of each status,
the handlers implement `BookingLifecycle`.

### Checkout

The row (`status`, `lapsed`, `intentOf`), the provider (`charge`, `chargeFor`;
external), what the buyer holds (`known`), and the mails. CreateBooking is
`PlaceHold`, `CreateIntent` or `CreateIntentFails`, `SetPaymentIntent`,
`ShowIntent`; PayBooking is `PayRead` or `PayAgain`, `Verify` or
`VerifyRefuses`, `MarkPaid` or `MarkPaidRefused`, `Mail`. `BuyerPays` happens at
any time after the client secret was shown, also when the hold is gone: the
code has no refund, so `ShownIsRecorded` is the strongest true statement about
that money. Instances with payments off have no checkout and are in
`SeatLedger` only (`Modes`). `TestProvider` stands for `PAYMENTS=test`.

`FollowsLifecycle` is the same refinement as the ledger's, from the other side:
a checkout knows of charges, retries and the provider, and not of seats, and
keeps every booking to the same life, the one of an instance with payments on.

### CheckIn

Gates process batches (a single scan is a batch of one) of codes that rows have
held. `Admit` is the conditional update, `NoMatch` and `Refuse` the two steps of
a refusal, `ScanFails` every failure, including an update that was applied and
whose answer was lost. Bookings are paid, expired, cancelled and erased in
between. `FillStarts` and `FillWrites` are EnsureTicketCodes in several
starting instances. The n-th random code drawn is the number n. The time a scan
records is left out.

### Accounts

State: `exists` and `account` (email, password, role) per user, `session` and
`holder` per token, `link` and `linkFor` per reset token, `job` per request. The
n-th password somebody chooses is the number n, which is what a hash says about
it: it accepts that one. History: `meant` (the value last chosen for each
field), `raced` (users whose fields were chosen while another request held a
copy it would write), `doomed` (sessions open when a password was replaced, by
any of the three handlers that replace one, or when the account was deleted),
`abandoned` (those whose handler died before it ended them), `spared` (those an
administrator's edit left open), `uses` and `contested` (links).

| Code | Actions |
|---|---|
| RegisterAccount, Register | `Register` |
| EnsureAdmin | `SeedRead`, then `SeedInsert` or `SeedDuplicate`, or `Promote` |
| Login | `LoginCheck`, `LoginIssue` |
| Auth, AdminAuth | `AuthToken`, `AuthUser` |
| Logout | `Logout` |
| UpdateMe | `ProfileWrite` or `WriteFails`, then `Revoke` for a new password |
| UpdateUser of an admin | `EditRead`, `EditWrite` or `WriteFails` |
| DeleteUser | `EraseCheck`, `EraseRemove`, `Revoke` |
| CreateReset | `ForgotRead`, `ForgotClear`, `ForgotSend` |
| ResetPassword | `RedeemRead`, `RedeemWrite`, `RedeemSpend`, `Revoke` |
| TTL of tokens, ResetTTL | `SessionEnds`, `LinkExpires` |

`DoomedSessionsEnd` is about every session that was open when a password was
replaced or the account was deleted, and has two exceptions, both in its
statement. One is a handler that died (`abandoned`). The other is a replacement
that ends no session although the handler goes through to its end: `UpdateUser`
of an administrator stores a new hash (`httpapi/admin/users.go:71-87`) and
returns, where UpdateMe, ResetPassword and DeleteUser go on to revoke. Such a
session stays `spared` until one of those three handlers dooms it. So the comment
at `store/core/password.go:34`, "changing a password should not leave a stolen
session alive", is true of the three and not of the program; what the property
shows is that there is no third way for a session to survive.

The property rests on the order of the calls: the password is replaced
before the sessions are discarded, so a sign-in with the old password either
completed before and is found, or has already checked and slips through. The
second case is real, and outside the property: such a session did not exist when
the password changed. `LeftOutIsKept` says exactly when the replacement of a
whole document is safe. `raced` is set when a value is chosen, not when one is
lost, so the property does not presuppose what it says.

The unique index on emails is taken to exist; `Startup` is about what happens
without it. A token given to no one (an ordinary user at the admin sign-in) is
modelled as one that somebody may hold.

### Catalogue, Discovery, Reports

State: `doc` (unused, stored, deleted) and `refs` (the ids a document names) for
ids of all six collections that refer to one another, `status` per booking (a
pending one split by its deadline), `job` per request. Everything of a document
but its references is left out, and what bookings do to the ticket count is the
subject of `SeatLedger`: here they are documents that name an event and a user.

| Code | Actions |
|---|---|
| Create of events, venues, attractions, classifications; Register | `Create` |
| update handlers, `core.Replace` | `EditRead`, `EditReplace` or `EditMisses` |
| DeleteVenue, DeleteAttraction, DeleteClassification, DeleteEvent, DeleteUser | `DeleteStart`, one `DeleteCheck` per collection or `DeleteRefused`, `DeleteRemove` |
| Book | `BookAuth`, `BookReserve` or `BookRefused`, `BookInsert` |
| MarkPaid, CheckIn, Cancel and sweeps, DeleteBooking | `MarkPaid`, `Scan`, `BookingEnds`, `BookingErased` |
| the clock, a crash | `HoldLapses`, `Abort` |
| a search and its pages | `Open`, `FindVenues`, `Count`, `Find`, `Turn`, `Leave` |

`NoOrphans` says what the guards achieve without transactions. `late` records a
reference at the moment it is *written*, if the document it names is gone or
some deletion of it has already looked at the collection the reference is in; it
does not ask whether the deletion goes through, nor whether the guards look at
the right collections. So the property fails as soon as a collection that can
refer is not queried, is queried too early, or counts a booking that it should
not let go. That the guards query every collection (`GuardsCover` in the
proofs) is a fact about `MayRefer` and `Guards`, two tables that the source
keeps in two places. The remaining gap is real: a reference that arrives
between a query and the removal is an orphan, and so is a ticket for an event
whose deletion looked while the hold had lapsed, and which was paid for after.

`Discovery` adds one client that walks from page to page, taking the next as
long as the last answer said there is one. `calm` are the events that no change
at or before their place in the order (and, with a city filter, no change of a
venue) could have moved; `still` says that nothing changed since the first query
of this page. `WalkSeesAll` holds because pages are sorted by `_id`, which never
changes; `PageIsSlice` ties number, size, page and page count together. A skip
is a signed integer below `Limit` (2^63 in the code, 4 in the run, where page 3
of size 2 overflows) and wraps around there; the property excepts page numbers
whose skip overflows, which `normalise` does not stop.

`Reports` has no state of its own: the pipelines are set operators over the
state of `Catalogue` at any moment, a `$lookup` is the set of stored documents
with an id, and a `$group` a set of rows. `BarsAddUp` relates the three reports.

### Startup

State: what each instance is doing (`at`, `next`, `found`), the `indexes` there
are, the address of each account (`email`), `admins`, the rows of one search
term of one user (`terms`) and upserts that are about to insert (`searching`).
Pairs of user and term are independent of one another, so one stands for all.
The properties assume that `ADMIN_EMAIL` is configured (`Seed`) and that the
database is empty at first: no accounts, no search terms and no indexes. Rows
that predate the indexes are not modelled; rows stored while an index is missing
are. History: `gaps`
(a start left EnsureIndexes before its end) and `overtaken` (instances whose
read of the account under the seed address was made untrue by a request).

| Code | Actions |
|---|---|
| New, once.Do | `Start`, then index, seed, `Configured` (serving, or broken for good) |
| EnsureIndexes | `BuildIndex` six times, or `IndexFails`, which ends it |
| EnsureAdmin | `SeedRead`, then `Promote`, or `Register` or `RegisterRefused`; `SeedFails` |
| Register, UpdateMe, UpdateUser, DeleteUser | `WriteAccount` |
| RecordSearch | `SearchMisses`, `SearchInserts` |
| ForgetSearch, ClearSearches | `Forget` |
| a crash, a recycled function | `Stop` |

A call that times out may have been applied (`IndexFails`). `SharedNeedsAGap` is
what best effort amounts to: until a start is cut short the indexes do their
work, and once rows are shared no later start can build the indexes from there
on. `AdminIsSeeded` is about starts none of whose calls failed and whose read
nobody overtook; other starts may leave nobody to sign in as.

### RateLimiter

A request reads the clock (`Arrive`), then takes the mutex and runs Allow with
that time (`Admit`, `Reject`, `Disabled`); others can get the mutex in between,
and `Tick` moves the clock. The list of a bucket is a set of hits numbered in
the order of their recording; `FirstIn` and `LastIn` are its ends. History:
`recorded` (every hit), `promise` (when the last rejected caller may come back),
`latest`, and `lag`, the longest a call has run behind the clock.

`NoMoreThanLimit` is stated in `lag`: with calls in the order of their times the
window is exact, and otherwise it is short by twice the lag. That this is the
right allowance is not obvious: with the lag counted once the property is
violated, by a bucket whose last hit is older than another, a sweep a little
ahead, and two calls with earlier times. In practice the lag is the time a
goroutine waits for the mutex, against a window of minutes.

## Runs

| Run | Question | Bounds | Distinct states |
|---|---|---|---|
| `ledger_all` | does the ledger hold under every request handler at once (each booking sweeps its event first)? | 1 event stored with 0 or 1 already sold, 2 bookings of 2 seats, totals 2 or 4, 2 requests, failures | 721 thousand |
| `ledger_holds` | are lapsed holds settled, and their seats returned once? | 2 events of 1 seat, 2 bookings, 2 requests, events stored with 0 or 1 already sold, sweep limit 1, the sweep at start-up too, both payment modes | 13 thousand |
| `checkout` | is a ticket confirmed only for money, once, and can money be traced? | 2 bookings, 2 charges, 2 requests, failures | 250 thousand |
| `checkin` | does a ticket admit once, and is every scan answered truly? | 2 bookings, one without a code, 2 gates, batches of at most 2, 2 requests, 2 starting instances, failures | 665 thousand |
| `accounts` | do sessions end, edits keep what they leave out, links work once? | 2 accounts, 2 addresses, 2 sessions, 2 links, 3 passwords, 5 requests, 2 at a time, failures | 656 thousand |
| `limiter` | does the window hold with times out of order? | 2 buckets, limits 0 and 2, window 3, 3 calls, delays up to 1, 5 instants | 431 thousand |
| `catalogue` | do guards leave no orphans they could have prevented, do pages show what was there, do reports add up? | a venue, an attraction, a classification, 2 events, a user, 2 bookings; 2 requests at a time and altogether, failures; one client, sizes 1 to 3, skips below 4, one bar | 302 thousand |
| `startup` | do the indexes and the administrator come about, and what if not? | 2 instances, 2 accounts, 2 addresses, 2 rows of a term, 3 starts, 4 requests, 2 faults | 1.85 million |
| `doc_cancel_once` | is Cancel "a no-op on an already-cancelled booking"? | violated | |
| `doc_retry_payment` | can the caller "retry payment" after the charge could not be created? | violated | |
| `doc_already_used` | does "already_used" mean "scanned before"? | violated | |
| `doc_reset_once` | does a reset link "work once"? | violated | |

Many invariants say what holds *except* where a history variable has recorded a
named step: `drift` and `stranded`, `raced`, `abandoned`, `spared`, `contested`,
`late`, `broken`, `paidMidScan`, `gaps`, `overtaken`, and `calm` and `still` the
other way round. The recorded steps are behaviour the code has and no run hides:
the run takes them, and the property then shows that nothing else in the module
leads there. It does not show that the recorded step is harmless. Under
`hazards` in PROJECT.json each hazard that occurs in this way says so.

Why the bounds are enough: every hazard of `SeatLedger`, `Checkout` and
`CheckIn` needs two requests on one booking or on one event, and at most one
failure; a third request only repeats what one of two can do in sequence. Two
bookings of two seats on a total of two make an event exactly full and make its
second booking compete; a total of four lets both fit; both fit a total lowered
in between. `SweepLimit` is 2 in `ledger_all` (a sweep may find everything) and
1 in `ledger_holds` (the limit cuts). `SoldFloor` stops deletions from starting
once a count is below zero, so that repeated double releases do not make the
state space infinite; only counts of events in `drift` get there. Booking ids
are not reused, so a run ends when they are used up: that is why the runs do
not check deadlock. Five requests in `accounts` are a sign-in, a request for a
link, and three more that change the account; the longest known scenario (two
redemptions of a link over a session) takes four. Three passwords are one to
register with and two to lose. In `limiter` a window of 3 and five instants are
enough for a hit to age out, for a sweep to be due again and for the scenario
above; three calls are the two late ones and the one that sweeps. In `catalogue`
an orphan takes two requests, a deletion and one that refers, each stopped
between any two of its calls; the documents given at the start are one of each
kind, so that every guard has something to find, and a second event and a
second booking are left to create. Two events on pages of one make a walk of two pages
whose count can change under it, and a page number of 3 makes the skip overflow
its limit of 4. In `startup` two instances and a third start are two starting
together and one after a crash; two faults are one in the indexes and one in the
seeding; two accounts and two rows are what it takes to share. Totals are
natural numbers: a negative `ticketsTotal`, which the API accepts, makes an
event nothing can be booked on and is not modelled.

Symmetry over requests and booking ids is used in runs without liveness only.

Fairness: `WF(Continues(p))` for each request. A handler is one goroutine that
performs its calls in sequence and never waits for another request; the Go
scheduler and the five-second deadline of every call make it go on. Nothing is
assumed about requests arriving, holds lapsing, buyers paying or sweeps being
started, because no code guarantees those (there is no background goroutine).
The liveness properties are accordingly about work that has been started, in
runs without failures, or up to a failure that is recorded (`broken`).

Every property of a passing run has a mutant: an operator named as a *slip* in
the module, the way the code could plausibly have been written, which must
violate it (claiming a hold by id alone, recording a payment without looking at
the status, starting a charge in PayBooking, ending a batch at its first error).

## What is proved

`SeatLedgerProofs` proves, for every value of the constants that satisfies
`LedgerAssumption` (any finite sets of bookings and requests, any set of events,
any quantities, natural totals): `Typing`, `HoldersAreCounted`,
`SeatsAreNotStranded`, `LedgerIsExact`, `NeverOversold`, `SoldNeverPassesTotal`,
`ReleasedOnce` and the refinement `ImplementsLifecycle`.

The argument of all but `ReleasedOnce` is in three inductive invariants, each using the one before, all
defined at the end of `SeatLedger`:

- `Control` (with `TypeOK`): what a handler may rely on between two calls. A
  handler about to insert works on an id that is reserved and that no other
  handler inserts; one about to release works on a booking that is over.
- `Accounted`: every booking that holds seats is in `taken`, and every booking
  in `taken` has someone who answers for it. By itself `HoldersCounted` is not
  inductive: that a reserved id is in `taken`, and that a deletion which has
  released leaves its booking out of `taken` or not holding, must be added.
- `Exact`: the count, the total, and `Owned`, which says that on an event not in
  `drift` a handler about to release is the only one to do so and the seats are
  there. Without `Owned` the count is not inductive: a release would not be
  known to match a seat taken.

`SeatsOf` counts seats as the cardinality of a set of (booking, seat number)
pairs, so sums over bookings need no recursion: the lemmas `SeatsAdd`,
`SeatsMonotone` and `SeatsAgree` follow from the library's facts about finite
cardinalities. `NeverOversold` then is a chain: holders are among those taken,
taken seats equal the count, the count is within the total.

`ReleasedOnce` is the promise in the comment of ExpireHolds, that two sweeps, or
a sweep and a payment, cannot both act on a booking. It assumes that `Handlers`
holds no cancellation and no deletion of bookings, and has to: both act on a
copy that they read earlier, and `doc_cancel_once` shows the seats of a booking
given back twice by two cancellations. Everything else is allowed, edits and
deletions of events, payments and crashes included. Its invariant is
`GivenBackOnce`: a booking has its seats until a sweep claims it, and the sweep
that claimed it is the only one that will release. An edit may make the count
wrong meanwhile, so `Owned`, which excepts the events in `drift`, does not give
this theorem.

`RateLimiterProofs` proves all four properties of `RateLimiter` (`LimitHolds`,
`ComeBackIsHonest`, `SweepIsComplete`, `ListsAreBounded`) for every value of the
constants that satisfies `RateLimiterAssumption`: any buckets, any number of
concurrent calls, any limits, window and delay. They follow from one inductive
invariant, `Counting`. `NoMoreThanLimit` speaks of `recorded`, every hit there
ever was, while Allow looks at `hits`; the gap between the two is `Discards`, a
lost hit is older than the latest window up to the lag, which needs `Numbering`
(the last hit of a bucket is within the lag of its latest one) because a sweep
looks at the last hit only. The two lags in the property are these two: one for
the sweep, one for a call behind the clock (lemma `WindowKept`). `WaitIsHonest`
needs `Promises`, that the hit a caller was told to wait for only leaves with
its whole bucket; and it needs the bound on the length of a list in `TypeOK`,
since a rejection that finds the whole bucket recent finds that hit recent too
(lemma `RejectsAtLimit`). The ends of a bucket are found by well-founded choice
of a least number (`LeastExists`).

`CheckoutProofs` proves `Typing`, `OnlyThePaidIsConfirmed`, `NoSecondCharge`,
`MoneyIsTraced`, `PaidIsFinal` and `OneConfirmation` under
`CheckoutAssumption`: any bookings, charges and requests. Five invariants carry
it. `Charged`: a charge is made for one booking and a booking has one charge.
`InHand`: what a handler holds in its locals. `Creating`: until the request that
created a booking has recorded its charge nobody can pay for it, which is why
`SetPaymentIntent` without a condition is safe. `Recorded`: a charge about to be
shown is on the row. `Mailing`: of all requests that press the pay button on a
booking one is about to mail it. None of the properties is inductive alone: that
no second charge is shown is a fact about who may still make one.
`ImplementsLifecycle` is the refinement of `BookingLifecycle`. It follows from
`WritesOneRow`, the list of the ways in which a step may change a row: it is
inserted under a fresh id, a pending one is confirmed or expires, and any row is
cancelled or deleted; `InHand` has it that what a handler writes is a booking.

`CheckInProofs` proves `Typing`, `OneAdmission`, `ScansAdmit`, `UsedIsTrue`,
`PrintedTickets` and `NoScanIsLost` under `CheckInAssumption`: any bookings,
gates, instances and batches. `Holding` says that a gate whose update matched
owns the one admission of its booking until it answers; `LooksAgain` what the
second call of a refusal can find; `Coded` that codes differ, which uses that
each new code is greater than all before it (`FreshCode`). Batches are sequences
of any length up to the bound: three small lemmas about tails replace induction.

`AccountsProofs` proves all five invariants of `Accounts` (`Typing`,
`SessionsEnd`, `LeftOutStays`, `ReuseIsOverlap`, `OneLinkLives`) under
`AccountsAssumption`: any accounts, addresses, sessions, links, requests,
passwords and set of routes. `Locals` is what a handler has read by the step it
is at; `DoomedWasLive` keeps a doomed session from being issued later;
`DoomSteps` lists the ways in which a session is doomed, by a handler that goes
on to revoke it or by an administrator's edit that leaves it open;
`CopyIsCurrent` says that a copy that is out is the document unless a field was
chosen since (lemma `EveryStepTreats` goes through everything that writes an
account); `OneRedeems` and `OneAsks` are the exclusion that the links rely on
outside `contested`. A process that moves is characterised once (`Moved`,
`WhoMoved`), so that the proofs need not go through all actions each time.

`CatalogueProofs` proves `Typing` and `GuardedDeletes` under
`CatalogueAssumption`: any ids of any kinds, references and requests.
`NoOrphans` becomes inductive with `LookedAt`: a deletion that has looked at a
collection has left no unnoticed reference in it. The key lemma is `GuardsCover`:
whatever collection may refer to a document is among those its deletion queries.

`StartupProofs` proves `Typing`, `BestEffortStartup` and the action property
`AdminSeeded` under `StartupAssumption`: any instances, accounts, addresses and
rows. `IndexesInOrder` says that there is no index without those before it, and
what follows for instances that are building or through; `AdminSeeded` rests on
what a start has read staying true until it writes, unless it is `overtaken`.

`ReadersProofs` is about the readers of the catalogue, under
`DiscoveryAssumption` and `ReportsAssumption` (finitely many events, no more than
an integer counts, no two under one `_id`; finitely many bookings of natural
quantities):

- `ReadersOnlyRead`: a catalogue with readers implements the catalogue without.
  So everything `CatalogueProofs` shows holds while clients page through it,
  which `ReadCatalogue` states.
- `ReportsAddUp`: `BarsAddUp` in every state, for any references to documents that
  may be gone. A sum is the number of pairs of a bar and one of its tickets, so
  "the bars add up" is a bijection between these pairs and the pairs of a booking
  and one of its tickets (`GroupsAddUp`, for any partition of the bookings). The
  work is to show that each chart is a partition: that no two bars have one
  label, and that every sold booking is in a bar, also one whose event or
  classification was deleted.
- `NothingMissed` and `PagesAreSlices`, the two properties of paging. Their
  invariant is `WalkInv`, at the end of `Discovery`. `CalmIsFound`: what is calm
  is still found, and the venues the client has read are the stored ones.
  `CountHolds`: the count that was made is past every calm event, so "there is no
  more" is said too late at worst. `PageHolds`: an answer holds the page it was
  asked for. `SeenSoFar`: calm events at the places passed so far were seen once
  and the others not at all. Without the last the property is not inductive: that
  everything was seen at the end says nothing about a walk in the middle. It
  speaks of the *place* of an event, the number of events before it, because a
  change behind a calm event may move other events and not this one. The page is
  the range of a sorted sequence: `Sorted` is defined by the places of its
  elements and not by a fold, and `PageIs` says which elements a slice has. That
  a walk from the first page never overflows its skip is part of `SeenSoFar` too:
  it goes on only if the next page begins before the count, and the count is at
  most the number of events.

Only model-checked: the liveness properties (`SeatsComeBack`, `FoundHoldsEnd`,
`VerifiedSettles`), which are out of the prover's reach. Every invariant and
action property of a passing run is a theorem.

## What the code does differently from what it says

Four disagreements are runs (`doc_*` above). Others met while modelling, stated
here only:

- `models.go:111-114` and `openapi.yaml` say that `holdExpiresAt` is absent once
  a booking is no longer pending; Cancel leaves it.
- `store/admin/catalogue.go:24` stores a `ticketsSold` from the body of a new
  event; `models.go:38-40` keeps that field for the booking flow.
- `httpapi/admin/checkin.go:109` answers "could not be processed, retry this
  scan" also when the scan was recorded and only the event could not be
  read; the retry is refused as already used.
- `store/core/store.go:265-266` says that fields left out of an edit keep their
  current values: not a field that changed after the edit read the account, so
  a change of name can bring back a password that a reset has replaced, or a
  role that was taken away (`raced` in `Accounts`).
- `store/user/passwordreset.go:39` speaks of one live token per account: two
  requests that overlap leave two (`contested`).
- `store/core/password.go:34` has a new password end every other session; an
  administrator's `UpdateUser` (`httpapi/admin/users.go:71-87`) sets one and ends
  none. `DoomedSessionsEnd` and the theorem `SessionsEnd` name it as an exception
  (`spared` in `Accounts`).
- `store/admin/users.go:29-30` keeps ticket holders from vanishing; a booking
  made between the check and the removal is not seen.
- `store/admin/checkin.go:69` reports any failure of the second read as an
  unknown code.
- `store/core/store.go:9-12` has ticket counts "move only through Book and the
  cancel path"; `UpdateEvent` writes back the count it read, so an edit undoes
  what was booked in between (step 2 of `drift`).
- `store/admin/catalogue.go:34` refuses to delete an event "so nobody loses a
  ticket they paid for": a hold that had lapsed when the guard looked can still be
  paid, and a booking can reach the row after the guard (`late` in `Catalogue`).
- `store/core/store.go:178-180` normalises pages because "a negative skip is a
  driver error"; a page number near the limit of an int64 overflows into one.
- `store/core/auth.go:196-199` takes a duplicate to mean that "a concurrent start
  won the race"; a visitor who registered the address between the read and the
  insert is the other case. Then nobody is administrator, and the next start
  promotes that visitor's account.
- `EnsureIndexes` stops at its first failure, so two accounts under one address
  keep every later start from building any index, the expiry of sign-ins
  included; `UserByToken` does not look at a token's age itself.
- `api/index.go` keeps the error of its one start for the life of the instance:
  a call of `New` that would succeed a second later is never made again.
- `store/admin/analytics.go:24` says that a cancelled booking "has had its money
  returned": there is no refund in the code.
- `httpapi/router.go:227` leaves PATCH out of the methods a browser may use,
  although the router registers PATCH routes.
- A ticket that was scanned can be cancelled, and its seats are sold again while
  its holder is inside. No document says what should happen.
- The two charts of a dashboard are two queries, each right at its own instant.


## Plan

Everything planned is done: the ledger, checkout, check-in, accounts, the
limiter, the catalogue with its readers and reports, and startup, each checked
and proved as far as the section on proofs says. What could follow:

1. An abstract specification of a reset link (issued, used, over) that
   `Accounts` implements outside `contested`, as the ledger does for a booking.
2. The composition of `Accounts` and `Catalogue` in one state: the deletion of a
   user against its bookings is in the second, its sessions in the first.
3. Filters of a search other than the city, and the other listings, which call
   the same `FindPage`.

## Not modelled, and why

Routing, JSON, the API documentation, the environment and `.env` have no state:
they translate between HTTP and the calls that are modelled. The wording of
mails and the SMTP dialogue are left out; whether a mail goes out, fails or goes
out twice is in `Checkout`. Amounts are abstracted: a charge is paid or it is
not, and revenue is counted in tickets, so the conversion to minor units is not
checked. How the limiter identifies a caller, and the rounding of its
Retry-After, are left out. Names, password lengths, the admin registration key
and the fields of catalogue documents other than references do not bear on any
property. The expiry of search terms after 90 days and their listing are left
out. A sign-in that has compared the old password when it is changed still
stores its session: no property excludes that, because such a session did not
exist when the password changed. Nor does one exclude that a buyer is told
"sold out" while another request has claimed lapsed holds it has yet to release.
