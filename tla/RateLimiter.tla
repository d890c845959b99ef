----------------------------- MODULE RateLimiter -----------------------------
(***************************************************************************)
(* The sliding-window limiter of one process.                              *)
(*                                                                         *)
(* A request reads the clock, then takes the mutex and runs Allow with the *)
(* time it read.  Others can take the mutex in between, so Allow sees      *)
(* times out of order; the clock itself is Go's monotonic one and does not *)
(* go back.                                                                *)
(*                                                                         *)
(* The list of a bucket is the set of the hits recorded in it, numbered in *)
(* the order of their recording.                                           *)
(***************************************************************************)
EXTENDS Integers, FiniteSets

CONSTANTS
  Keys,       \* buckets: route and caller
  Procs,      \* requests served at the same time
  Never,      \* swept before the first sweep, and the promise to nobody
  Limits,     \* configured limits (0 turns the limiter off)
  Window,     \* configured window
  MaxDelay,   \* longest time from reading the clock to running Allow
  MaxTime     \* bound: when the clock stops

ASSUME RateLimiterAssumption ==
  /\ Never \notin Int
  /\ Limits \subseteq Nat
  /\ Window \in Nat \ {0}
  /\ MaxDelay \in Nat
  /\ MaxTime \in Nat

VARIABLES
  limit,      \* l.limit
  swept,      \* l.swept
  hits,       \* l.hits
  clock,      \* time.Now()
  calls,      \* process -> the bucket and the time its call of Allow will be given
  recorded,   \* history: every hit ever recorded
  promise,    \* history: key -> when the last rejected caller may come back
  latest,     \* history: the latest time any call was given
  lag         \* history: the longest a call has run behind the clock

vars == <<limit, swept, hits, clock, calls, recorded, promise, latest, lag>>

Hits   == [key : Keys, at : Nat, nr : Nat]
NoCall == [key |-> Never, at |-> 0]
Calls  == [key : Keys, at : Nat]

Of(k, hs)      == {h \in hs : h.key = k}
After(t, hs)   == {h \in hs : h.at > t}
LastIn(hs)     == CHOOSE h \in hs : \A g \in hs : g.nr <= h.nr
FirstIn(hs)    == CHOOSE h \in hs : \A g \in hs : h.nr <= g.nr

Init ==
  /\ limit    \in Limits
  /\ swept    = Never
  /\ hits     = {}
  /\ clock    = 0
  /\ calls    = [p \in Procs |-> NoCall]
  /\ recorded = {}
  /\ promise  = [k \in Keys |-> Never]
  /\ latest   = 0
  /\ lag      = 0

\* RateLimited: time.Now() is read before Allow waits for the mutex.
Arrive(p, k) ==
  /\ calls[p] = NoCall
  /\ calls' = [calls EXCEPT ![p] = [key |-> k, at |-> clock]]
  /\ UNCHANGED <<limit, swept, hits, clock, recorded, promise, latest, lag>>

\* Time passes, but not so much that a waiting call is delayed beyond MaxDelay.
Tick ==
  /\ clock < MaxTime
  /\ \A p \in Procs : calls[p] # NoCall => clock < calls[p].at + MaxDelay
  /\ clock' = clock + 1
  /\ UNCHANGED <<limit, swept, hits, calls, recorded, promise, latest, lag>>

\* Slip: swept once and never again.
DueOnce(now) == swept = Never

\* sweep, at most once a window, drops the buckets whose last hit has aged out.
Due(now) == swept = Never \/ now - swept >= Window

\* Slip: the first hit of a bucket is looked at, not the last.
StaysByFirst(k, now) == FirstIn(Of(k, hits)).at > now - Window

Stays(k, now) == LastIn(Of(k, hits)).at > now - Window

AfterSweep(now) ==
  IF Due(now) THEN {h \in hits : Stays(h.key, now)} ELSE hits

\* The hits of a bucket that the call still counts.
Recent(k, now) == After(now - Window, Of(k, AfterSweep(now)))
Others(k, now) == AfterSweep(now) \ Of(k, hits)

Called(now) ==
  /\ swept'  = IF Due(now) THEN now ELSE swept
  /\ latest' = IF now > latest THEN now ELSE latest
  /\ lag'    = IF clock - now > lag THEN clock - now ELSE lag

\* Slip: one attempt too many.
AdmitOneMore(p) ==
  /\ calls[p] # NoCall
  /\ LET k == calls[p].key  now == calls[p].at
         new == [key |-> k, at |-> now, nr |-> Cardinality(Of(k, recorded))] IN
       /\ limit > 0
       /\ Cardinality(Recent(k, now)) <= limit
       /\ Called(now)
       /\ hits'     = Others(k, now) \cup Recent(k, now) \cup {new}
       /\ recorded' = recorded \cup {new}
       /\ promise'  = [promise EXCEPT ![k] = Never]
  /\ calls' = [calls EXCEPT ![p] = NoCall]
  /\ UNCHANGED <<limit, clock>>

Admit(p) ==
  /\ calls[p] # NoCall
  /\ LET k == calls[p].key  now == calls[p].at
         new == [key |-> k, at |-> now, nr |-> Cardinality(Of(k, recorded))] IN
       /\ limit > 0
       /\ Cardinality(Recent(k, now)) < limit
       /\ Called(now)
       /\ hits'     = Others(k, now) \cup Recent(k, now) \cup {new}
       /\ recorded' = recorded \cup {new}
       /\ promise'  = [promise EXCEPT ![k] = Never]
  /\ calls' = [calls EXCEPT ![p] = NoCall]
  /\ UNCHANGED <<limit, clock>>

\* Slip: a rejected attempt is recorded too.
RejectRecorded(p) ==
  /\ calls[p] # NoCall
  /\ LET k == calls[p].key  now == calls[p].at
         new == [key |-> k, at |-> now, nr |-> Cardinality(Of(k, recorded))] IN
       /\ limit > 0
       /\ Cardinality(Recent(k, now)) >= limit
       /\ Called(now)
       /\ hits'     = Others(k, now) \cup Recent(k, now) \cup {new}
       /\ recorded' = recorded \cup {new}
       /\ promise'  = [promise EXCEPT ![k] = FirstIn(Recent(k, now)).at + Window]
  /\ calls' = [calls EXCEPT ![p] = NoCall]
  /\ UNCHANGED <<limit, clock>>

\* A rejection tells the caller to wait until the first hit it counted ages out.
Reject(p) ==
  /\ calls[p] # NoCall
  /\ LET k == calls[p].key  now == calls[p].at IN
       /\ limit > 0
       /\ Cardinality(Recent(k, now)) >= limit
       /\ Called(now)
       /\ hits'    = Others(k, now) \cup Recent(k, now)
       /\ promise' = [promise EXCEPT ![k] = FirstIn(Recent(k, now)).at + Window]
  /\ calls' = [calls EXCEPT ![p] = NoCall]
  /\ UNCHANGED <<limit, clock, recorded>>

\* A limit of 0 admits everything and records nothing.
Disabled(p) ==
  /\ calls[p] # NoCall
  /\ limit = 0
  /\ calls' = [calls EXCEPT ![p] = NoCall]
  /\ UNCHANGED <<limit, swept, hits, clock, recorded, promise, latest, lag>>

Next ==
  \/ Tick
  \/ \E p \in Procs : \/ \E k \in Keys : Arrive(p, k)
                      \/ Admit(p) \/ Reject(p) \/ Disabled(p)

Spec == Init /\ [][Next]_vars

-----------------------------------------------------------------------------
(***************************************************************************)
(* Properties.                                                             *)
(***************************************************************************)

\* TypeOK: every variable keeps its shape, and no bucket is longer than the limit.
TypeOK ==
  /\ limit \in Limits
  /\ swept \in Nat \cup {Never}
  /\ hits \subseteq recorded
  /\ clock \in 0 .. MaxTime
  /\ calls \in [Procs -> Calls \cup {NoCall}]
  /\ recorded \subseteq Hits
  /\ promise \in [Keys -> Nat \cup {Never}]
  /\ latest \in Nat
  /\ lag \in Nat
  /\ \A k \in Keys : Cardinality(Of(k, hits)) <= limit

\* NoMoreThanLimit: "a sliding-window counter": no window holds more admitted
\* attempts of a caller than the limit.  That is exact as long as calls run in
\* the order of their times.  Calls that have run up to lag behind the clock
\* shorten the window twice: a sweep may judge a bucket by a last hit that is
\* older than another, and it may run ahead of a call with an earlier time.
NoMoreThanLimit ==
  \A h \in recorded :
    Cardinality({g \in Of(h.key, recorded) :
                   h.at - (Window - 2 * lag) < g.at /\ g.at <= h.at}) <= limit

\* WaitIsHonest: a rejected caller who comes back after the time it was told to
\* wait is admitted, unless somebody of its bucket was admitted meanwhile, "so a
\* blocked caller cannot push their own unlock time further away".
WaitIsHonest ==
  [][\A p \in Procs :
       LET k == calls[p].key IN
         /\ calls[p] # NoCall
         /\ calls'[p] = NoCall
         /\ limit > 0
         /\ promise[k] # Never
         /\ promise'[k] # Never
         => calls[p].at < promise[k]]_vars

\* BucketsAreRecent: the sweep keeps the map from growing "with every distinct
\* address seen": calls are never a window ahead of the last sweep, and that
\* sweep left no bucket that had not been hit for a window.
BucketsAreRecent ==
  swept # Never =>
    /\ latest - swept < Window
    /\ lag < Window => \A h \in hits : LastIn(Of(h.key, hits)).at > swept - Window

-----------------------------------------------------------------------------
(***************************************************************************)
(* The inductive invariant behind them.                                    *)
(***************************************************************************)

\* Clocks: nothing is later than the clock.
Clocks ==
  /\ latest <= clock
  /\ IF swept = Never THEN latest = 0 ELSE swept <= latest
  /\ \A p \in Procs : calls[p] # NoCall => calls[p].at <= clock
  /\ \A h \in recorded : h.at <= clock

\* Numbering: the next number of a bucket is above all of its hits', and a hit
\* recorded before another is at most lag later.
Numbering ==
  /\ IsFiniteSet(recorded)
  /\ \A h \in recorded : h.nr < Cardinality(Of(h.key, recorded))
  /\ \A g, h \in recorded : g.key = h.key /\ g.nr <= h.nr => g.at <= h.at + lag

\* Discards: what a bucket has lost had aged out of the latest window, by the
\* time it was recorded under or by that of a hit recorded after it.
Discards == \A g \in recorded \ hits : g.at <= latest - Window + lag

\* Promises: the hit a rejected caller waits for is still there, or its whole
\* bucket is gone.
Promises ==
  \A k \in Keys : promise[k] # Never =>
    Of(k, hits) = {} \/ \E h \in Of(k, hits) : promise[k] = h.at + Window

\* Counting: the inductive invariant.
Counting ==
  TypeOK /\ Clocks /\ Numbering /\ Discards /\ Promises /\ NoMoreThanLimit
         /\ BucketsAreRecent
=============================================================================
