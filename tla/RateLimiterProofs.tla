-------------------------- MODULE RateLimiterProofs --------------------------
(***************************************************************************)
(* Theorems about RateLimiter, for any limits, any window, any number of   *)
(* callers and calls, and calls that run any time behind the clock.        *)
(***************************************************************************)
EXTENDS RateLimiter, FiniteSetTheorems, WellFoundedInduction, TLAPS

-----------------------------------------------------------------------------
(***************************************************************************)
(* The ends of a bucket.                                                   *)
(***************************************************************************)

\* LeastExists: some member of a nonempty set of naturals is least.
LEMMA LeastExists ==
  ASSUME NEW S \in SUBSET Nat, S # {}
  PROVE  \E n \in S : \A m \in S : n <= m
<1>1. \E n \in S : \A m \in S : ~(<<m, n>> \in OpToRel(<, Nat))
  BY NatLessThanWellFounded, WFMin
<1>2. PICK n \in S : \A m \in S : ~(<<m, n>> \in OpToRel(<, Nat))
  BY <1>1
<1>3. \A m \in S : ~(m < n)
  BY <1>2 DEF OpToRel
<1> QED BY <1>3

\* FirstIsFirst: FirstIn of a nonempty bucket is its hit with the least number.
LEMMA FirstIsFirst ==
  ASSUME NEW S, S # {}, \A h \in S : h.nr \in Nat
  PROVE  FirstIn(S) \in S /\ \A g \in S : FirstIn(S).nr <= g.nr
<1> DEFINE Numbers == {h.nr : h \in S}
<1>1. \E n \in Numbers : \A m \in Numbers : n <= m
  <2> HIDE DEF Numbers
  <2>1. Numbers \in SUBSET Nat /\ Numbers # {}
    BY DEF Numbers
  <2> QED BY <2>1, LeastExists
<1>2. \E h \in S : \A g \in S : h.nr <= g.nr
  BY <1>1
<1> QED BY <1>2 DEF FirstIn

\* LastIsLast: LastIn of a nonempty bucket with bounded numbers is its hit with
\* the greatest number.
LEMMA LastIsLast ==
  ASSUME NEW S, S # {}, NEW N \in Nat, \A h \in S : h.nr \in Nat /\ h.nr <= N
  PROVE  LastIn(S) \in S /\ \A g \in S : g.nr <= LastIn(S).nr
<1> DEFINE Numbers == {N - h.nr : h \in S}
<1>1. \E n \in Numbers : \A m \in Numbers : n <= m
  <2>1. Numbers \in SUBSET Nat /\ Numbers # {}
    OBVIOUS
  <2> HIDE DEF Numbers
  <2> QED BY <2>1, LeastExists
<1>2. PICK h \in S : \A m \in Numbers : N - h.nr <= m
  BY <1>1
<1>3. \A g \in S : g.nr <= h.nr
  <2> SUFFICES ASSUME NEW g \in S PROVE g.nr <= h.nr
    OBVIOUS
  <2>1. N - h.nr <= N - g.nr
    BY <1>2
  <2> QED BY <2>1
<1> QED BY <1>3 DEF LastIn

-----------------------------------------------------------------------------
(***************************************************************************)
(* What a call finds and leaves behind.                                    *)
(***************************************************************************)

\* CallShape: a waiting call has a bucket and a time that has been.
LEMMA CallShape ==
  ASSUME TypeOK, Clocks, NEW p \in Procs, calls[p] # NoCall
  PROVE  calls[p].key \in Keys /\ calls[p].at \in Nat /\ calls[p].at <= clock
BY DEF TypeOK, Clocks, Calls

\* CallTimes: how a call at now moves the sweep, the latest time and the lag.
LEMMA CallTimes ==
  ASSUME TypeOK, Clocks, NEW now \in Nat, now <= clock, Called(now)
  PROVE  /\ latest' \in Nat /\ latest <= latest' /\ now <= latest'
         /\ latest' <= clock
         /\ lag' \in Nat /\ lag <= lag' /\ clock <= now + lag'
         /\ swept' \in Nat /\ swept' <= latest'
<1>1. clock \in Nat /\ latest \in Nat /\ lag \in Nat /\ latest <= clock
  BY RateLimiterAssumption DEF TypeOK, Clocks
<1>2. latest' \in Nat /\ latest <= latest' /\ now <= latest' /\ latest' <= clock
  BY <1>1 DEF Called
<1>3. lag' \in Nat /\ lag <= lag' /\ clock <= now + lag'
  BY <1>1 DEF Called
<1>4. swept' \in Nat /\ swept' <= latest'
  <2>1. CASE Due(now)
    BY <2>1, <1>2 DEF Called
  <2>2. CASE ~Due(now)
    BY <2>2, <1>1, <1>2 DEF Called, Due, TypeOK, Clocks
  <2> QED BY <2>1, <2>2
<1> QED BY <1>2, <1>3, <1>4

\* BucketShape: a bucket is a finite set of hits, and the hits a call still counts
\* are among them.
LEMMA BucketShape ==
  ASSUME TypeOK, Numbering, NEW k, NEW now
  PROVE  /\ IsFiniteSet(Of(k, recorded)) /\ Cardinality(Of(k, recorded)) \in Nat
         /\ IsFiniteSet(Of(k, hits)) /\ Cardinality(Of(k, hits)) \in Nat
         /\ Recent(k, now) \subseteq Of(k, hits)
         /\ IsFiniteSet(Recent(k, now)) /\ Cardinality(Recent(k, now)) \in Nat
         /\ \A h \in recorded : h.at \in Nat /\ h.nr \in Nat /\ h.key \in Keys
<1>1. Of(k, recorded) \in SUBSET recorded /\ Of(k, hits) \in SUBSET recorded
  BY DEF Of, TypeOK
<1>2. Recent(k, now) \subseteq Of(k, hits)
  BY DEF Recent, After, Of, AfterSweep
<1>3. \A S \in SUBSET recorded : IsFiniteSet(S) /\ Cardinality(S) \in Nat
  BY FS_Subset, FS_CardinalityType DEF Numbering
<1>4. \A h \in recorded : h.at \in Nat /\ h.nr \in Nat /\ h.key \in Keys
  BY DEF TypeOK, Hits
<1> QED BY <1>1, <1>2, <1>3, <1>4

\* LastOfBucket: the last hit of a bucket is its hit with the greatest number.
LEMMA LastOfBucket ==
  ASSUME TypeOK, Numbering, NEW k, NEW S, S \subseteq Of(k, hits), S # {}
  PROVE  LastIn(S) \in S /\ \A g \in S : g.nr <= LastIn(S).nr
<1> DEFINE N == Cardinality(Of(k, recorded))
<1>1. N \in Nat /\ \A h \in recorded : h.nr \in Nat
  BY BucketShape
<1>2. \A h \in S : h.nr \in Nat /\ h.nr <= N
  BY <1>1 DEF TypeOK, Numbering, Of
<1> QED
  <2> HIDE DEF N
  <2> QED BY <1>1, <1>2, LastIsLast

\* LostIsOld: a hit that a call at now does not leave in hits has aged out.
LEMMA LostIsOld ==
  ASSUME TypeOK, Clocks, Numbering, Discards,
         NEW k, NEW now \in Nat, now <= clock, Called(now),
         NEW g \in recorded, g \notin Others(k, now), g \notin Recent(k, now)
  PROVE  g.at <= latest' - Window + lag'
<1>1. /\ latest' \in Nat /\ latest <= latest' /\ now <= latest'
      /\ lag' \in Nat /\ lag <= lag'
  BY CallTimes
<1>2. g.at \in Nat /\ latest \in Nat /\ lag \in Nat /\ Window \in Nat
  BY RateLimiterAssumption, BucketShape DEF TypeOK
<1>3. CASE g \notin hits
  <2>1. g.at <= latest - Window + lag
    BY <1>3 DEF Discards
  <2> QED BY <2>1, <1>1, <1>2
<1>4. CASE g \in hits /\ g \notin AfterSweep(now)
  <2> DEFINE l == LastIn(Of(g.key, hits))
  <2>1. g \in Of(g.key, hits)
    BY <1>4 DEF Of
  <2>2. l \in Of(g.key, hits) /\ g.nr <= l.nr
    <3>1. LastIn(Of(g.key, hits)) \in Of(g.key, hits)
          /\ \A f \in Of(g.key, hits) : f.nr <= LastIn(Of(g.key, hits)).nr
      BY <2>1, LastOfBucket
    <3> QED BY <3>1, <2>1
  <2>3. ~(l.at > now - Window)
    BY <1>4 DEF AfterSweep, Stays
  <2> HIDE DEF l
  <2>4. l \in recorded /\ l.key = g.key /\ l.at \in Nat
    BY <2>2, BucketShape DEF Of, TypeOK
  <2>5. g.at <= l.at + lag
    BY <2>2, <2>4 DEF Numbering
  <2> QED BY <2>3, <2>4, <2>5, <1>1, <1>2
<1>5. CASE g \in AfterSweep(now)
  <2>1. g \in Of(k, hits)
    BY <1>5 DEF Others
  <2>2. ~(g.at > now - Window)
    BY <1>5, <2>1 DEF Recent, After, Of
  <2> QED BY <2>2, <1>1, <1>2
<1> QED BY <1>3, <1>4, <1>5

\* RejectsAtLimit: a call that is refused finds all of its bucket recent.
LEMMA RejectsAtLimit ==
  ASSUME TypeOK, Clocks, Numbering, NEW p \in Procs, Reject(p)
  PROVE  /\ Recent(calls[p].key, calls[p].at) = Of(calls[p].key, hits)
         /\ Of(calls[p].key, hits) # {}
<1> DEFINE k == calls[p].key
           R == Recent(k, calls[p].at)
           B == Of(k, hits)
<1>1. k \in Keys
  BY CallShape DEF Reject
<1>2. Cardinality(R) >= limit /\ limit > 0 /\ limit \in Nat
  BY RateLimiterAssumption DEF Reject, TypeOK
<1>3. Cardinality(B) <= limit
  BY <1>1 DEF TypeOK
<1>4. R \subseteq B /\ IsFiniteSet(B) /\ Cardinality(R) \in Nat /\ Cardinality(B) \in Nat
  BY BucketShape
<1> HIDE DEF R, B
<1>5. Cardinality(R) <= Cardinality(B) /\ (Cardinality(B) = Cardinality(R) => B = R)
  BY <1>4, FS_Subset
<1>6. R = B /\ Cardinality(B) # 0
  BY <1>2, <1>3, <1>4, <1>5
<1> QED BY <1>6, FS_EmptySet DEF R, B

-----------------------------------------------------------------------------
(***************************************************************************)
(* Each part of the inductive invariant is kept by an admission and by a   *)
(* rejection; the other steps do not touch a bucket.                       *)
(***************************************************************************)

\* The hit an admission records.
NewHit(p) == [key |-> calls[p].key, at |-> calls[p].at,
              nr |-> Cardinality(Of(calls[p].key, recorded))]

\* NewHitIsNew: it has a number no hit of its bucket has, and is a hit.
LEMMA NewHitIsNew ==
  ASSUME TypeOK, Clocks, Numbering, NEW p \in Procs, calls[p] # NoCall
  PROVE  /\ NewHit(p) \in Hits /\ NewHit(p) \notin recorded
         /\ \A h \in Of(calls[p].key, recorded) : h.nr < NewHit(p).nr
<1>1. calls[p].key \in Keys /\ calls[p].at \in Nat
  BY CallShape
<1>2. Cardinality(Of(calls[p].key, recorded)) \in Nat
  BY BucketShape
<1>3. NewHit(p) \in Hits
  BY <1>1, <1>2 DEF NewHit, Hits
<1>4. \A h \in Of(calls[p].key, recorded) : h.nr < NewHit(p).nr
  BY DEF NewHit, Of, Numbering
<1>5. NewHit(p) \notin recorded
  <2> SUFFICES ASSUME NewHit(p) \in recorded PROVE FALSE
    OBVIOUS
  <2>1. NewHit(p) \in Of(calls[p].key, recorded)
    BY DEF NewHit, Of
  <2>2. NewHit(p).nr < NewHit(p).nr
    BY <2>1, <1>4
  <2> QED BY <2>2, <1>2 DEF NewHit
<1> QED BY <1>3, <1>4, <1>5

\* CallDoes: what an admission and a rejection have in common, and the difference.
LEMMA CallDoes ==
  ASSUME TypeOK, Clocks, NEW p \in Procs, Admit(p) \/ Reject(p),
         NEW k, k = calls[p].key, NEW now, now = calls[p].at
  PROVE  /\ k \in Keys /\ now \in Nat /\ now <= clock /\ calls[p] # NoCall
         /\ Called(now)
         /\ calls' = [calls EXCEPT ![p] = NoCall]
         /\ limit' = limit /\ clock' = clock
         /\ \/ /\ Admit(p)
               /\ Cardinality(Recent(k, now)) < limit
               /\ hits' = Others(k, now) \cup Recent(k, now) \cup {NewHit(p)}
               /\ recorded' = recorded \cup {NewHit(p)}
               /\ promise' = [promise EXCEPT ![k] = Never]
            \/ /\ Reject(p)
               /\ hits' = Others(k, now) \cup Recent(k, now)
               /\ recorded' = recorded
               /\ promise' = [promise EXCEPT ![k] = FirstIn(Recent(k, now)).at + Window]
<1>1. calls[p] # NoCall
  BY DEF Admit, Reject
<1>2. k \in Keys /\ now \in Nat /\ now <= clock
  BY <1>1, CallShape
<1>3. CASE Admit(p)
  BY <1>1, <1>2, <1>3 DEF Admit, NewHit
<1>4. CASE Reject(p)
  BY <1>1, <1>2, <1>4 DEF Reject
<1> QED BY <1>3, <1>4

\* OtherSteps: a step that is neither an admission nor a rejection leaves the
\* buckets alone.
LEMMA OtherSteps ==
  ASSUME [Next]_vars
  PROVE  \/ \E p \in Procs : Admit(p) \/ Reject(p)
         \/ UNCHANGED <<limit, swept, hits, recorded, promise, latest, lag>>
BY DEF Next, Tick, Arrive, Disabled, vars

\* TypesKept: TypeOK is inductive given the other parts.
LEMMA TypesKept ==
  ASSUME TypeOK, Clocks, Numbering, [Next]_vars
  PROVE  TypeOK'
<1> USE RateLimiterAssumption
<1>1. CASE Tick
  BY <1>1 DEF Tick, TypeOK
<1>2. ASSUME NEW p \in Procs, NEW k \in Keys, Arrive(p, k)
      PROVE  TypeOK'
  <2>1. [key |-> k, at |-> clock] \in Calls
    BY DEF TypeOK, Calls
  <2>2. calls' \in [Procs -> Calls \cup {NoCall}]
    BY <2>1, <1>2 DEF Arrive, TypeOK
  <2> QED BY <2>2, <1>2 DEF Arrive, TypeOK
<1>3. ASSUME NEW p \in Procs, Admit(p)
      PROVE  TypeOK'
  <2> DEFINE k == calls[p].key
             now == calls[p].at
  <2>1. calls[p] # NoCall /\ k \in Keys /\ now \in Nat /\ now <= clock
    BY <1>3, CallDoes
  <2>2. /\ Called(now) /\ Cardinality(Recent(k, now)) < limit
        /\ hits' = Others(k, now) \cup Recent(k, now) \cup {NewHit(p)}
        /\ recorded' = recorded \cup {NewHit(p)}
        /\ promise' = [promise EXCEPT ![k] = Never]
        /\ calls' = [calls EXCEPT ![p] = NoCall]
        /\ limit' = limit /\ clock' = clock
    BY <1>3 DEF Admit, NewHit
  <2>3. swept' \in Nat /\ latest' \in Nat /\ lag' \in Nat
    BY <2>1, <2>2, CallTimes
  <2>4. hits' \subseteq recorded' /\ recorded' \subseteq Hits
    BY <2>1, <2>2, NewHitIsNew DEF TypeOK, Others, Recent, After, AfterSweep, Of
  <2>5. ASSUME NEW j \in Keys
        PROVE  Cardinality(Of(j, hits)') <= limit
    <3>1. CASE j # k
      <4>1. Of(j, hits)' \in SUBSET Of(j, hits)
        BY <2>2, <3>1 DEF Of, Others, Recent, After, AfterSweep, NewHit
      <4>2. IsFiniteSet(Of(j, hits)) /\ Cardinality(Of(j, hits)) \in Nat
        BY BucketShape
      <4>3. Cardinality(Of(j, hits)) <= limit /\ limit \in Nat
        BY DEF TypeOK
      <4>4. Cardinality(Of(j, hits)') <= Cardinality(Of(j, hits))
            /\ Cardinality(Of(j, hits)') \in Nat
        BY <4>1, <4>2, FS_Subset, FS_CardinalityType
      <4> QED BY <4>2, <4>3, <4>4
    <3>2. CASE j = k
      <4>1. Of(j, hits)' = Recent(k, now) \cup {NewHit(p)}
        BY <2>2, <3>2 DEF Of, Others, Recent, After, AfterSweep, NewHit
      <4>2. IsFiniteSet(Recent(k, now)) /\ Cardinality(Recent(k, now)) \in Nat
        BY BucketShape
      <4>3. Cardinality(Of(j, hits)') <= Cardinality(Recent(k, now)) + 1
            /\ Cardinality(Of(j, hits)') \in Nat
        <5> DEFINE R == Recent(k, now)
                   B == Of(j, hits)'
        <5>1. B = R \cup {NewHit(p)} /\ IsFiniteSet(R) /\ Cardinality(R) \in Nat
          BY <4>1, <4>2
        <5> HIDE DEF R, B
        <5>2. Cardinality(B) = IF NewHit(p) \in R THEN Cardinality(R) ELSE Cardinality(R) + 1
          BY <5>1, FS_AddElement
        <5>3. Cardinality(B) <= Cardinality(R) + 1 /\ Cardinality(B) \in Nat
          BY <5>1, <5>2
        <5> QED BY <5>3 DEF R, B
      <4> QED BY <4>2, <4>3, <2>2 DEF TypeOK
    <3> QED BY <3>1, <3>2
  <2>6. calls' \in [Procs -> Calls \cup {NoCall}]
        /\ promise' \in [Keys -> Nat \cup {Never}]
    BY <2>2 DEF TypeOK
  <2>7. limit' \in Limits /\ clock' \in 0 .. MaxTime
    BY <2>2 DEF TypeOK
  <2> QED BY <2>2, <2>3, <2>4, <2>5, <2>6, <2>7 DEF TypeOK
<1>4. ASSUME NEW p \in Procs, Reject(p)
      PROVE  TypeOK'
  <2> DEFINE k == calls[p].key
             now == calls[p].at
  <2>1. calls[p] # NoCall /\ k \in Keys /\ now \in Nat /\ now <= clock
    BY <1>4, CallShape DEF Reject
  <2>2. /\ Called(now)
        /\ hits' = Others(k, now) \cup Recent(k, now)
        /\ recorded' = recorded
        /\ promise' = [promise EXCEPT ![k] = FirstIn(Recent(k, now)).at + Window]
        /\ calls' = [calls EXCEPT ![p] = NoCall]
        /\ limit' = limit /\ clock' = clock
    BY <1>4 DEF Reject
  <2>3. swept' \in Nat /\ latest' \in Nat /\ lag' \in Nat
    BY <2>1, <2>2, CallTimes
  <2>4. hits' \subseteq hits
    BY <2>2 DEF Others, Recent, After, AfterSweep, Of
  <2>5. ASSUME NEW j \in Keys
        PROVE  Cardinality(Of(j, hits)') <= limit
    <3>1. Of(j, hits)' \in SUBSET Of(j, hits)
      BY <2>4 DEF Of
    <3>2. IsFiniteSet(Of(j, hits)) /\ Cardinality(Of(j, hits)) \in Nat
      BY BucketShape
    <3>3. Cardinality(Of(j, hits)) <= limit /\ limit \in Nat
      BY DEF TypeOK
    <3>4. Cardinality(Of(j, hits)') <= Cardinality(Of(j, hits))
          /\ Cardinality(Of(j, hits)') \in Nat
      BY <3>1, <3>2, FS_Subset, FS_CardinalityType
    <3> QED BY <3>2, <3>3, <3>4
  <2>6. FirstIn(Recent(k, now)).at \in Nat
    <3>1. Recent(k, now) # {} /\ Recent(k, now) \subseteq Of(k, hits)
      BY <1>4, RejectsAtLimit
    <3>2. Recent(k, now) \subseteq recorded
      BY <3>1 DEF Of, TypeOK
    <3>3. \A h \in recorded : h.at \in Nat /\ h.nr \in Nat
      BY BucketShape
    <3>4. FirstIn(Recent(k, now)) \in Recent(k, now)
      BY <3>1, <3>2, <3>3, FirstIsFirst
    <3> QED BY <3>2, <3>3, <3>4
  <2>7. calls' \in [Procs -> Calls \cup {NoCall}]
        /\ promise' \in [Keys -> Nat \cup {Never}]
    <3> DEFINE w == FirstIn(Recent(k, now)).at + Window
    <3>1. w \in Nat
      BY <2>6
    <3> HIDE DEF w
    <3>2. promise' = [promise EXCEPT ![k] = w]
      BY <2>2 DEF w
    <3> QED BY <2>2, <3>1, <3>2 DEF TypeOK
  <2>8. limit' \in Limits /\ clock' \in 0 .. MaxTime /\ recorded' \subseteq Hits
        /\ hits' \subseteq recorded'
    BY <2>2, <2>4 DEF TypeOK
  <2> QED BY <2>2, <2>3, <2>5, <2>7, <2>8 DEF TypeOK
<1>5. ASSUME NEW p \in Procs, Disabled(p)
      PROVE  TypeOK'
  BY <1>5 DEF Disabled, TypeOK, Of
<1>6. CASE UNCHANGED vars
  BY <1>6 DEF vars, TypeOK, Of
<1> QED BY <1>1, <1>2, <1>3, <1>4, <1>5, <1>6 DEF Next

\* ClocksKept: no call leaves a time behind that is later than the clock.
LEMMA ClocksKept ==
  ASSUME TypeOK, Clocks, Numbering, [Next]_vars
  PROVE  Clocks'
<1> USE RateLimiterAssumption
<1>1. CASE Tick
  <2>1. clock \in Nat /\ clock' = clock + 1 /\ latest \in Nat
    BY <1>1 DEF Tick, TypeOK
  <2>2. \A p \in Procs : calls[p] # NoCall => calls[p].at \in Nat
    BY DEF TypeOK, Calls
  <2>3. \A h \in recorded : h.at \in Nat
    BY BucketShape
  <2> QED BY <1>1, <2>1, <2>2, <2>3 DEF Tick, Clocks
<1>2. ASSUME NEW p \in Procs, NEW k \in Keys, Arrive(p, k)
      PROVE  Clocks'
  <2>1. \A q \in Procs : calls'[q] = IF q = p THEN [key |-> k, at |-> clock] ELSE calls[q]
    BY <1>2 DEF Arrive, TypeOK
  <2>2. clock \in Nat
    BY DEF TypeOK
  <2> QED BY <1>2, <2>1, <2>2 DEF Arrive, Clocks
<1>3. ASSUME NEW p \in Procs, Admit(p) \/ Reject(p)
      PROVE  Clocks'
  <2> DEFINE k == calls[p].key
             now == calls[p].at
  <2>1. /\ now \in Nat /\ now <= clock /\ Called(now)
        /\ calls' = [calls EXCEPT ![p] = NoCall] /\ clock' = clock
        /\ recorded' \subseteq recorded \cup {NewHit(p)}
    BY <1>3, CallDoes
  <2>2. latest' <= clock /\ swept' \in Nat /\ swept' <= latest'
    BY <2>1, CallTimes
  <2>3. \A q \in Procs : calls'[q] # NoCall => calls'[q] = calls[q]
    BY <2>1 DEF TypeOK
  <2>4. NewHit(p).at = now
    BY DEF NewHit
  <2>5. \A h \in recorded' : h.at <= clock
    BY <2>1, <2>4 DEF Clocks
  <2>6. \A q \in Procs : calls'[q] # NoCall => calls'[q].at <= clock
    BY <2>3 DEF Clocks
  <2>7. swept' # Never
    BY <2>2
  <2> QED BY <2>1, <2>2, <2>5, <2>6, <2>7 DEF Clocks
<1>4. ASSUME NEW p \in Procs, Disabled(p)
      PROVE  Clocks'
  <2>1. \A q \in Procs : calls'[q] # NoCall => calls'[q] = calls[q]
    BY <1>4 DEF Disabled, TypeOK
  <2>2. \A q \in Procs : calls'[q] # NoCall => calls'[q].at <= clock
    BY <2>1 DEF Clocks
  <2> QED BY <1>4, <2>2 DEF Disabled, Clocks
<1>5. CASE UNCHANGED vars
  BY <1>5 DEF vars, Clocks
<1> QED BY <1>1, <1>2, <1>3, <1>4, <1>5 DEF Next

\* NumberingKept: an admission takes the next number, and is at most lag behind
\* every hit before it.
LEMMA NumberingKept ==
  ASSUME TypeOK, Clocks, Numbering, [Next]_vars
  PROVE  Numbering'
<1>1. ASSUME NEW p \in Procs, Admit(p)
      PROVE  Numbering'
  <2> DEFINE k == calls[p].key
             now == calls[p].at
             new == NewHit(p)
  <2>1. /\ calls[p] # NoCall /\ now \in Nat /\ now <= clock /\ Called(now)
        /\ recorded' = recorded \cup {NewHit(p)}
    BY <1>1, CallDoes DEF Admit, NewHit
  <2>2. lag' \in Nat /\ lag <= lag' /\ clock <= now + lag' /\ lag \in Nat /\ clock \in Nat
    BY <2>1, CallTimes, RateLimiterAssumption DEF TypeOK
  <2>3. /\ new \notin recorded /\ new.key = k /\ new.at = now
        /\ new.nr = Cardinality(Of(k, recorded)) /\ new.nr \in Nat
        /\ \A h \in Of(k, recorded) : h.nr < new.nr
    BY <2>1, NewHitIsNew, BucketShape DEF NewHit
  <2>4. \A h \in recorded : h.at \in Nat /\ h.nr \in Nat /\ h.at <= clock
    BY BucketShape DEF Clocks
  <2> HIDE DEF new, k, now
  <2>5. recorded' = recorded \cup {new}
    BY <2>1 DEF new
  <2>6. IsFiniteSet(recorded')
    BY <2>5, FS_AddElement DEF Numbering
  <2>7. /\ Of(k, recorded') = Of(k, recorded) \cup {new}
        /\ new \notin Of(k, recorded)
        /\ \A j : j # k => Of(j, recorded') = Of(j, recorded)
    BY <2>3, <2>5 DEF Of
  <2>8. Cardinality(Of(k, recorded')) = new.nr + 1
    <3>1. IsFiniteSet(Of(k, recorded))
      BY BucketShape
    <3> QED BY <2>3, <2>7, <3>1, FS_AddElement
  <2>9. ASSUME NEW h \in recorded'
        PROVE  h.nr < Cardinality(Of(h.key, recorded'))
    <3>1. CASE h.key = k
      <4>1. h.nr <= new.nr /\ h.nr \in Nat
        BY <2>3, <2>4, <2>5, <3>1 DEF Of
      <4> QED BY <4>1, <2>3, <2>8, <3>1
    <3>2. CASE h.key # k
      BY <2>3, <2>5, <2>7, <3>2 DEF Numbering
    <3> QED BY <3>1, <3>2
  <2>10. ASSUME NEW g \in recorded', NEW h \in recorded', g.key = h.key
         PROVE  g.nr <= h.nr => g.at <= h.at + lag'
    <3>1. CASE g \in recorded /\ h \in recorded
      <4>1. g.nr <= h.nr => g.at <= h.at + lag
        BY <2>10, <3>1 DEF Numbering
      <4> QED BY <4>1, <2>2, <2>4, <3>1
    <3>2. CASE g \in recorded /\ h = new
      <4>1. g.nr < h.nr
        BY <2>3, <2>10, <3>2 DEF Of
      <4> QED BY <4>1, <2>1, <2>2, <2>3, <2>4, <3>2 DEF now
    <3>3. CASE g = new /\ h \in recorded
      <4>1. h.nr < g.nr
        BY <2>3, <2>10, <3>3 DEF Of
      <4> QED BY <4>1, <2>3, <2>4, <3>3
    <3>4. CASE g = new /\ h = new
      BY <2>1, <2>2, <2>3, <3>4 DEF now
    <3> QED BY <2>5, <3>1, <3>2, <3>3, <3>4
  <2> QED BY <2>6, <2>10, <2>9 DEF Numbering
<1>2. ASSUME NEW p \in Procs, Reject(p)
      PROVE  Numbering'
  <2>1. calls[p].at \in Nat /\ calls[p].at <= clock /\ Called(calls[p].at)
        /\ recorded' = recorded
    BY <1>2, CallDoes DEF Reject
  <2>2. lag' \in Nat /\ lag <= lag' /\ lag \in Nat
    BY <2>1, CallTimes DEF TypeOK
  <2>3. \A h \in recorded : h.at \in Nat
    BY BucketShape
  <2>4. \A g, h \in recorded : g.key = h.key /\ g.nr <= h.nr => g.at <= h.at + lag'
    <3> SUFFICES ASSUME NEW g \in recorded, NEW h \in recorded, g.key = h.key, g.nr <= h.nr
                 PROVE  g.at <= h.at + lag'
      OBVIOUS
    <3>1. g.at <= h.at + lag
      BY DEF Numbering
    <3> QED BY <3>1, <2>2, <2>3
  <2> QED BY <2>1, <2>4 DEF Numbering, Of
<1>3. CASE UNCHANGED <<limit, swept, hits, recorded, promise, latest, lag>>
  BY <1>3 DEF Numbering, Of
<1> QED BY <1>1, <1>2, <1>3, OtherSteps

\* DiscardsKept: a call only loses hits that have aged out.
LEMMA DiscardsKept ==
  ASSUME TypeOK, Clocks, Numbering, Discards, [Next]_vars
  PROVE  Discards'
<1>1. ASSUME NEW p \in Procs, Admit(p) \/ Reject(p)
      PROVE  Discards'
  <2> DEFINE k == calls[p].key
             now == calls[p].at
  <2>1. /\ now \in Nat /\ now <= clock /\ Called(now)
        /\ recorded' \ hits' \subseteq recorded
        /\ Others(k, now) \cup Recent(k, now) \subseteq hits'
    BY <1>1, CallDoes
  <2> SUFFICES ASSUME NEW g \in recorded' \ hits'
               PROVE  g.at <= latest' - Window + lag'
    BY DEF Discards
  <2>2. g \in recorded /\ g \notin Others(k, now) /\ g \notin Recent(k, now)
    BY <2>1
  <2> QED BY <2>1, <2>2, LostIsOld
<1>2. CASE UNCHANGED <<limit, swept, hits, recorded, promise, latest, lag>>
  BY <1>2 DEF Discards
<1> QED BY <1>1, <1>2, OtherSteps

\* OtherBuckets: a call sweeps another bucket as a whole or leaves it as it is.
LEMMA OtherBuckets ==
  ASSUME TypeOK, Clocks, NEW p \in Procs, Admit(p) \/ Reject(p),
         NEW j, j # calls[p].key
  PROVE  Of(j, hits') \in {{}, Of(j, hits)}
         /\ (Of(j, hits') # {} => ~Due(calls[p].at) \/ Stays(j, calls[p].at))
<1> DEFINE k == calls[p].key
           now == calls[p].at
<1>1. Of(j, hits') = Of(j, AfterSweep(now))
  <2>1. hits' = Others(k, now) \cup Recent(k, now) \cup {NewHit(p)}
        \/ hits' = Others(k, now) \cup Recent(k, now)
    BY CallDoes
  <2>2. Of(j, Others(k, now)) = Of(j, AfterSweep(now)) /\ Of(j, Recent(k, now)) = {}
    BY DEF Of, Others, Recent, After
  <2>3. Of(j, {NewHit(p)}) = {}
    BY DEF Of, NewHit
  <2>4. \A A, B : Of(j, A \cup B) = Of(j, A) \cup Of(j, B)
    BY DEF Of
  <2>5. CASE hits' = Others(k, now) \cup Recent(k, now)
    <3>1. Of(j, hits') = Of(j, Others(k, now)) \cup Of(j, Recent(k, now))
      BY <2>5, <2>4
    <3> QED BY <3>1, <2>2
  <2>6. CASE hits' = Others(k, now) \cup Recent(k, now) \cup {NewHit(p)}
    <3>1. Of(j, hits') = Of(j, Others(k, now) \cup Recent(k, now)) \cup Of(j, {NewHit(p)})
      BY <2>6, <2>4
    <3>2. Of(j, Others(k, now) \cup Recent(k, now))
            = Of(j, Others(k, now)) \cup Of(j, Recent(k, now))
      BY <2>4
    <3> QED BY <3>1, <3>2, <2>2, <2>3
  <2> QED BY <2>1, <2>5, <2>6
<1>2. CASE ~Due(now)
  BY <1>1, <1>2 DEF AfterSweep
<1>3. CASE Due(now) /\ Stays(j, now)
  BY <1>1, <1>3 DEF AfterSweep, Of
<1>4. CASE Due(now) /\ ~Stays(j, now)
  BY <1>1, <1>4 DEF AfterSweep, Of
<1> QED BY <1>2, <1>3, <1>4

\* PromisesKept: a promise is made about the first hit of a bucket, which only
\* leaves with its bucket or with the promise.
LEMMA PromisesKept ==
  ASSUME TypeOK, Clocks, Numbering, Promises, [Next]_vars
  PROVE  Promises'
<1>1. ASSUME NEW p \in Procs, Admit(p) \/ Reject(p)
      PROVE  Promises'
  <2> DEFINE k == calls[p].key
             now == calls[p].at
  <2> SUFFICES ASSUME NEW j \in Keys, promise'[j] # Never
               PROVE  Of(j, hits') = {} \/ \E h \in Of(j, hits') : promise'[j] = h.at + Window
    BY DEF Promises, Of
  <2>1. CASE j # k
    <3>1. promise'[j] = promise[j]
      BY <1>1, <2>1, CallDoes DEF TypeOK
    <3>2. Of(j, hits) = {} \/ \E h \in Of(j, hits) : promise[j] = h.at + Window
      BY <3>1 DEF Promises
    <3>3. Of(j, hits') \in {{}, Of(j, hits)}
      BY <1>1, <2>1, OtherBuckets
    <3> QED BY <3>1, <3>2, <3>3
  <2>2. CASE j = k
    <3>1. /\ Reject(p)
          /\ hits' = Others(k, now) \cup Recent(k, now)
          /\ promise'[k] = FirstIn(Recent(k, now)).at + Window
      BY <1>1, <2>2, CallDoes DEF TypeOK
    <3>2. Recent(k, now) # {} /\ Recent(k, now) \subseteq Of(k, hits)
      BY <3>1, RejectsAtLimit
    <3>3. \A h \in Recent(k, now) : h.nr \in Nat
      BY <3>2, BucketShape DEF Of, TypeOK
    <3>4. FirstIn(Recent(k, now)) \in Recent(k, now)
      BY <3>2, <3>3, FirstIsFirst
    <3>5. Recent(k, now) \subseteq Of(k, hits')
      BY <3>1 DEF Recent, After, Of
    <3> QED BY <2>2, <3>1, <3>4, <3>5
  <2> QED BY <2>1, <2>2
<1>2. CASE UNCHANGED <<limit, swept, hits, recorded, promise, latest, lag>>
  BY <1>2 DEF Promises, Of
<1> QED BY <1>1, <1>2, OtherSteps

\* InWindow: the attempts NoMoreThanLimit counts.
InWindow(h) ==
  {g \in Of(h.key, recorded) : h.at - (Window - 2 * lag) < g.at /\ g.at <= h.at}

\* WindowKept: every hit that shares a window with a new one is one the call counted.
LEMMA WindowKept ==
  ASSUME TypeOK, Clocks, Numbering, Discards, NoMoreThanLimit, [Next]_vars
  PROVE  NoMoreThanLimit'
<1>0. Window \in Nat /\ lag \in Nat /\ limit \in Nat /\ clock \in Nat
  BY RateLimiterAssumption DEF TypeOK
<1>1. ASSUME NEW p \in Procs, Admit(p) \/ Reject(p)
      PROVE  NoMoreThanLimit'
  <2> DEFINE k == calls[p].key
             now == calls[p].at
  <2>1. /\ calls[p] # NoCall /\ now \in Nat /\ now <= clock /\ Called(now) /\ limit' = limit
    BY <1>1, CallDoes
  <2>2. /\ latest' \in Nat /\ latest' <= clock
        /\ lag' \in Nat /\ lag <= lag' /\ clock <= now + lag'
    BY <2>1, CallTimes
  <2>3. recorded' = recorded \/ (Admit(p) /\ recorded' = recorded \cup {NewHit(p)})
    BY <1>1, CallDoes
  <2>4. \A h \in recorded : h.at \in Nat /\ IsFiniteSet(Of(h.key, recorded))
    BY BucketShape
  <2>5. NewHit(p).at = now /\ NewHit(p).key = k
    BY DEF NewHit
  <2> SUFFICES ASSUME NEW h \in recorded'
               PROVE  Cardinality(InWindow(h)') <= limit
    BY <2>1 DEF NoMoreThanLimit, InWindow, Of
  <2>6. h.at \in Nat
    BY <2>1, <2>3, <2>4, <2>5
  <2>7. CASE NewHit(p) \notin InWindow(h)' \/ recorded' = recorded
    <3>1. CASE h \in recorded
      <4>1. InWindow(h)' \in SUBSET InWindow(h)
        <5> SUFFICES ASSUME NEW g \in InWindow(h)' PROVE g \in InWindow(h)
          OBVIOUS
        <5>1. g \in recorded' /\ g.key = h.key /\ h.at - (Window - 2 * lag') < g.at /\ g.at <= h.at
          BY DEF InWindow, Of
        <5>2. g \in recorded
          BY <5>1, <2>3, <2>7
        <5>3. g.at \in Nat
          BY <5>2, <2>4
        <5>4. h.at - (Window - 2 * lag) < g.at
          BY <5>1, <5>3, <1>0, <2>2, <2>6
        <5> QED BY <5>1, <5>2, <5>4 DEF InWindow, Of
      <4>2. IsFiniteSet(InWindow(h)) /\ Cardinality(InWindow(h)) <= limit
        <5>1. InWindow(h) \in SUBSET Of(h.key, recorded)
          BY DEF InWindow
        <5>2. IsFiniteSet(InWindow(h))
          BY <5>1, <2>4, <3>1, FS_Subset
        <5>3. Cardinality(InWindow(h)) <= limit
          BY <3>1 DEF InWindow, NoMoreThanLimit
        <5> QED BY <5>2, <5>3
      <4>3. Cardinality(InWindow(h)') <= Cardinality(InWindow(h))
            /\ Cardinality(InWindow(h)') \in Nat /\ Cardinality(InWindow(h)) \in Nat
        BY <4>1, <4>2, FS_Subset, FS_CardinalityType
      <4> QED BY <4>2, <4>3, <1>0
    <3>2. CASE h \notin recorded
      <4>1. h = NewHit(p) /\ h \notin InWindow(h)'
        BY <2>3, <2>7, <3>2
      <4>2. ~(h.at - (Window - 2 * lag') < h.at)
        BY <4>1, <2>6 DEF InWindow, Of
      <4>3. InWindow(h)' = {}
        <5> SUFFICES ASSUME NEW g \in InWindow(h)' PROVE FALSE
          OBVIOUS
        <5>1. g \in recorded' /\ h.at - (Window - 2 * lag') < g.at /\ g.at <= h.at
          BY DEF InWindow, Of
        <5>2. g.at \in Nat
          BY <5>1, <2>1, <2>3, <2>4, <2>5
        <5> QED BY <5>1, <5>2, <4>2, <1>0, <2>2, <2>6
      <4> QED BY <4>3, <1>0, FS_EmptySet
    <3> QED BY <3>1, <3>2
  <2>8. CASE NewHit(p) \in InWindow(h)' /\ Admit(p) /\ recorded' = recorded \cup {NewHit(p)}
    <3>1. h.key = k /\ now <= h.at
      BY <2>5, <2>8 DEF InWindow, Of
    <3>2. InWindow(h)' \in SUBSET (Recent(k, now) \cup {NewHit(p)})
      <4> SUFFICES ASSUME NEW g \in InWindow(h)', g # NewHit(p)
                   PROVE  g \in Recent(k, now)
        OBVIOUS
      <4>1. /\ g \in recorded /\ g.key = k /\ g.at \in Nat
            /\ h.at - (Window - 2 * lag') < g.at
        BY <2>4, <2>8, <3>1 DEF InWindow, Of
      <4>2. ~(g.at <= latest' - Window + lag')
        BY <4>1, <3>1, <1>0, <2>1, <2>2, <2>6
      <4>3. g \in Others(k, now) \/ g \in Recent(k, now)
        BY <4>1, <4>2, <2>1, LostIsOld
      <4>4. g \notin Others(k, now)
        BY <4>1 DEF Others, Of, AfterSweep
      <4> QED BY <4>3, <4>4
    <3>3. /\ IsFiniteSet(Recent(k, now)) /\ Cardinality(Recent(k, now)) \in Nat
          /\ Cardinality(Recent(k, now)) < limit
      <4>1. Cardinality(Recent(k, now)) < limit
        BY <2>8 DEF Admit
      <4> QED BY <4>1, BucketShape
    <3> DEFINE R == Recent(k, now)
               W == InWindow(h)'
               x == NewHit(p)
    <3>4. IsFiniteSet(R) /\ Cardinality(R) \in Nat /\ Cardinality(R) < limit
          /\ W \in SUBSET (R \cup {x})
      BY <3>2, <3>3
    <3> HIDE DEF R, W, x
    <3>5. IsFiniteSet(R \cup {x}) /\ Cardinality(R \cup {x}) <= limit
          /\ Cardinality(R \cup {x}) \in Nat
      <4>1. IsFiniteSet(R \cup {x})
            /\ Cardinality(R \cup {x}) = IF x \in R THEN Cardinality(R) ELSE Cardinality(R) + 1
        BY <3>4, FS_AddElement
      <4> QED BY <4>1, <3>4, <1>0
    <3>6. Cardinality(W) <= Cardinality(R \cup {x}) /\ Cardinality(W) \in Nat
      BY <3>4, <3>5, FS_Subset, FS_CardinalityType
    <3>7. Cardinality(W) <= limit
      BY <3>5, <3>6, <1>0
    <3> QED BY <3>7 DEF W
  <2> QED BY <2>3, <2>7, <2>8
<1>2. CASE UNCHANGED <<limit, swept, hits, recorded, promise, latest, lag>>
  BY <1>2 DEF NoMoreThanLimit, Of
<1> QED BY <1>1, <1>2, OtherSteps

\* SweepKept: a sweep leaves only recent buckets, and a call between two sweeps
\* leaves a bucket with a hit at least as recent as the sweep allows.
LEMMA SweepKept ==
  ASSUME TypeOK, Clocks, Numbering, BucketsAreRecent, [Next]_vars
  PROVE  BucketsAreRecent'
<1>1. ASSUME NEW p \in Procs, Admit(p) \/ Reject(p)
      PROVE  BucketsAreRecent'
  <2> DEFINE k == calls[p].key
             now == calls[p].at
  <2>1. k \in Keys /\ now \in Nat /\ now <= clock /\ Called(now) /\ calls[p] # NoCall
    BY <1>1, CallDoes
  <2>2. /\ latest' \in Nat /\ latest' <= clock /\ clock \in Nat /\ latest \in Nat
        /\ lag' \in Nat /\ lag <= lag' /\ clock <= now + lag' /\ lag \in Nat
        /\ swept' \in Nat /\ Window \in Nat \ {0} /\ latest <= clock
    BY <2>1, CallTimes, RateLimiterAssumption DEF TypeOK, Clocks
  <2>3. latest' - swept' < Window
    <3>1. CASE swept = Never
      BY <2>1, <2>2, <3>1 DEF Called, Due, Clocks
    <3>2. CASE swept # Never
      <4>1. swept \in Nat /\ latest - swept < Window
        BY <3>2 DEF TypeOK, BucketsAreRecent
      <4> QED BY <2>1, <2>2, <3>2, <4>1 DEF Called, Due
    <3> QED BY <3>1, <3>2
  <2>4. ASSUME lag' < Window, NEW h \in hits'
        PROVE  LastIn(Of(h.key, hits')).at > swept' - Window
    <3>1. h \in Of(h.key, hits')
      BY DEF Of
    <3>2. CASE ~Due(now) /\ h \in hits /\ Of(h.key, hits') = Of(h.key, hits)
      <4>1. swept # Never /\ swept' = swept
        BY <2>1, <3>2 DEF Due, Called
      <4>2. LastIn(Of(h.key, hits)).at > swept - Window
        BY <2>2, <2>4, <3>2, <4>1 DEF BucketsAreRecent
      <4> QED BY <3>2, <4>1, <4>2
    <3>3. CASE h.key # k
      <4>1. Of(h.key, hits') = Of(h.key, hits) /\ (~Due(now) \/ Stays(h.key, now))
        BY <1>1, <3>1, <3>3, OtherBuckets
      <4>2. CASE ~Due(now)
        BY <3>1, <3>2, <4>1, <4>2 DEF Of
      <4>3. CASE Due(now) /\ Stays(h.key, now)
        BY <2>1, <4>1, <4>3 DEF Stays, Called
      <4> QED BY <4>1, <4>2, <4>3
    <3>4. CASE h.key = k
      <4> DEFINE B == Of(k, hits')
                 N == Cardinality(Of(k, recorded))
      <4>1. \A g \in recorded : g.at \in Nat /\ g.nr \in Nat
        BY BucketShape
      <4>2. N \in Nat /\ \A g \in Of(k, recorded) : g.nr < N
        BY BucketShape DEF Of, Numbering
      <4>3. Recent(k, now) \subseteq Of(k, recorded)
            /\ \A g \in Recent(k, now) : g.at > now - Window
        BY DEF Recent, After, Of, AfterSweep, TypeOK
      <4>4. NewHit(p).at = now /\ NewHit(p).nr = N
        BY DEF NewHit
      <4>5. \/ Reject(p) /\ B = Recent(k, now)
            \/ Admit(p) /\ B = Recent(k, now) \cup {NewHit(p)}
        <5>1. NewHit(p).key = k
          BY DEF NewHit
        <5>2. Of(k, Others(k, now)) = {} /\ Of(k, Recent(k, now)) = Recent(k, now)
              /\ Of(k, {NewHit(p)}) = {NewHit(p)}
          BY <5>1 DEF Of, Others, Recent, After, AfterSweep
        <5>3. CASE Reject(p) /\ hits' = Others(k, now) \cup Recent(k, now)
          <6>1. B = Of(k, Others(k, now)) \cup Of(k, Recent(k, now))
            BY <5>3 DEF Of
          <6> QED BY <5>2, <5>3, <6>1
        <5>4. CASE Admit(p) /\ hits' = Others(k, now) \cup Recent(k, now) \cup {NewHit(p)}
          <6>1. B = Of(k, Others(k, now)) \cup Of(k, Recent(k, now)) \cup Of(k, {NewHit(p)})
            BY <5>4 DEF Of
          <6> QED BY <5>2, <5>4, <6>1
        <5> QED BY <1>1, <5>3, <5>4, CallDoes
      <4>6. \A g \in B : g.at > now - Window /\ g.nr \in Nat /\ g.nr <= N /\ g.at \in Nat
        <5>1. \A g \in Recent(k, now) : g.at > now - Window /\ g.nr \in Nat /\ g.nr <= N /\ g.at \in Nat
          BY <4>1, <4>2, <4>3 DEF Of
        <5>2. NewHit(p).at > now - Window
          BY <2>1, <2>2, <4>4
        <5> QED BY <2>1, <4>2, <4>4, <4>5, <5>1, <5>2
      <4>7. B # {}
        BY <3>1, <3>4
      <4>8. LastIn(B) \in B /\ \A g \in B : g.nr <= LastIn(B).nr
        <5> HIDE DEF B, N
        <5> QED BY <4>2, <4>6, <4>7, LastIsLast
      <4>9. LastIn(B).at > now - Window /\ LastIn(B).at \in Nat
        BY <4>6, <4>8
      <4>10. CASE Due(now)
        BY <2>1, <3>4, <4>9, <4>10 DEF Called
      <4>11. CASE ~Due(now) /\ Reject(p) /\ B = Recent(k, now)
        <5>1. Recent(k, now) = Of(k, hits)
          BY <4>11, RejectsAtLimit
        <5>2. h \in hits
          BY <3>1, <3>4, <4>11, <5>1 DEF Of
        <5> QED BY <3>2, <3>4, <4>11, <5>1, <5>2
      <4>12. CASE ~Due(now) /\ B = Recent(k, now) \cup {NewHit(p)}
        <5>1. swept' = swept /\ swept \in Nat /\ swept <= latest
          BY <2>1, <2>2, <4>12 DEF Called, Clocks, Due
        <5>2. LastIn(B) = NewHit(p)
          <6>1. NewHit(p).nr <= LastIn(B).nr
            BY <4>8, <4>12
          <6>2. LastIn(B) \notin Recent(k, now)
            BY <6>1, <4>1, <4>2, <4>3, <4>4 DEF Of
          <6> QED BY <4>8, <4>12, <6>2
        <5> QED BY <2>1, <2>2, <2>4, <3>4, <4>4, <5>1, <5>2
      <4> QED BY <4>5, <4>10, <4>11, <4>12
    <3> QED BY <3>3, <3>4
  <2> QED BY <2>3, <2>4 DEF BucketsAreRecent, Of
<1>2. CASE UNCHANGED <<limit, swept, hits, recorded, promise, latest, lag>>
  BY <1>2 DEF BucketsAreRecent, Of
<1> QED BY <1>1, <1>2, OtherSteps

-----------------------------------------------------------------------------
(***************************************************************************)
(* The theorems.                                                           *)
(***************************************************************************)

\* Counts: Counting is inductive, whatever order the calls of Allow run in.
THEOREM Counts == Spec => []Counting
<1>1. Init => Counting
  <2> SUFFICES ASSUME Init PROVE Counting
    OBVIOUS
  <2>1. TypeOK
    <3>1. \A k \in Keys : Of(k, hits) = {}
      BY DEF Init, Of
    <3>2. limit \in Nat
      BY RateLimiterAssumption DEF Init
    <3>3. \A k \in Keys : Cardinality(Of(k, hits)) <= limit
      BY <3>1, <3>2, FS_EmptySet
    <3>4. calls \in [Procs -> Calls \cup {NoCall}]
      BY DEF Init
    <3> QED BY <3>3, <3>4, RateLimiterAssumption DEF Init, TypeOK
  <2>2. Clocks
    BY DEF Init, Clocks
  <2>3. Numbering
    BY FS_EmptySet DEF Init, Numbering
  <2>4. Discards /\ Promises /\ NoMoreThanLimit /\ BucketsAreRecent
    BY DEF Init, Discards, Promises, NoMoreThanLimit, BucketsAreRecent
  <2> QED BY <2>1, <2>2, <2>3, <2>4 DEF Counting
<1>2. Counting /\ [Next]_vars => Counting'
  <2> SUFFICES ASSUME Counting, [Next]_vars PROVE Counting'
    OBVIOUS
  <2>1. TypeOK /\ Clocks /\ Numbering /\ Discards /\ Promises /\ NoMoreThanLimit
        /\ BucketsAreRecent
    BY DEF Counting
  <2>2. TypeOK' /\ Clocks' /\ Numbering'
    BY <2>1, TypesKept, ClocksKept, NumberingKept
  <2>3. Discards' /\ Promises' /\ NoMoreThanLimit' /\ BucketsAreRecent'
    BY <2>1, DiscardsKept, PromisesKept, WindowKept, SweepKept
  <2> QED BY <2>2, <2>3 DEF Counting
<1> QED BY <1>1, <1>2, PTL DEF Spec

\* ListsAreBounded: every variable keeps its shape, and no bucket ever holds more
\* times than the limit.
THEOREM ListsAreBounded == Spec => []TypeOK
<1>1. Counting => TypeOK
  BY DEF Counting
<1> QED BY <1>1, Counts, PTL

\* LimitHolds: no window of Window - 2 * lag holds more admitted attempts than the
\* limit; with calls in the order of their times, no window at all.
THEOREM LimitHolds == Spec => []NoMoreThanLimit
<1>1. Counting => NoMoreThanLimit
  BY DEF Counting
<1> QED BY <1>1, Counts, PTL

\* SweepIsComplete: after a sweep no bucket is left that had not been hit for a window.
THEOREM SweepIsComplete == Spec => []BucketsAreRecent
<1>1. Counting => BucketsAreRecent
  BY DEF Counting
<1> QED BY <1>1, Counts, PTL

\* ComeBackIsHonest: a caller who waits as long as it was told is admitted, unless
\* somebody of its bucket was admitted meanwhile.
THEOREM ComeBackIsHonest == Spec => WaitIsHonest
<1> DEFINE Waits(p) ==
      LET k == calls[p].key IN
        /\ calls[p] # NoCall
        /\ calls'[p] = NoCall
        /\ limit > 0
        /\ promise[k] # Never
        /\ promise'[k] # Never
        => calls[p].at < promise[k]
<1>1. ASSUME Counting, [Next]_vars, NEW p \in Procs PROVE Waits(p)
  <2> DEFINE k == calls[p].key
             now == calls[p].at
  <2>0. TypeOK /\ Clocks /\ Numbering /\ Promises
    BY <1>1 DEF Counting
  <2> SUFFICES ASSUME calls[p] # NoCall, calls'[p] = NoCall, limit > 0,
                      promise[k] # Never, promise'[k] # Never
               PROVE  now < promise[k]
    OBVIOUS
  <2>1. Reject(p)
    <3>1. CASE \E q \in Procs : Admit(q) \/ Reject(q) \/ Disabled(q)
      <4>1. PICK q \in Procs : Admit(q) \/ Reject(q) \/ Disabled(q)
        BY <3>1
      <4>2. q = p
        BY <2>0, <4>1 DEF Admit, Reject, Disabled, TypeOK
      <4>3. ~Disabled(p)
        BY <2>0, RateLimiterAssumption DEF Disabled, TypeOK
      <4>4. ~Admit(p)
        <5>1. k \in Keys
          BY <2>0, CallShape
        <5> QED BY <2>0, <5>1 DEF Admit, TypeOK
      <4> QED BY <4>1, <4>2, <4>3, <4>4
    <3>2. CASE Tick \/ UNCHANGED vars
      BY <3>2 DEF Tick, vars
    <3>3. CASE \E q \in Procs, j \in Keys : Arrive(q, j)
      BY <2>0, <3>3 DEF Arrive, TypeOK
    <3> QED BY <1>1, <3>1, <3>2, <3>3 DEF Next
  <2>2. k \in Keys /\ now \in Nat
    BY <2>0, CallShape
  <2>3. Recent(k, now) = Of(k, hits) /\ Of(k, hits) # {}
    BY <2>0, <2>1, RejectsAtLimit
  <2>4. PICK h \in Of(k, hits) : promise[k] = h.at + Window
    BY <2>0, <2>2, <2>3 DEF Promises
  <2>5. h.at > now - Window
    BY <2>3 DEF Recent, After
  <2>6. h.at \in Nat
    BY <2>0, BucketShape DEF Of, TypeOK
  <2> QED BY <2>2, <2>4, <2>5, <2>6, RateLimiterAssumption
<1>2. Counting /\ [Next]_vars => \A p \in Procs : Waits(p)
  BY <1>1
<1>3. Counting /\ [Next]_vars => [\A p \in Procs : Waits(p)]_vars
  BY <1>2
<1> QED BY <1>3, Counts, PTL DEF Spec, WaitIsHonest
=============================================================================
