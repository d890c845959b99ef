--------------------------- MODULE StartupProofs ----------------------------
(***************************************************************************)
(* What best-effort startup promises, proved for any number of instances,  *)
(* accounts, terms, starts and failures.                                   *)
(***************************************************************************)
EXTENDS Startup, TLAPS

-----------------------------------------------------------------------------
(***************************************************************************)
(* Typing, in the parts that an action writes together.                    *)
(***************************************************************************)
Starts ==
  /\ at \in [Instances -> {"off", "index", "seed", "promote", "register", "config",
                           "serving", "broken"}]
  /\ next \in [Instances -> 1 .. Last]
  /\ found \in [Instances -> Accounts \cup {None}]
  /\ \A i \in Instances : at[i] = "promote" <=> found[i] # None

Rows ==
  /\ email \in [Accounts -> Emails \cup {None, Gone}]
  /\ admins \subseteq Accounts /\ \A a \in admins : email[a] \in Emails
  /\ overtaken \subseteq Instances
  /\ terms \subseteq Terms /\ searching \subseteq Terms
  /\ gaps \in BOOLEAN

Rest ==
  /\ indexes \subseteq 1 .. Last
  /\ starts \in 0 .. MaxStarts /\ requests \in 0 .. MaxRequests /\ faults \in 0 .. MaxFaults

LEMMA TypeParts == TypeOK <=> Starts /\ Rows /\ Rest
BY DEF TypeOK, Starts, Rows, Rest

LEMMA TypingInit == Init => TypeOK
<1> SUFFICES ASSUME Init PROVE TypeOK
  OBVIOUS
<1>1. Starts
  BY DEF Init, Starts, Last
<1>2. Rows
  BY DEF Init, Rows
<1>3. Rest
  BY StartupAssumption DEF Init, Rest
<1> QED
  BY <1>1, <1>2, <1>3, TypeParts

LEMMA SameStarts == Starts /\ UNCHANGED <<at, next, found>> => Starts'
BY DEF Starts

LEMMA SameRows == Rows /\ UNCHANGED <<email, admins, overtaken, terms, searching, gaps>> => Rows'
BY DEF Rows

LEMMA SameRest == Rest /\ UNCHANGED <<indexes, starts, requests, faults>> => Rest'
BY DEF Rest

\* One more start, request or fault.
LEMMA Counted ==
  ASSUME NEW m \in Nat, NEW n \in 0 .. m, n < m
  PROVE  n + 1 \in 0 .. m
OBVIOUS

LEMMA TypingOfInstances ==
  ASSUME TypeOK, NEW i \in Instances, InstanceStep(i)
  PROVE  TypeOK'
<1>0. Starts /\ Rows /\ Rest /\ MaxStarts \in Nat /\ MaxFaults \in Nat
  BY TypeParts, StartupAssumption
<1>1. CASE Start(i)
  <2>1. Starts'
    BY <1>0, <1>1 DEF Start, Goes, Starts, Last
  <2>2. Rows'
    BY <1>0, <1>1, SameRows DEF Start, accounts, history, counts
  <2>3. Rest'
    BY <1>0, <1>1 DEF Start, Rest, counts
  <2> QED
    BY <2>1, <2>2, <2>3, TypeParts DEF TypeOK, Starts, Rows, Rest
<1>2. CASE BuildIndex(i)
  <2>1. Starts'
    <3>1. CASE next[i] = Last
      BY <1>0, <1>2, <3>1 DEF BuildIndex, Goes, Starts
    <3>2. CASE next[i] # Last
      <4>1. next[i] \in 1 .. Last /\ next[i] + 1 \in 1 .. Last
        BY <1>0, <3>2 DEF Starts, Last
      <4> QED
        BY <1>0, <1>2, <3>2, <4>1 DEF BuildIndex, Starts
    <3> QED
      BY <3>1, <3>2
  <2>2. Rows'
    BY <1>0, <1>2, SameRows DEF BuildIndex, accounts, history, counts
  <2>3. Rest'
    <3>1. next[i] \in 1 .. Last
      BY <1>0 DEF Starts
    <3> QED
      BY <1>0, <1>2, <3>1 DEF BuildIndex, Rest, counts
  <2> QED
    BY <2>1, <2>2, <2>3, TypeParts DEF TypeOK, Starts, Rows, Rest
<1>3. CASE IndexFails(i)
  <2>1. Starts'
    BY <1>0, <1>3 DEF IndexFails, Goes, Starts
  <2>2. Rows'
    BY <1>0, <1>3 DEF IndexFails, accounts, history, Rows
  <2>3. Rest'
    <3>1. next[i] \in 1 .. Last
      BY <1>0 DEF Starts
    <3>2. indexes' \in {indexes, indexes \cup {next[i]}}
      BY <1>3 DEF IndexFails
    <3>3. \/ faults' = faults
          \/ faults < MaxFaults /\ faults' = faults + 1
      BY <1>3 DEF IndexFails, Fault
    <3>4. starts' = starts /\ requests' = requests
      BY <1>3 DEF IndexFails
    <3> QED
      BY <1>0, <3>1, <3>2, <3>3, <3>4 DEF Rest
  <2> QED
    BY <2>1, <2>2, <2>3, TypeParts DEF TypeOK, Starts, Rows, Rest
<1>4. CASE SeedRead(i)
  <2>1. Starts'
    BY <1>0, <1>4, StartupAssumption DEF SeedRead, Goes, Starts, Under
  <2>2. Rows'
    BY <1>0, <1>4 DEF SeedRead, Rows, history, counts
  <2>3. Rest'
    BY <1>0, <1>4, SameRest DEF SeedRead, counts
  <2> QED
    BY <2>1, <2>2, <2>3, TypeParts DEF TypeOK, Starts, Rows, Rest
<1>5. CASE Promote(i)
  <2>1. Starts'
    BY <1>0, <1>5 DEF Promote, Goes, Starts
  <2>2. Rows'
    BY <1>0, <1>5, StartupAssumption DEF Promote, Starts, Rows, history, counts
  <2>3. Rest'
    BY <1>0, <1>5, SameRest DEF Promote, counts
  <2> QED
    BY <2>1, <2>2, <2>3, TypeParts DEF TypeOK, Starts, Rows, Rest
<1>6. ASSUME NEW a \in Accounts, Register(i, a) PROVE TypeOK'
  <2>1. Starts'
    BY <1>0, <1>6 DEF Register, Goes, Starts
  <2>2. Rows'
    BY <1>0, <1>6, StartupAssumption DEF Register, Rows, history, counts
  <2>3. Rest'
    BY <1>0, <1>6, SameRest DEF Register, counts
  <2> QED
    BY <2>1, <2>2, <2>3, TypeParts DEF TypeOK, Starts, Rows, Rest
<1>7. CASE RegisterRefused(i) \/ Configured(i) \/ Stop(i)
  <2>1. Starts'
    BY <1>0, <1>7 DEF RegisterRefused, Configured, Stop, Goes, Starts
  <2>2. Rows'
    BY <1>0, <1>7, SameRows DEF RegisterRefused, Configured, Stop, accounts, history, counts
  <2>3. Rest'
    BY <1>0, <1>7, SameRest DEF RegisterRefused, Configured, Stop, counts
  <2> QED
    BY <2>1, <2>2, <2>3, TypeParts DEF TypeOK, Starts, Rows, Rest
<1>8. CASE SeedFails(i)
  <2>1. Starts'
    BY <1>0, <1>8 DEF SeedFails, Goes, Starts
  <2>2. Rows'
    BY <1>0, <1>8, SameRows DEF SeedFails, accounts, history
  <2>3. Rest'
    BY <1>0, <1>8 DEF SeedFails, Fault, Rest
  <2> QED
    BY <2>1, <2>2, <2>3, TypeParts DEF TypeOK, Starts, Rows, Rest
<1> QED
  BY <1>1, <1>2, <1>3, <1>4, <1>5, <1>6, <1>7, <1>8 DEF InstanceStep

LEMMA TypingOfRequests ==
  ASSUME TypeOK,
         \/ \E a \in Accounts, m \in Emails \cup {Gone}, admin \in BOOLEAN : WriteAccount(a, m, admin)
         \/ \E t \in Terms : SearchMisses(t) \/ SearchInserts(t)
         \/ \E gone \in SUBSET terms : Forget(gone)
  PROVE  TypeOK'
<1>0. Starts /\ Rows /\ Rest /\ MaxRequests \in Nat
  BY TypeParts, StartupAssumption
<1>1. ASSUME NEW a \in Accounts, NEW m \in Emails \cup {Gone}, NEW admin \in BOOLEAN,
             WriteAccount(a, m, admin)
      PROVE  TypeOK'
  <2>1. Starts'
    BY <1>0, <1>1, SameStarts DEF WriteAccount, instance
  <2>2. Rows'
    <3>1. m = Gone => ~admin
      BY <1>1 DEF WriteAccount
    <3>2. /\ email'  = [email EXCEPT ![a] = m]
          /\ admins' = IF admin THEN admins \cup {a} ELSE admins \ {a}
          /\ overtaken' \in {overtaken, overtaken \cup Acting}
          /\ UNCHANGED <<terms, searching, gaps>>
      BY <1>1 DEF WriteAccount, history, counts
    <3> QED
      BY <1>0, <3>1, <3>2 DEF Rows, Acting
  <2>3. Rest'
    BY <1>0, <1>1 DEF WriteAccount, Request, Rest, instance, counts
  <2> QED
    BY <2>1, <2>2, <2>3, TypeParts DEF TypeOK, Starts, Rows, Rest
<1>2. ASSUME NEW t \in Terms, SearchMisses(t) PROVE TypeOK'
  <2>1. Starts'
    BY <1>0, <1>2, SameStarts DEF SearchMisses, instance
  <2>2. Rows'
    BY <1>0, <1>2 DEF SearchMisses, accounts, counts, Rows
  <2>3. Rest'
    BY <1>0, <1>2 DEF SearchMisses, Request, Rest, instance, counts
  <2> QED
    BY <2>1, <2>2, <2>3, TypeParts DEF TypeOK, Starts, Rows, Rest
<1>3. ASSUME NEW t \in Terms, SearchInserts(t) PROVE TypeOK'
  <2>1. Starts'
    BY <1>0, <1>3, SameStarts DEF SearchInserts, instance
  <2>2. Rows'
    BY <1>0, <1>3 DEF SearchInserts, accounts, counts, Rows
  <2>3. Rest'
    BY <1>0, <1>3, SameRest DEF SearchInserts, instance, counts
  <2> QED
    BY <2>1, <2>2, <2>3, TypeParts DEF TypeOK, Starts, Rows, Rest
<1>4. ASSUME NEW gone \in SUBSET terms, Forget(gone) PROVE TypeOK'
  <2>1. Starts'
    BY <1>0, <1>4, SameStarts DEF Forget, instance
  <2>2. Rows'
    BY <1>0, <1>4 DEF Forget, accounts, counts, Rows
  <2>3. Rest'
    BY <1>0, <1>4 DEF Forget, Request, Rest, instance, counts
  <2> QED
    BY <2>1, <2>2, <2>3, TypeParts DEF TypeOK, Starts, Rows, Rest
<1> QED
  BY <1>1, <1>2, <1>3, <1>4

LEMMA TypingStep == TypeOK /\ [Next]_vars => TypeOK'
<1> SUFFICES ASSUME TypeOK, [Next]_vars PROVE TypeOK'
  OBVIOUS
<1>1. CASE UNCHANGED vars
  BY <1>1 DEF vars, TypeOK
<1>2. CASE Next
  BY <1>2, TypingOfInstances, TypingOfRequests DEF Next
<1> QED
  BY <1>1, <1>2

\* TypeOK holds in every state of any number of instances: only accounts that
\* exist are administrators, and an instance about to promote one has read it.
THEOREM Typing == Spec => []TypeOK
BY TypingInit, TypingStep, PTL DEF Spec

-----------------------------------------------------------------------------
(***************************************************************************)
(* Indexes in order.                                                       *)
(***************************************************************************)

LEMMA OrderInit == Init => IndexesInOrder
<1> SUFFICES ASSUME Init PROVE IndexesInOrder
  OBVIOUS
<1>1. indexes = {} /\ ~SharedTerm /\ searching = {}
  BY DEF Init, SharedTerm
<1>2. ~SharedEmail
  BY StartupAssumption DEF Init, SharedEmail, Under
<1>3. \A i \in Instances : at[i] = "off"
  BY DEF Init
<1> QED
  BY <1>1, <1>2, <1>3 DEF IndexesInOrder, Started, Has

LEMMA OrderShares ==
  ASSUME TypeOK, IndexesInOrder
  PROVE  SharedNeedsAGap
<1>1. ASSUME ~gaps, Serving PROVE indexes = 1 .. Last
  BY <1>1 DEF IndexesInOrder, Serving, Started
<1>2. ASSUME SharedEmail PROVE indexes = {}
  <2>1. 1 \notin indexes
    BY <1>2 DEF IndexesInOrder, Has, UsersByEmail
  <2>2. \A n \in indexes : n \in Nat /\ 1 \in 1 .. n
    BY DEF TypeOK, Last
  <2> QED
    BY <2>1, <2>2 DEF IndexesInOrder
<1>3. ASSUME SharedTerm, NEW n \in indexes PROVE n < TermsOnce
  <2>1. 4 \notin indexes
    BY <1>3 DEF IndexesInOrder, Has, TermsOnce
  <2>2. n \in 1 .. 6
    BY DEF TypeOK, Last
  <2>3. n >= 4 => 4 \in 1 .. n
    BY <2>2
  <2>4. ~(n >= 4)
    BY <2>1, <2>3 DEF IndexesInOrder
  <2> QED
    BY <2>2, <2>4 DEF TermsOnce
<1> QED
  BY <1>1, <1>2, <1>3 DEF SharedNeedsAGap, IndexesInOrder

\* A step of New that builds nothing and registers nobody.
LEMMA OrderStays ==
  ASSUME TypeOK, IndexesInOrder, UNCHANGED <<indexes, gaps, email, terms, searching>>,
         \A j \in Instances : at'[j] = "index" => (at[j] = "index" /\ next'[j] = next[j]) \/ next'[j] = 1,
         \A j \in Instances : at'[j] \notin {"off", "index"} => at[j] \notin {"off", "index"}
  PROVE  IndexesInOrder'
<1>1. \A j \in Instances : at'[j] = "index" => \A n \in 1 .. Last : n < next'[j] => n \in indexes
  <2> SUFFICES ASSUME NEW j \in Instances, at'[j] = "index", NEW n \in 1 .. Last, n < next'[j]
               PROVE  n \in indexes
    OBVIOUS
  <2>1. next'[j] # 1
    BY DEF Last
  <2> QED
    BY <2>1 DEF IndexesInOrder, Has
<1> QED
  BY <1>1 DEF IndexesInOrder, Started, Has, SharedEmail, SharedTerm, Under

\* A step of a request, or Register, which writes accounts and terms only.
LEMMA OrderKept ==
  ASSUME IndexesInOrder, UNCHANGED <<indexes, gaps, next>>,
         \A j \in Instances : at'[j] = at[j] \/ (at[j] = "register" /\ at'[j] = "config"),
         ~gaps /\ searching' # {} => indexes = 1 .. Last,
         SharedEmail' => SharedEmail \/ (gaps /\ ~Has(UsersByEmail)),
         SharedTerm' => SharedTerm \/ (gaps /\ ~Has(TermsOnce))
  PROVE  IndexesInOrder'
BY DEF IndexesInOrder, Started, Has

LEMMA UniqueEmails ==
  ASSUME TypeOK, NEW a \in Accounts, NEW m \in Emails \cup {Gone}, email' = [email EXCEPT ![a] = m],
         m \in Emails /\ Has(UsersByEmail) => Under(m) \subseteq {a}
  PROVE  SharedEmail' => SharedEmail \/ ~Has(UsersByEmail)
<1> SUFFICES ASSUME NEW m1 \in Emails, NEW b \in Accounts, NEW c \in Accounts, b # c,
                    email'[b] = m1, email'[c] = m1, Has(UsersByEmail)
             PROVE  SharedEmail
  BY DEF SharedEmail, Under
<1>1. email \in [Accounts -> Emails \cup {None, Gone}]
  BY DEF TypeOK
<1>2. CASE b = a \/ c = a
  <2>1. m = m1
    BY <1>1, <1>2
  <2>2. \E d \in {b, c} \ {a} : email[d] = m1
    BY <1>1, <1>2
  <2> QED
    BY <2>1, <2>2 DEF Under
<1>3. CASE b # a /\ c # a
  BY <1>1, <1>3 DEF SharedEmail, Under
<1> QED
  BY <1>2, <1>3

\* The index that a start is to build next, added to those there are.
LEMMA IndexAdded ==
  ASSUME TypeOK, IndexesInOrder, NEW i \in Instances, at[i] = "index", Buildable(next[i]),
         indexes' = indexes \cup {next[i]}, UNCHANGED <<email, terms>>
  PROVE  /\ \A m \in indexes' : 1 .. m \subseteq indexes'
         /\ Has(UsersByEmail)' => ~SharedEmail'
         /\ Has(TermsOnce)' => ~SharedTerm'
<1> DEFINE n == next[i]
<1>1. n \in 1 .. Last /\ indexes \subseteq 1 .. Last /\ indexes' = indexes \cup {n}
  BY DEF TypeOK
<1>2. \A m \in 1 .. Last : m < n => m \in indexes
  BY <1>1 DEF IndexesInOrder, Has
<1>3. /\ n = UsersByEmail => ~SharedEmail
      /\ n = TermsOnce => ~SharedTerm
  BY DEF Buildable
<1> HIDE DEF n
<1>4. ASSUME NEW m \in indexes', NEW k \in 1 .. m PROVE k \in indexes'
  <2>1. CASE m \in indexes
    BY <1>1, <1>4, <2>1 DEF IndexesInOrder
  <2>2. CASE m = n
    <3>1. k = n \/ (k \in 1 .. Last /\ k < n)
      BY <1>1, <1>4, <2>2 DEF Last
    <3> QED
      BY <1>1, <1>2, <3>1
  <2> QED
    BY <1>1, <1>4, <2>1, <2>2
<1>5. (SharedEmail' <=> SharedEmail) /\ (SharedTerm' <=> SharedTerm)
  BY DEF SharedEmail, SharedTerm, Under
<1>6. Has(UsersByEmail)' => ~SharedEmail
  BY <1>1, <1>3 DEF IndexesInOrder, Has
<1>7. Has(TermsOnce)' => ~SharedTerm
  BY <1>1, <1>3 DEF IndexesInOrder, Has
<1> QED
  BY <1>4, <1>5, <1>6, <1>7

LEMMA OrderOfInstances ==
  ASSUME TypeOK, IndexesInOrder, NEW i \in Instances, InstanceStep(i)
  PROVE  IndexesInOrder'
<1>0. /\ at \in [Instances -> {"off", "index", "seed", "promote", "register", "config",
                               "serving", "broken"}]
      /\ next \in [Instances -> 1 .. Last]
      /\ indexes \subseteq 1 .. Last
      /\ gaps \in BOOLEAN
  BY DEF TypeOK
<1>1. CASE Start(i)
  BY <1>0, <1>1, OrderStays DEF Start, Goes, accounts, history, counts
<1>2. CASE SeedRead(i) \/ Promote(i) \/ RegisterRefused(i) \/ SeedFails(i) \/ Configured(i) \/ Stop(i)
  <2>1. UNCHANGED <<indexes, gaps, email, terms, searching, next>>
    BY <1>2 DEF SeedRead, Promote, RegisterRefused, SeedFails, Configured, Stop,
                accounts, history, counts
  <2>2. PICK step \in {"register", "config", "promote", "serving", "broken", "off"} :
          /\ at' = [at EXCEPT ![i] = step]
          /\ step # "off" => at[i] \in {"seed", "promote", "register", "config"}
    BY <1>2 DEF SeedRead, Promote, RegisterRefused, SeedFails, Configured, Stop, Goes
  <2>3. \A j \in Instances : at'[j] = "index" => at[j] = "index"
    BY <1>0, <2>2
  <2>4. \A j \in Instances : at'[j] \notin {"off", "index"} => at[j] \notin {"off", "index"}
    BY <1>0, <2>2
  <2> QED
    BY <2>1, <2>3, <2>4, OrderStays
<1>3. ASSUME NEW a \in Accounts, Register(i, a) PROVE IndexesInOrder'
  <2>1. ~gaps => indexes = 1 .. Last
    BY <1>3 DEF Register, IndexesInOrder, Started
  <2>2. ~gaps => Has(UsersByEmail)
    BY <2>1 DEF Has, UsersByEmail, Last
  <2>3. Has(UsersByEmail) => Under(Seed) \subseteq {a}
    BY <1>3 DEF Register, FreeFor
  <2>4. SharedEmail' => SharedEmail \/ ~Has(UsersByEmail)
    BY <1>3, <2>3, UniqueEmails, StartupAssumption DEF Register
  <2>5. SharedTerm' => SharedTerm
    BY <1>3 DEF Register, history, SharedTerm
  <2>6. \A j \in Instances : at'[j] = at[j] \/ (at[j] = "register" /\ at'[j] = "config")
    <3>1. at' = [at EXCEPT ![i] = "config"] /\ at[i] = "register"
      BY <1>3 DEF Register, Goes
    <3> QED
      BY <1>0, <3>1
  <2> QED
    BY <1>3, <2>1, <2>2, <2>4, <2>5, <2>6, OrderKept DEF Register, history, counts
<1>4. CASE BuildIndex(i)
  <2> DEFINE n == next[i]
  <2>1. /\ n \in 1 .. Last /\ at[i] = "index"
        /\ indexes' = indexes \cup {n}
        /\ UNCHANGED <<gaps, email, terms, searching>>
    BY <1>0, <1>4 DEF BuildIndex, accounts, history, counts
  <2>2. \A m \in 1 .. Last : m < n => m \in indexes
    BY <2>1 DEF IndexesInOrder, Has
  <2>3. \/ n = Last /\ at' = [at EXCEPT ![i] = "seed"] /\ next' = next
        \/ n # Last /\ at' = at /\ next' = [next EXCEPT ![i] = n + 1]
    BY <1>4 DEF BuildIndex, Goes
  <2>4. /\ \A m \in indexes' : 1 .. m \subseteq indexes'
        /\ Has(UsersByEmail)' => ~SharedEmail'
        /\ Has(TermsOnce)' => ~SharedTerm'
    BY <1>4, <2>1, IndexAdded DEF BuildIndex
  <2> HIDE DEF n
  <2>7. ASSUME NEW j \in Instances, at'[j] = "index", NEW m \in 1 .. Last, m < next'[j]
        PROVE  m \in indexes'
    <3>1. CASE j = i
      <4>1. n # Last /\ next'[j] = n + 1
        BY <1>0, <2>3, <2>7, <3>1
      <4>2. m = n \/ m < n
        BY <2>1, <2>7, <4>1
      <4> QED
        BY <2>1, <2>2, <4>2
    <3>2. CASE j # i
      <4>1. at[j] = "index" /\ next'[j] = next[j]
        BY <1>0, <2>3, <2>7, <3>2
      <4> QED
        BY <2>1, <2>7, <4>1 DEF IndexesInOrder, Has
    <3> QED
      BY <3>1, <3>2
  <2>8. ASSUME ~gaps, NEW j \in Instances, at'[j] \notin {"off", "index"} PROVE indexes' = 1 .. Last
    <3>1. CASE j = i
      <4>1. n = Last
        BY <1>0, <2>1, <2>3, <2>8, <3>1
      <4>2. \A m \in 1 .. Last : m \in indexes'
        <5>1. \A m \in 1 .. Last : m = n \/ m < n
          BY <4>1 DEF Last
        <5> QED
          BY <2>1, <2>2, <5>1
      <4> QED
        BY <1>0, <2>1, <4>2
    <3>2. CASE j # i
      <4>1. at[j] \notin {"off", "index"}
        BY <1>0, <2>3, <2>8, <3>2
      <4> QED
        BY <1>0, <2>1, <2>8, <4>1 DEF IndexesInOrder, Started
    <3> QED
      BY <3>1, <3>2
  <2>9. ~gaps /\ searching # {} => indexes' = 1 .. Last
    BY <1>0, <2>1 DEF IndexesInOrder
  <2>10. ~gaps => ~SharedEmail' /\ ~SharedTerm'
    BY <2>1 DEF IndexesInOrder, SharedEmail, SharedTerm, Under
  <2> QED
    BY <2>1, <2>4, <2>7, <2>8, <2>9, <2>10 DEF IndexesInOrder, Started, Has
<1>5. CASE IndexFails(i)
  <2> DEFINE n == next[i]
  <2>1. /\ n \in 1 .. Last /\ at[i] = "index" /\ gaps'
        /\ at' = [at EXCEPT ![i] = "seed"]
        /\ UNCHANGED <<next, email, terms, searching>>
    BY <1>0, <1>5 DEF IndexFails, Goes, accounts, history
  <2>2. \/ indexes' = indexes
        \/ indexes' = indexes \cup {n} /\ Buildable(n)
    BY <1>5 DEF IndexFails
  <2>3. /\ \A m \in indexes' : 1 .. m \subseteq indexes'
        /\ Has(UsersByEmail)' => ~SharedEmail'
        /\ Has(TermsOnce)' => ~SharedTerm'
    <3>1. CASE indexes' = indexes
      BY <2>1, <3>1 DEF IndexesInOrder, Has, SharedEmail, SharedTerm, Under
    <3>2. CASE indexes' = indexes \cup {n} /\ Buildable(n)
      BY <2>1, <3>2, IndexAdded
    <3> QED
      BY <2>2, <3>1, <3>2
  <2>4. ASSUME NEW j \in Instances, at'[j] = "index", NEW m \in 1 .. Last, m < next'[j]
        PROVE  m \in indexes'
    <3>1. at[j] = "index" /\ next'[j] = next[j]
      BY <1>0, <2>1, <2>4
    <3>2. indexes \subseteq indexes'
      BY <2>2
    <3> QED
      BY <2>4, <3>1, <3>2 DEF IndexesInOrder, Has
  <2> QED
    BY <2>1, <2>3, <2>4 DEF IndexesInOrder, Has
<1> QED
  BY <1>1, <1>2, <1>3, <1>4, <1>5 DEF InstanceStep

LEMMA OrderOfRequests ==
  ASSUME TypeOK, IndexesInOrder,
         \/ \E a \in Accounts, m \in Emails \cup {Gone}, admin \in BOOLEAN : WriteAccount(a, m, admin)
         \/ \E t \in Terms : SearchMisses(t) \/ SearchInserts(t)
         \/ \E gone \in SUBSET terms : Forget(gone)
  PROVE  IndexesInOrder'
<1>0. gaps \in BOOLEAN /\ terms \subseteq Terms /\ searching \subseteq Terms
  BY DEF TypeOK
<1>1. Serving /\ ~gaps => indexes = 1 .. Last
  BY DEF IndexesInOrder, Serving, Started
<1>2. indexes = 1 .. Last => Has(UsersByEmail) /\ Has(TermsOnce)
  BY DEF Has, UsersByEmail, TermsOnce, Last
<1>3. ~gaps /\ searching # {} => indexes = 1 .. Last
  BY DEF IndexesInOrder
<1>4. ASSUME NEW a \in Accounts, NEW m \in Emails \cup {Gone}, NEW admin \in BOOLEAN,
             WriteAccount(a, m, admin)
      PROVE  IndexesInOrder'
  <2>1. UNCHANGED <<at, next, indexes, gaps, terms, searching>> /\ Serving
    BY <1>4 DEF WriteAccount, Request, instance, history, counts
  <2>2. m \in Emails /\ Has(UsersByEmail) => Under(m) \subseteq {a}
    BY <1>4, StartupAssumption DEF WriteAccount, FreeFor
  <2>3. SharedEmail' => SharedEmail \/ ~Has(UsersByEmail)
    BY <1>4, <2>2, UniqueEmails DEF WriteAccount
  <2>4. SharedTerm' <=> SharedTerm
    BY <2>1 DEF SharedTerm
  <2> QED
    BY <1>1, <1>2, <1>3, <2>1, <2>3, <2>4, OrderKept
<1>5. ASSUME NEW t \in Terms, SearchMisses(t) PROVE IndexesInOrder'
  <2>1. UNCHANGED <<at, next, indexes, gaps, email, terms>> /\ Serving
    BY <1>5 DEF SearchMisses, Request, instance, accounts, counts
  <2>2. (SharedEmail' <=> SharedEmail) /\ (SharedTerm' <=> SharedTerm)
    BY <2>1 DEF SharedEmail, SharedTerm, Under
  <2> QED
    BY <1>1, <2>1, <2>2, OrderKept
<1>6. ASSUME NEW t \in Terms, SearchInserts(t) PROVE IndexesInOrder'
  <2>1. UNCHANGED <<at, next, indexes, gaps, email>> /\ searching # {}
    BY <1>6 DEF SearchInserts, instance, accounts, counts
  <2>2. SharedEmail' <=> SharedEmail
    BY <2>1 DEF SharedEmail, Under
  <2>3. SharedTerm' => SharedTerm \/ ~Has(TermsOnce)
    BY <1>6 DEF SearchInserts, SharedTerm
  <2> QED
    BY <1>2, <1>3, <2>1, <2>2, <2>3, OrderKept
<1>7. ASSUME NEW gone \in SUBSET terms, Forget(gone) PROVE IndexesInOrder'
  <2>1. UNCHANGED <<at, next, indexes, gaps, email, searching>>
    BY <1>7 DEF Forget, instance, accounts, counts
  <2>2. SharedEmail' <=> SharedEmail
    BY <2>1 DEF SharedEmail, Under
  <2>3. SharedTerm' => SharedTerm
    BY <1>7 DEF Forget, SharedTerm
  <2> QED
    BY <1>3, <2>1, <2>2, <2>3, OrderKept
<1> QED
  BY <1>4, <1>5, <1>6, <1>7

\* As long as no start was cut short, accounts do not share addresses and terms
\* are kept once, and every instance serves with all indexes; after one was,
\* shared rows keep the index over them, and all that come after it, unbuilt.
THEOREM BestEffortStartup == Spec => []SharedNeedsAGap
<1>1. Init => TypeOK /\ IndexesInOrder
  BY TypingInit, OrderInit
<1>2. TypeOK /\ IndexesInOrder /\ [Next]_vars => (TypeOK /\ IndexesInOrder)'
  <2> SUFFICES ASSUME TypeOK, IndexesInOrder, [Next]_vars PROVE TypeOK' /\ IndexesInOrder'
    OBVIOUS
  <2>1. TypeOK'
    BY TypingStep
  <2>2. CASE UNCHANGED vars
    BY <2>1, <2>2 DEF vars, IndexesInOrder, Started, Has, SharedEmail, SharedTerm, Under
  <2>3. CASE Next
    BY <2>1, <2>3, OrderOfInstances, OrderOfRequests DEF Next
  <2> QED
    BY <2>2, <2>3
<1>3. TypeOK /\ IndexesInOrder => SharedNeedsAGap
  BY OrderShares
<1> QED
  BY <1>1, <1>2, <1>3, PTL DEF Spec

-----------------------------------------------------------------------------
(***************************************************************************)
(* The administrator.                                                      *)
(***************************************************************************)

\* What an instance read of the seeded address is still so, up to what other
\* instances do: nobody is there but administrators, or the account it found.
ReadHolds ==
  \A i \in Instances \ overtaken :
    /\ at[i] = "register" => Under(Seed) \subseteq admins
    /\ at[i] = "promote" => email[found[i]] = Seed

LEMMA ReadHoldsStep ==
  ASSUME TypeOK, ReadHolds, [Next]_vars
  PROVE  ReadHolds'
<1>0. /\ at \in [Instances -> {"off", "index", "seed", "promote", "register", "config",
                               "serving", "broken"}]
      /\ found \in [Instances -> Accounts \cup {None}]
      /\ \A i \in Instances : at[i] = "promote" => found[i] # None
      /\ email \in [Accounts -> Emails \cup {None, Gone}]
  BY DEF TypeOK
<1>1. CASE UNCHANGED <<email, admins, overtaken>> /\ \A j \in Instances :
             at'[j] \in {"register", "promote"} => at'[j] = at[j] /\ found'[j] = found[j]
  BY <1>1 DEF ReadHolds, Under
<1>2. ASSUME NEW i \in Instances, SeedRead(i) PROVE ReadHolds'
  <2>1. /\ UNCHANGED <<email, admins>> /\ overtaken' = overtaken \ {i}
        /\ \A j \in Instances \ {i} : at'[j] = at[j] /\ found'[j] = found[j]
    BY <1>0, <1>2 DEF SeedRead, Goes
  <2>2. at'[i] = "register" => Under(Seed) = {}
    BY <1>0, <1>2 DEF SeedRead, Goes
  <2>3. at'[i] = "promote" => email[found'[i]] = Seed
    BY <1>0, <1>2 DEF SeedRead, Goes, Under
  <2> QED
    BY <2>1, <2>2, <2>3 DEF ReadHolds, Under
<1>3. ASSUME NEW i \in Instances, Promote(i) PROVE ReadHolds'
  <2>1. /\ UNCHANGED <<email, overtaken>> /\ admins \subseteq admins'
        /\ at'[i] = "config"
        /\ \A j \in Instances \ {i} : at'[j] = at[j] /\ found'[j] = found[j]
    BY <1>0, <1>3 DEF Promote, Goes
  <2> QED
    BY <2>1 DEF ReadHolds, Under
<1>4. ASSUME NEW i \in Instances, NEW a \in Accounts, Register(i, a) PROVE ReadHolds'
  <2>1. /\ email' = [email EXCEPT ![a] = Seed] /\ admins' = admins \cup {a}
        /\ UNCHANGED <<overtaken, found>>
        /\ at'[i] = "config"
        /\ \A j \in Instances \ {i} : at'[j] = at[j]
    BY <1>0, <1>4 DEF Register, Goes
  <2>2. Under(Seed)' \subseteq Under(Seed) \cup {a}
    BY <1>0, <2>1 DEF Under
  <2>3. \A b \in Accounts : email[b] = Seed => email'[b] = Seed
    BY <1>0, <2>1
  <2>4. \A j \in Instances \ overtaken : at'[j] = "promote" => email'[found'[j]] = Seed
    BY <1>0, <2>1, <2>3 DEF ReadHolds
  <2>5. \A j \in Instances \ overtaken : at'[j] = "register" => Under(Seed)' \subseteq admins'
    BY <2>1, <2>2 DEF ReadHolds
  <2> QED
    BY <2>1, <2>4, <2>5 DEF ReadHolds
<1>5. ASSUME NEW a \in Accounts, NEW m \in Emails \cup {Gone}, NEW admin \in BOOLEAN,
             WriteAccount(a, m, admin)
      PROVE  ReadHolds'
  <2>1. /\ email' = [email EXCEPT ![a] = m] /\ UNCHANGED <<at, found>>
        /\ admins \ {a} \subseteq admins'
        /\ overtaken' = IF Seed \in {m, email[a]} THEN overtaken \cup Acting ELSE overtaken
    BY <1>5 DEF WriteAccount, instance
  <2>2. CASE Seed \in {m, email[a]}
    BY <2>1, <2>2 DEF ReadHolds, Acting
  <2>3. CASE Seed \notin {m, email[a]}
    <3>1. \A b \in Accounts : email'[b] = Seed <=> email[b] = Seed
      BY <1>0, <2>1, <2>3
    <3>2. a \notin Under(Seed) /\ Under(Seed)' = Under(Seed) /\ overtaken' = overtaken
      BY <2>1, <2>3, <3>1 DEF Under
    <3>3. \A j \in Instances \ overtaken : at'[j] = "promote" => email'[found'[j]] = Seed
      BY <1>0, <2>1, <3>1 DEF ReadHolds
    <3>4. \A j \in Instances \ overtaken : at'[j] = "register" => Under(Seed)' \subseteq admins'
      BY <2>1, <3>2 DEF ReadHolds
    <3> QED
      BY <3>2, <3>3, <3>4 DEF ReadHolds
  <2> QED
    BY <2>2, <2>3
<1>6. ASSUME NEW i \in Instances, Start(i) \/ BuildIndex(i) \/ IndexFails(i) \/ RegisterRefused(i)
                                  \/ SeedFails(i) \/ Configured(i) \/ Stop(i)
      PROVE  ReadHolds'
  <2>1. UNCHANGED <<email, admins, overtaken>>
    BY <1>6 DEF Start, BuildIndex, IndexFails, RegisterRefused, SeedFails, Configured, Stop, accounts
  <2>2. \A j \in Instances : at'[j] \in {"register", "promote"} => at'[j] = at[j] /\ found'[j] = found[j]
    BY <1>0, <1>6 DEF Start, BuildIndex, IndexFails, RegisterRefused, SeedFails, Configured, Stop, Goes
  <2> QED
    BY <1>1, <2>1, <2>2
<1>7. ASSUME UNCHANGED <<at, found, email, admins, overtaken>> PROVE ReadHolds'
  BY <1>1, <1>7
<1>8. CASE UNCHANGED vars
  BY <1>7, <1>8 DEF vars
<1>9. ASSUME NEW t, SearchMisses(t) \/ SearchInserts(t) \/ Forget(t) PROVE ReadHolds'
  BY <1>7, <1>9 DEF SearchMisses, SearchInserts, Forget, instance, accounts
<1> QED
  BY <1>2, <1>3, <1>4, <1>5, <1>6, <1>8, <1>9 DEF Next, InstanceStep

LEMMA SeedsAdminStep ==
  ASSUME TypeOK, ReadHolds, [Next]_vars
  PROVE  [SeedsAdmin]_vars
<1> SUFFICES ASSUME Next, NEW i \in Instances,
                    at[i] \in {"seed", "promote", "register"}, at'[i] = "config",
                    i \notin overtaken, faults' = faults
             PROVE  \E a \in Accounts : email'[a] = Seed /\ a \in admins'
  BY DEF SeedsAdmin, Under
<1>0. /\ at \in [Instances -> {"off", "index", "seed", "promote", "register", "config",
                               "serving", "broken"}]
      /\ found \in [Instances -> Accounts \cup {None}]
      /\ \A j \in Instances : at[j] = "promote" => found[j] # None
      /\ email \in [Accounts -> Emails \cup {None, Gone}]
  BY DEF TypeOK
<1>1. InstanceStep(i)
  <2>1. at' # at
    BY <1>0
  <2>2. PICK j \in Instances : InstanceStep(j)
    BY <2>1 DEF Next, WriteAccount, SearchMisses, SearchInserts, Forget, instance
  <2>3. ASSUME j # i PROVE at'[i] = at[i]
    BY <1>0, <2>2, <2>3 DEF InstanceStep, Start, BuildIndex, IndexFails, SeedRead, Promote, Register,
                            RegisterRefused, SeedFails, Configured, Stop, Goes
  <2> QED
    BY <2>2, <2>3
<1>2. CASE SeedRead(i)
  <2>1. PICK a \in Under(Seed) : a \in admins
    BY <1>0, <1>2 DEF SeedRead, Goes
  <2> QED
    BY <1>2, <2>1 DEF SeedRead, Under
<1>3. CASE Promote(i)
  <2>1. email[found[i]] = Seed /\ found[i] \in Accounts
    BY <1>0, <1>3 DEF Promote, ReadHolds
  <2>2. found[i] \in admins' /\ email' = email
    BY <1>3, <2>1, StartupAssumption DEF Promote
  <2> QED
    BY <2>1, <2>2
<1>4. ASSUME NEW a \in Accounts, Register(i, a) PROVE email'[a] = Seed /\ a \in admins'
  BY <1>0, <1>4 DEF Register
<1>5. CASE RegisterRefused(i)
  BY <1>5 DEF RegisterRefused, ReadHolds, accounts, Under
<1>6. ~SeedFails(i)
  <2>1. faults \in Nat
    BY StartupAssumption DEF TypeOK
  <2> QED
    BY <2>1 DEF SeedFails, Fault
<1> QED
  BY <1>0, <1>1, <1>2, <1>3, <1>4, <1>5, <1>6
     DEF InstanceStep, Start, BuildIndex, IndexFails, Configured, Stop, Goes

\* A start that finds the database answering leaves somebody to sign in as:
\* unless a request came between EnsureAdmin's read and its write, an account
\* under the configured address is an administrator, however many instances
\* start at once, and with or without the index on addresses.
THEOREM AdminSeeded == Spec => AdminIsSeeded
<1>1. Init => TypeOK /\ ReadHolds
  BY TypingInit DEF Init, ReadHolds
<1>2. TypeOK /\ ReadHolds /\ [Next]_vars => (TypeOK /\ ReadHolds)'
  BY TypingStep, ReadHoldsStep
<1>3. TypeOK /\ ReadHolds /\ [Next]_vars => [SeedsAdmin]_vars
  BY SeedsAdminStep
<1> QED
  BY <1>1, <1>2, <1>3, PTL DEF Spec, AdminIsSeeded
=============================================================================
