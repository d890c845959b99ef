--------------------------- MODULE CheckInProofs ----------------------------
(***************************************************************************)
(* Admission at the door, proved for any number of bookings, gates and     *)
(* starting instances, any batch size and any number of scans.             *)
(***************************************************************************)
EXTENDS CheckIn, SequenceTheorems, FiniteSetTheorems, TLAPS

-----------------------------------------------------------------------------
(***************************************************************************)
(* Batches.                                                                *)
(***************************************************************************)

LEMMA EmptyIffNoLength ==
  ASSUME NEW S, NEW t \in Seq(S)
  PROVE  t = <<>> <=> Len(t) = 0
<1>1. CASE t = <<>>
  BY <1>1, EmptySeq
<1>2. CASE t # <<>>
  <2>1. Len(t) \in Nat \ {0}
    BY <1>2, EmptySeq
  <2> QED
    BY <1>2, <2>1
<1> QED
  BY <1>1, <1>2

\* What is left of a batch is a batch or nothing, and nothing exactly when one
\* scan was left.
LEMMA BatchTail ==
  ASSUME NEW S, NEW s \in Batches(S)
  PROVE  /\ s # <<>>
         /\ Head(s) \in S
         /\ Tail(s) \in Batches(S) \cup {<<>>}
         /\ Len(s) > 1 <=> Tail(s) # <<>>
<1>0. MaxBatch \in Nat
  BY CheckInAssumption
<1>1. PICK n \in 1 .. MaxBatch : s \in [1 .. n -> S]
  BY DEF Batches
<1>2. n \in Nat /\ n >= 1 /\ n <= MaxBatch
  BY <1>0, <1>1
<1>3. s \in Seq(S)
  BY <1>1, <1>2, SeqDef
<1>4. Len(s) = n
  <2>1. DOMAIN s = 1 .. n
    BY <1>1
  <2>2. DOMAIN s = 1 .. Len(s) /\ Len(s) \in Nat
    BY <1>3, LenProperties
  <2> QED
    BY <2>1, <2>2, <1>2
<1>5. s # <<>>
  BY <1>2, <1>3, <1>4, EmptyIffNoLength
<1>6. /\ Head(s) \in S /\ Tail(s) \in Seq(S)
      /\ Len(Tail(s)) = n - 1
  BY <1>3, <1>4, <1>5, HeadTailProperties
<1>7. Tail(s) \in [1 .. (n - 1) -> S]
  BY <1>6, LenProperties
<1>e. Tail(s) = <<>> <=> Len(Tail(s)) = 0
  BY <1>6, EmptyIffNoLength
<1>8. CASE n = 1
  <2>1. Tail(s) = <<>>
    BY <1>e, <1>6, <1>8
  <2> QED
    BY <2>1, <1>4, <1>5, <1>6, <1>8
<1>9. CASE n # 1
  <2>1. n - 1 \in 1 .. MaxBatch /\ n > 1
    BY <1>0, <1>2, <1>9
  <2>2. Tail(s) \in Batches(S)
    BY <2>1, <1>7 DEF Batches
  <2>3. Tail(s) # <<>>
    BY <1>2, <1>e, <2>1, <1>6
  <2> QED
    BY <2>1, <2>2, <2>3, <1>4, <1>5, <1>6
<1> QED
  BY <1>8, <1>9

LEMMA BatchGrows ==
  ASSUME NEW S, NEW T, S \subseteq T
  PROVE  Batches(S) \subseteq Batches(T)
<1> SUFFICES ASSUME NEW s \in Batches(S) PROVE s \in Batches(T)
  OBVIOUS
<1>1. PICK n \in 1 .. MaxBatch : s \in [1 .. n -> S]
  BY DEF Batches
<1>2. s \in [1 .. n -> T]
  BY <1>1
<1> QED
  BY <1>1, <1>2 DEF Batches

\* A batch that a gate sends is not empty.
LEMMA BatchFull == ASSUME NEW S PROVE <<>> \notin Batches(S)
BY BatchTail

-----------------------------------------------------------------------------
(***************************************************************************)
(* Typing, in the parts that an action writes together.                    *)
(***************************************************************************)
Stored ==
  /\ status \in [Bookings -> Statuses]
  /\ code \in [Bookings -> (1 .. minted) \cup {None}]
  /\ scanned \subseteq Bookings
  /\ uncoded \in [Instances -> SUBSET Bookings]
  /\ filling \subseteq Instances
  /\ minted \in Nat
  /\ printed \subseteq Bookings \X (1 .. minted)

Manned ==
  /\ at \in [Gates -> {"idle", "update", "admitted", "look"}]
  /\ found \in [Gates -> Bookings \cup {None}]
  /\ todo \in [Gates -> Batches(1 .. minted) \cup {<<>>}]
  /\ \A g \in Gates : at[g] = "idle" <=> todo[g] = <<>>

Told ==
  /\ admitted \in [Bookings -> Nat]
  /\ refused \subseteq Bookings \X Answers
  /\ broken \subseteq Bookings
  /\ paidMidScan \subseteq Bookings
  /\ requests \in 0 .. MaxScans

LEMMA TypeParts == TypeOK <=> Stored /\ Manned /\ Told
BY DEF TypeOK, Stored, Manned, Told

LEMMA SameStored ==
  Stored /\ UNCHANGED <<status, code, scanned, uncoded, filling, minted, printed>> => Stored'
BY DEF Stored

LEMMA SameManned == Manned /\ UNCHANGED <<at, found, todo, minted>> => Manned'
BY DEF Manned, Batches

LEMMA SameTold ==
  Told /\ UNCHANGED <<admitted, refused, broken, paidMidScan, requests>> => Told'
BY DEF Told

LEMMA TypingInit == Init => TypeOK
<1> SUFFICES ASSUME Init PROVE TypeOK
  OBVIOUS
<1>0. minted \in Nat
  <2>1. IsFiniteSet(Bookings \ Legacy)
    BY CheckInAssumption, FS_Difference
  <2> QED
    BY <2>1, FS_CardinalityType DEF Init
<1>1. PICK draw \in [Bookings \ Legacy -> 1 .. minted] :
        /\ code = [b \in Bookings |-> IF b \in Legacy THEN None ELSE draw[b]]
        /\ printed = {<<b, draw[b]>> : b \in Bookings \ Legacy}
  BY DEF Init
<1>2. Stored
  <2>1. code \in [Bookings -> (1 .. minted) \cup {None}]
    BY <1>1
  <2>2. printed \subseteq Bookings \X (1 .. minted)
    BY <1>1
  <2>3. /\ status \in [Bookings -> Statuses]
        /\ scanned \subseteq Bookings
        /\ uncoded \in [Instances -> SUBSET Bookings]
        /\ filling \subseteq Instances
    BY DEF Init, Statuses
  <2> QED
    BY <1>0, <2>1, <2>2, <2>3 DEF Stored
<1>3. Manned
  BY DEF Init, Manned
<1>4. Told
  BY CheckInAssumption DEF Init, Told
<1> QED
  BY <1>2, <1>3, <1>4, TypeParts

\* A gate at work has a batch, and goes on to the rest of it.
LEMMA Working ==
  ASSUME TypeOK, NEW g \in Gates, at[g] # "idle"
  PROVE  /\ todo[g] \in Batches(1 .. minted)
         /\ Head(todo[g]) \in 1 .. minted
         /\ Tail(todo[g]) \in Batches(1 .. minted) \cup {<<>>}
         /\ Len(todo[g]) > 1 <=> Tail(todo[g]) # <<>>
<1>1. todo[g] \in Batches(1 .. minted)
  BY DEF TypeOK
<1> QED
  BY <1>1, BatchTail

LEMMA NextIsManned ==
  ASSUME TypeOK, NEW g \in Gates, at[g] # "idle", NextScan(g), minted' = minted
  PROVE  Manned'
<1>1. /\ Tail(todo[g]) \in Batches(1 .. minted) \cup {<<>>}
      /\ Len(todo[g]) > 1 <=> Tail(todo[g]) # <<>>
  BY Working
<1>2. at' \in [Gates -> {"idle", "update", "admitted", "look"}]
  BY DEF TypeOK, NextScan
<1>3. found' \in [Gates -> Bookings \cup {None}]
  BY DEF TypeOK, NextScan
<1>4. todo' = [todo EXCEPT ![g] = Tail(todo[g])]
  BY DEF NextScan
<1>5. todo' \in [Gates -> Batches(1 .. minted) \cup {<<>>}]
  BY <1>1, <1>4 DEF TypeOK
<1>6. at'[g] = "idle" <=> Tail(todo[g]) = <<>>
  BY <1>1 DEF TypeOK, NextScan
<1>7. ASSUME NEW h \in Gates PROVE at'[h] = "idle" <=> todo'[h] = <<>>
  BY <1>4, <1>6, <1>7 DEF TypeOK, NextScan
<1>8. (Batches(1 .. minted))' = Batches(1 .. minted)
  BY DEF Batches
<1> QED
  BY <1>2, <1>3, <1>5, <1>7, <1>8 DEF Manned

LEMMA TypingOfGates ==
  ASSUME TypeOK, NEW g \in Gates,
         Admit(g) \/ NoMatch(g) \/ AnswerValid(g) \/ Refuse(g) \/ ScanFails(g)
  PROVE  TypeOK'
<1>0. Stored /\ Manned /\ Told
  BY TypeParts
<1>1. CASE Admit(g)
  <2>1. PICK b \in Admissible(Head(todo[g])) : Records(g, b, "admitted")
    BY <1>1 DEF Admit
  <2>2. b \in Bookings /\ at[g] = "update"
    BY <1>1, <2>1 DEF Admissible, WithCode, Rows, Admit
  <2>3. Stored'
    BY <1>0, <2>1, <2>2 DEF Records, Stored, startup, history
  <2>4. Manned'
    BY <1>0, <2>1, <2>2 DEF Records, Manned, startup, Batches
  <2>5. Told'
    BY <1>0, <2>1, SameTold DEF Records, history
  <2> QED
    BY <2>3, <2>4, <2>5, TypeParts DEF TypeOK, Stored, Manned, Told
<1>2. CASE NoMatch(g)
  <2>1. Stored'
    BY <1>0, <1>2, SameStored DEF NoMatch, tickets, startup, history
  <2>2. Manned'
    BY <1>0, <1>2 DEF NoMatch, Manned, startup, Batches
  <2>3. Told'
    BY <1>0, <1>2, SameTold DEF NoMatch, history
  <2> QED
    BY <2>1, <2>2, <2>3, TypeParts DEF TypeOK, Stored, Manned, Told
<1>3. CASE AnswerValid(g)
  <2>1. Stored'
    BY <1>0, <1>3, SameStored DEF AnswerValid, tickets, startup
  <2>2. Manned'
    BY <1>3, NextIsManned DEF AnswerValid, startup
  <2>3. admitted' \in [Bookings -> Nat]
    <3>1. admitted' = [admitted EXCEPT ![found[g]] = admitted[found[g]] + 1]
      BY <1>3 DEF AnswerValid
    <3>2. ASSUME NEW b \in Bookings PROVE admitted'[b] \in Nat
      <4>1. CASE found[g] = b
        BY <1>0, <3>1, <4>1 DEF Told
      <4>2. CASE found[g] # b
        BY <1>0, <3>1, <4>2 DEF Told
      <4> QED
        BY <4>1, <4>2
    <3> QED
      BY <1>0, <3>1, <3>2 DEF Told
  <2>4. Told'
    BY <1>0, <1>3, <2>3 DEF AnswerValid, Told
  <2> QED
    BY <2>1, <2>2, <2>4, TypeParts DEF TypeOK, Stored, Manned, Told
<1>4. CASE Refuse(g)
  <2>1. Stored'
    BY <1>0, <1>4, SameStored DEF Refuse, tickets, startup
  <2>2. Manned'
    BY <1>4, NextIsManned DEF Refuse, startup
  <2>3. {<<b, Why(b)>> : b \in WithCode(Head(todo[g]))} \subseteq Bookings \X Answers
    <3>1. \A b \in WithCode(Head(todo[g])) : b \in Bookings
      BY DEF WithCode, Rows
    <3>2. \A b \in Bookings : Why(b) \in Answers
      BY DEF Why, Answers
    <3> QED
      BY <3>1, <3>2
  <2>4. Told'
    BY <1>0, <1>4, <2>3 DEF Refuse, Told
  <2> QED
    BY <2>1, <2>2, <2>4, TypeParts DEF TypeOK, Stored, Manned, Told
<1>5. CASE ScanFails(g)
  <2>1. scanned' \subseteq Bookings
    BY <1>0, <1>5 DEF ScanFails, Admissible, WithCode, Rows, Stored
  <2>2. Stored'
    BY <1>0, <1>5, <2>1 DEF ScanFails, Stored, startup
  <2>3. Manned'
    BY <1>5, NextIsManned DEF ScanFails, startup
  <2>4. Scanning(g) \subseteq Bookings
    BY <1>0 DEF Scanning, WithCode, Rows, Manned
  <2>5. Told'
    BY <1>0, <1>5, <2>4 DEF ScanFails, Told
  <2> QED
    BY <2>2, <2>3, <2>5, TypeParts DEF TypeOK, Stored, Manned, Told
<1> QED
  BY <1>1, <1>2, <1>3, <1>4, <1>5

LEMMA TypingOfBatches ==
  ASSUME TypeOK, NEW g \in Gates, NEW batch \in Batches(Scannable), ScanBatch(g, batch)
  PROVE  TypeOK'
<1>0. Stored /\ Manned /\ Told
  BY TypeParts
<1>1. Scannable \subseteq 1 .. minted
  BY <1>0 DEF Scannable, Stored
<1>2. batch \in Batches(1 .. minted) /\ batch # <<>>
  BY <1>1, BatchGrows, BatchFull
<1>3. Stored'
  BY <1>0, SameStored DEF ScanBatch, tickets, startup
<1>4. Manned'
  BY <1>0, <1>2 DEF ScanBatch, Manned, startup, Batches
<1>5. Told'
  <2>1. requests' \in 0 .. MaxScans
    BY <1>0, CheckInAssumption DEF ScanBatch, Told
  <2> QED
    BY <1>0, <2>1 DEF ScanBatch, Told
<1> QED
  BY <1>3, <1>4, <1>5, TypeParts DEF TypeOK, Stored, Manned, Told

LEMMA TypingOfBookings ==
  ASSUME TypeOK, NEW b \in Bookings, Pay(b) \/ Expire(b) \/ Cancel(b) \/ Erase(b)
  PROVE  TypeOK'
<1>0. Stored /\ Manned /\ Told
  BY TypeParts
<1>1. Stored'
  BY <1>0 DEF Pay, Expire, Cancel, Erase, Stored, Statuses, startup, history
<1>2. Manned'
  BY <1>0, SameManned DEF Pay, Expire, Cancel, Erase, gates, startup
<1>3. Told'
  BY <1>0 DEF Pay, Expire, Cancel, Erase, Told, history
<1> QED
  BY <1>1, <1>2, <1>3, TypeParts DEF TypeOK, Stored, Manned, Told

LEMMA TypingOfCodes ==
  ASSUME TypeOK, NEW n \in Instances,
         FillStarts(n) \/ \E b \in Bookings : FillWrites(n, b)
  PROVE  TypeOK'
<1>0. Stored /\ Manned /\ Told
  BY TypeParts
<1>1. CASE FillStarts(n)
  <2>1. Stored'
    BY <1>0, <1>1 DEF FillStarts, Stored, Rows, tickets, history
  <2>2. Manned'
    BY <1>0, <1>1, SameManned DEF FillStarts, gates
  <2>3. Told'
    BY <1>0, <1>1, SameTold DEF FillStarts, history
  <2> QED
    BY <2>1, <2>2, <2>3, TypeParts DEF TypeOK, Stored, Manned, Told
<1>2. ASSUME NEW b \in Bookings, FillWrites(n, b) PROVE TypeOK'
  <2>1. minted' = minted + 1 /\ minted \in Nat
    BY <1>0, <1>2 DEF FillWrites, Stored
  <2>2. 1 .. minted \subseteq 1 .. minted' /\ minted' \in 1 .. minted'
    BY <2>1
  <2>3. Stored'
    <3>1. code' \in [Bookings -> (1 .. minted') \cup {None}]
      BY <1>0, <1>2, <2>2 DEF FillWrites, Stored
    <3>2. printed' \subseteq Bookings \X (1 .. minted')
      BY <1>0, <1>2, <2>2 DEF FillWrites, Stored
    <3> QED
      BY <1>0, <1>2, <2>1, <3>1, <3>2 DEF FillWrites, Stored
  <2>4. Manned'
    <3>1. Batches(1 .. minted) \subseteq Batches(1 .. minted')
      BY <2>2, BatchGrows
    <3>2. Batches(1 .. minted') = (Batches(1 .. minted))'
      BY DEF Batches
    <3> QED
      BY <1>0, <1>2, <3>1, <3>2 DEF FillWrites, Manned, gates
  <2>5. Told'
    BY <1>0, <1>2, SameTold DEF FillWrites
  <2> QED
    BY <2>3, <2>4, <2>5, TypeParts DEF TypeOK, Stored, Manned, Told
<1> QED
  BY <1>1, <1>2

LEMMA TypingStep == TypeOK /\ [Next]_vars => TypeOK'
<1> SUFFICES ASSUME TypeOK, [Next]_vars PROVE TypeOK'
  OBVIOUS
<1>1. CASE Next
  BY <1>1, TypingOfGates, TypingOfBatches, TypingOfBookings, TypingOfCodes DEF Next
<1>2. CASE UNCHANGED vars
  BY <1>2 DEF TypeOK, vars, Batches
<1> QED
  BY <1>1, <1>2

\* Every variable keeps its shape: a gate is idle exactly when its batch is
\* used up, and nothing but issued codes is ever scanned.
THEOREM Typing == Spec => []TypeOK
<1>1. Init => TypeOK
  BY TypingInit
<1>2. TypeOK /\ [Next]_vars => TypeOK'
  BY TypingStep
<1> QED
  BY <1>1, <1>2, PTL DEF Spec
-----------------------------------------------------------------------------
(***************************************************************************)
(* One admission for one ticket.                                           *)
(***************************************************************************)

\* What an answered scan does to the gates.
LEMMA Answered ==
  ASSUME TypeOK, NEW g \in Gates, AnswerValid(g) \/ Refuse(g) \/ ScanFails(g)
  PROVE  /\ at'[g] \in {"idle", "update"} /\ found'[g] = None
         /\ todo'[g] = Tail(todo[g]) /\ at[g] # "idle"
         /\ \A h \in Gates : h # g => /\ at'[h] = at[h] /\ found'[h] = found[h]
                                      /\ todo'[h] = todo[h]
BY DEF AnswerValid, Refuse, ScanFails, NextScan, TypeOK

LEMMA Matched ==
  ASSUME TypeOK, NEW g \in Gates, Admit(g)
  PROVE  \E b \in Bookings :
           /\ at[g] = "update" /\ b \in WithCode(Head(todo[g]))
           /\ b \notin scanned /\ scanned' = scanned \cup {b}
           /\ at'[g] = "admitted" /\ found'[g] = b
           /\ \A h \in Gates : h # g => at'[h] = at[h] /\ found'[h] = found[h]
<1>1. PICK b \in Admissible(Head(todo[g])) : Records(g, b, "admitted")
  BY DEF Admit
<1>2. b \in Bookings /\ b \in WithCode(Head(todo[g])) /\ b \notin scanned
  BY <1>1 DEF Admissible, WithCode, Rows
<1> QED
  BY <1>1, <1>2 DEF Admit, Records, TypeOK

LEMMA HoldingStep == TypeOK /\ Holding /\ [Next]_vars => Holding'
<1> SUFFICES ASSUME TypeOK, Holding, [Next]_vars PROVE Holding'
  OBVIOUS
<1>0. None \notin Bookings
  BY CheckInAssumption
<1>1. ASSUME NEW g \in Gates, Admit(g) PROVE Holding'
  <2>1. PICK b \in Bookings :
          /\ at[g] = "update" /\ b \notin scanned /\ scanned' = scanned \cup {b}
          /\ at'[g] = "admitted" /\ found'[g] = b
          /\ \A h \in Gates : h # g => at'[h] = at[h] /\ found'[h] = found[h]
    BY <1>1, Matched
  <2>2. admitted' = admitted
    BY <1>1 DEF Admit, Records, history
  <2>3. \A h \in Gates : found[h] # b
    BY <1>0, <2>1 DEF Holding
  <2>4. admitted[b] = 0
    BY <2>1 DEF Holding
  <2> QED
    BY <1>0, <2>1, <2>2, <2>3, <2>4 DEF Holding
<1>2. ASSUME NEW g \in Gates, NoMatch(g) PROVE Holding'
  BY <1>2 DEF NoMatch, Holding, TypeOK, tickets, history
<1>3. ASSUME NEW g \in Gates, AnswerValid(g) PROVE Holding'
  <2>1. /\ at'[g] \in {"idle", "update"} /\ found'[g] = None
        /\ \A h \in Gates : h # g => at'[h] = at[h] /\ found'[h] = found[h]
    BY <1>3, Answered
  <2>2. scanned' = scanned
    BY <1>3 DEF AnswerValid, tickets
  <2>3. \A b \in Bookings : b # found[g] => admitted'[b] = admitted[b]
    BY <1>3 DEF AnswerValid, TypeOK
  <2>4. found[g] # None /\ found[g] \in scanned
    BY <1>3 DEF AnswerValid, Holding
  <2>5. \A h \in Gates : h # g => found[h] # found[g]
    BY <2>4 DEF Holding
  <2>6. \A h \in Gates : found'[h] # None
          => h # g /\ found[h] \in Bookings /\ admitted'[found[h]] = admitted[found[h]]
    BY <2>1, <2>3, <2>5 DEF TypeOK
  <2> QED
    BY <2>1, <2>2, <2>3, <2>4, <2>6 DEF Holding
<1>4. ASSUME NEW g \in Gates, Refuse(g) \/ ScanFails(g) PROVE Holding'
  <2>1. /\ at'[g] \in {"idle", "update"} /\ found'[g] = None
        /\ \A h \in Gates : h # g => at'[h] = at[h] /\ found'[h] = found[h]
    BY <1>4, Answered
  <2>2. scanned \subseteq scanned' /\ admitted' = admitted
    BY <1>4 DEF Refuse, ScanFails, tickets
  <2> QED
    BY <2>1, <2>2 DEF Holding
<1>5. ASSUME NEW g \in Gates, NEW batch \in Batches(Scannable), ScanBatch(g, batch)
      PROVE  Holding'
  BY <1>5 DEF ScanBatch, Holding, TypeOK, tickets
<1>6. ASSUME NEW b \in Bookings, Pay(b) \/ Expire(b) \/ Cancel(b) \/ Erase(b) PROVE Holding'
  BY <1>6 DEF Pay, Expire, Cancel, Erase, Holding, gates, history
<1>7. ASSUME NEW n \in Instances, FillStarts(n) \/ \E b \in Bookings : FillWrites(n, b)
      PROVE  Holding'
  BY <1>7 DEF FillStarts, FillWrites, Holding, tickets, gates, history
<1>8. CASE UNCHANGED vars
  BY <1>8 DEF Holding, vars
<1> QED
  BY <1>1, <1>2, <1>3, <1>4, <1>5, <1>6, <1>7, <1>8 DEF Next

LEMMA OnceStep == TypeOK /\ Holding /\ AdmitOnce /\ [Next]_vars => AdmitOnce'
<1> SUFFICES ASSUME TypeOK, Holding, AdmitOnce, [Next]_vars PROVE AdmitOnce'
  OBVIOUS
<1>1. ASSUME NEW g \in Gates, AnswerValid(g) PROVE AdmitOnce'
  <2>1. found[g] \in Bookings /\ admitted[found[g]] = 0
    BY <1>1 DEF AnswerValid, Holding, TypeOK
  <2>2. admitted' = [admitted EXCEPT ![found[g]] = 1]
    BY <1>1, <2>1 DEF AnswerValid, TypeOK
  <2> QED
    BY <2>1, <2>2 DEF AdmitOnce, TypeOK
<1>2. CASE admitted' = admitted
  BY <1>2 DEF AdmitOnce
<1> QED
  BY <1>1, <1>2 DEF Next, vars, Admit, Records, NoMatch, Refuse, ScanFails, ScanBatch, Pay,
                    Expire, Cancel, Erase, FillStarts, FillWrites, history

\* A ticket is answered "valid" at most once, whatever gates scan it together.
THEOREM OneAdmission == Spec => []AdmitOnce
<1>1. Init => TypeOK /\ Holding /\ AdmitOnce
  <2>1. Init => Holding
    BY DEF Init, Holding
  <2>2. Init => AdmitOnce
    BY DEF Init, AdmitOnce
  <2> QED
    BY <2>1, <2>2, TypingInit
<1>2. TypeOK /\ Holding /\ AdmitOnce /\ [Next]_vars => (TypeOK /\ Holding /\ AdmitOnce)'
  BY TypingStep, HoldingStep, OnceStep
<1> QED
  BY <1>1, <1>2, PTL DEF Spec
-----------------------------------------------------------------------------
(***************************************************************************)
(* What a recorded scan, and what a refusal says.                          *)
(***************************************************************************)
LEMMA ScannedStep ==
  TypeOK /\ Holding /\ ScannedWasAdmitted /\ [Next]_vars => ScannedWasAdmitted'
<1> SUFFICES ASSUME TypeOK, Holding, ScannedWasAdmitted, [Next]_vars PROVE ScannedWasAdmitted'
  OBVIOUS
<1>0. None \notin Bookings
  BY CheckInAssumption
<1>1. ASSUME NEW g \in Gates, Admit(g) PROVE ScannedWasAdmitted'
  <2>1. PICK b \in Bookings :
          /\ at[g] = "update" /\ scanned' = scanned \cup {b} /\ found'[g] = b
          /\ \A h \in Gates : h # g => found'[h] = found[h]
    BY <1>1, Matched
  <2>2. admitted' = admitted /\ broken' = broken
    BY <1>1 DEF Admit, Records, history
  <2>3. found[g] = None
    BY <2>1 DEF Holding
  <2>4. scanned \subseteq Bookings
    BY DEF TypeOK
  <2> QED
    BY <1>0, <2>1, <2>2, <2>3, <2>4 DEF ScannedWasAdmitted
<1>2. ASSUME NEW g \in Gates, AnswerValid(g) PROVE ScannedWasAdmitted'
  <2>1. \A h \in Gates : h # g => found'[h] = found[h]
    BY <1>2, Answered
  <2>2. scanned' = scanned /\ broken' = broken
    BY <1>2 DEF AnswerValid, tickets
  <2>3. found[g] \in Bookings /\ admitted[found[g]] = 0
    BY <1>2 DEF AnswerValid, Holding, TypeOK
  <2>4. admitted' = [admitted EXCEPT ![found[g]] = 1]
    BY <1>2, <2>3 DEF AnswerValid, TypeOK
  <2>5. \A b \in Bookings : admitted[b] = 1 \/ b = found[g] => admitted'[b] = 1
    BY <2>3, <2>4 DEF TypeOK
  <2> QED
    BY <2>1, <2>2, <2>5 DEF ScannedWasAdmitted, TypeOK
<1>3. ASSUME NEW g \in Gates, Refuse(g) PROVE ScannedWasAdmitted'
  <2>1. \A h \in Gates : h # g => found'[h] = found[h]
    BY <1>3, Answered
  <2>2. scanned' = scanned /\ broken' = broken /\ admitted' = admitted
    BY <1>3 DEF Refuse, tickets
  <2>3. found[g] = None
    BY <1>3 DEF Refuse, Holding
  <2> QED
    BY <1>0, <2>1, <2>2, <2>3 DEF ScannedWasAdmitted, TypeOK
<1>4. ASSUME NEW g \in Gates, ScanFails(g) PROVE ScannedWasAdmitted'
  <2>1. \A h \in Gates : h # g => found'[h] = found[h]
    BY <1>4, Answered
  <2>2. broken' = broken \cup Scanning(g) /\ admitted' = admitted
    BY <1>4 DEF ScanFails
  <2>3. ASSUME NEW b \in scanned' PROVE b \in scanned \/ b \in Scanning(g)
    <3>1. CASE at[g] = "update"
      <4>1. Scanning(g) = WithCode(Head(todo[g]))
        BY <3>1 DEF Scanning, Holding
      <4> QED
        BY <1>4, <2>3, <4>1 DEF ScanFails, Admissible
    <3>2. CASE at[g] # "update"
      BY <1>4, <2>3, <3>2 DEF ScanFails
    <3> QED
      BY <3>1, <3>2
  <2>4. ASSUME NEW b \in scanned PROVE admitted'[b] = 1 \/ b \in broken' \/ \E h \in Gates : found'[h] = b
    <3>1. CASE \E h \in Gates : found[h] = b
      <4>1. PICK h \in Gates : found[h] = b
        BY <3>1
      <4>2. b \in Bookings /\ None \notin Bookings
        BY <1>0, CheckInAssumption DEF TypeOK
      <4>3. h = g => b \in Scanning(g)
        BY <4>1, <4>2 DEF Scanning
      <4> QED
        BY <2>1, <2>2, <4>1, <4>3
    <3>2. CASE admitted[b] = 1 \/ b \in broken
      BY <2>2, <3>2
    <3> QED
      BY <1>0, <3>1, <3>2 DEF ScannedWasAdmitted
  <2> QED
    BY <2>2, <2>3, <2>4 DEF ScannedWasAdmitted
<1>5. CASE UNCHANGED <<scanned, found, admitted, broken>>
  BY <1>5 DEF ScannedWasAdmitted
<1> QED
  BY <1>1, <1>2, <1>3, <1>4, <1>5
  DEF Next, vars, NoMatch, ScanBatch, Pay, Expire, Cancel, Erase, FillStarts, FillWrites,
      tickets, gates, history

\* The rows a scan can mean: a change of status other than a deletion leaves
\* them, and a new code takes a row away from every batch there is.
LEMMA SameRows ==
  ASSUME TypeOK, NEW c,
         \/ UNCHANGED <<status, code>>
         \/ \E b \in Bookings : Pay(b) \/ Expire(b) \/ Cancel(b) \/ Erase(b)
  PROVE  WithCode(c)' \subseteq WithCode(c)
<1>1. CASE UNCHANGED <<status, code>>
  BY <1>1 DEF WithCode, Rows
<1>2. ASSUME NEW b \in Bookings, Pay(b) \/ Expire(b) \/ Cancel(b) \/ Erase(b)
      PROVE  WithCode(c)' \subseteq WithCode(c)
  <2>1. code' = code /\ \A a \in Bookings : a # b => status'[a] = status[a]
    BY <1>2 DEF Pay, Expire, Cancel, Erase, startup, history, TypeOK
  <2>2. status[b] # "deleted"
    BY <1>2 DEF Pay, Expire, Cancel, Erase, Rows
  <2> QED
    BY <2>1, <2>2 DEF WithCode, Rows
<1> QED
  BY <1>1, <1>2

LEMMA FreshCode ==
  ASSUME TypeOK, NEW n \in Instances, NEW b \in Bookings, FillWrites(n, b),
         NEW c \in 1 .. minted
  PROVE  WithCode(c)' \subseteq WithCode(c)
<1>1. status' = status /\ minted' = minted + 1 /\ minted \in Nat
  BY DEF FillWrites, TypeOK
<1>2. minted' # c
  BY <1>1
<1>3. code' = code \/ code' = [code EXCEPT ![b] = minted']
  BY DEF FillWrites
<1> QED
  BY <1>1, <1>2, <1>3 DEF WithCode, Rows, TypeOK

LEMMA LooksStep == TypeOK /\ LooksAgain /\ [Next]_vars => LooksAgain'
<1> SUFFICES ASSUME TypeOK, LooksAgain, [Next]_vars PROVE LooksAgain'
  OBVIOUS
<1> DEFINE Seen(b) == status[b] = "confirmed" => b \in scanned \cup paidMidScan
<1>0. ASSUME NEW g \in Gates, at[g] = "look", NEW b \in WithCode(Head(todo[g]))
      PROVE  Seen(b) /\ b \in Bookings
  BY <1>0 DEF LooksAgain, WithCode, Rows
<1>1. ASSUME NEW g \in Gates, Admit(g) PROVE LooksAgain'
  <2>1. /\ scanned \subseteq scanned' /\ at'[g] = "admitted"
        /\ \A h \in Gates : h # g => at'[h] = at[h]
    BY <1>1, Matched
  <2>2. UNCHANGED <<status, code, todo, paidMidScan>>
    BY <1>1 DEF Admit, Records, history
  <2>3. \A c : WithCode(c)' = WithCode(c)
    BY <2>2 DEF WithCode, Rows
  <2> QED
    BY <2>1, <2>2, <2>3 DEF LooksAgain
<1>2. ASSUME NEW g \in Gates, NoMatch(g) PROVE LooksAgain'
  <2>1. UNCHANGED <<status, code, scanned, todo, paidMidScan>>
    BY <1>2 DEF NoMatch, tickets, history
  <2>2. \A h \in Gates : h # g => at'[h] = at[h]
    BY <1>2 DEF NoMatch, TypeOK
  <2>3. \A b \in WithCode(Head(todo[g])) : Seen(b)
    BY <1>2 DEF NoMatch, Admissible
  <2>4. \A c : WithCode(c)' = WithCode(c)
    BY <2>1 DEF WithCode, Rows
  <2> QED
    BY <2>1, <2>2, <2>3, <2>4 DEF LooksAgain
<1>3. ASSUME NEW g \in Gates, AnswerValid(g) \/ Refuse(g) \/ ScanFails(g) PROVE LooksAgain'
  <2>1. /\ at'[g] # "look"
        /\ \A h \in Gates : h # g => at'[h] = at[h] /\ todo'[h] = todo[h]
    BY <1>3, Answered
  <2>2. UNCHANGED <<status, code, paidMidScan>> /\ scanned \subseteq scanned'
    BY <1>3 DEF AnswerValid, Refuse, ScanFails, tickets
  <2>3. \A c : WithCode(c)' = WithCode(c)
    BY <2>2 DEF WithCode, Rows
  <2> QED
    BY <2>1, <2>2, <2>3 DEF LooksAgain
<1>4. ASSUME NEW g \in Gates, NEW batch \in Batches(Scannable), ScanBatch(g, batch)
      PROVE  LooksAgain'
  <2>1. /\ at'[g] # "look" /\ UNCHANGED <<status, code, scanned, paidMidScan>>
        /\ \A h \in Gates : h # g => at'[h] = at[h] /\ todo'[h] = todo[h]
    BY <1>4 DEF ScanBatch, TypeOK, tickets
  <2>2. \A c : WithCode(c)' = WithCode(c)
    BY <2>1 DEF WithCode, Rows
  <2> QED
    BY <2>1, <2>2 DEF LooksAgain
<1>5. ASSUME NEW b \in Bookings, Pay(b) \/ Expire(b) \/ Cancel(b) \/ Erase(b)
      PROVE  LooksAgain'
  <2>1. UNCHANGED <<at, todo, scanned, code>> /\ paidMidScan \subseteq paidMidScan'
    BY <1>5 DEF Pay, Expire, Cancel, Erase, gates, history
  <2>2. \A a \in Bookings : a # b => status'[a] = status[a]
    BY <1>5 DEF Pay, Expire, Cancel, Erase, TypeOK
  <2>3. ASSUME NEW g \in Gates, at[g] = "look", b \in WithCode(Head(todo[g]))
        PROVE  status'[b] = "confirmed" => b \in paidMidScan'
    <3>1. SecondLook(b)
      BY <2>3 DEF SecondLook, WithCode
    <3> QED
      BY <1>5, <3>1 DEF Pay, Expire, Cancel, Erase, TypeOK
  <2>4. \A c : WithCode(c)' \subseteq WithCode(c)
    BY <1>5, SameRows
  <2>5. ASSUME NEW g \in Gates, at'[g] = "look", NEW a \in WithCode(Head(todo[g]))'
        PROVE  Seen(a)'
    <3>1. at[g] = "look" /\ a \in WithCode(Head(todo[g])) /\ a \in Bookings
      BY <2>1, <2>4, <2>5, <1>0
    <3>2. CASE a = b
      BY <2>3, <3>1, <3>2
    <3>3. CASE a # b
      BY <1>0, <2>1, <2>2, <3>1, <3>3
    <3> QED
      BY <3>2, <3>3
  <2> QED
    BY <2>5 DEF LooksAgain
<1>6. ASSUME NEW n \in Instances, FillStarts(n) PROVE LooksAgain'
  BY <1>6 DEF FillStarts, LooksAgain, WithCode, Rows, tickets, gates, history
<1>7. ASSUME NEW n \in Instances, NEW b \in Bookings, FillWrites(n, b) PROVE LooksAgain'
  <2>1. UNCHANGED <<at, todo, scanned, status, paidMidScan>>
    BY <1>7 DEF FillWrites, gates
  <2>2. ASSUME NEW g \in Gates, at[g] = "look"
        PROVE  WithCode(Head(todo[g]))' \subseteq WithCode(Head(todo[g]))
    <3>1. Head(todo[g]) \in 1 .. minted
      BY <2>2, Working
    <3>2. (Head(todo[g]))' = Head(todo[g])
      BY <2>1
    <3> QED
      BY <1>7, <3>1, <3>2, FreshCode DEF WithCode
  <2> QED
    BY <2>1, <2>2 DEF LooksAgain
<1>8. CASE UNCHANGED vars
  BY <1>8 DEF LooksAgain, WithCode, Rows, vars
<1> QED
  BY <1>1, <1>2, <1>3, <1>4, <1>5, <1>6, <1>7, <1>8 DEF Next

LEMMA UsedStep ==
  TypeOK /\ LooksAgain /\ UsedMeansScanned /\ [Next]_vars => UsedMeansScanned'
<1> SUFFICES ASSUME TypeOK, LooksAgain, UsedMeansScanned, [Next]_vars PROVE UsedMeansScanned'
  OBVIOUS
<1>1. scanned \subseteq scanned' /\ paidMidScan \subseteq paidMidScan'
  BY DEF Next, vars, Admit, Records, NoMatch, AnswerValid, Refuse, ScanFails, ScanBatch, Pay,
         Expire, Cancel, Erase, FillStarts, FillWrites, tickets, history
<1>2. ASSUME NEW g \in Gates, Refuse(g),
             NEW b \in Bookings, <<b, "already_used">> \in refused'
      PROVE  b \in scanned \cup paidMidScan
  <2>1. CASE <<b, "already_used">> \in refused
    BY <2>1 DEF UsedMeansScanned
  <2>2. CASE <<b, "already_used">> \notin refused
    <3>1. b \in WithCode(Head(todo[g])) /\ Why(b) = "already_used"
      BY <1>2, <2>2 DEF Refuse
    <3>2. status[b] \in Statuses /\ status[b] # "deleted"
      BY <3>1 DEF TypeOK, WithCode, Rows
    <3>3. status[b] = "confirmed"
      BY <3>1, <3>2 DEF Why, Statuses
    <3> QED
      BY <1>2, <3>1, <3>3 DEF LooksAgain, Refuse
  <2> QED
    BY <2>1, <2>2
<1>3. CASE refused' = refused
  BY <1>1, <1>3 DEF UsedMeansScanned
<1>4. (\E g \in Gates : Refuse(g)) \/ refused' = refused
  BY DEF Next, vars, Admit, Records, NoMatch, AnswerValid, ScanFails, ScanBatch, Pay,
         Expire, Cancel, Erase, FillStarts, FillWrites, history
<1> QED
  BY <1>1, <1>2, <1>3, <1>4 DEF UsedMeansScanned

\* A ticket is used up only by the scan that admits its holder, or one that
\* failed.
THEOREM ScansAdmit == Spec => []ScannedWasAdmitted
<1> DEFINE IInv == TypeOK /\ Holding /\ ScannedWasAdmitted
<1>1. Init => IInv
  <2>1. Init => Holding
    BY DEF Init, Holding
  <2>2. Init => ScannedWasAdmitted
    BY DEF Init, ScannedWasAdmitted
  <2> QED
    BY <2>1, <2>2, TypingInit
<1>2. IInv /\ [Next]_vars => IInv'
  BY TypingStep, HoldingStep, ScannedStep
<1> QED
  BY <1>1, <1>2, PTL DEF Spec

\* A ticket is called used only when a gate has recorded it, or when it was paid
\* for between the two calls of the scan.
THEOREM UsedIsTrue == Spec => []UsedMeansScanned
<1> DEFINE IInv == TypeOK /\ LooksAgain /\ UsedMeansScanned
<1>1. Init => IInv
  <2>1. Init => LooksAgain
    BY DEF Init, LooksAgain
  <2>2. Init => UsedMeansScanned
    BY DEF Init, UsedMeansScanned
  <2> QED
    BY <2>1, <2>2, TypingInit
<1>2. IInv /\ [Next]_vars => IInv'
  BY TypingStep, LooksStep, UsedStep
<1> QED
  BY <1>1, <1>2, PTL DEF Spec
-----------------------------------------------------------------------------
(***************************************************************************)
(* Codes, and what a batch does with them.                                 *)
(***************************************************************************)
LEMMA CodedStep == TypeOK /\ Holding /\ Coded /\ [Next]_vars => Coded'
<1> SUFFICES ASSUME TypeOK, Holding, Coded, [Next]_vars PROVE Coded'
  OBVIOUS
<1>0. None \notin Nat /\ None \notin Bookings /\ minted \in Nat
  BY CheckInAssumption DEF TypeOK
<1>1. ASSUME NEW g \in Gates, Admit(g) PROVE Coded'
  <2>1. PICK b \in Bookings :
          /\ at[g] = "update" /\ b \in WithCode(Head(todo[g]))
          /\ found'[g] = b
          /\ \A h \in Gates : h # g => at'[h] = at[h] /\ found'[h] = found[h]
    BY <1>1, Matched
  <2>2. UNCHANGED <<status, code, todo, uncoded>>
    BY <1>1 DEF Admit, Records, startup
  <2>3. \A c : WithCode(c)' = WithCode(c)
    BY <2>2 DEF WithCode, Rows
  <2>4. WithCode(Head(todo[g])) \subseteq {b}
    <3>1. Head(todo[g]) # None
      BY <1>0, <2>1, Working
    <3> QED
      BY <2>1, <3>1 DEF Coded, WithCode, Rows
  <2> QED
    BY <2>1, <2>2, <2>3, <2>4 DEF Coded
<1>2. ASSUME NEW g \in Gates, NoMatch(g) PROVE Coded'
  <2>1. UNCHANGED <<status, code, todo, found, uncoded>>
    BY <1>2 DEF NoMatch, tickets, startup
  <2>2. \A h \in Gates : at'[h] = "admitted" => at[h] = "admitted"
    BY <1>2 DEF NoMatch, TypeOK
  <2>3. \A c : WithCode(c)' = WithCode(c)
    BY <2>1 DEF WithCode, Rows
  <2> QED
    BY <2>1, <2>2, <2>3 DEF Coded
<1>3. ASSUME NEW g \in Gates, AnswerValid(g) \/ Refuse(g) \/ ScanFails(g) PROVE Coded'
  <2>1. /\ at'[g] # "admitted"
        /\ \A h \in Gates : h # g => /\ at'[h] = at[h] /\ found'[h] = found[h]
                                     /\ todo'[h] = todo[h]
    BY <1>3, Answered
  <2>2. UNCHANGED <<status, code, uncoded>>
    BY <1>3 DEF AnswerValid, Refuse, ScanFails, tickets, startup
  <2>3. \A c : WithCode(c)' = WithCode(c)
    BY <2>2 DEF WithCode, Rows
  <2> QED
    BY <2>1, <2>2, <2>3 DEF Coded
<1>4. ASSUME NEW g \in Gates, NEW batch \in Batches(Scannable), ScanBatch(g, batch)
      PROVE  Coded'
  <2>1. /\ at'[g] # "admitted" /\ UNCHANGED <<status, code, uncoded, found>>
        /\ \A h \in Gates : h # g => at'[h] = at[h] /\ todo'[h] = todo[h]
    BY <1>4 DEF ScanBatch, TypeOK, tickets, startup
  <2>2. \A c : WithCode(c)' = WithCode(c)
    BY <2>1 DEF WithCode, Rows
  <2> QED
    BY <2>1, <2>2 DEF Coded
<1>5. ASSUME NEW b \in Bookings, Pay(b) \/ Expire(b) \/ Cancel(b) \/ Erase(b) PROVE Coded'
  <2>1. UNCHANGED <<at, todo, found, code, uncoded>>
    BY <1>5 DEF Pay, Expire, Cancel, Erase, gates, startup
  <2>2. \A c : WithCode(c)' \subseteq WithCode(c)
    BY <1>5, SameRows
  <2> QED
    BY <2>1, <2>2 DEF Coded
<1>6. ASSUME NEW n \in Instances, FillStarts(n) PROVE Coded'
  <2>1. UNCHANGED <<at, todo, found, code, status>>
    BY <1>6 DEF FillStarts, gates, tickets
  <2>2. {b \in Rows : code[b] = None} \subseteq Legacy
    BY DEF Coded, Rows
  <2>3. \A m \in Instances : uncoded'[m] \subseteq Legacy
    BY <1>6, <2>2 DEF FillStarts, TypeOK, Coded
  <2>4. \A c : WithCode(c)' = WithCode(c)
    BY <2>1 DEF WithCode, Rows
  <2> QED
    BY <2>1, <2>3, <2>4 DEF Coded
<1>7. ASSUME NEW n \in Instances, NEW b \in Bookings, FillWrites(n, b) PROVE Coded'
  <2>1. UNCHANGED <<at, todo, found, status>>
    BY <1>7 DEF FillWrites, gates
  <2>2. minted' = minted + 1 /\ minted' # None
    BY <1>0, <1>7 DEF FillWrites
  <2>3. \A a \in Bookings : code[a] # minted'
    BY <1>0, <2>2 DEF TypeOK
  <2>4. code' = code \/ code' = [code EXCEPT ![b] = minted']
    BY <1>7 DEF FillWrites
  <2>5. \A a \in Bookings \ Legacy : code'[a] # None
    BY <2>2, <2>4 DEF Coded, TypeOK
  <2>6. \A m \in Instances : uncoded'[m] \subseteq Legacy
    BY <1>7 DEF FillWrites, Coded, TypeOK
  <2>7. \A a, d \in Bookings : code'[a] = code'[d] /\ code'[a] # None => a = d
    <3>1. CASE code' = code
      BY <3>1 DEF Coded
    <3>2. CASE code' = [code EXCEPT ![b] = minted']
      <4>1. /\ code'[b] = minted'
            /\ \A a \in Bookings : a # b => code'[a] = code[a]
        BY <3>2 DEF TypeOK
      <4> QED
        BY <2>3, <4>1 DEF Coded
    <3> QED
      BY <2>4, <3>1, <3>2
  <2>8. ASSUME NEW g \in Gates, at[g] = "admitted"
        PROVE  WithCode(Head(todo[g]))' \subseteq WithCode(Head(todo[g]))
    <3>1. Head(todo[g]) \in 1 .. minted
      BY <2>8, Working
    <3>2. (Head(todo[g]))' = Head(todo[g])
      BY <2>1
    <3> QED
      BY <1>7, <3>1, <3>2, FreshCode DEF WithCode
  <2> QED
    BY <2>1, <2>5, <2>6, <2>7, <2>8 DEF Coded
<1>8. CASE UNCHANGED vars
  BY <1>8 DEF Coded, WithCode, Rows, vars
<1> QED
  BY <1>1, <1>2, <1>3, <1>4, <1>5, <1>6, <1>7, <1>8 DEF Next

LEMMA PrintedStep ==
  TypeOK /\ Coded /\ PrintedTicketsScan /\ [Next]_vars => PrintedTicketsScan'
<1> SUFFICES ASSUME TypeOK, Coded, PrintedTicketsScan, [Next]_vars PROVE PrintedTicketsScan'
  OBVIOUS
<1>1. ASSUME NEW n \in Instances, NEW b \in Bookings, FillWrites(n, b)
      PROVE  PrintedTicketsScan'
  <2>1. b \in Legacy
    BY <1>1 DEF FillWrites, Coded
  <2>2. \A a \in Bookings : a # b => code'[a] = code[a]
    BY <1>1 DEF FillWrites, TypeOK
  <2>3. printed' \subseteq printed \cup {<<b, minted'>>}
    BY <1>1 DEF FillWrites
  <2>4. \A t \in printed : t[1] \in Bookings
    BY DEF TypeOK
  <2> QED
    BY <2>1, <2>2, <2>3, <2>4 DEF PrintedTicketsScan
<1>2. CASE UNCHANGED <<printed, code>>
  BY <1>2 DEF PrintedTicketsScan
<1> QED
  BY <1>1, <1>2
  DEF Next, vars, Admit, Records, NoMatch, AnswerValid, Refuse, ScanFails, ScanBatch, Pay,
      Expire, Cancel, Erase, FillStarts, tickets, history

LEMMA CodedInit == Init => Coded /\ PrintedTicketsScan
<1> SUFFICES ASSUME Init PROVE Coded /\ PrintedTicketsScan
  OBVIOUS
<1>0. None \notin Nat
  BY CheckInAssumption
<1>1. PICK draw \in [Bookings \ Legacy -> 1 .. minted] :
        /\ \A a, b \in Bookings \ Legacy : draw[a] = draw[b] => a = b
        /\ code = [b \in Bookings |-> IF b \in Legacy THEN None ELSE draw[b]]
        /\ printed = {<<b, draw[b]>> : b \in Bookings \ Legacy}
  BY DEF Init
<1>2. minted \in Nat
  BY TypingInit DEF TypeOK
<1>3. \A b \in Bookings \ Legacy : code[b] = draw[b] /\ draw[b] # None
  BY <1>0, <1>1, <1>2
<1>4. \A b \in Bookings : b \in Legacy => code[b] = None
  BY <1>1
<1>5. \A g \in Gates : at[g] # "admitted"
  BY DEF Init
<1>6. \A n \in Instances : uncoded[n] \subseteq Legacy
  BY DEF Init
<1>7. \A a, b \in Bookings : code[a] = code[b] /\ code[a] # None => a = b
  BY <1>1, <1>3, <1>4
<1>8. PrintedTicketsScan
  BY <1>1, <1>3 DEF PrintedTicketsScan
<1> QED
  BY <1>3, <1>5, <1>6, <1>7, <1>8 DEF Coded

\* The code a holder has been shown goes on to be the booking's code, unless it
\* was stored without one.
THEOREM PrintedTickets == Spec => []PrintedTicketsScan
<1> DEFINE IInv == TypeOK /\ Holding /\ Coded /\ PrintedTicketsScan
<1>1. Init => IInv
  <2>1. Init => Holding
    BY DEF Init, Holding
  <2> QED
    BY <2>1, TypingInit, CodedInit
<1>2. IInv /\ [Next]_vars => IInv'
  BY TypingStep, HoldingStep, CodedStep, PrintedStep
<1> QED
  BY <1>1, <1>2, PTL DEF Spec

\* A scan that leaves the batch was admitted, refused or reported as failed, and
\* takes no other scan with it.
THEOREM NoScanIsLost == Spec => BatchGoesOn
<1> DEFINE Step(g) == at[g] # "idle" /\ todo'[g] # todo[g]
                        => /\ todo'[g] = Tail(todo[g])
                           /\ \A b \in WithCode(Head(todo[g])) :
                                \/ admitted'[b] > admitted[b]
                                \/ b \in broken'
                                \/ \E why \in Answers : <<b, why>> \in refused'
<1> DEFINE IInv == TypeOK /\ Holding /\ Coded
<1>1. Init => IInv
  <2>1. Init => Holding
    BY DEF Init, Holding
  <2> QED
    BY <2>1, TypingInit, CodedInit
<1>2. IInv /\ [Next]_vars => IInv'
  BY TypingStep, HoldingStep, CodedStep
<1>3. IInv /\ [Next]_vars => [\A g \in Gates : Step(g)]_vars
  <2> SUFFICES ASSUME IInv, Next, NEW g \in Gates, at[g] # "idle", todo'[g] # todo[g]
               PROVE  Step(g)
    OBVIOUS
  <2>0. \A b \in WithCode(Head(todo[g])) : b \in Bookings
    BY DEF WithCode, Rows
  <2>1. AnswerValid(g) \/ Refuse(g) \/ ScanFails(g)
    <3>1. ASSUME NEW h \in Gates, AnswerValid(h) \/ Refuse(h) \/ ScanFails(h)
          PROVE  h = g
      BY <3>1, Answered
    <3>2. ASSUME NEW h \in Gates, NEW batch \in Batches(Scannable), ScanBatch(h, batch)
          PROVE  FALSE
      BY <3>2 DEF ScanBatch, TypeOK
    <3> QED
      BY <3>1, <3>2 DEF Next, Admit, Records, NoMatch, Pay, Expire, Cancel, Erase,
                        FillStarts, FillWrites, gates
  <2>2. todo'[g] = Tail(todo[g])
    BY <2>1, Answered
  <2>3. CASE AnswerValid(g)
    <3>1. found[g] \in Bookings /\ admitted[found[g]] = 0
      BY <2>3 DEF AnswerValid, Holding, TypeOK
    <3>2. admitted' = [admitted EXCEPT ![found[g]] = 1]
      BY <2>3, <3>1 DEF AnswerValid, TypeOK
    <3>3. admitted'[found[g]] > admitted[found[g]]
      BY <3>1, <3>2 DEF TypeOK
    <3>4. WithCode(Head(todo[g])) \subseteq {found[g]}
      BY <2>3 DEF AnswerValid, Coded
    <3> QED
      BY <2>2, <3>3, <3>4
  <2>4. CASE Refuse(g)
    <3>1. \A b \in WithCode(Head(todo[g])) : <<b, Why(b)>> \in refused'
      BY <2>4 DEF Refuse
    <3>2. \A b \in Bookings : Why(b) \in Answers
      BY DEF Why, Answers
    <3> QED
      BY <2>0, <2>2, <3>1, <3>2
  <2>5. CASE ScanFails(g)
    <3>1. broken' = broken \cup Scanning(g)
      BY <2>5 DEF ScanFails
    <3>2. WithCode(Head(todo[g])) \subseteq Scanning(g)
      <4>1. CASE found[g] = None
        BY <4>1 DEF Scanning
      <4>2. CASE found[g] # None
        BY <4>2 DEF Scanning, Holding, Coded
      <4> QED
        BY <4>1, <4>2
    <3> QED
      BY <2>2, <3>1, <3>2
  <2> QED
    BY <2>1, <2>3, <2>4, <2>5
<1> QED
  BY <1>1, <1>2, <1>3, PTL DEF Spec, BatchGoesOn
=============================================================================
