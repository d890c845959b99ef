--------------------------- MODULE AccountsProofs ---------------------------
(***************************************************************************)
(* Accounts, their sessions and their reset links, proved for any number   *)
(* of each, of requests and of passwords.                                  *)
(***************************************************************************)
EXTENDS Accounts, FiniteSetTheorems, TLAPS

-----------------------------------------------------------------------------
(***************************************************************************)
(* What a step does to the locals of the handlers.                         *)
(***************************************************************************)
Others(p) == \A q \in Procs : q # p => job'[q] = job[q]

\* p goes on to its next call, with the locals it has.
Keeps(p, at) ==
  /\ Others(p)
  /\ job'[p].at = at
  /\ job'[p].user = job[p].user
  /\ job'[p].token = job[p].token
  /\ job'[p].link = job[p].link

Stops(p) == Others(p) /\ job'[p] = Idle

Starts(p, at, u, t) ==
  /\ Others(p)
  /\ job[p] = Idle
  /\ job'[p].at = at
  /\ job'[p].user = u
  /\ job'[p].token = t

LEMMA AtOnly ==
  ASSUME NEW r \in Job, NEW a \in Steps
  PROVE  /\ [r EXCEPT !.at = a] \in Job
         /\ [r EXCEPT !.at = a].at = a
         /\ [r EXCEPT !.at = a].user = r.user
         /\ [r EXCEPT !.at = a].token = r.token
         /\ [r EXCEPT !.at = a].link = r.link
         /\ [r EXCEPT !.at = a].copy = r.copy
BY DEF Job

LEMMA GoesOn ==
  ASSUME TypeOK, NEW p \in Procs, NEW a \in Steps, Goes(p, a)
  PROVE  Keeps(p, a) /\ job' \in [Procs -> Job] /\ UNCHANGED requests
<1>1. job[p] \in Job /\ job \in [Procs -> Job]
  BY DEF TypeOK
<1>2. job' = [job EXCEPT ![p] = [job[p] EXCEPT !.at = a]]
  BY DEF Goes, Becomes
<1> QED
  BY <1>1, <1>2, AtOnly DEF Goes, Keeps, Others

LEMMA IdleJob == Idle \in Job /\ Blank \in Row
BY AccountsAssumption DEF Idle, Job, Steps, Blank, Row, Roles

LEMMA ItEnds ==
  ASSUME TypeOK, NEW p \in Procs, Ends(p)
  PROVE  Stops(p) /\ job' \in [Procs -> Job] /\ UNCHANGED requests
BY IdleJob DEF TypeOK, Ends, Becomes, Stops, Others

LEMMA ItBegins ==
  ASSUME TypeOK, NEW p \in Procs, NEW j \in Job, Begin(p, j)
  PROVE  /\ Starts(p, j.at, j.user, j.token) /\ job'[p] = j
         /\ job' \in [Procs -> Job] /\ requests' \in 0 .. MaxRequests
BY AccountsAssumption DEF TypeOK, Begin, Becomes, Starts, Others

LEMMA InJob ==
  ASSUME TypeOK, NEW p \in Procs
  PROVE  /\ job[p] \in Job
         /\ job[p].at \in Steps
         /\ job[p].user \in Users \cup {None}
         /\ job[p].token \in Tokens \cup {None}
         /\ job[p].link \in Links \cup {None}
         /\ job[p].copy \in Row
         /\ job[p].copy.email \in Emails \cup {None}
         /\ job[p].copy.pass \in 0 .. MaxPasswords
         /\ job[p].copy.role \in Roles
BY DEF TypeOK, Job, Row

\* The requests that begin.
LEMMA SeedReads ==
  ASSUME TypeOK, NEW p \in Procs, NEW m \in Emails, SeedRead(p, m)
  PROVE  /\ \/ Starts(p, "seed", None, None)
            \/ \E u \in Users : Present(u) /\ Starts(p, "promote", u, None)
         /\ job' \in [Procs -> Job] /\ requests' \in 0 .. MaxRequests
<1>1. CASE Begin(p, [Idle EXCEPT !.at = "seed", !.copy = [Blank EXCEPT !.email = m]])
  <2> DEFINE j == [Idle EXCEPT !.at = "seed", !.copy = [Blank EXCEPT !.email = m]]
  <2>1. [Blank EXCEPT !.email = m] \in Row
    BY IdleJob DEF Row
  <2>2. j \in Job /\ j.at = "seed" /\ j.user = None /\ j.token = None
    BY <2>1 DEF Idle, Job, Steps
  <2>3. Begin(p, j)
    BY <1>1
  <2> HIDE DEF j
  <2> QED
    BY <2>2, <2>3, ItBegins
<1>2. ASSUME NEW u \in Under(m), Begin(p, [Idle EXCEPT !.at = "promote", !.user = u])
      PROVE  /\ Present(u) /\ u \in Users /\ Starts(p, "promote", u, None)
             /\ job' \in [Procs -> Job] /\ requests' \in 0 .. MaxRequests
  <2> DEFINE j == [Idle EXCEPT !.at = "promote", !.user = u]
  <2>1. u \in Users /\ Present(u)
    BY DEF Under
  <2>2. j \in Job /\ j.at = "promote" /\ j.user = u /\ j.token = None
    BY <2>1, IdleJob DEF Idle, Job, Steps
  <2>3. Begin(p, j)
    BY <1>2
  <2> HIDE DEF j
  <2> QED
    BY <2>1, <2>2, <2>3, ItBegins
<1> QED
  BY <1>1, <1>2 DEF SeedRead

LEMMA UserBegins ==
  ASSUME TypeOK, NEW p \in Procs, NEW u \in Users, NEW a \in Steps,
         Begin(p, [Idle EXCEPT !.at = a, !.user = u])
  PROVE  Starts(p, a, u, None) /\ job' \in [Procs -> Job] /\ requests' \in 0 .. MaxRequests
<1> DEFINE j == [Idle EXCEPT !.at = a, !.user = u]
<1>1. j \in Job /\ j.at = a /\ j.user = u /\ j.token = None
  BY IdleJob DEF Idle, Job
<1>2. Begin(p, j)
  OBVIOUS
<1> HIDE DEF j
<1> QED
  BY <1>1, <1>2, ItBegins

LEMMA TokenBegins ==
  ASSUME TypeOK, NEW p \in Procs, NEW t \in Tokens, AuthToken(p, t)
  PROVE  /\ Starts(p, "auth", holder[t], t) /\ holder[t] \in Users
         /\ job' \in [Procs -> Job] /\ requests' \in 0 .. MaxRequests
<1> DEFINE j == [Idle EXCEPT !.at = "auth", !.user = holder[t], !.token = t]
<1>1. holder[t] \in Users
  BY DEF AuthToken, TypeOK, Live
<1>2. j \in Job /\ j.at = "auth" /\ j.user = holder[t] /\ j.token = t
  BY <1>1, IdleJob DEF Idle, Job, Steps
<1>3. Begin(p, j)
  BY DEF AuthToken
<1> HIDE DEF j
<1> QED
  BY <1>1, <1>2, <1>3, ItBegins

LEMMA LinkBegins ==
  ASSUME TypeOK, NEW p \in Procs, NEW r \in Links, RedeemRead(p, r)
  PROVE  /\ Starts(p, "redeem", linkFor[r], None) /\ linkFor[r] \in Users /\ job'[p].link = r
         /\ job' \in [Procs -> Job] /\ requests' \in 0 .. MaxRequests
<1> DEFINE j == [Idle EXCEPT !.at = "redeem", !.user = linkFor[r], !.link = r]
<1>1. linkFor[r] \in Users
  BY DEF RedeemRead, TypeOK
<1>2. j \in Job /\ j.at = "redeem" /\ j.user = linkFor[r] /\ j.link = r /\ j.token = None
  BY <1>1, IdleJob DEF Idle, Job, Steps
<1>3. Begin(p, j)
  BY DEF RedeemRead
<1> HIDE DEF j
<1> QED
  BY <1>1, <1>2, <1>3, ItBegins

\* The reads of an account that a handler goes on with.
LEMMA Reads ==
  ASSUME TypeOK, Locals, NEW p \in Procs
  PROVE  /\ \A route \in Routes : AuthUser(p, route) =>
              /\ Keeps(p, route) /\ job' \in [Procs -> Job]
              /\ route \in {"logout", "profile", "admin"}
              /\ job'[p].copy = account[job[p].user]
         /\ \A u \in Users : EditRead(p, u) =>
              /\ Others(p) /\ job' \in [Procs -> Job]
              /\ job'[p].at = "edit" /\ job'[p].user = u /\ job'[p].copy = account[u]
              /\ job'[p].token = job[p].token
         /\ \A u \in Users : EraseCheck(p, u) =>
              /\ Others(p) /\ job' \in [Procs -> Job]
              /\ job'[p].at = "erase" /\ job'[p].user = u /\ job'[p].token = job[p].token
<1>0. job \in [Procs -> Job] /\ job[p] \in Job
  BY DEF TypeOK
<1>1. ASSUME NEW route \in Routes, AuthUser(p, route)
      PROVE  /\ Keeps(p, route) /\ job' \in [Procs -> Job]
             /\ route \in {"logout", "profile", "admin"}
             /\ job'[p].copy = account[job[p].user]
  <2>1. job[p].user \in Users
    BY <1>1 DEF AuthUser, At, Locals
  <2> DEFINE j == [job[p] EXCEPT !.at = route, !.copy = account[job[p].user]]
  <2>2. route \in {"logout", "profile", "admin"} /\ account[job[p].user] \in Row
    BY <1>1, <2>1 DEF AuthUser, TypeOK
  <2>3. /\ j \in Job /\ j.at = route /\ j.copy = account[job[p].user]
        /\ j.user = job[p].user /\ j.token = job[p].token /\ j.link = job[p].link
    BY <1>0, <2>2 DEF Job, Steps
  <2>4. job' = [job EXCEPT ![p] = j]
    BY <1>1 DEF AuthUser, Becomes
  <2> HIDE DEF j
  <2> QED
    BY <1>0, <2>2, <2>3, <2>4 DEF Keeps, Others
<1>2. ASSUME NEW u \in Users, EditRead(p, u)
      PROVE  /\ Others(p) /\ job' \in [Procs -> Job]
             /\ job'[p].at = "edit" /\ job'[p].user = u /\ job'[p].copy = account[u]
             /\ job'[p].token = job[p].token
  BY <1>0, <1>2 DEF EditRead, Becomes, Others, Job, Steps, TypeOK
<1>3. ASSUME NEW u \in Users, EraseCheck(p, u)
      PROVE  /\ Others(p) /\ job' \in [Procs -> Job]
             /\ job'[p].at = "erase" /\ job'[p].user = u /\ job'[p].token = job[p].token
  BY <1>0, <1>3 DEF EraseCheck, Becomes, Others, Job, Steps, TypeOK
<1> QED
  BY <1>1, <1>2, <1>3

-----------------------------------------------------------------------------
(***************************************************************************)
(* Typing, in the parts that an action writes together.                    *)
(***************************************************************************)
UsersOK ==
  /\ exists \in [Users -> {"unused", "present", "deleted"}]
  /\ account \in [Users -> Row]
  /\ picked \in 0 .. MaxPasswords
  /\ meant \in [Users -> Row]
  /\ raced \subseteq Users

SessionsOK ==
  /\ session \in [Tokens -> {"unused", "live", "gone"}]
  /\ holder \in [Tokens -> Users \cup {None}]
  /\ \A t \in Tokens : session[t] # "unused" => holder[t] \in Users
  /\ doomed \subseteq Tokens
  /\ abandoned \subseteq Tokens
  /\ spared \subseteq Tokens

LinksOK ==
  /\ link \in [Links -> {"unused", "live", "expired", "gone"}]
  /\ linkFor \in [Links -> Users \cup {None}]
  /\ \A r \in Links : link[r] # "unused" => linkFor[r] \in Users
  /\ uses \in [Links -> Nat]
  /\ contested \subseteq Users \cup Links

JobsOK == job \in [Procs -> Job] /\ requests \in 0 .. MaxRequests

LEMMA TypeParts == TypeOK <=> UsersOK /\ SessionsOK /\ LinksOK /\ JobsOK
BY DEF TypeOK, UsersOK, SessionsOK, LinksOK, JobsOK

LEMMA SameUsers == UsersOK /\ UNCHANGED <<exists, account, picked, meant, raced>> => UsersOK'
BY DEF UsersOK

LEMMA SameSessions ==
  SessionsOK /\ UNCHANGED <<session, holder, doomed, abandoned, spared>> => SessionsOK'
BY DEF SessionsOK

LEMMA SameLinks == LinksOK /\ UNCHANGED <<link, linkFor, uses, contested>> => LinksOK'
BY DEF LinksOK

LEMMA Inserted ==
  ASSUME UsersOK, NEW u \in Users, NEW m \in Emails \cup {None}, NEW role \in Roles,
         Inserts(u, m, role)
  PROVE  UsersOK'
<1>1. picked' = picked + 1 /\ picked' \in 0 .. MaxPasswords
  BY AccountsAssumption DEF Inserts, UsersOK
<1>2. [email |-> m, pass |-> picked', role |-> role] \in Row
  BY <1>1 DEF Row
<1>3. account' \in [Users -> Row]
  BY <1>2 DEF Inserts, UsersOK
<1>4. meant' \in [Users -> Row]
  BY <1>3 DEF Inserts, UsersOK
<1> QED
  BY <1>1, <1>3, <1>4 DEF Inserts, UsersOK

LEMMA Replaced ==
  ASSUME TypeOK, NEW p \in Procs, NEW m \in Emails, NEW newPass \in BOOLEAN,
         NEW role \in Roles, job[p].user \in Users, Replaces(p, m, newPass, role)
  PROVE  UsersOK'
<1> DEFINE u == job[p].user
           old == job[p].copy
<1>1. picked \in Nat /\ MaxPasswords \in Nat /\ picked <= MaxPasswords
  BY AccountsAssumption DEF TypeOK
<1>2. /\ old.pass \in 0 .. MaxPasswords
      /\ newPass => picked + 1 \in 0 .. MaxPasswords
  BY <1>1, InJob DEF Replaces
<1>3. picked' \in 0 .. MaxPasswords
  BY <1>1, <1>2 DEF Replaces
<1>4. Edited(old, m, newPass, role) \in Row
  BY <1>2 DEF Edited, Row
<1>5. account' \in [Users -> Row]
  BY <1>4 DEF Replaces, TypeOK
<1>6. meant' \in [Users -> Row]
  <2> DEFINE new == [email |-> IF m # old.email THEN m ELSE meant[u].email,
                     pass  |-> IF newPass THEN picked + 1 ELSE meant[u].pass,
                     role  |-> IF role # old.role THEN role ELSE meant[u].role]
  <2>1. meant[u] \in Row
    BY DEF TypeOK
  <2>2. /\ meant[u].email \in Emails \cup {None} /\ meant[u].pass \in 0 .. MaxPasswords
        /\ meant[u].role \in Roles
    BY <2>1 DEF Row
  <2>3. new \in Row
    BY <1>2, <2>2 DEF Row
  <2>4. meant' = [meant EXCEPT ![u] = new]
    BY DEF Replaces, MeansChanges
  <2> HIDE DEF new
  <2> QED
    BY <2>3, <2>4 DEF TypeOK
<1>7. raced' \subseteq Users
  BY DEF Replaces, RacesWhen, TypeOK
<1> QED
  BY <1>3, <1>5, <1>6, <1>7 DEF Replaces, UsersOK, TypeOK

\* One field of an account is set by id.
LEMMA FieldSet ==
  ASSUME NEW f \in [Users -> Row], NEW u \in Users
  PROVE  /\ [f EXCEPT ![u].role = "admin"] \in [Users -> Row]
         /\ \A n \in 0 .. MaxPasswords : [f EXCEPT ![u].pass = n] \in [Users -> Row]
<1>1. f[u] \in Row
  OBVIOUS
<1>2. [f[u] EXCEPT !.role = "admin"] \in Row
  BY <1>1 DEF Row, Roles
<1>3. ASSUME NEW n \in 0 .. MaxPasswords PROVE [f[u] EXCEPT !.pass = n] \in Row
  BY <1>1 DEF Row
<1>4. [f EXCEPT ![u].role = "admin"] = [f EXCEPT ![u] = [f[u] EXCEPT !.role = "admin"]]
  OBVIOUS
<1>5. \A n \in 0 .. MaxPasswords :
        [f EXCEPT ![u].pass = n] = [f EXCEPT ![u] = [f[u] EXCEPT !.pass = n]]
  OBVIOUS
<1> QED
  BY <1>2, <1>3, <1>4, <1>5

LEMMA DoomsTyped ==
  ASSUME SessionsOK, NEW p \in Procs, NEW u \in Users, Dooms(p, u) \/ Spares(p, u)
  PROVE  doomed' \subseteq Tokens /\ spared' \subseteq Tokens
BY DEF SessionsOK, Dooms, Spares, OpenOn, SessionsOf

LEMMA TypingOfNew ==
  ASSUME TypeOK, Locals,
         \/ \E u \in Users, m \in Emails, role \in Roles : Register(u, m, role)
         \/ \E p \in Procs : \/ \E m \in Emails : SeedRead(p, m)
                             \/ \E u \in Users : SeedInsert(p, u)
                             \/ SeedDuplicate(p) \/ Promote(p)
  PROVE  TypeOK'
<1>0. UsersOK /\ SessionsOK /\ LinksOK /\ JobsOK
  BY TypeParts
<1>s. SessionsOK' /\ LinksOK'
  BY <1>0, SameSessions, SameLinks
  DEF Register, SeedRead, SeedInsert, SeedDuplicate, Promote, sessions, links
<1>1. ASSUME NEW u \in Users, NEW m \in Emails, NEW role \in Roles, Register(u, m, role)
      PROVE  UsersOK' /\ JobsOK'
  BY <1>0, <1>1, Inserted DEF Register, JobsOK
<1>2. ASSUME NEW p \in Procs, NEW m \in Emails, SeedRead(p, m) PROVE UsersOK' /\ JobsOK'
  <2>1. UsersOK'
    BY <1>0, <1>2, SameUsers DEF SeedRead, users
  <2> QED
    BY <1>2, <2>1, SeedReads DEF JobsOK
<1>3. ASSUME NEW p \in Procs, NEW u \in Users, SeedInsert(p, u) PROVE UsersOK' /\ JobsOK'
  <2>1. UsersOK'
    BY <1>0, <1>3, Inserted, InJob DEF SeedInsert, Roles
  <2>2. JobsOK'
    BY <1>0, <1>3, ItEnds DEF SeedInsert, JobsOK
  <2> QED
    BY <2>1, <2>2
<1>4. ASSUME NEW p \in Procs, SeedDuplicate(p) PROVE UsersOK' /\ JobsOK'
  BY <1>0, <1>4, SameUsers, ItEnds DEF SeedDuplicate, users, JobsOK
<1>5. ASSUME NEW p \in Procs, Promote(p) PROVE UsersOK' /\ JobsOK'
  <2>1. job[p].user \in Users
    BY <1>5 DEF Promote, Locals, At
  <2>2. UsersOK'
    BY <1>0, <1>5, <2>1, FieldSet DEF Promote, UsersOK, RacesWhen
  <2>3. JobsOK'
    BY <1>0, <1>5, ItEnds DEF Promote, JobsOK
  <2> QED
    BY <2>2, <2>3
<1> QED
  BY <1>s, <1>1, <1>2, <1>3, <1>4, <1>5, TypeParts
  DEF TypeOK, UsersOK, SessionsOK, LinksOK, JobsOK

LEMMA TypingOfSessions ==
  ASSUME TypeOK, Locals,
         \/ \E t \in Tokens : SessionEnds(t)
         \/ \E p \in Procs : \/ \E u \in Users : LoginCheck(p, u)
                             \/ \E t \in Tokens : LoginIssue(p, t) \/ AuthToken(p, t)
                             \/ \E route \in Routes : AuthUser(p, route)
                             \/ Refused(p) \/ Logout(p) \/ Revoke(p)
  PROVE  TypeOK'
<1>0. UsersOK /\ SessionsOK /\ LinksOK /\ JobsOK
  BY TypeParts
<1>s. UsersOK' /\ LinksOK'
  BY <1>0, SameUsers, SameLinks
  DEF SessionEnds, LoginCheck, LoginIssue, AuthToken, AuthUser, Refused, Logout, Revoke,
      users, links
<1>1. ASSUME NEW t \in Tokens, SessionEnds(t) PROVE SessionsOK' /\ JobsOK'
  BY <1>0, <1>1 DEF SessionEnds, SessionsOK, JobsOK, Live
<1>2. ASSUME NEW p \in Procs, NEW u \in Users, LoginCheck(p, u) PROVE SessionsOK' /\ JobsOK'
  <2>1. SessionsOK'
    BY <1>0, <1>2, SameSessions DEF LoginCheck, sessions
  <2> QED
    BY <1>2, <2>1, UserBegins DEF LoginCheck, JobsOK, Steps
<1>3. ASSUME NEW p \in Procs, NEW t \in Tokens, LoginIssue(p, t) PROVE SessionsOK' /\ JobsOK'
  <2>1. job[p].user \in Users
    BY <1>3 DEF LoginIssue, Locals, At
  <2>2. SessionsOK'
    BY <1>0, <1>3, <2>1 DEF LoginIssue, SessionsOK
  <2>3. JobsOK'
    BY <1>0, <1>3, ItEnds DEF LoginIssue, JobsOK
  <2> QED
    BY <2>2, <2>3
<1>4. ASSUME NEW p \in Procs, NEW t \in Tokens, AuthToken(p, t) PROVE SessionsOK' /\ JobsOK'
  <2>1. SessionsOK'
    BY <1>0, <1>4, SameSessions DEF AuthToken, sessions
  <2> QED
    BY <1>4, <2>1, TokenBegins DEF JobsOK
<1>5. ASSUME NEW p \in Procs, NEW route \in Routes, AuthUser(p, route)
      PROVE  SessionsOK' /\ JobsOK'
  <2>1. SessionsOK'
    BY <1>0, <1>5, SameSessions DEF AuthUser, sessions
  <2>2. job' \in [Procs -> Job] /\ requests' = requests
    BY <1>5, Reads DEF AuthUser
  <2> QED
    BY <1>0, <2>1, <2>2 DEF JobsOK
<1>6. ASSUME NEW p \in Procs, Refused(p) PROVE SessionsOK' /\ JobsOK'
  BY <1>0, <1>6, SameSessions, ItEnds DEF Refused, sessions, JobsOK
<1>7. ASSUME NEW p \in Procs, Logout(p) PROVE SessionsOK' /\ JobsOK'
  <2>1. job[p].token \in Tokens => session[job[p].token] # "unused"
    BY AccountsAssumption DEF Locals
  <2>2. SessionsOK'
    BY <1>0, <1>7, <2>1 DEF Logout, SessionsOK
  <2>3. JobsOK'
    BY <1>0, <1>7, ItEnds DEF Logout, JobsOK
  <2> QED
    BY <2>2, <2>3
<1>8. ASSUME NEW p \in Procs, Revoke(p) PROVE SessionsOK' /\ JobsOK'
  <2>1. SessionsOK'
    BY <1>0, <1>8 DEF Revoke, SessionsOK, OpenOn, SessionsOf, Live
  <2>2. JobsOK'
    BY <1>0, <1>8, ItEnds DEF Revoke, JobsOK
  <2> QED
    BY <2>1, <2>2
<1> QED
  BY <1>s, <1>1, <1>2, <1>3, <1>4, <1>5, <1>6, <1>7, <1>8, TypeParts
  DEF TypeOK, UsersOK, SessionsOK, LinksOK, JobsOK

LEMMA TypingOfEdits ==
  ASSUME TypeOK, Locals,
         \E p \in Procs :
           \/ \E m \in Emails, newPass \in BOOLEAN :
                \/ ProfileWrite(p, m, newPass)
                \/ \E role \in Roles : EditWrite(p, m, newPass, role)
           \/ \E u \in Users : EditRead(p, u) \/ EraseCheck(p, u)
           \/ WriteFails(p) \/ EraseRemove(p) \/ Abort(p)
  PROVE  TypeOK'
<1>0. UsersOK /\ SessionsOK /\ LinksOK /\ JobsOK
  BY TypeParts
<1>1. ASSUME NEW p \in Procs, NEW m \in Emails, NEW newPass \in BOOLEAN,
             ProfileWrite(p, m, newPass)
      PROVE  UsersOK' /\ SessionsOK' /\ LinksOK' /\ JobsOK'
  <2>1. job[p].user \in Users
    BY <1>1 DEF ProfileWrite, Locals, At
  <2>2. UsersOK'
    BY <1>1, <2>1, Replaced, InJob DEF ProfileWrite
  <2>3. doomed' \subseteq Tokens /\ spared' \subseteq Tokens
    BY <1>0, <1>1, <2>1, DoomsTyped DEF ProfileWrite, SessionsOK
  <2>4. SessionsOK' /\ LinksOK'
    BY <1>0, <1>1, <2>3, SameLinks DEF ProfileWrite, SessionsOK, links
  <2>5. job' \in [Procs -> Job] /\ UNCHANGED requests
    BY <1>1, GoesOn, ItEnds DEF ProfileWrite, Steps
  <2> QED
    BY <1>0, <2>2, <2>4, <2>5 DEF JobsOK
<1>2. ASSUME NEW p \in Procs, NEW m \in Emails, NEW newPass \in BOOLEAN, NEW role \in Roles,
             EditWrite(p, m, newPass, role)
      PROVE  UsersOK' /\ SessionsOK' /\ LinksOK' /\ JobsOK'
  <2>1. job[p].user \in Users
    BY <1>2 DEF EditWrite, Locals, At
  <2>2. UsersOK'
    BY <1>2, <2>1, Replaced DEF EditWrite
  <2>3. doomed' \subseteq Tokens /\ spared' \subseteq Tokens
    BY <1>0, <1>2, <2>1, DoomsTyped DEF EditWrite, SessionsOK
  <2>4. SessionsOK' /\ LinksOK'
    BY <1>0, <1>2, <2>3, SameLinks DEF EditWrite, SessionsOK, links
  <2>5. job' \in [Procs -> Job] /\ UNCHANGED requests
    BY <1>2, ItEnds DEF EditWrite
  <2> QED
    BY <1>0, <2>2, <2>4, <2>5 DEF JobsOK
<1>3. ASSUME NEW p \in Procs, NEW u \in Users, EditRead(p, u) \/ EraseCheck(p, u)
      PROVE  UsersOK' /\ SessionsOK' /\ LinksOK' /\ JobsOK'
  <2>1. UsersOK' /\ SessionsOK' /\ LinksOK'
    BY <1>0, <1>3, SameUsers, SameSessions, SameLinks
    DEF EditRead, EraseCheck, users, sessions, links
  <2>2. job' \in [Procs -> Job] /\ UNCHANGED requests
    BY <1>3, Reads DEF EditRead, EraseCheck
  <2> QED
    BY <1>0, <2>1, <2>2 DEF JobsOK
<1>4. ASSUME NEW p \in Procs, WriteFails(p)
      PROVE  UsersOK' /\ SessionsOK' /\ LinksOK' /\ JobsOK'
  <2>1. UsersOK' /\ SessionsOK' /\ LinksOK'
    BY <1>0, <1>4, SameUsers, SameSessions, SameLinks DEF WriteFails, users, sessions, links
  <2>2. job' \in [Procs -> Job] /\ UNCHANGED requests
    BY <1>4, ItEnds DEF WriteFails
  <2> QED
    BY <1>0, <2>1, <2>2 DEF JobsOK
<1>5. ASSUME NEW p \in Procs, EraseRemove(p)
      PROVE  UsersOK' /\ SessionsOK' /\ LinksOK' /\ JobsOK'
  <2>1. job[p].user \in Users
    BY <1>5 DEF EraseRemove, Locals, At
  <2>2. UsersOK'
    BY <1>0, <1>5 DEF EraseRemove, UsersOK
  <2>3. doomed' \subseteq Tokens /\ spared' \subseteq Tokens
    BY <1>0, <1>5, <2>1, DoomsTyped DEF EraseRemove, SessionsOK
  <2>4. SessionsOK' /\ LinksOK'
    BY <1>0, <1>5, <2>3, SameLinks DEF EraseRemove, SessionsOK, links
  <2>5. job' \in [Procs -> Job] /\ UNCHANGED requests
    BY <1>5, GoesOn, ItEnds DEF EraseRemove, Steps
  <2> QED
    BY <1>0, <2>2, <2>4, <2>5 DEF JobsOK
<1>6. ASSUME NEW p \in Procs, Abort(p)
      PROVE  UsersOK' /\ SessionsOK' /\ LinksOK' /\ JobsOK'
  <2>1. UsersOK'
    BY <1>0, <1>6, SameUsers DEF Abort, users
  <2>2. SessionsOK'
    BY <1>0, <1>6 DEF Abort, SessionsOK
  <2>3. At(p, "spend") => job[p].link \in Links
    BY DEF Locals, At
  <2>4. LinksOK'
    BY <1>0, <1>6, <2>3 DEF Abort, LinksOK
  <2>5. job' \in [Procs -> Job] /\ UNCHANGED requests
    BY <1>6, ItEnds DEF Abort
  <2> QED
    BY <1>0, <2>1, <2>2, <2>4, <2>5 DEF JobsOK
<1> QED
  BY <1>1, <1>2, <1>3, <1>4, <1>5, <1>6, TypeParts
  DEF TypeOK, UsersOK, SessionsOK, LinksOK, JobsOK

LEMMA TypingOfLinks ==
  ASSUME TypeOK, Locals,
         \/ \E r \in Links : LinkExpires(r)
         \/ \E p \in Procs : \/ \E u \in Users : ForgotRead(p, u)
                             \/ ForgotClear(p) \/ RedeemWrite(p) \/ RedeemSpend(p)
                             \/ \E r \in Links : ForgotSend(p, r) \/ RedeemRead(p, r)
  PROVE  TypeOK'
<1>0. UsersOK /\ SessionsOK /\ LinksOK /\ JobsOK
  BY TypeParts
<1>1. ASSUME NEW r \in Links, LinkExpires(r)
      PROVE  UsersOK' /\ SessionsOK' /\ LinksOK' /\ JobsOK'
  <2>1. UsersOK' /\ SessionsOK' /\ JobsOK'
    BY <1>0, <1>1, SameUsers, SameSessions DEF LinkExpires, users, sessions, JobsOK
  <2>2. LinksOK'
    BY <1>0, <1>1 DEF LinkExpires, LinksOK
  <2> QED
    BY <2>1, <2>2
<1>2. ASSUME NEW p \in Procs, NEW u \in Users, ForgotRead(p, u)
      PROVE  UsersOK' /\ SessionsOK' /\ LinksOK' /\ JobsOK'
  <2>1. UsersOK' /\ SessionsOK'
    BY <1>0, <1>2, SameUsers, SameSessions DEF ForgotRead, users, sessions
  <2>2. LinksOK'
    BY <1>0, <1>2 DEF ForgotRead, LinksOK
  <2>3. JobsOK'
    BY <1>2, UserBegins DEF ForgotRead, JobsOK, Steps
  <2> QED
    BY <2>1, <2>2, <2>3
<1>3. ASSUME NEW p \in Procs, ForgotClear(p)
      PROVE  UsersOK' /\ SessionsOK' /\ LinksOK' /\ JobsOK'
  <2>1. UsersOK' /\ SessionsOK'
    BY <1>0, <1>3, SameUsers, SameSessions DEF ForgotClear, users, sessions
  <2>2. LinksOK'
    BY <1>0, <1>3 DEF ForgotClear, LinksOK, LinksOf
  <2>3. job' \in [Procs -> Job] /\ UNCHANGED requests
    BY <1>3, GoesOn DEF ForgotClear, Steps
  <2> QED
    BY <1>0, <2>1, <2>2, <2>3 DEF JobsOK
<1>4. ASSUME NEW p \in Procs, NEW r \in Links, ForgotSend(p, r)
      PROVE  UsersOK' /\ SessionsOK' /\ LinksOK' /\ JobsOK'
  <2>1. UsersOK' /\ SessionsOK'
    BY <1>0, <1>4, SameUsers, SameSessions DEF ForgotSend, users, sessions
  <2>2. job[p].user \in Users
    BY <1>4 DEF ForgotSend, Locals, At
  <2>3. LinksOK'
    BY <1>0, <1>4, <2>2 DEF ForgotSend, LinksOK
  <2>4. job' \in [Procs -> Job] /\ UNCHANGED requests
    BY <1>4, ItEnds DEF ForgotSend
  <2> QED
    BY <1>0, <2>1, <2>3, <2>4 DEF JobsOK
<1>5. ASSUME NEW p \in Procs, NEW r \in Links, RedeemRead(p, r)
      PROVE  UsersOK' /\ SessionsOK' /\ LinksOK' /\ JobsOK'
  <2>1. UsersOK' /\ SessionsOK'
    BY <1>0, <1>5, SameUsers, SameSessions DEF RedeemRead, users, sessions
  <2>2. LinksOK'
    BY <1>0, <1>5 DEF RedeemRead, LinksOK
  <2>3. JobsOK'
    BY <1>5, LinkBegins DEF JobsOK
  <2> QED
    BY <2>1, <2>2, <2>3
<1>6. ASSUME NEW p \in Procs, RedeemWrite(p)
      PROVE  UsersOK' /\ SessionsOK' /\ LinksOK' /\ JobsOK'
  <2>1. job[p].user \in Users /\ job[p].link \in Links
    BY <1>6 DEF RedeemWrite, Locals, At
  <2>2. picked' = picked + 1 /\ picked' \in 0 .. MaxPasswords
    BY <1>0, <1>6, AccountsAssumption DEF RedeemWrite, UsersOK
  <2>3. account' \in [Users -> Row] /\ meant' \in [Users -> Row]
    <3>1. /\ UNCHANGED account \/ account' = [account EXCEPT ![job[p].user].pass = picked']
          /\ UNCHANGED meant \/ meant' = [meant EXCEPT ![job[p].user].pass = picked']
      BY <1>6 DEF RedeemWrite
    <3>2. account \in [Users -> Row] /\ meant \in [Users -> Row]
      BY <1>0 DEF UsersOK
    <3>3. [account EXCEPT ![job[p].user].pass = picked'] \in [Users -> Row]
      BY <2>1, <2>2, <3>2, FieldSet
    <3>4. [meant EXCEPT ![job[p].user].pass = picked'] \in [Users -> Row]
      BY <2>1, <2>2, <3>2, FieldSet
    <3> QED
      BY <3>1, <3>2, <3>3, <3>4
  <2>4. UsersOK'
    <3>1. raced' \subseteq Users
      BY <1>0, <1>6, <2>1 DEF RedeemWrite, UsersOK, RacesWhen
    <3>2. exists' = exists
      BY <1>6 DEF RedeemWrite
    <3> QED
      BY <1>0, <2>2, <2>3, <3>1, <3>2 DEF UsersOK
  <2>5. doomed' \subseteq Tokens /\ spared' \subseteq Tokens
    BY <1>0, <1>6, <2>1, DoomsTyped DEF RedeemWrite, SessionsOK
  <2>6. SessionsOK'
    BY <1>0, <1>6, <2>5 DEF RedeemWrite, SessionsOK
  <2>7. uses' \in [Links -> Nat]
    <3>1. uses' = [uses EXCEPT ![job[p].link] = uses[job[p].link] + 1]
      BY <1>6 DEF RedeemWrite
    <3>2. uses[job[p].link] + 1 \in Nat
      BY <1>0, <2>1 DEF LinksOK
    <3> QED
      BY <1>0, <3>1, <3>2 DEF LinksOK
  <2>8. LinksOK'
    BY <1>0, <1>6, <2>7 DEF RedeemWrite, LinksOK
  <2>9. job' \in [Procs -> Job] /\ UNCHANGED requests
    BY <1>6, GoesOn DEF RedeemWrite, Steps
  <2> QED
    BY <1>0, <2>4, <2>6, <2>8, <2>9 DEF JobsOK
<1>7. ASSUME NEW p \in Procs, RedeemSpend(p)
      PROVE  UsersOK' /\ SessionsOK' /\ LinksOK' /\ JobsOK'
  <2>1. job[p].link \in Links /\ link[job[p].link] # "unused"
    BY <1>7 DEF RedeemSpend, Locals, At
  <2>2. UsersOK' /\ SessionsOK'
    BY <1>0, <1>7, SameUsers, SameSessions DEF RedeemSpend, users, sessions
  <2>3. LinksOK'
    BY <1>0, <1>7, <2>1 DEF RedeemSpend, LinksOK
  <2>4. job' \in [Procs -> Job] /\ UNCHANGED requests
    BY <1>7, GoesOn DEF RedeemSpend, Steps
  <2> QED
    BY <1>0, <2>2, <2>3, <2>4 DEF JobsOK
<1> QED
  BY <1>1, <1>2, <1>3, <1>4, <1>5, <1>6, <1>7, TypeParts
  DEF TypeOK, UsersOK, SessionsOK, LinksOK, JobsOK

LEMMA TypingStep == TypeOK /\ Locals /\ [Next]_vars => TypeOK'
<1> SUFFICES ASSUME TypeOK, Locals, [Next]_vars PROVE TypeOK'
  OBVIOUS
<1>1. CASE Next
  BY <1>1, TypingOfNew, TypingOfSessions, TypingOfEdits, TypingOfLinks DEF Next
<1>2. CASE UNCHANGED vars
  BY <1>2 DEF TypeOK, vars
<1> QED
  BY <1>1, <1>2

-----------------------------------------------------------------------------
(***************************************************************************)
(* Who writes what.                                                        *)
(***************************************************************************)
LEMMA NewLeave ==
  /\ \A u \in Users, m \in Emails, role \in Roles : Register(u, m, role)
       => UNCHANGED <<sessions, links>>
  /\ \A p \in Procs, m \in Emails : SeedRead(p, m) => UNCHANGED <<users, sessions, links>>
  /\ \A p \in Procs : SeedDuplicate(p) => UNCHANGED <<users, sessions, links>>
  /\ \A p \in Procs : Promote(p) => UNCHANGED <<exists, sessions, links>>
  /\ \A p \in Procs, u \in Users : SeedInsert(p, u) => UNCHANGED <<sessions, links>>
BY DEF Register, SeedRead, SeedDuplicate, Promote, SeedInsert

LEMMA SessionsLeave ==
  /\ \A t \in Tokens : SessionEnds(t) => UNCHANGED <<users, links, doomed, abandoned, spared>>
  /\ \A p \in Procs, u \in Users : LoginCheck(p, u) => UNCHANGED <<users, sessions, links>>
  /\ \A p \in Procs, t \in Tokens : LoginIssue(p, t) => UNCHANGED <<users, links, doomed, abandoned, spared>>
  /\ \A p \in Procs, t \in Tokens : AuthToken(p, t) => UNCHANGED <<users, sessions, links>>
  /\ \A p \in Procs, route \in Routes : AuthUser(p, route) => UNCHANGED <<users, sessions, links>>
  /\ \A p \in Procs : Refused(p) => UNCHANGED <<users, sessions, links>>
  /\ \A p \in Procs : Logout(p) \/ Revoke(p) => UNCHANGED <<users, links, doomed, abandoned, spared>>
BY DEF SessionEnds, LoginCheck, LoginIssue, AuthToken, AuthUser, Refused, Logout, Revoke

LEMMA EditsLeave ==
  /\ \A p \in Procs, u \in Users : EditRead(p, u) \/ EraseCheck(p, u)
       => UNCHANGED <<users, sessions, links>>
  /\ \A p \in Procs : WriteFails(p) => UNCHANGED <<users, sessions, links>>
  /\ \A p \in Procs, m \in Emails, newPass \in BOOLEAN :
       ProfileWrite(p, m, newPass) => UNCHANGED <<exists, session, holder, abandoned, links>>
  /\ \A p \in Procs, m \in Emails, newPass \in BOOLEAN, role \in Roles :
       EditWrite(p, m, newPass, role) => UNCHANGED <<exists, session, holder, abandoned, links>>
  /\ \A p \in Procs : EraseRemove(p)
       => UNCHANGED <<account, meant, raced, session, holder, abandoned, links>>
  /\ \A p \in Procs : Abort(p)
       => UNCHANGED <<users, session, holder, doomed, spared, link, linkFor, uses>>
<1>1. \A p \in Procs, u \in Users : EditRead(p, u) \/ EraseCheck(p, u)
        => UNCHANGED <<users, sessions, links>>
  BY DEF EditRead, EraseCheck
<1>2. \A p \in Procs, m \in Emails, newPass \in BOOLEAN :
        ProfileWrite(p, m, newPass) => UNCHANGED <<exists, session, holder, abandoned, links>>
  BY DEF ProfileWrite, Replaces
<1>3. \A p \in Procs, m \in Emails, newPass \in BOOLEAN, role \in Roles :
        EditWrite(p, m, newPass, role) => UNCHANGED <<exists, session, holder, abandoned, links>>
  BY DEF EditWrite, Replaces
<1>4. \A p \in Procs : EraseRemove(p)
        => UNCHANGED <<account, meant, raced, session, holder, abandoned, links>>
  BY DEF EraseRemove
<1>5. \A p \in Procs : /\ WriteFails(p) => UNCHANGED <<users, sessions, links>>
                       /\ Abort(p) => UNCHANGED <<users, session, holder, doomed, spared, link, linkFor, uses>>
  BY DEF WriteFails, Abort
<1> QED
  BY <1>1, <1>2, <1>3, <1>4, <1>5

LEMMA LinksLeave ==
  /\ \A r \in Links : LinkExpires(r) => UNCHANGED <<users, sessions, linkFor, uses, contested>>
  /\ \A p \in Procs, u \in Users : ForgotRead(p, u)
       => UNCHANGED <<users, sessions, link, linkFor, uses>>
  /\ \A p \in Procs : ForgotClear(p) \/ RedeemSpend(p)
       => UNCHANGED <<users, sessions, linkFor, uses, contested>>
  /\ \A p \in Procs, r \in Links : ForgotSend(p, r) => UNCHANGED <<users, sessions, uses, contested>>
  /\ \A p \in Procs, r \in Links : RedeemRead(p, r)
       => UNCHANGED <<users, sessions, link, linkFor, uses>>
  /\ \A p \in Procs : RedeemWrite(p)
       => UNCHANGED <<exists, session, holder, abandoned, link, linkFor, contested>>
BY DEF LinkExpires, ForgotRead, ForgotClear, RedeemSpend, ForgotSend, RedeemRead, RedeemWrite

LEMMA SessionWriters ==
  ASSUME Next
  PROVE  \/ UNCHANGED <<session, holder>>
         \/ \E t \in Tokens : SessionEnds(t)
         \/ \E p \in Procs : Logout(p) \/ Revoke(p) \/ \E t \in Tokens : LoginIssue(p, t)
BY NewLeave, SessionsLeave, EditsLeave, LinksLeave DEF Next, sessions

LEMMA DoomWriters ==
  ASSUME Next
  PROVE  \/ UNCHANGED <<doomed, spared>>
         \/ \E p \in Procs :
              \/ EraseRemove(p) \/ RedeemWrite(p)
              \/ \E m \in Emails, newPass \in BOOLEAN :
                   \/ ProfileWrite(p, m, newPass)
                   \/ \E role \in Roles : EditWrite(p, m, newPass, role)
BY NewLeave, SessionsLeave, EditsLeave, LinksLeave DEF Next, sessions

LEMMA LinkWriters ==
  ASSUME Next
  PROVE  \/ UNCHANGED <<link, linkFor>>
         \/ \E r \in Links : LinkExpires(r)
         \/ \E p \in Procs : \/ ForgotClear(p) \/ RedeemSpend(p)
                             \/ \E r \in Links : ForgotSend(p, r)
BY NewLeave, SessionsLeave, EditsLeave, LinksLeave DEF Next, links

LEMMA AccountWriters ==
  ASSUME Next
  PROVE  \/ UNCHANGED <<exists, account, meant, raced>>
         \/ \E u \in Users, m \in Emails, role \in Roles : Register(u, m, role)
         \/ \E p \in Procs :
              \/ Promote(p) \/ EraseRemove(p) \/ RedeemWrite(p)
              \/ \E u \in Users : SeedInsert(p, u)
              \/ \E m \in Emails, newPass \in BOOLEAN :
                   \/ ProfileWrite(p, m, newPass)
                   \/ \E role \in Roles : EditWrite(p, m, newPass, role)
BY NewLeave, SessionsLeave, EditsLeave, LinksLeave DEF Next, users

\* What was issued is never unused again.
LEMMA IssuedStays ==
  ASSUME TypeOK, Locals, [Next]_vars
  PROVE  /\ \A t \in Tokens : session[t] # "unused"
              => session'[t] # "unused" /\ holder'[t] = holder[t]
         /\ \A r \in Links : link[r] # "unused"
              => link'[r] # "unused" /\ linkFor'[r] = linkFor[r]
         /\ \A u \in Users : exists[u] # "unused" => exists'[u] # "unused"
<1>1. CASE UNCHANGED vars
  BY <1>1 DEF vars
<1>2. CASE Next
  <2>1. ASSUME NEW t \in Tokens, session[t] # "unused"
        PROVE  session'[t] # "unused" /\ holder'[t] = holder[t]
    <3>1. CASE UNCHANGED <<session, holder>>
      BY <2>1, <3>1
    <3>2. ASSUME NEW s \in Tokens, SessionEnds(s)
          PROVE  session'[t] # "unused" /\ holder'[t] = holder[t]
      BY <2>1, <3>2 DEF SessionEnds, TypeOK
    <3>3. ASSUME NEW p \in Procs, Logout(p) \/ Revoke(p)
          PROVE  session'[t] # "unused" /\ holder'[t] = holder[t]
      BY <2>1, <3>3 DEF Logout, Revoke, TypeOK
    <3>4. ASSUME NEW p \in Procs, NEW s \in Tokens, LoginIssue(p, s)
          PROVE  session'[t] # "unused" /\ holder'[t] = holder[t]
      BY <2>1, <3>4 DEF LoginIssue, TypeOK
    <3> QED
      BY <1>2, <3>1, <3>2, <3>3, <3>4, SessionWriters
  <2>2. ASSUME NEW r \in Links, link[r] # "unused"
        PROVE  link'[r] # "unused" /\ linkFor'[r] = linkFor[r]
    <3>1. CASE UNCHANGED <<link, linkFor>>
      BY <2>2, <3>1
    <3>2. ASSUME NEW s \in Links, LinkExpires(s)
          PROVE  link'[r] # "unused" /\ linkFor'[r] = linkFor[r]
      BY <2>2, <3>2 DEF LinkExpires, TypeOK
    <3>3. ASSUME NEW p \in Procs, ForgotClear(p) \/ RedeemSpend(p)
          PROVE  link'[r] # "unused" /\ linkFor'[r] = linkFor[r]
      BY <2>2, <3>3 DEF ForgotClear, RedeemSpend, TypeOK
    <3>4. ASSUME NEW p \in Procs, NEW s \in Links, ForgotSend(p, s)
          PROVE  link'[r] # "unused" /\ linkFor'[r] = linkFor[r]
      BY <2>2, <3>4 DEF ForgotSend, TypeOK
    <3> QED
      BY <1>2, <3>1, <3>2, <3>3, <3>4, LinkWriters
  <2>3. ASSUME NEW u \in Users, exists[u] # "unused" PROVE exists'[u] # "unused"
    <3>1. CASE UNCHANGED exists
      BY <2>3, <3>1
    <3>2. ASSUME NEW v \in Users, NEW m, NEW role, Inserts(v, m, role)
          PROVE  exists'[u] # "unused"
      BY <2>3, <3>2 DEF Inserts, TypeOK
    <3>3. ASSUME NEW p \in Procs, EraseRemove(p) PROVE exists'[u] # "unused"
      BY <2>3, <3>3 DEF EraseRemove, TypeOK
    <3>4. ASSUME NEW v \in Users, NEW m \in Emails, NEW role \in Roles, Register(v, m, role)
          PROVE  exists'[u] # "unused"
      BY <3>2, <3>4 DEF Register
    <3>5. ASSUME NEW p \in Procs, NEW v \in Users, SeedInsert(p, v) PROVE exists'[u] # "unused"
      BY <3>2, <3>5 DEF SeedInsert
    <3> QED
      BY <1>2, <3>1, <3>3, <3>4, <3>5, AccountWriters, NewLeave, EditsLeave, LinksLeave
  <2> QED
    BY <2>1, <2>2, <2>3
<1> QED
  BY <1>1, <1>2

-----------------------------------------------------------------------------
(***************************************************************************)
(* How handlers move.                                                      *)
(***************************************************************************)
Moved(p) ==
  \/ /\ Stops(p)
     /\ Revoke(p) \/ Abort(p) \/ job[p].at \notin {"spend", "revoke"}
  \/ Starts(p, "seed", None, None)
  \/ \E u \in Users : \/ Starts(p, "promote", u, None) \/ Starts(p, "issue", u, None)
                      \/ Starts(p, "clear", u, None) /\ ForgotRead(p, u)
  \/ \E t \in Tokens : Live(t) /\ holder[t] \in Users /\ Starts(p, "auth", holder[t], t)
  \/ \E r \in Links : /\ RedeemRead(p, r) /\ linkFor[r] \in Users
                      /\ Starts(p, "redeem", linkFor[r], None) /\ job'[p].link = r
  \/ /\ At(p, "auth") /\ Present(job[p].user) /\ UNCHANGED users
     /\ \E route \in {"logout", "profile", "admin"} : Keeps(p, route)
     /\ job'[p].copy = account[job[p].user]
  \/ \E u \in Users :
       /\ At(p, "admin") /\ Others(p) /\ UNCHANGED users
       /\ job'[p].user = u /\ job'[p].token = job[p].token
       /\ \/ Present(u) /\ job'[p].at = "edit" /\ job'[p].copy = account[u]
          \/ job'[p].at = "erase"
  \/ job[p].at \in {"profile", "erase"} /\ Keeps(p, "revoke")
  \/ ForgotClear(p) /\ At(p, "clear") /\ Keeps(p, "send")
  \/ RedeemWrite(p) /\ At(p, "redeem") /\ Keeps(p, "spend")
  \/ RedeemSpend(p) /\ At(p, "spend") /\ Keeps(p, "revoke")

LEMMA MovedAlone == ASSUME NEW p, Moved(p) PROVE Others(p)
BY DEF Moved, Stops, Starts, Keeps

LEMMA Moves ==
  ASSUME TypeOK, Locals, Next
  PROVE  UNCHANGED job \/ \E p \in Procs : Moved(p)
<1>1. ASSUME NEW p \in Procs, NEW m \in Emails, SeedRead(p, m)
      PROVE  \/ Starts(p, "seed", None, None)
             \/ \E u \in Users : Starts(p, "promote", u, None)
  BY <1>1, SeedReads
<1>2. ASSUME NEW p \in Procs, NEW u \in Users, LoginCheck(p, u)
      PROVE  Starts(p, "issue", u, None)
  BY <1>2, UserBegins DEF LoginCheck, Steps
<1>3. ASSUME NEW p \in Procs, NEW u \in Users, ForgotRead(p, u)
      PROVE  Starts(p, "clear", u, None)
  BY <1>3, UserBegins DEF ForgotRead, Steps
<1>4. ASSUME NEW p \in Procs, NEW t \in Tokens, AuthToken(p, t)
      PROVE  Live(t) /\ holder[t] \in Users /\ Starts(p, "auth", holder[t], t)
  BY <1>4, TokenBegins DEF AuthToken
<1>5. ASSUME NEW p \in Procs, NEW r \in Links, RedeemRead(p, r)
      PROVE  /\ linkFor[r] \in Users /\ Starts(p, "redeem", linkFor[r], None)
             /\ job'[p].link = r
  BY <1>5, LinkBegins
<1>6. ASSUME NEW p \in Procs, NEW route \in Routes, AuthUser(p, route)
      PROVE  /\ At(p, "auth") /\ Present(job[p].user) /\ UNCHANGED users
             /\ \E r \in {"logout", "profile", "admin"} : Keeps(p, r)
             /\ job'[p].copy = account[job[p].user]
  BY <1>6, Reads DEF AuthUser
<1>7. ASSUME NEW p \in Procs, NEW u \in Users, EditRead(p, u) \/ EraseCheck(p, u)
      PROVE  /\ At(p, "admin") /\ Others(p) /\ UNCHANGED users
             /\ job'[p].user = u /\ job'[p].token = job[p].token
             /\ \/ Present(u) /\ job'[p].at = "edit" /\ job'[p].copy = account[u]
                \/ job'[p].at = "erase"
  BY <1>7, Reads DEF EditRead, EraseCheck
<1>8. ASSUME NEW p \in Procs, NEW m \in Emails, NEW newPass \in BOOLEAN,
             ProfileWrite(p, m, newPass)
      PROVE  /\ job[p].at \in {"profile", "erase"}
             /\ Stops(p) \/ Keeps(p, "revoke")
  BY <1>8, GoesOn, ItEnds DEF ProfileWrite, Steps, At
<1>9. ASSUME NEW p \in Procs, EraseRemove(p)
      PROVE  /\ job[p].at \in {"profile", "erase"}
             /\ Stops(p) \/ Keeps(p, "revoke")
  BY <1>9, GoesOn, ItEnds DEF EraseRemove, Steps, At
<1>10. ASSUME NEW p \in Procs
       PROVE  /\ ForgotClear(p) => At(p, "clear") /\ Keeps(p, "send")
              /\ RedeemWrite(p) => At(p, "redeem") /\ Keeps(p, "spend")
              /\ RedeemSpend(p) => At(p, "spend") /\ Keeps(p, "revoke")
  BY GoesOn DEF ForgotClear, RedeemWrite, RedeemSpend, Steps
<1>11. ASSUME NEW p \in Procs,
              \/ SeedDuplicate(p) \/ Promote(p) \/ Refused(p) \/ Logout(p) \/ WriteFails(p)
              \/ \E u \in Users : SeedInsert(p, u)
              \/ \E t \in Tokens : LoginIssue(p, t)
              \/ \E r \in Links : ForgotSend(p, r)
              \/ \E m \in Emails, newPass \in BOOLEAN, role \in Roles :
                   EditWrite(p, m, newPass, role)
       PROVE  Stops(p) /\ job[p].at \notin {"spend", "revoke"}
  <2>1. Ends(p) /\ job[p].at \notin {"spend", "revoke"}
    BY <1>11 DEF SeedDuplicate, Promote, Refused, Logout, WriteFails, SeedInsert, LoginIssue,
                 ForgotSend, EditWrite, At
  <2> QED
    BY <2>1, ItEnds
<1>13. ASSUME NEW p \in Procs, Revoke(p) \/ Abort(p) PROVE Stops(p)
  BY <1>13, ItEnds DEF Revoke, Abort
<1>12. ASSUME \/ \E u \in Users, m \in Emails, role \in Roles : Register(u, m, role)
              \/ \E t \in Tokens : SessionEnds(t)
              \/ \E r \in Links : LinkExpires(r)
       PROVE  UNCHANGED job
  BY <1>12 DEF Register, SessionEnds, LinkExpires
<1> QED
  BY <1>1, <1>2, <1>3, <1>4, <1>5, <1>6, <1>7, <1>8, <1>9, <1>10, <1>11, <1>12, <1>13
  DEF Next, Moved

\* The process whose locals change is the one that moved.
LEMMA WhoMoved ==
  ASSUME TypeOK, Locals, [Next]_vars, NEW q \in Procs, job'[q] # job[q]
  PROVE  Next /\ Moved(q)
<1>1. Next
  BY DEF vars
<1>2. PICK p \in Procs : Moved(p)
  BY <1>1, Moves
<1> QED
  BY <1>1, <1>2, MovedAlone DEF Others

LEMMA LocalsStep == TypeOK /\ Locals /\ [Next]_vars => Locals'
<1> SUFFICES ASSUME TypeOK, Locals, [Next]_vars, NEW q \in Procs
             PROVE  /\ job'[q].at \notin {"idle", "seed"} => job'[q].user \in Users
                    /\ job'[q].token # None => session'[job'[q].token] # "unused"
                    /\ job'[q].at \in {"redeem", "spend"}
                         => job'[q].link \in Links /\ link'[job'[q].link] # "unused"
                    /\ job'[q].at \in {"profile", "edit"} => exists'[job'[q].user] # "unused"
  BY DEF Locals
<1>0. /\ job[q].token \in Tokens \cup {None} /\ job[q].link \in Links \cup {None}
      /\ job[q].at \in Steps
  BY InJob
<1>1. CASE job'[q] = job[q]
  <2>1. job[q].token # None => session'[job[q].token] # "unused"
    BY <1>0, IssuedStays DEF Locals
  <2>2. job[q].at \in {"redeem", "spend"} => job[q].link \in Links /\ link'[job[q].link] # "unused"
    BY IssuedStays DEF Locals
  <2>3. job[q].at \in {"profile", "edit"} => exists'[job[q].user] # "unused"
    BY IssuedStays DEF Locals
  <2> QED
    BY <1>1, <2>1, <2>2, <2>3 DEF Locals
<1>2. CASE job'[q] # job[q]
  <2>0. Moved(q)
    BY <1>2, WhoMoved
  <2>1. CASE Stops(q)
    BY <2>1 DEF Stops, Idle
  <2>2. CASE Starts(q, "seed", None, None)
    BY <2>2 DEF Starts
  <2>3. ASSUME NEW u \in Users, NEW a \in {"promote", "issue", "clear"}, Starts(q, a, u, None)
        PROVE  /\ job'[q].at = a /\ job'[q].user = u /\ job'[q].token = None
    BY <2>3 DEF Starts
  <2>4. ASSUME NEW t \in Tokens, Live(t), holder[t] \in Users, Starts(q, "auth", holder[t], t)
        PROVE  /\ job'[q].at = "auth" /\ job'[q].user \in Users /\ job'[q].token = t
               /\ session'[t] # "unused"
    BY <2>4, IssuedStays DEF Starts, Live
  <2>5. ASSUME NEW r \in Links, RedeemRead(q, r), linkFor[r] \in Users,
               Starts(q, "redeem", linkFor[r], None), job'[q].link = r
        PROVE  /\ job'[q].at = "redeem" /\ job'[q].user \in Users /\ job'[q].token = None
               /\ link'[r] # "unused"
    BY <2>5, IssuedStays DEF Starts, RedeemRead
  <2>6. ASSUME At(q, "auth"), Present(job[q].user), UNCHANGED users,
               NEW route \in {"logout", "profile", "admin"}, Keeps(q, route)
        PROVE  /\ job'[q].at = route /\ job'[q].user \in Users
               /\ job'[q].token # None => session'[job'[q].token] # "unused"
               /\ exists'[job'[q].user] # "unused"
    <3>1. job[q].user \in Users
      BY <2>6 DEF Locals, At
    <3> QED
      BY <1>0, <2>6, <3>1, IssuedStays DEF Keeps, Locals, Present, users
  <2>7. ASSUME NEW u \in Users, UNCHANGED users, job'[q].user = u,
               job'[q].token = job[q].token,
               (Present(u) /\ job'[q].at = "edit") \/ job'[q].at = "erase"
        PROVE  /\ job'[q].token # None => session'[job'[q].token] # "unused"
               /\ job'[q].at = "edit" => exists'[u] # "unused"
    BY <1>0, <2>7, IssuedStays DEF Locals, Present, users
  <2>8. ASSUME job[q].at \in {"profile", "erase", "clear", "redeem", "spend"},
               NEW a \in {"revoke", "send"}, Keeps(q, a)
        PROVE  /\ job'[q].at = a /\ job'[q].user \in Users
               /\ job'[q].token # None => session'[job'[q].token] # "unused"
    BY <1>0, <2>8, IssuedStays DEF Keeps, Locals
  <2>9. ASSUME At(q, "redeem"), Keeps(q, "spend")
        PROVE  /\ job'[q].at = "spend" /\ job'[q].user \in Users
               /\ job'[q].token # None => session'[job'[q].token] # "unused"
               /\ job'[q].link \in Links /\ link'[job'[q].link] # "unused"
    BY <1>0, <2>9, IssuedStays DEF Keeps, Locals, At
  <2> QED
    BY <2>0, <2>1, <2>2, <2>3, <2>4, <2>5, <2>6, <2>7, <2>8, <2>9 DEF Moved, At
<1> QED
  BY <1>1, <1>2

LEMMA CoreInit == Init => TypeOK /\ Locals
<1> SUFFICES ASSUME Init PROVE TypeOK /\ Locals
  OBVIOUS
<1>1. TypeOK
  BY IdleJob, AccountsAssumption DEF Init, TypeOK
<1>2. Locals
  BY DEF Init, Locals, Idle
<1> QED
  BY <1>1, <1>2

\* Every variable keeps its shape: in particular a session or a link that was
\* issued belongs to an account.
THEOREM Typing == Spec => []TypeOK
<1>1. Init => TypeOK /\ Locals
  BY CoreInit
<1>2. TypeOK /\ Locals /\ [Next]_vars => (TypeOK /\ Locals)'
  BY TypingStep, LocalsStep
<1> QED
  BY <1>1, <1>2, PTL DEF Spec

-----------------------------------------------------------------------------
(***************************************************************************)
(* Sessions that are to end.                                               *)
(***************************************************************************)

\* A session that is over stays over, and one that goes on was going on or new.
LEMMA NotRevived ==
  ASSUME TypeOK, [Next]_vars, NEW t \in Tokens, session[t] = "gone"
  PROVE  session'[t] = "gone"
<1>1. ASSUME NEW s \in Tokens, SessionEnds(s) PROVE session'[t] = "gone"
  BY <1>1 DEF SessionEnds, TypeOK
<1>2. ASSUME NEW p \in Procs, Logout(p) \/ Revoke(p) PROVE session'[t] = "gone"
  BY <1>2 DEF Logout, Revoke, TypeOK
<1>3. ASSUME NEW p \in Procs, NEW s \in Tokens, LoginIssue(p, s) PROVE session'[t] = "gone"
  BY <1>3 DEF LoginIssue, TypeOK
<1>4. CASE Next
  BY <1>1, <1>2, <1>3, <1>4, SessionWriters
<1>5. CASE UNCHANGED vars
  BY <1>5 DEF vars
<1> QED
  BY <1>4, <1>5

\* A handler between its write and its revocation goes on, revokes or dies.
LEMMA Revoking ==
  ASSUME TypeOK, Locals, [Next]_vars, NEW p \in Procs, job[p].at \in {"spend", "revoke"},
         job'[p] # job[p]
  PROVE  (RedeemSpend(p) /\ Keeps(p, "revoke")) \/ Revoke(p) \/ Abort(p)
<1>1. job[p] # Idle
  BY DEF Idle
<1> QED
  BY <1>1, WhoMoved DEF Moved, Starts, At

\* A handler that is to end the sessions it doomed.
Dooming(p) ==
  /\ job[p].user \in Users
  /\ Dooms(p, job[p].user)
  /\ Keeps(p, "spend") \/ Keeps(p, "revoke")

\* Sessions are doomed by such a handler, or by an administrator's edit.
LEMMA DoomSteps ==
  ASSUME TypeOK, Locals, [Next]_vars
  PROVE  \/ UNCHANGED <<doomed, spared>>
         \/ \E p \in Procs : Dooming(p) \/ Spares(p, job[p].user)
<1>1. ASSUME NEW p \in Procs, EraseRemove(p)
      PROVE  UNCHANGED <<doomed, spared>> \/ Dooming(p)
  BY <1>1, GoesOn DEF EraseRemove, Locals, At, Steps, Dooming
<1>2. ASSUME NEW p \in Procs, RedeemWrite(p)
      PROVE  UNCHANGED <<doomed, spared>> \/ Dooming(p)
  BY <1>2, GoesOn DEF RedeemWrite, Locals, At, Steps, Dooming
<1>3. ASSUME NEW p \in Procs, NEW m \in Emails, NEW newPass \in BOOLEAN,
             ProfileWrite(p, m, newPass)
      PROVE  UNCHANGED <<doomed, spared>> \/ Dooming(p)
  BY <1>3, GoesOn DEF ProfileWrite, Locals, At, Steps, Dooming
<1>4. ASSUME NEW p \in Procs, NEW m \in Emails, NEW newPass \in BOOLEAN, NEW role \in Roles,
             EditWrite(p, m, newPass, role)
      PROVE  UNCHANGED <<doomed, spared>> \/ Spares(p, job[p].user)
  BY <1>4 DEF EditWrite
<1>5. CASE Next
  BY <1>1, <1>2, <1>3, <1>4, <1>5, DoomWriters
<1>6. CASE UNCHANGED vars
  BY <1>6 DEF vars
<1> QED
  BY <1>5, <1>6

LEMMA DoomedStep == TypeOK /\ Locals /\ DoomedWasLive /\ [Next]_vars => DoomedWasLive'
<1> SUFFICES ASSUME TypeOK, Locals, DoomedWasLive, [Next]_vars, NEW t \in doomed'
             PROVE  session'[t] # "unused"
  BY DEF DoomedWasLive
<1>1. CASE t \in doomed
  BY <1>1, IssuedStays DEF DoomedWasLive, TypeOK
<1>2. CASE t \notin doomed
  <2>1. \E p \in Procs : t \in OpenOn(p, job[p].user)
    BY <1>2, DoomSteps DEF Dooming, Dooms, Spares
  <2>2. t \in Tokens /\ session[t] = "live"
    BY <2>1 DEF OpenOn, SessionsOf, Live
  <2> QED
    BY <2>2, IssuedStays
<1> QED
  BY <1>1, <1>2

LEMMA EndsStep ==
  TypeOK /\ Locals /\ DoomedWasLive /\ DoomedSessionsEnd /\ [Next]_vars => DoomedSessionsEnd'
<1> SUFFICES ASSUME TypeOK, Locals, DoomedWasLive, DoomedSessionsEnd, [Next]_vars,
                    NEW t \in doomed', session'[t] = "live"
             PROVE  \/ t \in abandoned'
                    \/ t \in spared'
                    \/ \E p \in Procs : /\ job'[p].at \in {"spend", "revoke"}
                                        /\ job'[p].user = holder'[t]
                                        /\ job'[p].token # t
  BY DEF DoomedSessionsEnd, Live
<1>1. CASE t \in doomed /\ t \notin spared
  <2>1. /\ t \in Tokens /\ session[t] = "live" /\ holder'[t] = holder[t]
    BY <1>1, IssuedStays, NotRevived DEF DoomedWasLive, TypeOK
  <2>2. abandoned \subseteq abandoned'
    <3>1. ASSUME NEW p \in Procs, Abort(p) PROVE abandoned \subseteq abandoned'
      BY <3>1 DEF Abort
    <3>2. UNCHANGED abandoned \/ \E p \in Procs : Abort(p)
      BY NewLeave, SessionsLeave, EditsLeave, LinksLeave DEF Next, vars, sessions
    <3> QED
      BY <3>1, <3>2
  <2>3. ASSUME NEW p \in Procs, job[p].at \in {"spend", "revoke"}, job[p].user = holder[t],
               job[p].token # t
        PROVE  \/ t \in abandoned'
               \/ \E q \in Procs : /\ job'[q].at \in {"spend", "revoke"}
                                   /\ job'[q].user = holder'[t]
                                   /\ job'[q].token # t
    <3>0. t \in OpenOn(p, job[p].user)
      BY <2>1, <2>3 DEF OpenOn, SessionsOf, Live
    <3>1. CASE job'[p] = job[p]
      BY <2>1, <2>3, <3>1
    <3>2. CASE RedeemSpend(p) /\ Keeps(p, "revoke")
      BY <2>1, <2>3, <3>2 DEF Keeps
    <3>3. CASE Revoke(p)
      <4>1. session'[t] = "gone"
        BY <2>1, <3>0, <3>3 DEF Revoke
      <4> QED
        BY <4>1
    <3>4. CASE Abort(p)
      BY <1>1, <2>3, <3>0, <3>4 DEF Abort
    <3> QED
      BY <2>3, <3>1, <3>2, <3>3, <3>4, Revoking
  <2> QED
    BY <1>1, <2>1, <2>2, <2>3 DEF DoomedSessionsEnd, Live
<1>2. CASE t \notin doomed \/ t \in spared
  <2>1. CASE UNCHANGED <<doomed, spared>>
    BY <1>2, <2>1
  <2>2. ASSUME NEW p \in Procs, Spares(p, job[p].user) PROVE t \in spared'
    BY <1>2, <2>2 DEF Spares
  <2>3. ASSUME NEW p \in Procs, Dooming(p), t \notin spared'
        PROVE  /\ job'[p].at \in {"spend", "revoke"}
               /\ job'[p].user = holder'[t] /\ job'[p].token # t
    <3>1. t \in OpenOn(p, job[p].user)
      BY <1>2, <2>3 DEF Dooming, Dooms
    <3>2. t \in Tokens /\ session[t] = "live" /\ holder[t] = job[p].user /\ t # job[p].token
      BY <3>1 DEF OpenOn, SessionsOf, Live
    <3>3. holder'[t] = holder[t]
      BY <3>2, IssuedStays
    <3> QED
      BY <2>3, <3>2, <3>3 DEF Dooming, Keeps
  <2> QED
    BY <2>1, <2>2, <2>3, DoomSteps
<1> QED
  BY <1>1, <1>2

\* Of the sessions open when a password was replaced or the account deleted, one
\* still open has UpdateMe, ResetPassword or DeleteUser about to end it, unless
\* that handler died or the password was replaced by an administrator's
\* UpdateUser, which ends none.
THEOREM SessionsEnd == Spec => []DoomedSessionsEnd
<1> DEFINE IInv == TypeOK /\ Locals /\ DoomedWasLive /\ DoomedSessionsEnd
<1>1. Init => IInv
  BY CoreInit DEF Init, DoomedWasLive, DoomedSessionsEnd
<1>2. IInv /\ [Next]_vars => IInv'
  BY TypingStep, LocalsStep, DoomedStep, EndsStep
<1> QED
  BY <1>1, <1>2, PTL DEF Spec

-----------------------------------------------------------------------------
(***************************************************************************)
(* Fields a request left out.                                              *)
(***************************************************************************)

\* What a step does to the account of u: nothing, its insert, or a field
\* chosen by p, which holds no copy afterwards.
Touches(p, u) ==
  /\ job'[p].at \notin {"profile", "edit"}
  /\ CopyOut(p, u) => u \in raced'
  /\ u \notin raced /\ account[u] = meant[u] => account'[u] = meant'[u]

Treated(u) ==
  /\ raced \subseteq raced'
  /\ Present(u)' => Present(u) \/ account'[u] = meant'[u]
  /\ \/ u \notin raced => account'[u] = account[u] /\ meant'[u] = meant[u]
     \/ exists[u] = "unused" /\ account'[u] = meant'[u]
     \/ \E p \in Procs : Touches(p, u)

LEMMA RowOf ==
  ASSUME NEW r \in Row
  PROVE  r = [email |-> r.email, pass |-> r.pass, role |-> r.role]
BY DEF Row

LEMMA InsertTreats ==
  ASSUME TypeOK, NEW u \in Users, NEW v \in Users, NEW m, NEW role, Inserts(v, m, role)
  PROVE  Treated(u)
<1>1. CASE u = v
  <2>1. meant'[u] = account'[u] /\ exists[u] = "unused" /\ UNCHANGED raced
    BY <1>1 DEF Inserts, TypeOK
  <2> QED
    BY <2>1 DEF Treated
<1>2. CASE u # v
  <2>1. /\ meant'[u] = meant[u] /\ account'[u] = account[u] /\ exists'[u] = exists[u]
        /\ UNCHANGED raced
    BY <1>2 DEF Inserts, TypeOK
  <2> QED
    BY <2>1 DEF Treated, Present
<1> QED
  BY <1>1, <1>2

LEMMA ReplaceTreats ==
  ASSUME TypeOK, CopyIsCurrent, NEW p \in Procs, job[p].at \in {"profile", "edit"},
         job[p].user \in Users, NEW m \in Emails, NEW newPass \in BOOLEAN, NEW role \in Roles,
         Replaces(p, m, newPass, role), job'[p].at \notin {"profile", "edit"},
         NEW u \in Users
  PROVE  Treated(u)
<1> DEFINE v == job[p].user
           old == job[p].copy
           cond == newPass \/ m # old.email \/ role # old.role
           new == [email |-> IF m # old.email THEN m ELSE meant[v].email,
                   pass  |-> IF newPass THEN picked + 1 ELSE meant[v].pass,
                   role  |-> IF role # old.role THEN role ELSE meant[v].role]
<1>1. /\ account' = [account EXCEPT ![v] = Edited(old, m, newPass, role)]
      /\ meant' = [meant EXCEPT ![v] = new]
      /\ UNCHANGED exists
      /\ Present(v)
      /\ raced' = IF cond /\ CopyOut(p, v) THEN raced \cup {v} ELSE raced
  BY DEF Replaces, MeansChanges, RacesWhen
<1>2. v \notin raced => old = account[v]
  BY DEF CopyIsCurrent
<1>3. old \in Row /\ meant[v] \in Row /\ account[v] \in Row
  BY InJob DEF TypeOK
<1>4. raced \subseteq raced' /\ (cond /\ CopyOut(p, v) => v \in raced')
  BY <1>1
<1>5. account'[v] = Edited(old, m, newPass, role) /\ meant'[v] = new
  BY <1>1 DEF TypeOK
<1>6. old = meant[v] => new = Edited(old, m, newPass, role)
  BY DEF Edited
<1>7. ~cond => new = meant[v] /\ Edited(old, m, newPass, role) = old
  <2>1. ASSUME ~cond
        PROVE  /\ new = [email |-> meant[v].email, pass |-> meant[v].pass, role |-> meant[v].role]
               /\ Edited(old, m, newPass, role)
                    = [email |-> old.email, pass |-> old.pass, role |-> old.role]
    BY <2>1 DEF Edited
  <2> QED
    BY <1>3, <2>1, RowOf
<1> HIDE DEF v, old, cond, new
<1>8. CASE u # v
  <2>1. account'[u] = account[u] /\ meant'[u] = meant[u] /\ exists'[u] = exists[u]
    BY <1>1, <1>8 DEF TypeOK
  <2> QED
    BY <1>4, <2>1 DEF Treated, Present
<1>9. CASE u = v /\ cond
  <2>1. Touches(p, u)
    BY <1>2, <1>4, <1>5, <1>6, <1>9 DEF Touches
  <2> QED
    BY <1>1, <1>4, <1>9, <2>1 DEF Treated, Present
<1>10. CASE u = v /\ ~cond
  <2>1. u \notin raced => account'[u] = account[u] /\ meant'[u] = meant[u]
    BY <1>2, <1>5, <1>7, <1>10
  <2> QED
    BY <1>1, <1>4, <1>10, <2>1 DEF Treated, Present
<1> QED
  BY <1>8, <1>9, <1>10

\* Promote and the write of a reset set one field by id.
LEMMA SetTreats ==
  ASSUME TypeOK, NEW p \in Procs, NEW v \in Users, NEW u \in Users,
         \/ /\ account' = [account EXCEPT ![v].role = "admin"]
            /\ meant' = [meant EXCEPT ![v].role = "admin"]
         \/ /\ account' = [account EXCEPT ![v].pass = picked']
            /\ meant' = [meant EXCEPT ![v].pass = picked'],
         Present(v), RacesWhen(TRUE, p, v), UNCHANGED exists,
         job'[p].at \notin {"profile", "edit"}
  PROVE  Treated(u)
<1>1. raced \subseteq raced' /\ (CopyOut(p, v) => v \in raced')
  BY DEF RacesWhen
<1>2. CASE u # v
  <2>1. account'[u] = account[u] /\ meant'[u] = meant[u]
    BY <1>2 DEF TypeOK
  <2> QED
    BY <1>1, <2>1 DEF Treated, Present
<1>3. CASE u = v
  <2>1. \/ account'[v] = [account[v] EXCEPT !.role = "admin"]
           /\ meant'[v] = [meant[v] EXCEPT !.role = "admin"]
        \/ account'[v] = [account[v] EXCEPT !.pass = picked']
           /\ meant'[v] = [meant[v] EXCEPT !.pass = picked']
    BY DEF TypeOK
  <2>2. account[v] = meant[v] => account'[v] = meant'[v]
    BY <2>1
  <2>3. Touches(p, u)
    BY <1>1, <1>3, <2>2 DEF Touches
  <2> QED
    BY <1>1, <1>3, <2>3 DEF Treated, Present
<1> QED
  BY <1>2, <1>3

LEMMA EveryStepTreats ==
  ASSUME TypeOK, Locals, CopyIsCurrent, [Next]_vars, NEW u \in Users
  PROVE  Treated(u)
<1>1. CASE UNCHANGED <<exists, account, meant, raced>>
  BY <1>1 DEF Treated, Present
<1>2. ASSUME NEW v \in Users, NEW m \in Emails, NEW role \in Roles, Register(v, m, role)
      PROVE  Treated(u)
  BY <1>2, InsertTreats DEF Register
<1>3. ASSUME NEW p \in Procs, NEW v \in Users, SeedInsert(p, v) PROVE Treated(u)
  BY <1>3, InsertTreats DEF SeedInsert
<1>4. ASSUME NEW p \in Procs, Promote(p) PROVE Treated(u)
  <2>1. job[p].user \in Users
    BY <1>4 DEF Promote, At, Locals
  <2>2. job'[p].at \notin {"profile", "edit"} /\ UNCHANGED exists
    BY <1>4, ItEnds DEF Promote, Stops, Idle
  <2>3. CASE Present(job[p].user)
    BY <1>4, <2>1, <2>2, <2>3, SetTreats DEF Promote
  <2>4. CASE ~Present(job[p].user)
    BY <1>1, <1>4, <2>2, <2>4 DEF Promote
  <2> QED
    BY <2>3, <2>4
<1>5. ASSUME NEW p \in Procs, RedeemWrite(p) PROVE Treated(u)
  <2>1. job[p].user \in Users
    BY <1>5 DEF RedeemWrite, At, Locals
  <2>2. job'[p].at \notin {"profile", "edit"} /\ UNCHANGED exists
    BY <1>5, GoesOn DEF RedeemWrite, Keeps, Steps
  <2>3. CASE Present(job[p].user)
    BY <1>5, <2>1, <2>2, <2>3, SetTreats DEF RedeemWrite
  <2>4. CASE ~Present(job[p].user)
    BY <1>1, <1>5, <2>2, <2>4 DEF RedeemWrite
  <2> QED
    BY <2>3, <2>4
<1>6. ASSUME NEW p \in Procs, EraseRemove(p) PROVE Treated(u)
  <2>1. UNCHANGED <<account, meant, raced>>
    BY <1>6, EditsLeave
  <2>2. Present(u)' => Present(u)
    BY <1>6 DEF EraseRemove, Present, TypeOK
  <2> QED
    BY <2>1, <2>2 DEF Treated
<1>7. ASSUME NEW p \in Procs, NEW m \in Emails, NEW newPass \in BOOLEAN,
             ProfileWrite(p, m, newPass)
      PROVE  Treated(u)
  <2>1. job[p].at = "profile" /\ job[p].user \in Users /\ job[p].copy.role \in Roles
    BY <1>7, InJob DEF ProfileWrite, At, Locals
  <2>2. Stops(p) \/ Keeps(p, "revoke")
    BY <1>7, ItEnds, GoesOn DEF ProfileWrite, Steps
  <2>3. job'[p].at \notin {"profile", "edit"}
    BY <2>2 DEF Stops, Keeps, Idle
  <2>4. Replaces(p, m, newPass, job[p].copy.role)
    BY <1>7 DEF ProfileWrite
  <2> QED
    BY <2>1, <2>3, <2>4, ReplaceTreats
<1>8. ASSUME NEW p \in Procs, NEW m \in Emails, NEW newPass \in BOOLEAN, NEW role \in Roles,
             EditWrite(p, m, newPass, role)
      PROVE  Treated(u)
  <2>1. job[p].at = "edit" /\ job[p].user \in Users
    BY <1>8 DEF EditWrite, At, Locals
  <2>2. job'[p].at \notin {"profile", "edit"}
    BY <1>8, ItEnds DEF EditWrite, Stops, Idle
  <2>3. Replaces(p, m, newPass, role)
    BY <1>8 DEF EditWrite
  <2> QED
    BY <2>1, <2>2, <2>3, ReplaceTreats
<1>9. CASE Next
  BY <1>1, <1>2, <1>3, <1>4, <1>5, <1>6, <1>7, <1>8, <1>9, AccountWriters
<1> QED
  BY <1>1, <1>9 DEF vars

LEMMA CopyStep == TypeOK /\ Locals /\ CopyIsCurrent /\ [Next]_vars => CopyIsCurrent'
<1> SUFFICES ASSUME TypeOK, Locals, CopyIsCurrent, [Next]_vars, NEW q \in Procs,
                    job'[q].at \in {"profile", "edit"}, job'[q].user \notin raced'
             PROVE  job'[q].copy = account'[job'[q].user]
  BY DEF CopyIsCurrent
<1>1. CASE job'[q] = job[q]
  <2> DEFINE u == job[q].user
  <2>1. u \in Users /\ exists[u] # "unused"
    BY <1>1, InJob DEF Locals
  <2>2. Treated(u)
    BY <2>1, EveryStepTreats
  <2>3. u \notin raced /\ job[q].copy = account[u]
    BY <1>1, <2>2 DEF Treated, CopyIsCurrent
  <2>4. ASSUME NEW p \in Procs, Touches(p, u) PROVE FALSE
    <3>1. CopyOut(p, u)
      BY <1>1, <2>4 DEF Touches, CopyOut
    <3> QED
      BY <1>1, <2>4, <3>1 DEF Touches
  <2>5. account'[u] = account[u]
    BY <2>1, <2>2, <2>3, <2>4 DEF Treated
  <2> QED
    BY <1>1, <2>3, <2>5
<1>2. CASE job'[q] # job[q]
  <2>1. Moved(q)
    BY <1>2, WhoMoved
  <2>2. /\ UNCHANGED users
        /\ job'[q].copy = account[job'[q].user]
    BY <2>1 DEF Moved, Stops, Starts, Keeps, Idle
  <2> QED
    BY <2>2 DEF users
<1> QED
  BY <1>1, <1>2

LEMMA LeftOutStep ==
  TypeOK /\ Locals /\ CopyIsCurrent /\ LeftOutIsKept /\ [Next]_vars => LeftOutIsKept'
<1> SUFFICES ASSUME TypeOK, Locals, CopyIsCurrent, LeftOutIsKept, [Next]_vars,
                    NEW u \in Users, u \notin raced', Present(u)'
             PROVE  account'[u] = meant'[u]
  BY DEF LeftOutIsKept
<1>1. Treated(u)
  BY EveryStepTreats
<1>2. CASE Present(u)
  <2>1. u \notin raced /\ account[u] = meant[u] /\ exists[u] # "unused"
    BY <1>1, <1>2 DEF Treated, LeftOutIsKept, Present
  <2> QED
    BY <1>1, <2>1 DEF Treated, Touches
<1>3. CASE ~Present(u)
  BY <1>1, <1>3 DEF Treated
<1> QED
  BY <1>2, <1>3

\* Fields a client left out keep the value last chosen for them, unless one was
\* chosen while another request held a copy of the account.
THEOREM LeftOutStays == Spec => []LeftOutIsKept
<1> DEFINE IInv == TypeOK /\ Locals /\ CopyIsCurrent /\ LeftOutIsKept
<1>1. Init => IInv
  BY CoreInit DEF Init, CopyIsCurrent, LeftOutIsKept, Present, Idle
<1>2. IInv /\ [Next]_vars => IInv'
  BY TypingStep, LocalsStep, CopyStep, LeftOutStep
<1> QED
  BY <1>1, <1>2, PTL DEF Spec

-----------------------------------------------------------------------------
(***************************************************************************)
(* Reset links.                                                            *)
(***************************************************************************)
LEMMA UsesWriters ==
  ASSUME Next
  PROVE  UNCHANGED uses \/ \E p \in Procs : RedeemWrite(p)
BY NewLeave, SessionsLeave, EditsLeave, LinksLeave DEF Next, links

LEMMA ContestedWriters ==
  ASSUME Next
  PROVE  \/ UNCHANGED contested
         \/ \E p \in Procs : \/ Abort(p)
                             \/ \E u \in Users : ForgotRead(p, u)
                             \/ \E r \in Links : RedeemRead(p, r)
BY NewLeave, SessionsLeave, EditsLeave, LinksLeave DEF Next, links

LEMMA ContestedGrows == ASSUME [Next]_vars PROVE contested \subseteq contested'
<1>1. ASSUME NEW p \in Procs, Abort(p) PROVE contested \subseteq contested'
  BY <1>1 DEF Abort
<1>2. ASSUME NEW p \in Procs, NEW u \in Users, ForgotRead(p, u) PROVE contested \subseteq contested'
  BY <1>2 DEF ForgotRead
<1>3. ASSUME NEW p \in Procs, NEW r \in Links, RedeemRead(p, r) PROVE contested \subseteq contested'
  BY <1>3 DEF RedeemRead
<1> QED
  BY <1>1, <1>2, <1>3, ContestedWriters DEF vars

\* A discarded link stays so.
LEMMA GoneStays ==
  ASSUME TypeOK, [Next]_vars, NEW r \in Links, link[r] = "gone"
  PROVE  link'[r] = "gone"
<1>1. CASE UNCHANGED link
  BY <1>1
<1>2. ASSUME NEW s \in Links, LinkExpires(s) PROVE link'[r] = "gone"
  BY <1>2 DEF LinkExpires, TypeOK
<1>3. ASSUME NEW p \in Procs, ForgotClear(p) \/ RedeemSpend(p) PROVE link'[r] = "gone"
  BY <1>3 DEF ForgotClear, RedeemSpend, TypeOK
<1>4. ASSUME NEW p \in Procs, NEW s \in Links, ForgotSend(p, s) PROVE link'[r] = "gone"
  BY <1>4 DEF ForgotSend, TypeOK
<1> QED
  BY <1>1, <1>2, <1>3, <1>4, LinkWriters DEF vars

\* A request that redeems a link did so before, or has just read it.
LEMMA RedeemsFrom ==
  ASSUME TypeOK, Locals, [Next]_vars, NEW p \in Procs, NEW r \in Links, Redeems(p, r)'
  PROVE  \/ Redeems(p, r) /\ (job'[p] = job[p] \/ At(p, "spend")')
         \/ RedeemRead(p, r) /\ At(p, "redeem")' /\ \A q \in Procs \ {p} : job'[q] = job[q]
<1>0. job'[p].at \in {"redeem", "spend"} /\ job'[p].link = r
  BY DEF Redeems
<1>1. CASE job'[p] = job[p]
  BY <1>0, <1>1 DEF Redeems
<1>2. CASE job'[p] # job[p]
  <2>1. Moved(p) /\ Others(p)
    BY <1>2, WhoMoved, MovedAlone
  <2>2. CASE \E s \in Links : RedeemRead(p, s) /\ Starts(p, "redeem", linkFor[s], None)
                               /\ job'[p].link = s
    BY <1>0, <2>1, <2>2 DEF Others, Starts, At
  <2>3. CASE At(p, "redeem") /\ Keeps(p, "spend")
    BY <1>0, <2>3 DEF At, Keeps, Redeems
  <2> QED
    BY <1>0, <2>1, <2>2, <2>3 DEF Moved, Stops, Starts, Keeps, Idle
<1> QED
  BY <1>1, <1>2

\* A second password by the same link is the act of another request at "redeem".
LEMMA UsesStep ==
  ASSUME TypeOK, Locals, [Next]_vars, NEW r \in Links
  PROVE  \/ uses'[r] = uses[r]
         \/ \E p \in Procs : /\ At(p, "redeem") /\ job[p].link = r
                             /\ At(p, "spend")' /\ job'[p].link = r
                             /\ uses'[r] = uses[r] + 1
<1>1. CASE UNCHANGED uses
  BY <1>1
<1>2. ASSUME NEW p \in Procs, RedeemWrite(p)
      PROVE  \/ uses'[r] = uses[r]
             \/ /\ At(p, "redeem") /\ job[p].link = r
                /\ At(p, "spend")' /\ job'[p].link = r
                /\ uses'[r] = uses[r] + 1
  <2>1. At(p, "redeem") /\ Keeps(p, "spend")
    BY <1>2, GoesOn DEF RedeemWrite, Steps
  <2>2. uses' = [uses EXCEPT ![job[p].link] = uses[job[p].link] + 1]
    BY <1>2 DEF RedeemWrite
  <2>3. uses'[r] = uses[r] \/ (job[p].link = r /\ uses'[r] = uses[r] + 1)
    BY <2>2 DEF TypeOK
  <2> QED
    BY <2>1, <2>3 DEF Keeps, At
<1> QED
  BY <1>1, <1>2, UsesWriters DEF vars

LEMMA RedeemsStep == TypeOK /\ Locals /\ OneRedeems /\ [Next]_vars => OneRedeems'
<1> SUFFICES ASSUME TypeOK, Locals, OneRedeems, [Next]_vars,
                    NEW r \in Links, r \notin contested'
             PROVE  /\ \A p, q \in Procs : Redeems(p, r)' /\ Redeems(q, r)' => p = q
                    /\ \A p \in Procs : At(p, "redeem")' /\ job'[p].link = r => uses'[r] = 0
                    /\ link'[r] # "gone" /\ (\A p \in Procs : ~(At(p, "spend")' /\ job'[p].link = r))
                         => uses'[r] = 0
  BY DEF OneRedeems
<1>0. r \notin contested
  BY ContestedGrows
<1>r. ASSUME NEW p \in Procs, NEW q \in Procs, RedeemRead(p, r), Redeems(q, r) PROVE FALSE
  BY <1>r DEF RedeemRead, Redeems
<1>1. ASSUME NEW p \in Procs, NEW q \in Procs, Redeems(p, r)', Redeems(q, r)', p # q PROVE FALSE
  <2>1. CASE Redeems(p, r) /\ Redeems(q, r)
    BY <1>0, <1>1, <2>1 DEF OneRedeems
  <2>2. CASE RedeemRead(p, r) /\ job'[q] = job[q]
    BY <1>1, <1>r, <2>2 DEF Redeems
  <2>3. CASE RedeemRead(q, r) /\ job'[p] = job[p]
    BY <1>1, <1>r, <2>3 DEF Redeems
  <2> QED
    BY <1>1, <2>1, <2>2, <2>3, RedeemsFrom
<1>2. ASSUME NEW p \in Procs, At(p, "redeem")', job'[p].link = r PROVE uses'[r] = 0
  <2>0. Redeems(p, r)' /\ ~At(p, "spend")'
    BY <1>2 DEF Redeems, At
  <2>1. uses[r] = 0
    <3>1. CASE Redeems(p, r) /\ job'[p] = job[p]
      BY <1>0, <1>2, <3>1 DEF OneRedeems, At
    <3>2. CASE RedeemRead(p, r)
      <4>1. \A q \in Procs : ~(At(q, "spend") /\ job[q].link = r)
        BY <1>r, <3>2 DEF Redeems, At
      <4>2. link[r] = "live"
        BY <3>2 DEF RedeemRead
      <4> QED
        BY <1>0, <4>1, <4>2 DEF OneRedeems
    <3> QED
      BY <2>0, <3>1, <3>2, RedeemsFrom
  <2>2. ASSUME NEW q \in Procs, At(q, "redeem"), job[q].link = r,
               At(q, "spend")', job'[q].link = r
        PROVE  FALSE
    <3>1. p # q /\ Redeems(q, r)'
      BY <1>2, <2>2 DEF Redeems, At
    <3> QED
      BY <1>1, <2>0, <3>1
  <2> QED
    BY <2>1, <2>2, UsesStep
<1>3. ASSUME link'[r] # "gone", \A p \in Procs : ~(At(p, "spend")' /\ job'[p].link = r)
      PROVE  uses'[r] = 0
  <2>1. link[r] # "gone"
    BY <1>3, GoneStays
  <2>2. ASSUME NEW p \in Procs, At(p, "spend"), job[p].link = r PROVE FALSE
    <3>1. job'[p] # job[p]
      BY <1>3, <2>2 DEF At
    <3>2. CASE RedeemSpend(p)
      BY <1>3, <2>2, <3>2 DEF RedeemSpend, TypeOK
    <3>3. CASE Abort(p)
      BY <2>2, <3>3 DEF Abort
    <3>4. ~Revoke(p)
      BY <2>2 DEF Revoke, At
    <3> QED
      BY <2>2, <3>1, <3>2, <3>3, <3>4, Revoking DEF At
  <2>3. uses[r] = 0
    BY <1>0, <2>1, <2>2 DEF OneRedeems
  <2> QED
    BY <1>3, <2>3, UsesStep
<1> QED
  BY <1>1, <1>2, <1>3

LEMMA ReuseStep ==
  TypeOK /\ Locals /\ OneRedeems /\ ReuseNeedsOverlap /\ [Next]_vars => ReuseNeedsOverlap'
<1> SUFFICES ASSUME TypeOK, Locals, OneRedeems, ReuseNeedsOverlap, [Next]_vars,
                    NEW r \in Links, r \notin contested'
             PROVE  uses'[r] <= 1
  BY DEF ReuseNeedsOverlap
<1>0. r \notin contested
  BY ContestedGrows
<1>1. CASE uses'[r] = uses[r]
  BY <1>0, <1>1 DEF ReuseNeedsOverlap
<1>2. ASSUME NEW p \in Procs, At(p, "redeem"), job[p].link = r, uses'[r] = uses[r] + 1
      PROVE  uses'[r] <= 1
  <2>1. uses[r] = 0
    BY <1>0, <1>2 DEF OneRedeems
  <2> QED
    BY <1>2, <2>1
<1> QED
  BY <1>1, <1>2, UsesStep

\* A link sets one password, and a second one only if two requests redeemed it
\* at the same time or the first died before it discarded the link.
THEOREM ReuseIsOverlap == Spec => []ReuseNeedsOverlap
<1> DEFINE IInv == TypeOK /\ Locals /\ OneRedeems /\ ReuseNeedsOverlap
<1>1. Init => IInv
  BY CoreInit DEF Init, OneRedeems, ReuseNeedsOverlap, Redeems, At, Idle
<1>2. IInv /\ [Next]_vars => IInv'
  BY TypingStep, LocalsStep, RedeemsStep, ReuseStep
<1> QED
  BY <1>1, <1>2, PTL DEF Spec

\* A request that makes a link for u did so before, or has just found u.
LEMMA AsksFrom ==
  ASSUME TypeOK, Locals, [Next]_vars, NEW p \in Procs, NEW u \in Users, Asks(p, u)'
  PROVE  \/ Asks(p, u) /\ (job'[p] = job[p] \/ ForgotClear(p))
         \/ ForgotRead(p, u) /\ At(p, "clear")' /\ \A q \in Procs \ {p} : job'[q] = job[q]
<1>0. job'[p].at \in {"clear", "send"} /\ job'[p].user = u
  BY DEF Asks
<1>1. CASE job'[p] = job[p]
  BY <1>0, <1>1 DEF Asks
<1>2. CASE job'[p] # job[p]
  <2>1. Moved(p) /\ Others(p)
    BY <1>2, WhoMoved, MovedAlone
  <2>2. CASE \E v \in Users : Starts(p, "clear", v, None) /\ ForgotRead(p, v)
    BY <1>0, <2>1, <2>2 DEF Others, Starts, At
  <2>3. CASE ForgotClear(p) /\ At(p, "clear") /\ Keeps(p, "send")
    BY <1>0, <2>3 DEF At, Keeps, Asks
  <2> QED
    BY <1>0, <2>1, <2>2, <2>3 DEF Moved, Stops, Starts, Keeps, Idle
<1> QED
  BY <1>1, <1>2

\* The live links of an account are discarded, or one is sent.
LEMMA LinksOfStep ==
  ASSUME TypeOK, Locals, [Next]_vars, NEW u \in Users
  PROVE  \/ LinksOf(u)' \subseteq LinksOf(u)
         \/ \E p \in Procs, x \in Links :
              /\ At(p, "send") /\ job[p].user = u /\ Stops(p)
              /\ LinksOf(u)' \subseteq LinksOf(u) \cup {x}
<1>1. CASE UNCHANGED <<link, linkFor>>
  BY <1>1 DEF LinksOf
<1>2. ASSUME NEW s \in Links, LinkExpires(s) PROVE LinksOf(u)' \subseteq LinksOf(u)
  BY <1>2 DEF LinkExpires, LinksOf, TypeOK
<1>3. ASSUME NEW p \in Procs, ForgotClear(p) \/ RedeemSpend(p)
      PROVE  LinksOf(u)' \subseteq LinksOf(u)
  BY <1>3 DEF ForgotClear, RedeemSpend, LinksOf, TypeOK
<1>4. ASSUME NEW p \in Procs, NEW x \in Links, ForgotSend(p, x)
      PROVE  \/ LinksOf(u)' \subseteq LinksOf(u)
             \/ /\ At(p, "send") /\ job[p].user = u /\ Stops(p)
                /\ LinksOf(u)' \subseteq LinksOf(u) \cup {x}
  <2>1. At(p, "send") /\ Stops(p)
    BY <1>4, ItEnds DEF ForgotSend
  <2>2. LinksOf(u)' \subseteq LinksOf(u) \cup {x}
    BY <1>4 DEF ForgotSend, LinksOf, TypeOK
  <2>3. job[p].user # u => LinksOf(u)' \subseteq LinksOf(u)
    BY <1>4 DEF ForgotSend, LinksOf, TypeOK
  <2> QED
    BY <2>1, <2>2, <2>3
<1> QED
  BY <1>1, <1>2, <1>3, <1>4, LinkWriters DEF vars

LEMMA AsksStep == TypeOK /\ Locals /\ OneAsks /\ [Next]_vars => OneAsks'
<1> SUFFICES ASSUME TypeOK, Locals, OneAsks, [Next]_vars,
                    NEW u \in Users, u \notin contested'
             PROVE  /\ \A p, q \in Procs : Asks(p, u)' /\ Asks(q, u)' => p = q
                    /\ \A p \in Procs : At(p, "send")' /\ job'[p].user = u => LinksOf(u)' = {}
                    /\ \A r, s \in LinksOf(u)' : r = s
  BY DEF OneAsks
<1>0. u \notin contested
  BY ContestedGrows
<1>r. ASSUME NEW p \in Procs, NEW q \in Procs, ForgotRead(p, u), Asks(q, u) PROVE FALSE
  BY <1>r DEF ForgotRead, Asks
<1>1. ASSUME NEW p \in Procs, NEW q \in Procs, Asks(p, u)', Asks(q, u)', p # q PROVE FALSE
  <2>1. CASE Asks(p, u) /\ Asks(q, u)
    BY <1>0, <1>1, <2>1 DEF OneAsks
  <2>2. CASE ForgotRead(p, u) /\ job'[q] = job[q]
    BY <1>1, <1>r, <2>2 DEF Asks
  <2>3. CASE ForgotRead(q, u) /\ job'[p] = job[p]
    BY <1>1, <1>r, <2>3 DEF Asks
  <2> QED
    BY <1>1, <2>1, <2>2, <2>3, AsksFrom
<1>2. ASSUME NEW p \in Procs, At(p, "send")', job'[p].user = u PROVE LinksOf(u)' = {}
  <2>0. Asks(p, u)' /\ ~At(p, "clear")'
    BY <1>2 DEF Asks, At
  <2>1. CASE job'[p] = job[p]
    <3>1. LinksOf(u) = {} /\ Asks(p, u)
      BY <1>0, <1>2, <2>1 DEF OneAsks, At, Asks
    <3>2. ASSUME NEW q \in Procs, At(q, "send"), job[q].user = u, Stops(q) PROVE FALSE
      <4>1. q = p
        BY <1>0, <3>1, <3>2 DEF OneAsks, Asks, At
      <4> QED
        BY <1>2, <3>2, <4>1 DEF Stops, Idle, At
    <3> QED
      BY <3>1, <3>2, LinksOfStep
  <2>2. CASE ForgotClear(p) /\ Asks(p, u)
    BY <2>2 DEF ForgotClear, Asks, LinksOf, TypeOK
  <2> QED
    BY <2>0, <2>1, <2>2, AsksFrom
<1>3. ASSUME NEW r \in LinksOf(u)', NEW s \in LinksOf(u)' PROVE r = s
  <2>1. CASE LinksOf(u)' \subseteq LinksOf(u)
    BY <1>0, <1>3, <2>1 DEF OneAsks
  <2>2. ASSUME NEW p \in Procs, NEW x \in Links, At(p, "send"), job[p].user = u,
               LinksOf(u)' \subseteq LinksOf(u) \cup {x}
        PROVE  r = s
    <3>1. LinksOf(u) = {}
      BY <1>0, <2>2 DEF OneAsks
    <3> QED
      BY <1>3, <2>2, <3>1
  <2> QED
    BY <2>1, <2>2, LinksOfStep
<1> QED
  BY <1>1, <1>2, <1>3

LEMMA OneOrNone == ASSUME NEW S, \A r, s \in S : r = s PROVE Cardinality(S) <= 1
<1>1. CASE S = {}
  BY <1>1, FS_EmptySet
<1>2. ASSUME NEW r \in S PROVE Cardinality(S) <= 1
  <2>1. S = {r}
    BY <1>2
  <2> QED
    BY <2>1, FS_Singleton
<1> QED
  BY <1>1, <1>2

\* One live link per account, unless two requests asked for one at the same time.
THEOREM OneLinkLives == Spec => []OneLiveLink
<1> DEFINE IInv == TypeOK /\ Locals /\ OneAsks
<1>1. Init => IInv
  BY CoreInit DEF Init, OneAsks, Asks, LinksOf, At, Idle
<1>2. IInv /\ [Next]_vars => IInv'
  BY TypingStep, LocalsStep, AsksStep
<1>3. IInv => OneLiveLink
  BY OneOrNone DEF OneAsks, OneLiveLink
<1> QED
  BY <1>1, <1>2, <1>3, PTL DEF Spec
=============================================================================
