------------------------------ MODULE Accounts ------------------------------
(***************************************************************************)
(* Accounts, the sessions opened on them and the links that reset their    *)
(* passwords.                                                              *)
(*                                                                         *)
(* Three collections, users, tokens and resets, are written by handlers    *)
(* that make one call at a time.  An edit of an account is a read of the   *)
(* whole document, a change of some fields and a replacement of the whole  *)
(* document; a change of password is one write to users followed by one    *)
(* to tokens.                                                              *)
(*                                                                         *)
(* The n-th password somebody chooses is the number n: a hash accepts the  *)
(* one it was made from and no other.  Names are left out, so an edit that *)
(* changes neither email, password nor role is one of the name.            *)
(***************************************************************************)
EXTENDS Naturals, FiniteSets

CONSTANTS
  Users,         \* ids an account can be given
  Emails,        \* addresses
  Tokens,        \* session tokens
  Links,         \* reset tokens
  Procs,         \* requests served at the same time, over all instances
  None,          \* the empty id
  MaxPasswords,  \* bound: passwords chosen altogether
  MaxRequests,   \* bound: requests served altogether
  Routes,        \* the operations that receive requests
  MayFail        \* can a handler die, or a database call fail?

RouteKinds == {"register", "seed", "login", "logout", "profile", "admin", "forgot", "redeem"}

ASSUME AccountsAssumption ==
  /\ None \notin Users \cup Emails \cup Tokens \cup Links
  /\ Users \cap Links = {}
  /\ MaxPasswords \in Nat
  /\ MaxRequests \in Nat
  /\ Routes \subseteq RouteKinds
  /\ MayFail \in BOOLEAN

VARIABLES
  exists,        \* user -> "unused", "present" or "deleted"
  account,       \* user -> the fields of the document
  session,       \* token -> "unused", "live" or "gone"
  holder,        \* token -> its userId
  link,          \* reset token -> "unused", "live", "expired" or "gone"
  linkFor,       \* reset token -> its userId
  job,           \* process -> what its handler does next, and its local variables
  requests,      \* requests so far
  picked,        \* passwords chosen so far
  meant,         \* history: user -> for each field, the value last chosen for it
  raced,         \* history: users whose fields were chosen while a copy was out
  doomed,        \* history: sessions open when a password was replaced, or the account erased
  abandoned,     \* history: the doomed ones whose handler died
  spared,        \* history: the doomed ones an administrator's edit leaves open
  uses,          \* history: reset token -> passwords set with it
  contested      \* history: links redeemed, and users sent links, by two at once

vars == <<exists, account, session, holder, link, linkFor, job, requests,
          picked, meant, raced, doomed, abandoned, spared, uses, contested>>

users    == <<exists, account, picked, meant, raced>>
sessions == <<session, holder, doomed, abandoned, spared>>
links    == <<link, linkFor, uses, contested>>

Roles == {"user", "admin"}
Row   == [email : Emails \cup {None}, pass : 0 .. MaxPasswords, role : Roles]
Blank == [email |-> None, pass |-> 0, role |-> "user"]

(***************************************************************************)
(* A handler's program counter and locals, each step named for the call it *)
(* is about to make.  user is the account it works on, copy what it read   *)
(* of it, token the one the request carries.                               *)
(***************************************************************************)
Steps == {"idle",
          "issue",                        \* Login
          "auth", "logout", "profile",    \* Auth, Logout, UpdateMe
          "admin", "edit", "erase",       \* AdminAuth, UpdateUser, DeleteUser
          "clear", "send",                \* CreateReset
          "redeem", "spend", "revoke",    \* ResetPassword
          "promote", "seed"}              \* EnsureAdmin

Job == [at : Steps, user : Users \cup {None}, token : Tokens \cup {None},
        link : Links \cup {None}, copy : Row]

Idle == [at |-> "idle", user |-> None, token |-> None, link |-> None, copy |-> Blank]

Becomes(p, j) == job' = [job EXCEPT ![p] = j]
Begin(p, j) ==
  /\ job[p] = Idle
  /\ requests < MaxRequests
  /\ requests' = requests + 1
  /\ Becomes(p, j)
Goes(p, step) == Becomes(p, [job[p] EXCEPT !.at = step]) /\ UNCHANGED requests
Ends(p)       == Becomes(p, Idle) /\ UNCHANGED requests
At(p, step)   == job[p].at = step

Present(u) == exists[u] = "present"
Live(t)    == session[t] = "live"

\* The account found under an address, and the unique index on addresses.
Under(m)       == {u \in Users : Present(u) /\ account[u].email = m}
FreeFor(m, u)  == Under(m) \subseteq {u}

SessionsOf(u) == {t \in Tokens : Live(t) /\ holder[t] = u}

\* Those but the one p's own request carries.
OpenOn(p, u) == SessionsOf(u) \ {job[p].token}

LinksOf(u)    == {r \in Links : link[r] \in {"live", "expired"} /\ linkFor[r] = u}

\* Another request holds a copy of u's document that it is going to write.
CopyOut(p, u) == \E q \in Procs \ {p} : job[q].user = u /\ job[q].at \in {"profile", "edit"}

RacesWhen(cond, p, u) == raced' = IF cond /\ CopyOut(p, u) THEN raced \cup {u} ELSE raced

Init ==
  /\ exists    = [u \in Users |-> "unused"]
  /\ account   = [u \in Users |-> Blank]
  /\ session   = [t \in Tokens |-> "unused"]
  /\ holder    = [t \in Tokens |-> None]
  /\ link      = [r \in Links |-> "unused"]
  /\ linkFor   = [r \in Links |-> None]
  /\ job       = [p \in Procs |-> Idle]
  /\ requests  = 0
  /\ picked    = 0
  /\ meant     = [u \in Users |-> Blank]
  /\ raced     = {}
  /\ doomed    = {}
  /\ abandoned = {}
  /\ spared    = {}
  /\ uses      = [r \in Links |-> 0]
  /\ contested = {}

-----------------------------------------------------------------------------
(***************************************************************************)
(* New accounts.                                                           *)
(***************************************************************************)

\* The insert of a new account with a password just chosen; the index on
\* addresses refuses a second account under one.
Inserts(u, m, role) ==
  /\ exists[u] = "unused"
  /\ FreeFor(m, u)
  /\ picked < MaxPasswords
  /\ picked'  = picked + 1
  /\ exists'  = [exists EXCEPT ![u] = "present"]
  /\ account' = [account EXCEPT ![u] = [email |-> m, pass |-> picked', role |-> role]]
  /\ meant'   = [meant EXCEPT ![u] = account'[u]]
  /\ UNCHANGED raced

\* RegisterAccount: the role is the route's, never the body's.
Register(u, m, role) ==
  /\ "register" \in Routes
  /\ Inserts(u, m, role)
  /\ UNCHANGED <<sessions, links, job, requests>>

\* EnsureAdmin looks for the configured address, then seeds or promotes.
SeedRead(p, m) ==
  /\ "seed" \in Routes
  /\ \/ /\ Under(m) = {}
        /\ Begin(p, [Idle EXCEPT !.at = "seed", !.copy = [Blank EXCEPT !.email = m]])
     \/ \E u \in Under(m) :
          /\ account[u].role # "admin"
          /\ Begin(p, [Idle EXCEPT !.at = "promote", !.user = u])
  /\ UNCHANGED <<users, sessions, links>>

SeedInsert(p, u) ==
  /\ At(p, "seed")
  /\ Inserts(u, job[p].copy.email, "admin")
  /\ Ends(p)
  /\ UNCHANGED <<sessions, links>>

\* A duplicate means that another instance, or a visitor, was first.
SeedDuplicate(p) ==
  /\ At(p, "seed")
  /\ Under(job[p].copy.email) # {}
  /\ Ends(p)
  /\ UNCHANGED <<users, sessions, links>>

Promote(p) ==
  /\ At(p, "promote")
  /\ LET u == job[p].user IN
       IF Present(u)
       THEN /\ account' = [account EXCEPT ![u].role = "admin"]
            /\ meant'   = [meant EXCEPT ![u].role = "admin"]
            /\ RacesWhen(TRUE, p, u)
       ELSE UNCHANGED <<account, meant, raced>>
  /\ Ends(p)
  /\ UNCHANGED <<exists, picked, sessions, links>>

-----------------------------------------------------------------------------
(***************************************************************************)
(* Sessions.                                                               *)
(***************************************************************************)

\* Login finds the account and compares the password, then stores a token.
LoginCheck(p, u) ==
  /\ Present(u)
  /\ "login" \in Routes
  /\ Begin(p, [Idle EXCEPT !.at = "issue", !.user = u])
  /\ UNCHANGED <<users, sessions, links>>

\* Slip: the token is stored without its userId.
LoginIssueBare(p, t) ==
  /\ At(p, "issue")
  /\ session[t] = "unused"
  /\ session' = [session EXCEPT ![t] = "live"]
  /\ Ends(p)
  /\ UNCHANGED <<holder, doomed, abandoned, spared, users, links>>

LoginIssue(p, t) ==
  /\ At(p, "issue")
  /\ session[t] = "unused"
  /\ session' = [session EXCEPT ![t] = "live"]
  /\ holder'  = [holder EXCEPT ![t] = job[p].user]
  /\ Ends(p)
  /\ UNCHANGED <<doomed, abandoned, spared, users, links>>

\* Auth reads the token, then the account; what a handler goes on to do, it
\* does with this copy of the account.
AuthToken(p, t) ==
  /\ Routes \cap {"logout", "profile", "admin"} # {}
  /\ Live(t)
  /\ Begin(p, [Idle EXCEPT !.at = "auth", !.user = holder[t], !.token = t])
  /\ UNCHANGED <<users, sessions, links>>

AuthUser(p, route) ==
  /\ At(p, "auth")
  /\ route \in Routes \cap {"logout", "profile", "admin"}
  /\ Present(job[p].user)
  /\ route = "admin" => account[job[p].user].role = "admin"
  /\ Becomes(p, [job[p] EXCEPT !.at = route, !.copy = account[job[p].user]])
  /\ UNCHANGED <<requests, users, sessions, links>>

\* 401, 403 and every refusal of a request body or of a wrong current password.
Refused(p) ==
  /\ job[p].at \in {"auth", "profile", "admin", "edit"}
  /\ Ends(p)
  /\ UNCHANGED <<users, sessions, links>>

Logout(p) ==
  /\ At(p, "logout")
  /\ session' = [session EXCEPT ![job[p].token] = "gone"]
  /\ Ends(p)
  /\ UNCHANGED <<holder, doomed, abandoned, spared, users, links>>

\* The TTL index removes a token after a day.
SessionEnds(t) ==
  /\ Live(t)
  /\ session' = [session EXCEPT ![t] = "gone"]
  /\ UNCHANGED <<holder, doomed, abandoned, spared, users, links, job, requests>>

\* RevokeOtherSessions, and the revocations of ResetPassword and DeleteUser,
\* whose own requests carry no token of the account.
Revoke(p) ==
  /\ At(p, "revoke")
  /\ session' = [t \in Tokens |-> IF t \in OpenOn(p, job[p].user)
                                  THEN "gone" ELSE session[t]]
  /\ Ends(p)
  /\ UNCHANGED <<holder, doomed, abandoned, spared, users, links>>

\* UpdateMe, ResetPassword and DeleteUser go on to end the sessions open when
\* they write.
Dooms(p, u) ==
  /\ doomed' = doomed \cup OpenOn(p, u)
  /\ spared' = spared \ OpenOn(p, u)

\* UpdateUser of an admin leaves them open, unless another handler is to end
\* them already.
Spares(p, u) ==
  /\ doomed' = doomed \cup OpenOn(p, u)
  /\ spared' = spared \cup (OpenOn(p, u) \ doomed)

-----------------------------------------------------------------------------
(***************************************************************************)
(* Edits: the whole document is replaced with the copy that was read and   *)
(* the fields the request chose.                                           *)
(***************************************************************************)

\* Slip: the hash is blanked for the response before the document is stored.
EditedBlank(old, m, newPass, role) ==
  [email |-> m, pass |-> IF newPass THEN picked + 1 ELSE 0, role |-> role]

Edited(old, m, newPass, role) ==
  [email |-> m, pass |-> IF newPass THEN picked + 1 ELSE old.pass, role |-> role]

\* What differs from the copy is the request's choice.
MeansChanges(u, old, m, newPass, role) ==
  meant' = [meant EXCEPT ![u] =
             [email |-> IF m # old.email THEN m ELSE @.email,
              pass  |-> IF newPass THEN picked + 1 ELSE @.pass,
              role  |-> IF role # old.role THEN role ELSE @.role]]

\* UpdateUser of the store: no account matches when it has been deleted, and
\* the index refuses an address that is taken.
Replaces(p, m, newPass, role) ==
  LET u == job[p].user  old == job[p].copy IN
  /\ Present(u)
  /\ FreeFor(m, u)
  /\ newPass => picked < MaxPasswords
  /\ picked'  = IF newPass THEN picked + 1 ELSE picked
  /\ account' = [account EXCEPT ![u] = Edited(old, m, newPass, role)]
  /\ MeansChanges(u, old, m, newPass, role)
  /\ RacesWhen(newPass \/ m # old.email \/ role # old.role, p, u)
  /\ UNCHANGED exists

\* UpdateMe; a new password then ends the account's other sessions.
ProfileWrite(p, m, newPass) ==
  /\ At(p, "profile")
  /\ Replaces(p, m, newPass, job[p].copy.role)
  /\ IF newPass
     THEN Dooms(p, job[p].user) /\ Goes(p, "revoke")
     ELSE Ends(p) /\ UNCHANGED <<doomed, spared>>
  /\ UNCHANGED <<session, holder, abandoned, links>>

\* UpdateUser of an admin reads the account it edits.
EditRead(p, u) ==
  /\ At(p, "admin")
  /\ Present(u)
  /\ Becomes(p, [job[p] EXCEPT !.at = "edit", !.user = u, !.copy = account[u]])
  /\ UNCHANGED <<requests, users, sessions, links>>

\* An admin may change everything but take the admin role from itself.  A new
\* password ends no session.
EditWrite(p, m, newPass, role) ==
  /\ At(p, "edit")
  /\ job[p].user = holder[job[p].token] => role = "admin"
  /\ Replaces(p, m, newPass, role)
  /\ IF newPass THEN Spares(p, job[p].user) ELSE UNCHANGED <<doomed, spared>>
  /\ Ends(p)
  /\ UNCHANGED <<session, holder, abandoned, links>>

\* ErrDuplicate or ErrNotFound of either replacement.
WriteFails(p) ==
  /\ job[p].at \in {"profile", "edit"}
  /\ ~Present(job[p].user) \/ \E m \in Emails : ~FreeFor(m, job[p].user)
  /\ Ends(p)
  /\ UNCHANGED <<users, sessions, links>>

\* DeleteUser; whether the account holds bookings is an input here.
EraseCheck(p, u) ==
  /\ At(p, "admin")
  /\ u # job[p].user
  /\ Becomes(p, [job[p] EXCEPT !.at = "erase", !.user = u])
  /\ UNCHANGED <<requests, users, sessions, links>>

EraseRemove(p) ==
  /\ At(p, "erase")
  /\ LET u == job[p].user IN
       IF Present(u)
       THEN /\ exists' = [exists EXCEPT ![u] = "deleted"]
            /\ Dooms(p, u)
            /\ Goes(p, "revoke")
       ELSE Ends(p) /\ UNCHANGED <<exists, doomed, spared>>
  /\ UNCHANGED <<account, picked, meant, raced, session, holder, abandoned, links>>

-----------------------------------------------------------------------------
(***************************************************************************)
(* Forgotten passwords.                                                    *)
(***************************************************************************)

\* CreateReset: find the account, discard its links, store a new one.
ForgotRead(p, u) ==
  /\ Present(u)
  /\ account[u].role # "admin"
  /\ "forgot" \in Routes
  /\ Begin(p, [Idle EXCEPT !.at = "clear", !.user = u])
  /\ contested' = IF \E q \in Procs : job[q].at \in {"clear", "send"} /\ job[q].user = u
                  THEN contested \cup {u} ELSE contested
  /\ UNCHANGED <<users, sessions, link, linkFor, uses>>

\* Slip: only links past their deadline are discarded.
ForgotClearExpired(p) ==
  /\ At(p, "clear")
  /\ link' = [r \in Links |-> IF r \in LinksOf(job[p].user) /\ link[r] = "expired"
                              THEN "gone" ELSE link[r]]
  /\ Goes(p, "send")
  /\ UNCHANGED <<linkFor, uses, contested, users, sessions>>

ForgotClear(p) ==
  /\ At(p, "clear")
  /\ link' = [r \in Links |-> IF r \in LinksOf(job[p].user) THEN "gone" ELSE link[r]]
  /\ Goes(p, "send")
  /\ UNCHANGED <<linkFor, uses, contested, users, sessions>>

ForgotSend(p, r) ==
  /\ At(p, "send")
  /\ link[r] = "unused"
  /\ link'    = [link EXCEPT ![r] = "live"]
  /\ linkFor' = [linkFor EXCEPT ![r] = job[p].user]
  /\ Ends(p)
  /\ UNCHANGED <<uses, contested, users, sessions>>

\* ResetTTL passes: the row may stay, and works no more.
LinkExpires(r) ==
  /\ link[r] = "live"
  /\ link' = [link EXCEPT ![r] = "expired"]
  /\ UNCHANGED <<linkFor, uses, contested, users, sessions, job, requests>>

\* ResetPassword: look the link up and check its age, set the password,
\* discard the link, end the account's sessions.
RedeemRead(p, r) ==
  /\ link[r] = "live"
  /\ "redeem" \in Routes
  /\ Begin(p, [Idle EXCEPT !.at = "redeem", !.user = linkFor[r], !.link = r])
  /\ contested' = IF \E q \in Procs : job[q].at \in {"redeem", "spend"} /\ job[q].link = r
                  THEN contested \cup {r} ELSE contested
  /\ UNCHANGED <<users, sessions, link, linkFor, uses>>

\* UpdateByID does not mind an account that has been deleted.
RedeemWrite(p) ==
  /\ At(p, "redeem")
  /\ picked < MaxPasswords
  /\ picked' = picked + 1
  /\ LET u == job[p].user IN
       IF Present(u)
       THEN /\ account' = [account EXCEPT ![u].pass = picked']
            /\ meant'   = [meant EXCEPT ![u].pass = picked']
            /\ RacesWhen(TRUE, p, u)
            /\ Dooms(p, u)
       ELSE UNCHANGED <<account, meant, raced, doomed, spared>>
  /\ uses' = [uses EXCEPT ![job[p].link] = @ + 1]
  /\ Goes(p, "spend")
  /\ UNCHANGED <<exists, session, holder, abandoned, link, linkFor, contested>>

\* Slip: a link that is gone already is taken for a reset that is done.
RedeemSpendOnce(p) ==
  /\ At(p, "spend")
  /\ link' = [link EXCEPT ![job[p].link] = "gone"]
  /\ IF link[job[p].link] = "gone" THEN Ends(p) ELSE Goes(p, "revoke")
  /\ UNCHANGED <<linkFor, uses, contested, users, sessions>>

\* Slip: the link is left to its deadline.
RedeemSpendKept(p) ==
  /\ At(p, "spend")
  /\ Goes(p, "revoke")
  /\ UNCHANGED <<users, sessions, links>>

RedeemSpend(p) ==
  /\ At(p, "spend")
  /\ link' = [link EXCEPT ![job[p].link] = "gone"]
  /\ Goes(p, "revoke")
  /\ UNCHANGED <<linkFor, uses, contested, users, sessions>>

-----------------------------------------------------------------------------
\* The process dies, or a call fails and the handler returns its error.
Abort(p) ==
  /\ MayFail
  /\ job[p] # Idle
  /\ abandoned' = IF job[p].at \in {"spend", "revoke"}
                  THEN abandoned \cup (doomed \cap OpenOn(p, job[p].user)) ELSE abandoned
  /\ contested' = IF At(p, "spend") THEN contested \cup {job[p].link} ELSE contested
  /\ Ends(p)
  /\ UNCHANGED <<users, session, holder, doomed, spared, link, linkFor, uses>>

Next ==
  \/ \E u \in Users, m \in Emails, role \in Roles : Register(u, m, role)
  \/ \E t \in Tokens : SessionEnds(t)
  \/ \E r \in Links : LinkExpires(r)
  \/ \E p \in Procs :
       \/ \E m \in Emails : SeedRead(p, m)
       \/ SeedDuplicate(p) \/ Promote(p)
       \/ \E u \in Users : \/ SeedInsert(p, u) \/ LoginCheck(p, u) \/ ForgotRead(p, u)
                           \/ EditRead(p, u) \/ EraseCheck(p, u)
       \/ \E t \in Tokens : LoginIssue(p, t) \/ AuthToken(p, t)
       \/ \E route \in Routes : AuthUser(p, route)
       \/ Refused(p) \/ Logout(p) \/ Revoke(p) \/ WriteFails(p) \/ EraseRemove(p)
       \/ \E m \in Emails, newPass \in BOOLEAN :
            \/ ProfileWrite(p, m, newPass)
            \/ \E role \in Roles : EditWrite(p, m, newPass, role)
       \/ ForgotClear(p) \/ RedeemWrite(p) \/ RedeemSpend(p)
       \/ \E r \in Links : ForgotSend(p, r) \/ RedeemRead(p, r)
       \/ Abort(p)

Spec == Init /\ [][Next]_vars

-----------------------------------------------------------------------------
(***************************************************************************)
(* Properties.                                                             *)
(***************************************************************************)

\* TypeOK: every variable keeps its shape, and every session and link that was
\* issued belongs to an account.
TypeOK ==
  /\ exists \in [Users -> {"unused", "present", "deleted"}]
  /\ account \in [Users -> Row]
  /\ session \in [Tokens -> {"unused", "live", "gone"}]
  /\ holder \in [Tokens -> Users \cup {None}]
  /\ link \in [Links -> {"unused", "live", "expired", "gone"}]
  /\ linkFor \in [Links -> Users \cup {None}]
  /\ \A t \in Tokens : session[t] # "unused" => holder[t] \in Users
  /\ \A r \in Links : link[r] # "unused" => linkFor[r] \in Users
  /\ job \in [Procs -> Job]
  /\ requests \in 0 .. MaxRequests
  /\ picked \in 0 .. MaxPasswords
  /\ meant \in [Users -> Row]
  /\ raced \subseteq Users
  /\ doomed \subseteq Tokens
  /\ abandoned \subseteq Tokens
  /\ spared \subseteq Tokens
  /\ uses \in [Links -> Nat]
  /\ contested \subseteq Users \cup Links

\* DoomedSessionsEnd: "changing a password should not leave a stolen session
\* alive", and a reset or a deletion "kicks out whoever might already be signed
\* in".  Of the sessions open when an account's password was replaced, by whoever
\* it was, or when the account was deleted, one that is still open has UpdateMe,
\* ResetPassword or DeleteUser about to end it, or is one of two exceptions: that
\* handler died on the way, or the password was replaced by an administrator's
\* UpdateUser, which ends no session at all.
DoomedSessionsEnd ==
  \A t \in doomed : Live(t) =>
    \/ t \in abandoned
    \/ t \in spared
    \/ \E p \in Procs : /\ job[p].at \in {"spend", "revoke"}
                        /\ job[p].user = holder[t]
                        /\ job[p].token # t

\* LeftOutIsKept: "fields the client left out keep their current values", that
\* is, the value last chosen for each, unless one was chosen while somebody else
\* was editing a copy of the account.
LeftOutIsKept ==
  \A u \in Users \ raced : Present(u) => account[u] = meant[u]

\* ReuseNeedsOverlap: a reset link sets one password, and a second one only if
\* two requests redeemed it at the same time or the first died before it
\* discarded the link.
ReuseNeedsOverlap == \A r \in Links : uses[r] <= 1 \/ r \in contested

\* OneLiveLink: "one live token per account: asking again invalidates the
\* earlier one", unless two requests asked at the same time.
OneLiveLink ==
  \A u \in Users : u \in contested \/ Cardinality(LinksOf(u)) <= 1

-----------------------------------------------------------------------------
(***************************************************************************)
(* What makes the invariants inductive.                                    *)
(***************************************************************************)

\* What a handler has read by the step it is at.
Locals ==
  \A p \in Procs :
    /\ job[p].at \notin {"idle", "seed"} => job[p].user \in Users
    /\ job[p].token # None => session[job[p].token] # "unused"
    /\ job[p].at \in {"redeem", "spend"} => job[p].link \in Links /\ link[job[p].link] # "unused"
    /\ job[p].at \in {"profile", "edit"} => exists[job[p].user] # "unused"

\* Nothing is doomed before it was issued.
DoomedWasLive == \A t \in doomed : session[t] # "unused"

\* A copy that is out is the document, unless a field was chosen since.
CopyIsCurrent ==
  \A p \in Procs : job[p].at \in {"profile", "edit"} /\ job[p].user \notin raced
    => job[p].copy = account[job[p].user]

Redeems(p, r) == job[p].at \in {"redeem", "spend"} /\ job[p].link = r
Asks(p, u)    == job[p].at \in {"clear", "send"} /\ job[p].user = u

\* One request redeems a link, and the link has set no password before.
OneRedeems ==
  \A r \in Links \ contested :
    /\ \A p, q \in Procs : Redeems(p, r) /\ Redeems(q, r) => p = q
    /\ \A p \in Procs : At(p, "redeem") /\ job[p].link = r => uses[r] = 0
    /\ link[r] # "gone" /\ (\A p \in Procs : ~(At(p, "spend") /\ job[p].link = r))
         => uses[r] = 0

\* One request makes a new link, having discarded those before it.
OneAsks ==
  \A u \in Users \ contested :
    /\ \A p, q \in Procs : Asks(p, u) /\ Asks(q, u) => p = q
    /\ \A p \in Procs : At(p, "send") /\ job[p].user = u => LinksOf(u) = {}
    /\ \A r, s \in LinksOf(u) : r = s

-----------------------------------------------------------------------------
(***************************************************************************)
(* What comments of the code say, and its interleavings refute.            *)
(***************************************************************************)

\* ResetWorksOnce: "The token works once", as passwordreset.go, the handler and
\* the mail that carries the link all say.
ResetWorksOnce == \A r \in Links : uses[r] <= 1
=============================================================================
