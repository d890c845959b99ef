------------------------------ MODULE Startup -------------------------------
(***************************************************************************)
(* Instances start, crash and start again on one database.                 *)
(*                                                                         *)
(* A start builds six indexes, one call each, seeds the administrator, and *)
(* serves whatever came of it: a failure is logged.  So an instance may    *)
(* serve without the indexes that the other components take for granted.   *)
(* Two of them keep rows apart, the addresses of accounts and the terms of *)
(* somebody's search history; what registers accounts and records terms is *)
(* modelled as it runs with and without them.                              *)
(*                                                                         *)
(* One user and one term stand for all pairs of them, which are apart.     *)
(***************************************************************************)
EXTENDS Naturals

CONSTANTS
  Instances,
  Accounts,      \* ids an account can be given
  Emails, Seed,  \* addresses, and the one that ADMIN_EMAIL names
  Terms,         \* ids a row of the search history can be given
  None, Gone,    \* instead of an address: not registered yet, and deleted
  MaxStarts,     \* bound: starts
  MaxRequests,   \* bound: requests that write accounts or terms
  MaxFaults      \* bound: calls that fail though the database could serve them

ASSUME StartupAssumption ==
  /\ None # Gone /\ {None, Gone} \cap (Accounts \cup Emails) = {}
  /\ Seed \in Emails
  /\ MaxStarts \in Nat /\ MaxRequests \in Nat /\ MaxFaults \in Nat

\* The indexes in the order EnsureIndexes builds them.  The third and the fifth
\* expire reset tokens and terms; ticket codes are random, and never the same.
UsersByEmail == 1
TokensExpire == 2
TermsOnce    == 4
Last         == 6

VARIABLES
  at,         \* instance -> what New does next
  next,       \* instance -> the index it is to build
  found,      \* instance -> the account EnsureAdmin read
  indexes,    \* the indexes there are
  email,      \* account -> its address, None or Gone
  admins,     \* accounts with the role of an administrator
  terms,      \* rows of the one term of the one user
  searching,  \* upserts that found no row, with the id each is to insert
  starts, requests, faults,
  gaps,       \* history: has a start left EnsureIndexes before its end?
  overtaken   \* history: instances whose read somebody's request made untrue

vars == <<at, next, found, indexes, email, admins, terms, searching,
          starts, requests, faults, gaps, overtaken>>

instance == <<at, next, found, starts>>
accounts == <<email, admins, overtaken>>
history  == <<terms, searching>>
counts   == <<faults, gaps>>

Under(m)   == {a \in Accounts : email[a] = m}
Has(n)     == n \in indexes
FreeFor(m, a) == Has(UsersByEmail) => Under(m) \subseteq {a}
Serving    == \E i \in Instances : at[i] = "serving"

\* Two rows where the index allows one.
SharedEmail == \E m \in Emails : \E a, b \in Under(m) : a # b
SharedTerm  == \E t, u \in terms : t # u

Goes(i, step) == at' = [at EXCEPT ![i] = step]
Fault         == faults < MaxFaults /\ faults' = faults + 1

Init ==
  /\ at        = [i \in Instances |-> "off"]
  /\ next      = [i \in Instances |-> 1]
  /\ found     = [i \in Instances |-> None]
  /\ indexes   = {}
  /\ email     = [a \in Accounts |-> None]
  /\ admins    = {}
  /\ terms     = {}
  /\ searching = {}
  /\ starts    = 0
  /\ requests  = 0
  /\ faults    = 0
  /\ gaps      = FALSE
  /\ overtaken = {}

-----------------------------------------------------------------------------
(***************************************************************************)
(* New.                                                                    *)
(***************************************************************************)

\* NewStore does not contact the database.
Start(i) ==
  /\ at[i] = "off" /\ starts < MaxStarts
  /\ starts' = starts + 1
  /\ next' = [next EXCEPT ![i] = 1]
  /\ Goes(i, "index")
  /\ UNCHANGED <<found, indexes, accounts, history, requests, counts>>

\* The database refuses a unique index over rows that are not.
Buildable(n) ==
  /\ n = UsersByEmail => ~SharedEmail
  /\ n = TermsOnce => ~SharedTerm

\* An index that is there already is none to build: the call succeeds.
BuildIndex(i) ==
  /\ at[i] = "index"
  /\ Buildable(next[i])
  /\ indexes' = indexes \cup {next[i]}
  /\ IF next[i] = Last THEN Goes(i, "seed") /\ UNCHANGED next
                       ELSE next' = [next EXCEPT ![i] = @ + 1] /\ UNCHANGED at
  /\ UNCHANGED <<found, accounts, history, starts, requests, counts>>

\* Slip: an index that cannot be built is skipped and the next one tried.
IndexSkipped(i) ==
  /\ at[i] = "index"
  /\ (~Buildable(next[i]) /\ UNCHANGED faults) \/ Fault
  /\ UNCHANGED indexes
  /\ gaps' = TRUE
  /\ IF next[i] = Last THEN Goes(i, "seed") /\ UNCHANGED next
                       ELSE next' = [next EXCEPT ![i] = @ + 1] /\ UNCHANGED at
  /\ UNCHANGED <<found, accounts, history, starts, requests>>

\* The first failure is the last call; of a call that timed out, the database
\* may have built the index all the same.
IndexFails(i) ==
  /\ at[i] = "index"
  /\ \/ ~Buildable(next[i]) /\ UNCHANGED <<indexes, faults>>
     \/ Fault /\ UNCHANGED indexes
     \/ Fault /\ Buildable(next[i]) /\ indexes' = indexes \cup {next[i]}
  /\ gaps' = TRUE
  /\ Goes(i, "seed")
  /\ UNCHANGED <<next, found, accounts, history, starts, requests>>

\* EnsureAdmin reads the account under the address, any one if there are more.
SeedRead(i) ==
  /\ at[i] = "seed"
  /\ \/ Under(Seed) = {} /\ Goes(i, "register") /\ UNCHANGED found
     \/ \E a \in Under(Seed) :
          IF a \in admins THEN Goes(i, "config") /\ UNCHANGED found
                          ELSE Goes(i, "promote") /\ found' = [found EXCEPT ![i] = a]
  /\ overtaken' = overtaken \ {i}
  /\ UNCHANGED <<next, indexes, email, admins, history, starts, requests, counts>>

\* Slip: an update by id that inserts what it does not find.
PromoteUpserts(i) ==
  /\ at[i] = "promote"
  /\ admins' = admins \cup {found[i]}
  /\ found' = [found EXCEPT ![i] = None]
  /\ Goes(i, "config")
  /\ UNCHANGED <<next, indexes, email, overtaken, history, starts, requests, counts>>

\* An update by id, which may match nothing by now.
Promote(i) ==
  /\ at[i] = "promote"
  /\ admins' = IF email[found[i]] \in Emails THEN admins \cup {found[i]} ELSE admins
  /\ found' = [found EXCEPT ![i] = None]
  /\ Goes(i, "config")
  /\ UNCHANGED <<next, indexes, email, overtaken, history, starts, requests, counts>>

\* Slip: Register gives everybody the role of a user.
RegisterAsUser(i, a) ==
  /\ at[i] = "register"
  /\ email[a] = None /\ FreeFor(Seed, a)
  /\ email' = [email EXCEPT ![a] = Seed]
  /\ Goes(i, "config")
  /\ UNCHANGED <<next, found, indexes, admins, overtaken, history, starts, requests, counts>>

Register(i, a) ==
  /\ at[i] = "register"
  /\ email[a] = None /\ FreeFor(Seed, a)
  /\ email'  = [email EXCEPT ![a] = Seed]
  /\ admins' = admins \cup {a}
  /\ Goes(i, "config")
  /\ UNCHANGED <<next, found, indexes, overtaken, history, starts, requests, counts>>

\* "A duplicate means a concurrent start won the race", or a visitor did.
RegisterRefused(i) ==
  /\ at[i] = "register"
  /\ Has(UsersByEmail) /\ Under(Seed) # {}
  /\ Goes(i, "config")
  /\ UNCHANGED <<next, found, indexes, accounts, history, starts, requests, counts>>

\* A call of EnsureAdmin fails: logged.
SeedFails(i) ==
  /\ at[i] \in {"seed", "promote", "register"}
  /\ Fault
  /\ found' = [found EXCEPT ![i] = None]
  /\ Goes(i, "config")
  /\ UNCHANGED <<next, indexes, accounts, history, starts, requests, gaps>>

\* The rest of New: ticket codes and holds, subjects of other modules, and
\* payment.New, which is the one thing that can still refuse: the error stays
\* with the instance, every request of which is answered 500.
Configured(i) ==
  /\ at[i] = "config"
  /\ Goes(i, "serving") \/ Goes(i, "broken")
  /\ UNCHANGED <<next, found, indexes, accounts, history, starts, requests, counts>>

\* An instance crashes or is recycled.
Stop(i) ==
  /\ at[i] # "off"
  /\ Goes(i, "off")
  /\ found' = [found EXCEPT ![i] = None]
  /\ UNCHANGED <<next, indexes, accounts, history, starts, requests, counts>>

-----------------------------------------------------------------------------
(***************************************************************************)
(* What is served meanwhile.                                               *)
(***************************************************************************)
Request == Serving /\ requests < MaxRequests /\ requests' = requests + 1

\* Reads of the account under Seed that are about to be acted on.
Acting == {i \in Instances : at[i] \in {"promote", "register"}}

\* Register, UpdateMe, UpdateUser and DeleteUser, in the write that matters:
\* an address, or none any more, and a role.
WriteAccount(a, m, admin) ==
  /\ Request
  /\ email[a] # Gone
  /\ IF m = Gone THEN email[a] # None /\ ~admin ELSE FreeFor(m, a)
  /\ email'  = [email EXCEPT ![a] = m]
  /\ admins' = IF admin THEN admins \cup {a} ELSE admins \ {a}
  /\ overtaken' = IF Seed \in {m, email[a]} THEN overtaken \cup Acting ELSE overtaken
  /\ UNCHANGED <<instance, indexes, history, counts>>

\* The upsert of RecordSearch finds no row; one that finds a row only sets its
\* time.
SearchMisses(t) ==
  /\ Request
  /\ terms = {} /\ t \notin searching
  /\ searching' = searching \cup {t}
  /\ UNCHANGED <<instance, indexes, accounts, terms, counts>>

\* It inserts one, unless the index refuses: then it sets the time after all.
SearchInserts(t) ==
  /\ t \in searching
  /\ terms' = IF Has(TermsOnce) /\ terms # {} THEN terms ELSE terms \cup {t}
  /\ searching' = searching \ {t}
  /\ UNCHANGED <<instance, indexes, accounts, requests, counts>>

\* ForgetSearch takes one row, ClearSearches all of them.
Forget(gone) ==
  /\ gone # {} /\ gone \subseteq terms
  /\ (\E t \in terms : gone = {t}) \/ gone = terms
  /\ terms' = terms \ gone
  /\ Request
  /\ UNCHANGED <<instance, indexes, accounts, searching, counts>>

-----------------------------------------------------------------------------
InstanceStep(i) ==
  \/ Start(i) \/ BuildIndex(i) \/ IndexFails(i)
  \/ SeedRead(i) \/ Promote(i) \/ RegisterRefused(i) \/ SeedFails(i)
  \/ \E a \in Accounts : Register(i, a)
  \/ Configured(i) \/ Stop(i)

Next ==
  \/ \E i \in Instances : InstanceStep(i)
  \/ \E a \in Accounts, m \in Emails \cup {Gone}, admin \in BOOLEAN : WriteAccount(a, m, admin)
  \/ \E t \in Terms : SearchMisses(t) \/ SearchInserts(t)
  \/ \E gone \in SUBSET terms : Forget(gone)

Spec == Init /\ [][Next]_vars

-----------------------------------------------------------------------------
(***************************************************************************)
(* Properties.                                                             *)
(***************************************************************************)

\* TypeOK: every variable keeps its shape; only accounts that exist are
\* administrators, and an account to promote was read.
TypeOK ==
  /\ at \in [Instances -> {"off", "index", "seed", "promote", "register", "config",
                           "serving", "broken"}]
  /\ next \in [Instances -> 1 .. Last]
  /\ found \in [Instances -> Accounts \cup {None}]
  /\ \A i \in Instances : at[i] = "promote" <=> found[i] # None
  /\ indexes \subseteq 1 .. Last
  /\ email \in [Accounts -> Emails \cup {None, Gone}]
  /\ admins \subseteq Accounts /\ \A a \in admins : email[a] \in Emails
  /\ terms \subseteq Terms /\ searching \subseteq Terms
  /\ starts \in 0 .. MaxStarts /\ requests \in 0 .. MaxRequests /\ faults \in 0 .. MaxFaults
  /\ gaps \in BOOLEAN
  /\ overtaken \subseteq Instances

\* SharedNeedsAGap: best effort means this much: as long as no start has been
\* cut short, no two accounts share an address, no term is kept twice, and
\* every instance serves with all indexes.  After one has, rows can be shared,
\* and then no start brings the indexes behind that one: with a shared address
\* there is none at all, so that sign-ins do not expire either.
SharedNeedsAGap ==
  /\ ~gaps => ~SharedEmail /\ ~SharedTerm /\ (Serving => indexes = 1 .. Last)
  /\ SharedEmail => indexes = {}
  /\ SharedTerm => \A n \in indexes : n < TermsOnce

\* What makes SharedNeedsAGap inductive: there is no index without those before
\* it, a start that is building has those before its next, one that is through,
\* and whatever was served then, has them all unless some start was cut short,
\* and the unique ones do their work.
Started(i) == at[i] \notin {"off", "index"}

IndexesInOrder ==
  /\ \A n \in indexes : 1 .. n \subseteq indexes
  /\ \A i \in Instances : at[i] = "index" => \A n \in 1 .. Last : n < next[i] => Has(n)
  /\ ~gaps => \A i \in Instances : Started(i) => indexes = 1 .. Last
  /\ ~gaps /\ searching # {} => indexes = 1 .. Last
  /\ Has(UsersByEmail) => ~SharedEmail
  /\ Has(TermsOnce) => ~SharedTerm
  /\ ~gaps => ~SharedEmail /\ ~SharedTerm

\* What EnsureAdmin leaves behind when no call failed and no request came
\* between its read and its write.
SeedsAdmin ==
  \A i \in Instances :
    /\ at[i] \in {"seed", "promote", "register"} /\ at'[i] = "config"
    /\ i \notin overtaken /\ faults' = faults
    => Under(Seed)' \cap admins' # {}

\* AdminIsSeeded: after such a start there is "someone to sign in as": an
\* account under the address is an administrator, also when several instances
\* start at once and when there is no index to make them agree.
AdminIsSeeded == [][SeedsAdmin]_vars
=============================================================================
