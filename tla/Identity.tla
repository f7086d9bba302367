------------------------------ MODULE Identity ------------------------------
(***************************************************************************)
(* Accounts, sign-in and sessions: the login handler with its limiter,     *)
(* OIDC sign-in and the desktop handoff, and user administration           *)
(* (internal/server/auth.go, oidc_login.go, users.go,                      *)
(* internal/store/store.go and user_admin.go).                             *)
(*                                                                         *)
(* A request is a goroutine.  SQLite has one connection, so a transaction  *)
(* is one step; on PostgreSQL the statements of two transactions           *)
(* interleave, each reading what is committed.                             *)
(***************************************************************************)
EXTENDS Naturals, FiniteSets

CONSTANTS
    Request,      \* bound: the requests that arrive, each handled once
    User,         \* the human accounts
    Oidc,         \* those that the first OIDC sign-in creates
    Bootstrap,    \* the account of TINTWIRE_READER_USERNAME
    Handoff,      \* codes of desktop sign-ins
    Scenarios,    \* sets of requests that are made together
    LoginLimit,   \* failures per address and user in a minute: 8
    AddressLimit, \* failures per address in a minute: 40
    MaxPauses,    \* bound: how often ten minutes pass
    MaxRestarts   \* bound: starts of the server after the first

\* The requests that change state, with what they carry.
Ask ==
    [kind : {"login"}, user : User, pass : Nat]
    \cup [kind : {"logout", "oidc"}, user : User]
    \cup [kind : {"desktop"}, user : User, handoff : Handoff]
    \cup [kind : {"finish"}, handoff : Handoff, approve : BOOLEAN]
    \cup [kind : {"exchange"}, handoff : Handoff]
    \cup [kind : {"admin"}, by : User, user : User,
          op : {"create", "promote", "demote", "disable", "enable", "reset", "revoke"}]

ASSUME IdentityAssumptions ==
    /\ IsFiniteSet(Request)
    /\ Oidc \subseteq User /\ Bootstrap \in User \ Oidc
    /\ \A asks \in Scenarios : asks \subseteq Ask
    /\ LoginLimit \in Nat \ {0} /\ AddressLimit \in Nat \ {0}
    /\ MaxPauses \in Nat /\ MaxRestarts \in Nat

None == [none |-> TRUE]

VARIABLES
    sqlite,    \* the back end
    asked,     \* the requests of this behaviour: one of Scenarios
    account,   \* users: [admin, disabled, pass], or None
    session,   \* sessions: [id, user, via, from, since]
    confirm,   \* oidc_desktop_confirmations by handoff
    fails,     \* the limiter: failures per user in the current minute
    address,   \* the limiter: failures of the address
    req,       \* req[r]: what request r asks for and how far it is
    running,   \* the server is running
    pauses, restarts,
    revoked,   \* history: revoked[u], how often u's sessions were deleted
    caught,    \* history: <<x, u>>, request or handoff x was under way when u
               \* was revoked
    guesses,   \* history: passwords found wrong in this minute, by user
    overlaps,  \* history: logins that began while another was in progress
    approved,  \* history: how often a handoff was approved
    exchanged  \* history: how often a handoff became a session

users == <<account, session, confirm>>
limiter == <<fails, address, guesses, overlaps>>
handoffs == <<approved, exchanged>>
fixed == <<sqlite, asked, running, pauses, restarts>>
vars == <<users, limiter, handoffs, fixed, req, revoked, caught>>

Idle == [what |-> None, pc |-> "idle", user |-> None, from |-> 0]
Account(a) == [admin |-> a, disabled |-> FALSE, pass |-> 0]

Init ==
    /\ sqlite \in BOOLEAN
    /\ asked \in Scenarios
    /\ \E P \in SUBSET (User \ Oidc) : \E A \in SUBSET P :
         /\ Bootstrap \in A
         /\ account = [u \in User |-> IF u \in P THEN Account(u \in A) ELSE None]
         /\ session = {[id |-> u, user |-> u, via |-> None, from |-> 0, since |-> 0] : u \in P}
    /\ confirm = [h \in Handoff |-> None]
    /\ fails = [u \in User |-> 0] /\ address = 0
    /\ req = [r \in Request |-> Idle]
    /\ running = TRUE /\ pauses = 0 /\ restarts = 0
    /\ revoked = [u \in User |-> 0] /\ caught = {}
    /\ guesses = [u \in User |-> 0] /\ overlaps = 0
    /\ approved = [h \in Handoff |-> 0] /\ exchanged = [h \in Handoff |-> 0]

Live(r) == req[r].pc \notin {"idle", "done"}
Enabled(u) == account[u] # None /\ ~ account[u].disabled
Step(r, pc) == req' = [req EXCEPT ![r].pc = pc]
End(r) == req' = [req EXCEPT ![r].pc = "done"]

\* A request of this kind arrives and goes to its first step.
Arrive(r, kind, pc) ==
    /\ req[r].pc = "idle" /\ running
    /\ \E w \in {v \in asked : v.kind = kind} :
         req' = [req EXCEPT ![r].what = w, ![r].pc = pc]

-----------------------------------------------------------------------------
(***************************************************************************)
(* Password login.                                                         *)
(***************************************************************************)
Blocked_OneMore(u) == fails[u] > LoginLimit \/ address > AddressLimit

Blocked(u) == fails[u] >= LoginLimit \/ address >= AddressLimit

Login(r) ==
    /\ req[r].pc = "idle" /\ running
    /\ \E w \in {v \in asked : v.kind = "login"} :
         req' = [req EXCEPT ![r].what = w, ![r].pc = IF Blocked(w.user) THEN "done" ELSE "auth"]
    /\ overlaps' = IF \E q \in Request : Live(q) /\ req[q].what.kind = "login"
                   THEN overlaps + 1 ELSE overlaps
    /\ UNCHANGED <<users, handoffs, fixed, revoked, caught, fails, address, guesses>>

\* AuthenticateUser.  A right password clears the user's failures.
AuthenticateUser(r) ==
    /\ req[r].pc = "auth"
    /\ LET u == req[r].what.user IN
       \/ /\ Enabled(u) /\ account[u].pass = req[r].what.pass
          /\ req' = [req EXCEPT ![r].pc = "create", ![r].user = u, ![r].from = revoked[u]]
          /\ fails' = [fails EXCEPT ![u] = 0]
          /\ guesses' = [guesses EXCEPT ![u] = 0]
       \/ /\ ~ (Enabled(u) /\ account[u].pass = req[r].what.pass)
          /\ Step(r, "fail")
          /\ guesses' = [guesses EXCEPT ![u] = @ + 1]
          /\ fails' = fails
    /\ UNCHANGED <<users, handoffs, fixed, revoked, caught, address, overlaps>>

RecordFailure(r) ==
    /\ req[r].pc = "fail"
    /\ fails' = [fails EXCEPT ![req[r].what.user] = @ + 1]
    /\ address' = address + 1
    /\ End(r)
    /\ UNCHANGED <<users, handoffs, fixed, revoked, caught, guesses, overlaps>>

-----------------------------------------------------------------------------
(***************************************************************************)
(* Sessions.                                                               *)
(***************************************************************************)
\* from: revocations of the user when the identity was established;
\* since: when the row was inserted.
Session(r) == [id |-> r, user |-> req[r].user, via |-> None, from |-> req[r].from,
               since |-> revoked[req[r].user]]

\* INSERT ... SELECT ... WHERE disabled_at IS NULL.
CreateSession(r) ==
    /\ req[r].pc = "create"
    /\ IF Enabled(req[r].user) /\ sqlite
       THEN session' = session \cup {Session(r)} /\ End(r)
       ELSE session' = session /\ Step(r, IF Enabled(req[r].user) THEN "commit" ELSE "done")
    /\ UNCHANGED <<account, confirm, limiter, handoffs, fixed, revoked, caught>>

\* PostgreSQL: what the statement selected may have changed when it commits.
CommitSession(r) ==
    /\ req[r].pc = "commit"
    /\ session' = session \cup {Session(r)}
    /\ End(r)
    /\ UNCHANGED <<account, confirm, limiter, handoffs, fixed, revoked, caught>>

\* The browser of a user ends the session of its cookie.
Logout(r) ==
    /\ Arrive(r, "logout", "done")
    /\ \E s \in {t \in session : t.user = req'[r].what.user} : session' = session \ {s}
    /\ UNCHANGED <<account, confirm, limiter, handoffs, fixed, revoked, caught>>

-----------------------------------------------------------------------------
(***************************************************************************)
(* OIDC and the desktop handoff.                                           *)
(***************************************************************************)
\* The provider has authenticated the subject: a sign-in in the browser, or
\* one for the desktop client, which carries a handoff.
OidcCallback(r) ==
    /\ Arrive(r, "oidc", "find") \/ Arrive(r, "desktop", "find")
    /\ UNCHANGED <<users, limiter, handoffs, fixed, revoked, caught>>

Identified(r, u) ==
    req' = [req EXCEPT ![r].user = u, ![r].from = revoked[u],
                       ![r].pc = IF req[r].what.kind = "oidc" THEN "create" ELSE "confirm"]

\* FindOrCreateOIDCUser: the lookup by subject.
FindOIDCUser(r) ==
    /\ req[r].pc = "find"
    /\ LET u == req[r].what.user IN
       IF account[u] = None THEN Step(r, "new")
       ELSE IF account[u].disabled THEN End(r)
       ELSE Identified(r, u)
    /\ UNCHANGED <<users, limiter, handoffs, fixed, revoked, caught>>

\* The INSERT of a new account, refused if another sign-in was first.
CreateOIDCUser(r) ==
    /\ req[r].pc = "new"
    /\ LET u == req[r].what.user IN
       \/ /\ account[u] = None
          /\ account' = [account EXCEPT ![u] = Account(FALSE)]
          /\ Identified(r, u)
       \/ /\ account[u] # None
          /\ account' = account
          /\ End(r)
    /\ UNCHANGED <<session, confirm, limiter, handoffs, fixed, revoked, caught>>

\* CreateOIDCDesktopConfirmation: expired rows go, a known handoff is refused.
CreateConfirmation(r) ==
    /\ req[r].pc = "confirm"
    /\ LET h == req[r].what.handoff
           kept == [g \in Handoff |-> IF confirm[g] # None /\ confirm[g].old
                                      THEN None ELSE confirm[g]]
       IN confirm' = IF kept[h] = None /\ Enabled(req[r].user)
                     THEN [kept EXCEPT ![h] = [user |-> req[r].user, status |-> "pending",
                                               old |-> FALSE, from |-> req[r].from]]
                     ELSE kept
    /\ End(r)
    /\ UNCHANGED <<account, session, limiter, handoffs, fixed, revoked, caught>>

Pending(h) == confirm[h] # None /\ confirm[h].status = "pending" /\ ~ confirm[h].old

\* The user compares the codes and approves or cancels: one UPDATE.
FinishConfirmation(r) ==
    /\ Arrive(r, "finish", "done")
    /\ LET h == req'[r].what.handoff
           status == IF req'[r].what.approve THEN "approved" ELSE "cancelled"
       IN IF Pending(h)
          THEN /\ confirm' = [confirm EXCEPT ![h].status = status]
               /\ approved' = IF status = "approved" THEN [approved EXCEPT ![h] = @ + 1]
                                                    ELSE approved
          ELSE UNCHANGED <<confirm, approved>>
    /\ UNCHANGED <<account, session, limiter, exchanged, fixed, revoked, caught>>

Ready(h) == confirm[h] # None /\ confirm[h].status = "approved" /\ ~ confirm[h].old

Exchanged_Keep(r, h) ==
    /\ confirm' = confirm
    /\ session' = session \cup {[id |-> r, user |-> confirm[h].user, via |-> h,
                                 from |-> confirm[h].from, since |-> revoked[confirm[h].user]]}
    /\ exchanged' = [exchanged EXCEPT ![h] = @ + 1]

\* The confirmation is deleted and the session inserted, or neither.
Exchanged(r, h) ==
    /\ confirm' = [confirm EXCEPT ![h] = None]
    /\ session' = session \cup {[id |-> r, user |-> confirm[h].user, via |-> h,
                                 from |-> confirm[h].from, since |-> revoked[confirm[h].user]]}
    /\ exchanged' = [exchanged EXCEPT ![h] = @ + 1]

\* ExchangeOIDCDesktopHandoff, polled by the desktop client.  The DELETE looks
\* at the row again and locks it, so that this is one step on PostgreSQL too.
Exchange(r) ==
    /\ Arrive(r, "exchange", "done")
    /\ LET h == req'[r].what.handoff IN
       IF Ready(h)
       THEN IF Enabled(confirm[h].user) THEN Exchanged(r, h)
            ELSE UNCHANGED <<confirm, session, exchanged>>
       ELSE UNCHANGED <<confirm, session, exchanged>>
    /\ UNCHANGED <<account, limiter, approved, fixed, revoked, caught>>

-----------------------------------------------------------------------------
(***************************************************************************)
(* User administration.                                                    *)
(***************************************************************************)
\* requireReader and adminActor: the actor as it is when the request arrives.
AdminRequest(r) ==
    /\ req[r].pc = "idle" /\ running
    /\ \E w \in {v \in asked : v.kind = "admin"} :
         /\ \E s \in session : s.user = w.by
         /\ req' = [req EXCEPT ![r].what = w,
                ![r].pc = IF Enabled(w.by) /\ account[w.by].admin THEN "mutate" ELSE "done"]
    /\ UNCHANGED <<users, limiter, handoffs, fixed, revoked, caught>>

Others_Disabled(u) == {v \in User \ {u} : account[v] # None /\ account[v].admin}

\* The enabled administrators besides u.
Others(u) == {v \in User \ {u} : Enabled(v) /\ account[v].admin}

\* What the transaction refuses after looking at the account.
Refused(w) ==
    \/ account[w.user] = None /\ w.op # "create"
    \/ account[w.user] # None /\ w.op = "create"
    \/ w.op = "demote" /\ account[w.user].admin /\ Others(w.user) = {}
    \/ w.op = "disable" /\ w.by = w.user
    \/ w.op = "disable" /\ account[w.user].admin /\ Enabled(w.user) /\ Others(w.user) = {}
    \/ w.op = "reset" /\ w.user \in Oidc

Changed(w) ==
    LET a == account[w.user] IN
    CASE w.op = "create" -> Account(FALSE)
      [] w.op \in {"promote", "demote"} -> [a EXCEPT !.admin = w.op = "promote"]
      [] w.op \in {"disable", "enable"} -> [a EXCEPT !.disabled = w.op = "disable"]
      [] w.op = "reset" -> [a EXCEPT !.pass = @ + 1]
      [] OTHER -> a

SessionsAfter_KeepOnReset(w) ==
    IF w.op \in {"disable", "revoke"} THEN {s \in session : s.user # w.user} ELSE session

\* Disabling, a new password and a revocation delete the account's sessions.
SessionsAfter(w) ==
    IF w.op \in {"disable", "reset", "revoke"} THEN {s \in session : s.user # w.user} ELSE session

Revokes(w) == w.op \in {"disable", "reset", "revoke"}

\* Sign-ins and desktop handoffs of u that are not finished.
UnderWay(u) ==
    LET R == {r \in Request : Live(r) /\ req[r].what.kind # "admin" /\ req[r].what.user = u}
        H == {h \in Handoff : \/ confirm[h] # None /\ confirm[h].user = u
                              \/ \E r \in R : req[r].what.kind = "desktop"
                                             /\ req[r].what.handoff = h}
    IN  (R \cup H) \X {u}

Write(r) ==
    LET w == req[r].what IN
    /\ account' = [account EXCEPT ![w.user] = Changed(w)]
    /\ session' = SessionsAfter(w)
    /\ revoked' = IF Revokes(w) THEN [revoked EXCEPT ![w.user] = @ + 1] ELSE revoked
    /\ caught' = IF Revokes(w) THEN caught \cup UnderWay(w.user) ELSE caught
    /\ End(r)

\* SetManagedUserAdmin, SetManagedUserDisabled, ResetManagedUserPassword,
\* RevokeManagedUserSessions and CreateUser.  PostgreSQL writes later, but the
\* creation is one INSERT there too.
Mutate(r) ==
    /\ req[r].pc = "mutate"
    /\ IF Refused(req[r].what) THEN End(r) /\ UNCHANGED <<account, session, revoked, caught>>
       ELSE IF sqlite \/ req[r].what.op = "create" THEN Write(r)
       ELSE Step(r, "write") /\ UNCHANGED <<account, session, revoked, caught>>
    /\ UNCHANGED <<confirm, limiter, handoffs, fixed>>

MutateWrites(r) ==
    /\ req[r].pc = "write"
    /\ Write(r)
    /\ UNCHANGED <<confirm, limiter, handoffs, fixed>>

-----------------------------------------------------------------------------
(***************************************************************************)
(* Time and restarts.                                                      *)
(***************************************************************************)
\* Ten minutes pass: confirmations expire and the limiter's windows end.
Pause ==
    /\ pauses < MaxPauses
    /\ \A r \in Request : ~ Live(r)
    /\ \E r \in Request : req[r].pc = "idle"
    /\ pauses' = pauses + 1
    /\ confirm' = [h \in Handoff |-> IF confirm[h] = None THEN None
                                     ELSE [confirm[h] EXCEPT !.old = TRUE]]
    /\ fails' = [u \in User |-> 0] /\ address' = 0
    /\ guesses' = [u \in User |-> 0] /\ overlaps' = 0
    /\ UNCHANGED <<sqlite, asked, account, session, req, running, restarts, handoffs,
                   revoked, caught>>

\* The server is started again with its old TINTWIRE_READER_PASSWORD:
\* BootstrapUser promotes the account again, or refuses to start on SQLite
\* if the password was reset.
Restart ==
    /\ restarts < MaxRestarts
    /\ restarts' = restarts + 1
    /\ req' = [r \in Request |-> IF Live(r) THEN [Idle EXCEPT !.pc = "done"] ELSE req[r]]
    /\ IF account[Bootstrap].pass = 0
       THEN account' = [account EXCEPT ![Bootstrap].admin = TRUE] /\ running' = running
       ELSE account' = account /\ running' = ~ sqlite
    /\ fails' = [u \in User |-> 0] /\ address' = 0
    /\ guesses' = [u \in User |-> 0] /\ overlaps' = 0
    /\ UNCHANGED <<sqlite, asked, session, confirm, pauses, handoffs, revoked, caught>>

Next ==
    \/ \E r \in Request :
         \/ Login(r) \/ AuthenticateUser(r) \/ RecordFailure(r)
         \/ CreateSession(r) \/ CommitSession(r) \/ Logout(r)
         \/ OidcCallback(r) \/ FindOIDCUser(r) \/ CreateOIDCUser(r)
         \/ CreateConfirmation(r) \/ FinishConfirmation(r) \/ Exchange(r)
         \/ AdminRequest(r) \/ Mutate(r) \/ MutateWrites(r)
    \/ Pause
    \/ Restart

Spec == Init /\ [][Next]_vars

-----------------------------------------------------------------------------
(***************************************************************************)
(* Properties.                                                             *)
(***************************************************************************)

AccountRow == [admin : BOOLEAN, disabled : BOOLEAN, pass : Nat]
SessionRow == [id : Request \cup User, user : User, via : Handoff \cup {None},
               from : Nat, since : Nat]
ConfirmRow == [user : User, status : {"pending", "approved", "cancelled"}, old : BOOLEAN,
               from : Nat]
RequestState == [what : Ask \cup {None}, user : User \cup {None}, from : Nat,
                 pc : {"idle", "auth", "fail", "create", "commit", "find", "new", "confirm",
                       "mutate", "write", "done"}]

\* Types; a session and a confirmation belong to an account.
TypeOK ==
    /\ sqlite \in BOOLEAN /\ running \in BOOLEAN /\ asked \in Scenarios
    /\ pauses \in Nat /\ restarts \in Nat
    /\ account \in [User -> AccountRow \cup {None}] /\ account[Bootstrap] # None
    /\ session \subseteq SessionRow
    /\ \A s \in session : account[s.user] # None /\ s.from <= s.since
    /\ confirm \in [Handoff -> ConfirmRow \cup {None}]
    /\ \A h \in Handoff : confirm[h] # None => account[confirm[h].user] # None
    /\ fails \in [User -> Nat] /\ address \in Nat
    /\ guesses \in [User -> Nat] /\ overlaps \in Nat
    /\ req \in [Request -> RequestState]
    /\ revoked \in [User -> Nat]
    /\ approved \in [Handoff -> Nat] /\ exchanged \in [Handoff -> Nat]

\* On SQLite an enabled administrator remains, also when administrators demote
\* and disable one another at the same time (SetManagedUserAdmin,
\* SetManagedUserDisabled).
AnAdministratorRemains ==
    sqlite => \E u \in User : Enabled(u) /\ account[u].admin

\* On SQLite a disabled account has no session, and a session from before the
\* last disabling, reset or revocation of its user is gone.  One may come from
\* an earlier identification: the request or the desktop handoff was then under
\* way at that moment.
RevocationHolds ==
    \A s \in session :
        /\ sqlite => Enabled(s.user) /\ s.since = revoked[s.user]
        /\ s.from < revoked[s.user] => {<<s.id, s.user>>, <<s.via, s.user>>} \cap caught # {}

\* Every approval in the browser gives at most one desktop session, and
\* without an approval there is none (ExchangeOIDCDesktopHandoff).
OneSessionPerApproval ==
    \A h \in Handoff : exchanged[h] <= approved[h]

\* In a minute an account sees no more wrong passwords than the limit and the
\* logins that overlapped with another one (limiter.blocked, recordFailure).
GuessesBounded ==
    \A u \in User : guesses[u] <= LoginLimit + overlaps

=============================================================================
