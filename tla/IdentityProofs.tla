--------------------------- MODULE IdentityProofs ---------------------------
(***************************************************************************)
(* Proofs about Identity, for every set of users, handoffs and requests    *)
(* and every limit.                                                        *)
(***************************************************************************)
EXTENDS Identity, FiniteSetTheorems, TLAPS

\* What a request asks for and whom it has identified agree with how far the
\* handler is; two transactions overlap on PostgreSQL only.
Handler(r) ==
    LET q == req[r] IN
    /\ q.pc \notin {"idle", "done"} => q.what \in Ask
    /\ q.pc \in {"auth", "fail"} => q.what.kind = "login"
    /\ q.pc \in {"find", "new"} => q.what.kind \in {"oidc", "desktop"}
    /\ q.pc \in {"create", "commit"} => q.what.kind \in {"login", "oidc"}
    /\ q.pc = "confirm" => q.what.kind = "desktop"
    /\ q.pc \in {"create", "commit", "confirm"} =>
         q.user = q.what.user /\ account[q.user] # None
    /\ q.pc \in {"mutate", "write"} => q.what.kind = "admin"
    /\ q.pc = "write" => account[q.what.user] # None /\ q.what.op # "create"
    /\ q.pc \in {"commit", "write"} => ~ sqlite

\* An identity that a request or a confirmation carries is not newer than the
\* last revocation, and an older one was under way at that revocation.
Carried(r) ==
    LET q == req[r] IN
    q.pc \in {"create", "commit", "confirm"} =>
        /\ q.from <= revoked[q.user]
        /\ q.from < revoked[q.user] =>
             /\ <<r, q.user>> \in caught
             /\ q.pc = "confirm" => <<q.what.handoff, q.user>> \in caught

Confirmed(h) ==
    confirm[h] # None =>
        /\ confirm[h].from <= revoked[confirm[h].user]
        /\ confirm[h].from < revoked[confirm[h].user] => <<h, confirm[h].user>> \in caught

\* An approved confirmation that is not exchanged is one session to come.
ApprovedNow(h) == IF confirm[h] # None /\ confirm[h].status = "approved" THEN 1 ELSE 0
Approvals == \A h \in Handoff : exchanged[h] + ApprovedNow(h) <= approved[h]

\* The logins of u that passed the limiter, and those about to be recorded.
Trying(u) == {r \in Request : req[r].pc = "auth" /\ req[r].what.user = u}
Failing(u) == {r \in Request : req[r].pc = "fail" /\ req[r].what.user = u}

Budget(u) ==
    /\ guesses[u] + Cardinality(Trying(u)) <= LoginLimit + overlaps
    /\ guesses[u] <= fails[u] + Cardinality(Failing(u))

IInv ==
    /\ TypeOK
    /\ \A r \in Request : Handler(r) /\ Carried(r)
    /\ \A h \in Handoff : Confirmed(h)
    /\ AnAdministratorRemains
    /\ RevocationHolds
    /\ Approvals
    /\ \A u \in User : Budget(u)

-----------------------------------------------------------------------------
(***************************************************************************)
(* Rows, requests and the moves of a handler.                              *)
(***************************************************************************)
Pc == {"idle", "auth", "fail", "create", "commit", "find", "new", "confirm",
       "mutate", "write", "done"}

\* The absent row is not a row, nor a request.
LEMMA NoneIsNoRow ==
    None \notin AccountRow /\ None \notin ConfirmRow /\ None \notin Ask
<1>1. DOMAIN None = {"none"}
  BY Zenon DEF None
<1>2. \A a \in AccountRow : "admin" \in DOMAIN a
  BY Zenon DEF AccountRow
<1>3. \A a \in ConfirmRow : "user" \in DOMAIN a
  BY Zenon DEF ConfirmRow
<1>4. \A a \in Ask : "kind" \in DOMAIN a
  BY Zenon DEF Ask
<1> QED
  BY <1>1, <1>2, <1>3, <1>4, Zenon

\* The fields that a request carries, by its kind.
LEMMA AskTypes ==
    ASSUME NEW w \in Ask
    PROVE  /\ w.kind \in {"login", "logout", "oidc", "desktop", "finish", "exchange", "admin"}
           /\ w.kind \in {"login", "logout", "oidc", "desktop", "admin"} => w.user \in User
           /\ w.kind = "login" => w.pass \in Nat
           /\ w.kind \in {"desktop", "finish", "exchange"} => w.handoff \in Handoff
           /\ w.kind = "finish" => w.approve \in BOOLEAN
           /\ w.kind = "admin" => w.by \in User /\ w.op \in
                {"create", "promote", "demote", "disable", "enable", "reset", "revoke"}
BY Zenon DEF Ask

\* The state of request r is replaced and nothing else in req.
Moved(r, what, user, from, pc) ==
    /\ req' \in [Request -> RequestState]
    /\ \A q \in Request : q # r => req'[q] = req[q]
    /\ req'[r].what = what /\ req'[r].user = user /\ req'[r].from = from /\ req'[r].pc = pc

\* Step and End change how far a handler is.
LEMMA StepMoves ==
    ASSUME TypeOK, NEW r \in Request, NEW pc \in Pc, req' = [req EXCEPT ![r].pc = pc]
    PROVE  Moved(r, req[r].what, req[r].user, req[r].from, pc)
<1>1. req \in [Request -> RequestState]
  BY Zenon DEF TypeOK
<1>2. req' \in [Request -> RequestState]
  BY <1>1, ZenonT(30) DEF RequestState, Pc
<1> QED
  BY <1>1, <1>2, Zenon DEF Moved, RequestState

\* A request arrives.
LEMMA ArriveMoves ==
    ASSUME TypeOK, NEW r \in Request, NEW pc \in Pc, NEW w \in Ask,
           req' = [req EXCEPT ![r].what = w, ![r].pc = pc]
    PROVE  Moved(r, w, req[r].user, req[r].from, pc)
<1>1. req \in [Request -> RequestState]
  BY Zenon DEF TypeOK
<1>2. req' \in [Request -> RequestState]
  BY <1>1, ZenonT(30) DEF RequestState, Pc
<1> QED
  BY <1>1, <1>2, ZenonT(30) DEF Moved, RequestState

\* A handler has identified the user.
LEMMA IdentifiedMoves ==
    ASSUME TypeOK, NEW r \in Request, NEW u \in User, NEW pc \in Pc,
           \/ req' = [req EXCEPT ![r].user = u, ![r].from = revoked[u], ![r].pc = pc]
           \/ req' = [req EXCEPT ![r].pc = pc, ![r].user = u, ![r].from = revoked[u]]
    PROVE  Moved(r, req[r].what, u, revoked[u], pc)
<1>1. req \in [Request -> RequestState] /\ revoked[u] \in Nat
  BY Zenon DEF TypeOK
<1>2. req' \in [Request -> RequestState]
  BY <1>1 DEF RequestState, Pc
<1> QED
  BY <1>1, <1>2 DEF Moved, RequestState

\* A request that arrives is one of those asked.
LEMMA ArrivesAs ==
    ASSUME TypeOK, NEW r \in Request, NEW kind, NEW pc \in Pc, Arrive(r, kind, pc)
    PROVE  \E w \in Ask : w.kind = kind /\ Moved(r, w, req[r].user, req[r].from, pc)
<1>1. PICK w \in {v \in asked : v.kind = kind} : req' = [req EXCEPT ![r].what = w, ![r].pc = pc]
  BY Zenon DEF Arrive
<1>2. w \in Ask
  BY <1>1, IdentityAssumptions, Zenon DEF TypeOK
<1> QED
  BY <1>1, <1>2, ArriveMoves, Zenon

\* The same for a login, which the limiter may end.
LEMMA LoginMoves ==
    ASSUME TypeOK, NEW r \in Request, Login(r)
    PROVE  \E w \in Ask : /\ w.kind = "login"
                          /\ Moved(r, w, req[r].user, req[r].from,
                                   IF Blocked(w.user) THEN "done" ELSE "auth")
<1>1. PICK w \in {v \in asked : v.kind = "login"} :
        req' = [req EXCEPT ![r].what = w, ![r].pc = IF Blocked(w.user) THEN "done" ELSE "auth"]
  BY Zenon DEF Login
<1>2. w \in Ask
  BY <1>1, IdentityAssumptions, Zenon DEF TypeOK
<1>3. (IF Blocked(w.user) THEN "done" ELSE "auth") \in Pc
  BY Zenon DEF Pc
<1> QED
  BY <1>1, <1>2, <1>3, ArriveMoves, Zenon

\* A request of an administrator goes to its transaction or ends.
LEMMA AdminMoves ==
    ASSUME TypeOK, NEW r \in Request, AdminRequest(r)
    PROVE  \E w \in Ask, pc \in {"mutate", "done"} :
             w.kind = "admin" /\ Moved(r, w, req[r].user, req[r].from, pc)
<1>1. PICK w \in {v \in asked : v.kind = "admin"} :
        req' = [req EXCEPT ![r].what = w,
                  ![r].pc = IF Enabled(w.by) /\ account[w.by].admin THEN "mutate" ELSE "done"]
  BY Zenon DEF AdminRequest
<1>2. w \in Ask
  BY <1>1, IdentityAssumptions, Zenon DEF TypeOK
<1>3. PICK pc \in {"mutate", "done"} :
        pc = IF Enabled(w.by) /\ account[w.by].admin THEN "mutate" ELSE "done"
  BY Zenon
<1>4. req' = [req EXCEPT ![r].what = w, ![r].pc = pc]
  BY <1>1, <1>3, Zenon
<1>5. pc \in Pc
  BY <1>3, Zenon DEF Pc
<1> QED
  BY <1>1, <1>2, <1>4, <1>5, ArriveMoves, Zenon

\* How far a password check brings the handler.
LEMMA AuthenticateMoves ==
    ASSUME TypeOK, NEW r \in Request, Handler(r), AuthenticateUser(r)
    PROVE  LET u == req[r].what.user IN
           /\ u \in User
           /\ \/ /\ Enabled(u)
                 /\ Moved(r, req[r].what, u, revoked[u], "create")
                 /\ fails' = [fails EXCEPT ![u] = 0] /\ guesses' = [guesses EXCEPT ![u] = 0]
              \/ /\ Moved(r, req[r].what, req[r].user, req[r].from, "fail")
                 /\ fails' = fails /\ guesses' = [guesses EXCEPT ![u] = @ + 1]
<1> DEFINE u == req[r].what.user
<1>1. u \in User
  BY AskTypes, Zenon DEF Handler, AuthenticateUser
<1>2. "create" \in Pc /\ "fail" \in Pc
  BY Zenon DEF Pc
<1>3. \/ /\ Enabled(u) 
         /\ req' = [req EXCEPT ![r].pc = "create", ![r].user = u, ![r].from = revoked[u]]
         /\ fails' = [fails EXCEPT ![u] = 0] /\ guesses' = [guesses EXCEPT ![u] = 0]
      \/ /\ req' = [req EXCEPT ![r].pc = "fail"]
         /\ fails' = fails /\ guesses' = [guesses EXCEPT ![u] = @ + 1]
  BY Zenon DEF AuthenticateUser, Step
<1> HIDE DEF u
<1>4. \/ /\ Enabled(u)
         /\ Moved(r, req[r].what, u, revoked[u], "create")
         /\ fails' = [fails EXCEPT ![u] = 0] /\ guesses' = [guesses EXCEPT ![u] = 0]
      \/ /\ Moved(r, req[r].what, req[r].user, req[r].from, "fail")
         /\ fails' = fails /\ guesses' = [guesses EXCEPT ![u] = @ + 1]
  BY <1>1, <1>2, <1>3, StepMoves, IdentifiedMoves, Zenon
<1> QED
  BY <1>1, <1>4, Zenon DEF u

\* How far an identified user brings an OIDC sign-in.
LEMMA OidcMoves ==
    ASSUME TypeOK, NEW r \in Request, NEW u \in User, Identified(r, u)
    PROVE  Moved(r, req[r].what, u, revoked[u],
                 IF req[r].what.kind = "oidc" THEN "create" ELSE "confirm")
<1>1. (IF req[r].what.kind = "oidc" THEN "create" ELSE "confirm") \in Pc
  BY Zenon DEF Pc
<1> QED
  BY <1>1, IdentifiedMoves, Zenon DEF Identified

-----------------------------------------------------------------------------
(***************************************************************************)
(* Accounts.                                                               *)
(***************************************************************************)
\* Accounts are rows, and none disappears.
Stays ==
    /\ account' \in [User -> AccountRow \cup {None}]
    /\ \A u \in User : account[u] # None => account'[u] # None

\* A step that leaves the accounts alone.
LEMMA SameAccounts ==
    ASSUME TypeOK, account' = account
    PROVE  Stays
BY Zenon DEF TypeOK, Stays

\* What an administrator writes is a row.
LEMMA ChangedIsRow ==
    ASSUME TypeOK, NEW w \in Ask, w.kind = "admin",
           account[w.user] # None \/ w.op = "create"
    PROVE  Changed(w) \in AccountRow
<1> DEFINE a == account[w.user]
<1>1. w.user \in User /\ w.op \in {"create", "promote", "demote", "disable", "enable", "reset",
                                   "revoke"}
  BY AskTypes, Zenon
<1>2. CASE w.op = "create"
  BY <1>2, Zenon DEF Changed, Account, AccountRow
<1>3. CASE w.op # "create"
  <2>1. a \in AccountRow
    BY <1>1, <1>3, Zenon DEF TypeOK
  <2>2. w.op \in {"promote", "demote"} => Changed(w) = [a EXCEPT !.admin = w.op = "promote"]
    BY <1>3, Zenon DEF Changed
  <2>3. w.op \in {"disable", "enable"} => Changed(w) = [a EXCEPT !.disabled = w.op = "disable"]
    BY <1>3, Zenon DEF Changed
  <2>4. w.op = "reset" => Changed(w) = [a EXCEPT !.pass = a.pass + 1]
    BY <1>3, Zenon DEF Changed
  <2>5. w.op = "revoke" => Changed(w) = a
    BY <1>3, Zenon DEF Changed
  <2> HIDE DEF a
  <2>6. /\ [a EXCEPT !.admin = w.op = "promote"] \in AccountRow
        /\ [a EXCEPT !.disabled = w.op = "disable"] \in AccountRow
    BY <2>1, Zenon DEF AccountRow
  <2>7. [a EXCEPT !.pass = a.pass + 1] \in AccountRow
    <3>1. a.pass + 1 \in Nat
      BY <2>1 DEF AccountRow
    <3> QED
      BY <2>1, <3>1, Zenon DEF AccountRow
  <2> QED
    BY <1>1, <1>3, <2>1, <2>2, <2>3, <2>4, <2>5, <2>6, <2>7, Zenon
<1> QED
  BY <1>2, <1>3, Zenon

\* What a change of an account does to its flags.
LEMMA ChangedFlags ==
    ASSUME NEW w, NEW a, a = account[w.user], a \in AccountRow, w.op # "create"
    PROVE  /\ w.op = "disable" => Changed(w).disabled = TRUE
           /\ w.op = "enable" => Changed(w).disabled = FALSE
           /\ w.op \notin {"disable", "enable"} => Changed(w).disabled = a.disabled
           /\ w.op # "demote" => (a.admin => Changed(w).admin)
           /\ w.op = "demote" => ~ Changed(w).admin
<1>1. w.op \in {"promote", "demote"} => Changed(w) = [a EXCEPT !.admin = w.op = "promote"]
  BY Zenon DEF Changed
<1>2. w.op \in {"disable", "enable"} => Changed(w) = [a EXCEPT !.disabled = w.op = "disable"]
  BY Zenon DEF Changed
<1>3. w.op = "reset" => Changed(w) = [a EXCEPT !.pass = a.pass + 1]
  BY Zenon DEF Changed
<1>4. w.op \notin {"promote", "demote", "disable", "enable", "reset"} => Changed(w) = a
  BY Zenon DEF Changed
<1>5. CASE w.op \in {"promote", "demote"}
  BY <1>1, <1>5, Zenon DEF AccountRow
<1>6. CASE w.op \in {"disable", "enable"}
  BY <1>2, <1>6, Zenon DEF AccountRow
<1>7. CASE w.op = "reset"
  BY <1>3, <1>7, Zenon DEF AccountRow
<1>8. CASE w.op \notin {"promote", "demote", "disable", "enable", "reset"}
  BY <1>4, <1>8, Zenon
<1> QED
  BY <1>5, <1>6, <1>7, <1>8, Zenon

\* An administrator's request that reaches its write.
Writes(r) ==
    LET w == req[r].what IN
    /\ req[r].pc \in {"mutate", "write"} /\ w \in Ask /\ w.kind = "admin"
    /\ account[w.user] # None \/ w.op = "create"
    /\ account[w.user] # None => w.op # "create"
    /\ sqlite => ~ Refused(w)
    /\ Write(r)
    /\ Moved(r, w, req[r].user, req[r].from, "done")

\* What a transaction of user administration does: it ends, it goes on to its
\* write on PostgreSQL, or it writes.
LEMMA MutateCases ==
    ASSUME TypeOK, NEW r \in Request, Handler(r), Mutate(r) \/ MutateWrites(r)
    PROVE  \/ /\ Moved(r, req[r].what, req[r].user, req[r].from, "done")
              /\ UNCHANGED <<account, session, revoked, caught>>
           \/ /\ req[r].pc = "mutate" /\ ~ sqlite
              /\ account[req[r].what.user] # None /\ req[r].what.op # "create"
              /\ Moved(r, req[r].what, req[r].user, req[r].from, "write")
              /\ UNCHANGED <<account, session, revoked, caught>>
           \/ Writes(r)
<1> DEFINE w == req[r].what
<1>1. w \in Ask /\ w.kind = "admin"
  BY Zenon DEF Handler, Mutate, MutateWrites
<1>2. w.user \in User
  BY <1>1, AskTypes, Zenon
<1>3. "done" \in Pc /\ "write" \in Pc
  BY Zenon DEF Pc
<1>4. CASE Mutate(r)
  <2>1. CASE Refused(w)
    BY <1>3, <1>4, <2>1, StepMoves, Zenon DEF Mutate, End
  <2>2. CASE ~ Refused(w) /\ (sqlite \/ w.op = "create")
    <3>1. Write(r) /\ req[r].pc = "mutate"
      BY <1>4, <2>2, Zenon DEF Mutate
    <3>2. account[w.user] # None \/ w.op = "create"
      BY <2>2, Zenon DEF Refused
    <3>3. account[w.user] # None => w.op # "create"
      BY <2>2, Zenon DEF Refused
    <3>4. Moved(r, w, req[r].user, req[r].from, "done")
      BY <1>3, <3>1, StepMoves, Zenon DEF Write, End
    <3> QED
      BY <1>1, <2>2, <3>1, <3>2, <3>3, <3>4, Zenon DEF Writes
  <2>3. CASE ~ Refused(w) /\ ~ sqlite /\ w.op # "create"
    <3>1. account[w.user] # None
      BY <2>3, Zenon DEF Refused
    <3>2. Step(r, "write") /\ UNCHANGED <<account, session, revoked, caught>>
      BY <1>4, <2>3, Zenon DEF Mutate
    <3>3. Moved(r, w, req[r].user, req[r].from, "write")
      BY <1>3, <3>2, StepMoves, Zenon DEF Step
    <3> QED
      BY <1>4, <2>3, <3>1, <3>2, <3>3, Zenon DEF Mutate
  <2> QED
    BY <2>1, <2>2, <2>3, Zenon
<1>5. CASE MutateWrites(r)
  <2>1. /\ Write(r) /\ req[r].pc = "write" /\ ~ sqlite
        /\ account[w.user] # None /\ w.op # "create"
    BY <1>5, Zenon DEF MutateWrites, Handler
  <2>2. Moved(r, w, req[r].user, req[r].from, "done")
    BY <1>3, <2>1, StepMoves, Zenon DEF Write, End
  <2> QED
    BY <1>1, <2>1, <2>2, Zenon DEF Writes
<1> QED
  BY <1>4, <1>5, Zenon

\* No step deletes an account or spoils one.
LEMMA WriteStays ==
    ASSUME TypeOK, NEW r \in Request, Writes(r)
    PROVE  Stays
<1> DEFINE w == req[r].what
<1>1. w \in Ask /\ w.kind = "admin" /\ (account[w.user] # None \/ w.op = "create")
  BY Zenon DEF Writes
<1>2. w.user \in User /\ Changed(w) \in AccountRow
  BY <1>1, AskTypes, ChangedIsRow, Zenon
<1>3. account' = [account EXCEPT ![w.user] = Changed(w)]
  BY Zenon DEF Writes, Write
<1> HIDE DEF w
<1> QED
  BY <1>2, <1>3, NoneIsNoRow, Zenon DEF Stays, TypeOK

\* The first OIDC sign-in adds an account, and only where there was none.
LEMMA NewAccountStays ==
    ASSUME TypeOK, NEW r \in Request, Handler(r), CreateOIDCUser(r)
    PROVE  /\ Stays
           /\ req[r].what.user \in User
           /\ \/ /\ account[req[r].what.user] = None
                 /\ account' = [account EXCEPT ![req[r].what.user] = Account(FALSE)]
                 /\ Moved(r, req[r].what, req[r].what.user, revoked[req[r].what.user],
                          IF req[r].what.kind = "oidc" THEN "create" ELSE "confirm")
              \/ /\ account' = account
                 /\ Moved(r, req[r].what, req[r].user, req[r].from, "done")
<1> DEFINE u == req[r].what.user
<1>1. u \in User
  BY AskTypes, Zenon DEF Handler, CreateOIDCUser
<1>2. Account(FALSE) \in AccountRow /\ "done" \in Pc
  BY Zenon DEF Account, AccountRow, Pc
<1>3. \/ /\ account[u] = None /\ account' = [account EXCEPT ![u] = Account(FALSE)]
         /\ Identified(r, u)
      \/ account' = account /\ End(r)
  BY Zenon DEF CreateOIDCUser
<1> HIDE DEF u
<1>4. Stays
  BY <1>1, <1>2, <1>3, NoneIsNoRow, Zenon DEF Stays, TypeOK
<1>5. \/ /\ account[u] = None /\ account' = [account EXCEPT ![u] = Account(FALSE)]
         /\ Moved(r, req[r].what, u, revoked[u],
                  IF req[r].what.kind = "oidc" THEN "create" ELSE "confirm")
      \/ /\ account' = account
         /\ Moved(r, req[r].what, req[r].user, req[r].from, "done")
  BY <1>1, <1>2, <1>3, OidcMoves, StepMoves, Zenon DEF End
<1> QED
  BY <1>1, <1>4, <1>5, Zenon DEF u

\* A start keeps every account; only the administrator flag of the bootstrap
\* account changes.
LEMMA RestartStays ==
    ASSUME TypeOK, Restart
    PROVE  /\ Stays
           /\ \A u \in User : account[u] # None =>
                /\ account'[u].disabled = account[u].disabled
                /\ account[u].admin => account'[u].admin
           /\ running' \in BOOLEAN
           /\ req' \in [Request -> RequestState]
           /\ \A r \in Request : /\ Live(r) => req'[r].pc = "done"
                                 /\ ~ Live(r) => req'[r] = req[r]
<1>1. Bootstrap \in User /\ account[Bootstrap] \in AccountRow
  BY IdentityAssumptions, Zenon DEF TypeOK
<1> DEFINE b == [account[Bootstrap] EXCEPT !.admin = TRUE]
<1>2. b \in AccountRow /\ b.admin = TRUE /\ b.disabled = account[Bootstrap].disabled
  BY <1>1, Zenon DEF AccountRow
<1>3. \/ account' = [account EXCEPT ![Bootstrap] = b] /\ running' = running
      \/ account' = account /\ running' = ~ sqlite
  BY Zenon DEF Restart
<1> HIDE DEF b
<1>4. Stays /\ \A u \in User : account[u] # None =>
                 /\ account'[u].disabled = account[u].disabled
                 /\ account[u].admin => account'[u].admin
  BY <1>1, <1>2, <1>3, NoneIsNoRow, Zenon DEF Stays, TypeOK
<1>5. [Idle EXCEPT !.pc = "done"] \in RequestState /\ [Idle EXCEPT !.pc = "done"].pc = "done"
  BY Zenon DEF Idle, RequestState
<1>6. req' = [r \in Request |-> IF Live(r) THEN [Idle EXCEPT !.pc = "done"] ELSE req[r]]
  BY Zenon DEF Restart
<1>7. running' \in BOOLEAN
  BY <1>3, Zenon DEF TypeOK
<1>8. req \in [Request -> RequestState]
  BY Zenon DEF TypeOK
<1>9. req' \in [Request -> RequestState]
  BY <1>5, <1>6, <1>8, Zenon
<1>10. \A r \in Request : (Live(r) => req'[r].pc = "done") /\ (~ Live(r) => req'[r] = req[r])
  BY <1>5, <1>6, Zenon
<1> QED
  BY <1>4, <1>7, <1>9, <1>10, Zenon

\* No account is disabled or enabled.
SameFlags ==
    \A u \in User : account[u] # None => account'[u].disabled = account[u].disabled

\* Every step keeps the accounts; only an administrator's write changes whether
\* one is disabled.
LEMMA StaysStep ==
    ASSUME TypeOK, \A r \in Request : Handler(r), Next
    PROVE  Stays /\ (SameFlags \/ \E r \in Request : Writes(r) /\ (Mutate(r) \/ MutateWrites(r)))
<1>1. CASE account' = account
  BY <1>1, SameAccounts, Zenon DEF SameFlags
<1>2. CASE Restart
  BY <1>2, RestartStays, Zenon DEF SameFlags
<1>3. ASSUME NEW r \in Request, CreateOIDCUser(r)
      PROVE  Stays /\ SameFlags
  <2>1. Handler(r)
    BY Zenon
  <2>2. /\ Stays /\ req[r].what.user \in User
        /\ \/ /\ account[req[r].what.user] = None
              /\ account' = [account EXCEPT ![req[r].what.user] = Account(FALSE)]
           \/ account' = account
    BY <1>3, <2>1, NewAccountStays, Zenon
  <2> QED
    BY <2>2, Zenon DEF SameFlags, TypeOK
<1>4. ASSUME NEW r \in Request, Mutate(r) \/ MutateWrites(r)
      PROVE  account' = account \/ Writes(r)
  <2>1. Handler(r)
    BY Zenon
  <2> QED
    BY <1>4, <2>1, MutateCases, Zenon
<1>5. CASE Pause
  BY <1>5, <1>1, Zenon DEF Pause
<1>6. ASSUME NEW r \in Request,
             \/ Login(r) \/ AuthenticateUser(r) \/ RecordFailure(r)
             \/ CreateSession(r) \/ CommitSession(r) \/ Logout(r)
             \/ OidcCallback(r) \/ FindOIDCUser(r)
             \/ CreateConfirmation(r) \/ FinishConfirmation(r) \/ Exchange(r)
             \/ AdminRequest(r)
      PROVE  account' = account
  BY <1>6, Zenon DEF Login, AuthenticateUser, RecordFailure, CreateSession, CommitSession, Logout,
              OidcCallback, FindOIDCUser, CreateConfirmation, FinishConfirmation, Exchange,
              AdminRequest, users
<1>7. ASSUME NEW r \in Request, Writes(r)
      PROVE  Stays
  BY <1>7, WriteStays, Zenon
<1> QED
  BY <1>1, <1>2, <1>3, <1>4, <1>5, <1>6, <1>7, Zenon DEF Next

-----------------------------------------------------------------------------
(***************************************************************************)
(* Sessions and confirmations.                                             *)
(***************************************************************************)
\* What the invariant says of one session, and of one confirmation.
SessionOK(s) ==
    /\ s \in SessionRow /\ account[s.user] # None /\ s.from <= s.since
    /\ sqlite => Enabled(s.user) /\ s.since = revoked[s.user]
    /\ s.from < revoked[s.user] => {<<s.id, s.user>>, <<s.via, s.user>>} \cap caught # {}

ConfirmOK(h) ==
    /\ confirm[h] \in ConfirmRow \cup {None}
    /\ confirm[h] # None => account[confirm[h].user] # None
    /\ Confirmed(h)

\* The invariant gives both for every session and every confirmation.
LEMMA SessionsOK ==
    ASSUME IInv
    PROVE  /\ \A s \in session : SessionOK(s)
           /\ \A h \in Handoff : ConfirmOK(h)
BY Zenon DEF IInv, TypeOK, RevocationHolds, SessionOK, ConfirmOK

\* A session stays sound as long as its user is not written.
LEMMA SessionKept ==
    ASSUME NEW s, SessionOK(s), Stays, sqlite' = sqlite,
           \/ UNCHANGED <<revoked, caught>> /\ SameFlags
           \/ /\ caught \subseteq caught' /\ revoked'[s.user] = revoked[s.user]
              /\ account'[s.user] = account[s.user]
    PROVE  SessionOK(s)'
<1>1. s \in SessionRow /\ s.user \in User
  BY Zenon DEF SessionOK, SessionRow
<1>2. account'[s.user] # None /\ account'[s.user].disabled = account[s.user].disabled
  BY <1>1, Zenon DEF SessionOK, Stays, SameFlags
<1>3. Enabled(s.user) => Enabled(s.user)'
  BY <1>2, Zenon DEF Enabled
<1>4. revoked'[s.user] = revoked[s.user] /\ caught \subseteq caught'
  BY Zenon
<1> QED
  BY <1>1, <1>2, <1>3, <1>4, Zenon DEF SessionOK

\* The same for a confirmation that does not change, or only ages or is decided.
LEMMA ConfirmKept ==
    ASSUME NEW h \in Handoff, ConfirmOK(h), Stays,
           \/ confirm'[h] = None
           \/ /\ confirm[h] # None /\ confirm'[h] \in ConfirmRow
              /\ confirm'[h].user = confirm[h].user /\ confirm'[h].from = confirm[h].from
           \/ confirm'[h] = confirm[h],
           \/ UNCHANGED <<revoked, caught>>
           \/ /\ confirm'[h] # None
              /\ caught \subseteq caught' /\ revoked'[confirm[h].user] = revoked[confirm[h].user]
    PROVE  ConfirmOK(h)'
<1>1. CASE confirm'[h] = None
  BY <1>1, Zenon DEF ConfirmOK, Confirmed
<1>2. CASE confirm'[h] # None
  <2>1. /\ confirm[h] # None /\ confirm'[h] \in ConfirmRow
        /\ confirm'[h].user = confirm[h].user /\ confirm'[h].from = confirm[h].from
        /\ confirm[h].user \in User
    BY <1>2, Zenon DEF ConfirmOK, ConfirmRow
  <2>2. account'[confirm'[h].user] # None
    BY <2>1, Zenon DEF Stays, ConfirmOK
  <2>3. revoked'[confirm[h].user] = revoked[confirm[h].user] /\ caught \subseteq caught'
    BY <1>2, Zenon
  <2> QED
    BY <2>1, <2>2, <2>3, Zenon DEF ConfirmOK, Confirmed
<1> QED
  BY <1>1, <1>2, Zenon

\* The session that a sign-in inserts is sound.
LEMMA NewSession ==
    ASSUME IInv, NEW r \in Request, req[r].pc \in {"create", "commit"},
           sqlite => Enabled(req[r].user)
    PROVE  SessionOK(Session(r))
<1>1. Handler(r) /\ Carried(r) /\ req[r] \in RequestState /\ revoked \in [User -> Nat]
  BY Zenon DEF IInv, TypeOK
<1>2. req[r].what \in Ask /\ req[r].what.kind \in {"login", "oidc"}
      /\ req[r].user = req[r].what.user /\ account[req[r].user] # None
  BY <1>1, Zenon DEF Handler
<1>3. req[r].user \in User /\ req[r].from \in Nat
  BY <1>1, <1>2, AskTypes, Zenon DEF RequestState
<1>4. /\ req[r].from <= revoked[req[r].user]
      /\ req[r].from < revoked[req[r].user] => <<r, req[r].user>> \in caught
  BY <1>1, Zenon DEF Carried
<1> DEFINE s == Session(r)
<1>5. /\ s \in SessionRow /\ s.id = r /\ s.user = req[r].user /\ s.from = req[r].from
      /\ s.since = revoked[req[r].user]
  BY <1>1, <1>3, Zenon DEF Session, SessionRow
<1> HIDE DEF s
<1>6. s.from < revoked[s.user] => <<s.id, s.user>> \in caught
  BY <1>4, <1>5, Zenon
<1>7. SessionOK(s)
  BY <1>2, <1>4, <1>5, <1>6, Zenon DEF SessionOK
<1> QED
  BY <1>7, Zenon DEF s

\* So is the session that an exchange inserts.
LEMMA ExchangedSession ==
    ASSUME IInv, NEW r \in Request, NEW h \in Handoff, confirm[h] # None,
           Enabled(confirm[h].user)
    PROVE  SessionOK([id |-> r, user |-> confirm[h].user, via |-> h,
                      from |-> confirm[h].from, since |-> revoked[confirm[h].user]])
<1>1. ConfirmOK(h) /\ revoked \in [User -> Nat]
  BY SessionsOK, Zenon DEF IInv, TypeOK
<1> DEFINE c == confirm[h]
<1>2. /\ c \in ConfirmRow /\ account[c.user] # None /\ c.from <= revoked[c.user]
      /\ c.from < revoked[c.user] => <<h, c.user>> \in caught
  BY <1>1, Zenon DEF ConfirmOK, Confirmed
<1>3. c.user \in User /\ c.from \in Nat
  BY <1>2, Zenon DEF ConfirmRow
<1>4. Enabled(c.user)
  BY Zenon
<1> HIDE DEF c
<1> DEFINE s == [id |-> r, user |-> c.user, via |-> h, from |-> c.from, since |-> revoked[c.user]]
<1>5. /\ s \in SessionRow /\ s.via = h /\ s.user = c.user /\ s.from = c.from
      /\ s.since = revoked[c.user]
  BY <1>1, <1>3, Zenon DEF SessionRow
<1> HIDE DEF s
<1>6. s.from < revoked[s.user] => <<s.via, s.user>> \in caught
  BY <1>2, <1>5, Zenon
<1>7. SessionOK(s)
  BY <1>2, <1>4, <1>5, <1>6, Zenon DEF SessionOK
<1> QED
  BY <1>7, Zenon DEF s, c

\* An administrator's write: what it does to the account, and that everything
\* of the user that is under way is marked when it revokes.
LEMMA WriteEffect ==
    ASSUME IInv, NEW r \in Request, Writes(r), NEW w, w = req[r].what
    PROVE  /\ w \in Ask /\ w.user \in User
           /\ \A u \in User : u # w.user => account'[u] = account[u] /\ revoked'[u] = revoked[u]
           /\ revoked' \in [User -> Nat]
           /\ caught \subseteq caught'
           /\ Revokes(w) => /\ revoked'[w.user] = revoked[w.user] + 1
                            /\ UnderWay(w.user) \subseteq caught'
                            /\ session' = {s \in session : s.user # w.user}
           /\ ~ Revokes(w) => revoked' = revoked /\ caught' = caught /\ session' = session
<1>1. w \in Ask /\ w.kind = "admin"
  BY Zenon DEF Writes
<1>2. w.user \in User /\ account \in [User -> AccountRow \cup {None}] /\ revoked \in [User -> Nat]
  BY <1>1, AskTypes, Zenon DEF IInv, TypeOK
<1>3. /\ account' = [account EXCEPT ![w.user] = Changed(w)]
      /\ session' = SessionsAfter(w)
      /\ revoked' = IF Revokes(w) THEN [revoked EXCEPT ![w.user] = @ + 1] ELSE revoked
      /\ caught' = IF Revokes(w) THEN caught \cup UnderWay(w.user) ELSE caught
  BY Zenon DEF Writes, Write
<1>4. session' = IF Revokes(w) THEN {s \in session : s.user # w.user} ELSE session
  BY <1>3, Zenon DEF SessionsAfter, Revokes
<1>5. /\ \A u \in User : u # w.user => account'[u] = account[u] /\ revoked'[u] = revoked[u]
      /\ revoked' \in [User -> Nat]
  BY <1>2, <1>3
<1>6. CASE Revokes(w)
  BY <1>1, <1>2, <1>3, <1>4, <1>5, <1>6, Zenon
<1>7. CASE ~ Revokes(w)
  BY <1>1, <1>2, <1>3, <1>4, <1>5, <1>7, Zenon
<1> QED
  BY <1>6, <1>7, Zenon

\* It keeps the sessions sound: those of the user are gone, unless the account
\* is at least as usable as before.
LEMMA WriteSessions ==
    ASSUME IInv, NEW r \in Request, Writes(r), sqlite' = sqlite
    PROVE  \A s \in session' : SessionOK(s)'
<1> SUFFICES ASSUME NEW s \in session'
             PROVE  SessionOK(s)'
  BY Zenon
<1> DEFINE w == req[r].what
<1>0. TypeOK /\ Stays
  BY WriteStays, Zenon DEF IInv
<1>1. /\ w \in Ask /\ w.user \in User
      /\ \A u \in User : u # w.user => account'[u] = account[u] /\ revoked'[u] = revoked[u]
      /\ caught \subseteq caught'
      /\ Revokes(w) => session' = {t \in session : t.user # w.user}
      /\ ~ Revokes(w) => revoked' = revoked /\ caught' = caught /\ session' = session
  BY WriteEffect, Zenon
<1>2. SessionOK(s) /\ s.user \in User
  BY <1>1, SessionsOK DEF SessionOK, SessionRow
<1>3. CASE s.user # w.user
  BY <1>0, <1>1, <1>2, <1>3, SessionKept, Zenon
<1>4. CASE s.user = w.user
  <2>1. ~ Revokes(w)
    BY <1>1, <1>4, Zenon
  <2>2. account[w.user] # None /\ account[w.user] \in AccountRow
    BY <1>0, <1>1, <1>2, <1>4, Zenon DEF SessionOK, TypeOK
  <2>3. w.op \in {"promote", "demote", "enable"} /\ account' = [account EXCEPT ![w.user] = Changed(w)]
    BY <2>1, <2>2, AskTypes, Zenon DEF Writes, Write, Revokes
  <2>4. account'[w.user] = Changed(w)
    BY <1>0, <1>1, <2>3, Zenon DEF TypeOK
  <2>5. account'[w.user].disabled \in {account[w.user].disabled, FALSE}
    BY <2>2, <2>3, <2>4, ChangedFlags, ZenonT(30)
  <2>6. account'[w.user] # None
    BY <1>0, <1>1, <2>2, Zenon DEF Stays
  <2>7. Enabled(s.user) => Enabled(s.user)'
    BY <1>4, <2>5, <2>6, Zenon DEF Enabled
  <2>8. revoked' = revoked /\ caught' = caught
    BY <1>1, <2>1, Zenon
  <2> QED
    BY <1>2, <1>4, <2>6, <2>7, <2>8, Zenon DEF SessionOK
<1> QED
  BY <1>3, <1>4, Zenon

\* A step keeps the back end and the accounts; it is an administrator's write, or
\* it changes no flag, revokes nobody and marks nothing.
LEMMA StepFrame ==
    ASSUME TypeOK, \A r \in Request : Handler(r), Next
    PROVE  /\ sqlite' = sqlite /\ asked' = asked /\ Stays
           /\ \/ \E r \in Request : Writes(r) /\ (Mutate(r) \/ MutateWrites(r))
              \/ SameFlags /\ UNCHANGED <<revoked, caught>>
<1>1. sqlite' = sqlite /\ asked' = asked
  BY ZenonT(30) DEF Next, Login, AuthenticateUser, RecordFailure, CreateSession, CommitSession, Logout,
         OidcCallback, FindOIDCUser, CreateOIDCUser, CreateConfirmation, FinishConfirmation,
         Exchange, AdminRequest, Mutate, MutateWrites, Pause, Restart, fixed
<1>2. ASSUME NEW r \in Request, Mutate(r) \/ MutateWrites(r)
      PROVE  Writes(r) \/ UNCHANGED <<revoked, caught>>
  <2>1. Handler(r)
    BY Zenon
  <2> QED
    BY <1>2, <2>1, MutateCases, Zenon
<1>3. \/ \E r \in Request : Writes(r) /\ (Mutate(r) \/ MutateWrites(r))
      \/ UNCHANGED <<revoked, caught>>
  BY <1>2, ZenonT(30) DEF Next, Login, AuthenticateUser, RecordFailure, CreateSession, CommitSession,
         Logout, OidcCallback, FindOIDCUser, CreateOIDCUser, CreateConfirmation,
         FinishConfirmation, Exchange, AdminRequest, Pause, Restart
<1> QED
  BY <1>1, <1>3, StaysStep, Zenon

\* Every step keeps every session sound.
LEMMA SessionsStep ==
    ASSUME IInv, Next
    PROVE  \A s \in session' : SessionOK(s)'
<1>0. TypeOK /\ (\A r \in Request : Handler(r)) /\ Stays
  BY StepFrame, Zenon DEF IInv
<1>1. sqlite' = sqlite
  BY <1>0, StepFrame, Zenon
<1>2. ASSUME NEW r \in Request, Writes(r)
      PROVE  \A s \in session' : SessionOK(s)'
  BY <1>1, <1>2, WriteSessions, Zenon
<1>3. ASSUME UNCHANGED <<revoked, caught>>, SameFlags,
             \A s \in session' : s \in session \/ SessionOK(s)
      PROVE  \A s \in session' : SessionOK(s)'
  <2>1. \A s \in session' : SessionOK(s)
    BY <1>3, SessionsOK, Zenon
  <2> QED
    BY <1>0, <1>1, <1>3, <2>1, SessionKept, Zenon
<1>4. CASE \E r \in Request : Writes(r)
  BY <1>2, <1>4, Zenon
<1>5. CASE ~ \E r \in Request : Writes(r)
  <2>1. SameFlags /\ UNCHANGED <<revoked, caught>>
    BY <1>0, <1>5, StepFrame, Zenon
  <2>3. ASSUME NEW r \in Request, CreateSession(r) \/ CommitSession(r)
        PROVE  \A s \in session' : s \in session \/ SessionOK(s)
    <3>1. /\ req[r].pc \in {"create", "commit"} 
          /\ session' = session \/ session' = session \cup {Session(r)}
      BY <2>3, Zenon DEF CreateSession, CommitSession
    <3>2. CASE session' = session
      BY <3>2, Zenon
    <3>3. CASE session' = session \cup {Session(r)} /\ session' # session
      <4>1. Handler(r)
        BY <1>0, Zenon
      <4>2. sqlite => Enabled(req[r].user)
        BY <2>3, <3>3, <4>1, Zenon DEF CreateSession, CommitSession, Handler
      <4> QED
        BY <3>1, <3>3, <4>2, NewSession, Zenon
    <3> QED
      BY <3>1, <3>2, <3>3, Zenon
  <2>4. ASSUME NEW r \in Request, Exchange(r)
        PROVE  \A s \in session' : s \in session \/ SessionOK(s)
    <3>1. PICK w \in Ask : w.kind = "exchange" /\ req'[r].what = w
      BY <1>0, <2>4, ArrivesAs DEF Exchange, Moved, Pc
    <3>2. PICK h \in Handoff : h = w.handoff
      BY <3>1, AskTypes, Zenon
    <3>3. \/ session' = session
          \/ Ready(h) /\ Enabled(confirm[h].user) /\ Exchanged(r, h)
      BY <2>4, <3>1, <3>2, Zenon DEF Exchange
    <3>4. CASE Ready(h) /\ Enabled(confirm[h].user) /\ Exchanged(r, h)
      BY <3>4, ExchangedSession, Zenon DEF Ready, Exchanged
    <3> QED
      BY <3>3, <3>4, Zenon
  <2>5. ASSUME NEW r \in Request, Logout(r)
        PROVE  \A s \in session' : s \in session \/ SessionOK(s)
    BY <2>5, Zenon DEF Logout
  <2>6. ASSUME NEW r \in Request, Mutate(r) \/ MutateWrites(r)
        PROVE  session' = session
    <3>1. Handler(r)
      BY <1>0, Zenon
    <3> QED
      BY <1>0, <1>5, <2>6, <3>1, MutateCases, Zenon
  <2>7. \/ session' = session
        \/ \E r \in Request : \/ CreateSession(r) \/ CommitSession(r) \/ Exchange(r) \/ Logout(r)
    BY <2>6, ZenonT(30) DEF Next, Login, AuthenticateUser, RecordFailure, OidcCallback, FindOIDCUser,
         CreateOIDCUser, CreateConfirmation, FinishConfirmation, AdminRequest, Pause, Restart, users
  <2>8. \A s \in session' : s \in session \/ SessionOK(s)
    BY <2>3, <2>4, <2>5, <2>7, Zenon
  <2> QED
    BY <1>3, <2>1, <2>8, Zenon
<1> QED
  BY <1>4, <1>5, Zenon

\* Every step keeps every confirmation sound.
LEMMA ConfirmsStep ==
    ASSUME IInv, Next
    PROVE  confirm' \in [Handoff -> ConfirmRow \cup {None}] /\ \A h \in Handoff : ConfirmOK(h)'
<1>0. /\ TypeOK /\ (\A r \in Request : Handler(r)) /\ Stays
      /\ confirm \in [Handoff -> ConfirmRow \cup {None}]
  BY StepFrame, Zenon DEF IInv, TypeOK
<1>1. ASSUME NEW r \in Request, Writes(r), confirm' = confirm
      PROVE  \A h \in Handoff : ConfirmOK(h)'
  <2> SUFFICES ASSUME NEW h \in Handoff
               PROVE  ConfirmOK(h)'
    BY Zenon
  <2>1. ConfirmOK(h)
    BY SessionsOK, Zenon
  <2> DEFINE w == req[r].what
  <2>2. /\ w.user \in User
        /\ \A u \in User : u # w.user => revoked'[u] = revoked[u]
        /\ caught \subseteq caught'
        /\ Revokes(w) => /\ revoked'[w.user] = revoked[w.user] + 1
                         /\ UnderWay(w.user) \subseteq caught'
        /\ ~ Revokes(w) => revoked' = revoked /\ caught' = caught
    BY <1>1, WriteEffect, Zenon
  <2>3. confirm[h] # None => confirm[h].user \in User /\ confirm[h].from \in Nat
    BY <2>1, Zenon DEF ConfirmOK, ConfirmRow
  <2>4. CASE confirm[h] = None
    BY <1>0, <1>1, <2>1, <2>4, Zenon DEF ConfirmOK, Confirmed
  <2>5. CASE confirm[h] # None /\ (confirm[h].user # w.user \/ ~ Revokes(w))
    <3>1. revoked'[confirm[h].user] = revoked[confirm[h].user]
      BY <2>2, <2>3, <2>5, Zenon
    <3> QED
      BY <1>0, <1>1, <2>1, <2>2, <2>5, <3>1, ConfirmKept, Zenon
  <2>6. CASE confirm[h] # None /\ confirm[h].user = w.user /\ Revokes(w)
    <3>1. <<h, w.user>> \in caught'
      BY <2>2, <2>6, Zenon DEF UnderWay
    <3>2. revoked[w.user] \in Nat
      BY <1>0, <2>2, Zenon DEF TypeOK
    <3>3. account'[confirm'[h].user] # None
      BY <1>0, <1>1, <2>1, <2>3, <2>6, Zenon DEF ConfirmOK, Stays
    <3>4. confirm'[h].from <= revoked'[confirm'[h].user]
      BY <1>1, <2>1, <2>2, <2>3, <2>6, <3>2 DEF ConfirmOK, Confirmed
    <3> QED
      BY <1>1, <2>1, <2>6, <3>1, <3>3, <3>4, Zenon DEF ConfirmOK, Confirmed
  <2> QED
    BY <2>4, <2>5, <2>6, Zenon
<1>2. ASSUME UNCHANGED <<revoked, caught>>,
             \A h \in Handoff :
               \/ confirm'[h] \in {None, confirm[h]}
               \/ /\ confirm[h] # None /\ confirm'[h] \in ConfirmRow
                  /\ confirm'[h].user = confirm[h].user /\ confirm'[h].from = confirm[h].from
      PROVE  \A h \in Handoff : ConfirmOK(h)'
  BY <1>0, <1>2, SessionsOK, ConfirmKept, Zenon
<1>3. ASSUME NEW r \in Request, CreateConfirmation(r)
      PROVE  /\ confirm' \in [Handoff -> ConfirmRow \cup {None}]
             /\ \A h \in Handoff : ConfirmOK(h)'
  <2>1. Handler(r) /\ Carried(r) /\ req[r] \in RequestState /\ req[r].pc = "confirm"
    BY <1>3, Zenon DEF IInv, TypeOK, CreateConfirmation
  <2>2. /\ req[r].what \in Ask /\ req[r].what.kind = "desktop"
        /\ req[r].user = req[r].what.user /\ account[req[r].user] # None
    BY <2>1, Zenon DEF Handler
  <2>3. PICK h \in Handoff : h = req[r].what.handoff
    BY <2>2, AskTypes, Zenon
  <2>4. req[r].user \in User /\ req[r].from \in Nat
    BY <2>1, <2>2, AskTypes, Zenon DEF RequestState
  <2> DEFINE kept == [g \in Handoff |-> IF confirm[g] # None /\ confirm[g].old
                                        THEN None ELSE confirm[g]]
             c == [user |-> req[r].user, status |-> "pending", old |-> FALSE, from |-> req[r].from]
  <2>5. confirm' = kept \/ confirm' = [kept EXCEPT ![h] = c]
    BY <1>3, <2>3, Zenon DEF CreateConfirmation
  <2>6. c \in ConfirmRow /\ c.user = req[r].user /\ c.from = req[r].from
    BY <2>4, Zenon DEF ConfirmRow
  <2>7. UNCHANGED <<revoked, caught>>
    BY <1>3, Zenon DEF CreateConfirmation
  <2>8. /\ req[r].from <= revoked[req[r].user]
        /\ req[r].from < revoked[req[r].user] => <<h, req[r].user>> \in caught
    BY <2>1, <2>3, Zenon DEF Carried
  <2> HIDE DEF c
  <2>9. \A g \in Handoff : \/ confirm'[g] \in {None, confirm[g]}
                           \/ g = h /\ confirm'[g] = c
    BY <2>5, Zenon
  <2>10. confirm' \in [Handoff -> ConfirmRow \cup {None}]
    BY <1>0, <2>5, <2>6, Zenon
  <2>11. ASSUME NEW g \in Handoff, confirm'[g] \in {None, confirm[g]}
         PROVE  ConfirmOK(g)'
    BY <1>0, <2>7, <2>11, SessionsOK, ConfirmKept, Zenon
  <2>12. ASSUME confirm'[h] = c
         PROVE  ConfirmOK(h)'
    <3>1. account'[c.user] # None
      BY <1>0, <2>2, <2>4, <2>6, Zenon DEF Stays
    <3>2. Confirmed(h)'
      BY <2>6, <2>7, <2>8, <2>12, Zenon DEF Confirmed
    <3> QED
      BY <2>6, <2>12, <3>1, <3>2, Zenon DEF ConfirmOK
  <2> QED
    BY <2>9, <2>10, <2>11, <2>12, Zenon
<1>4. ASSUME NEW r \in Request, FinishConfirmation(r)
      PROVE  /\ confirm' \in [Handoff -> ConfirmRow \cup {None}]
             /\ \A h \in Handoff : ConfirmOK(h)'
  <2>1. PICK w \in Ask : w.kind = "finish" /\ req'[r].what = w
    BY <1>0, <1>4, ArrivesAs, ZenonT(30) DEF FinishConfirmation, Moved, Pc
  <2>2. PICK h \in Handoff : h = w.handoff
    BY <2>1, AskTypes, Zenon
  <2>3. PICK status \in {"approved", "cancelled"} :
          \/ confirm' = confirm
          \/ confirm[h] # None /\ confirm' = [confirm EXCEPT ![h].status = status]
    BY <1>4, <2>1, <2>2, Zenon DEF FinishConfirmation, Pending
  <2> DEFINE c == [confirm[h] EXCEPT !.status = status]
  <2>4. confirm[h] # None =>
          c \in ConfirmRow /\ c.user = confirm[h].user /\ c.from = confirm[h].from
    BY <1>0, Zenon DEF ConfirmRow
  <2>5. \/ confirm' = confirm
        \/ confirm[h] # None /\ confirm' = [confirm EXCEPT ![h] = c]
    BY <2>3, Zenon
  <2> HIDE DEF c
  <2>6. confirm' \in [Handoff -> ConfirmRow \cup {None}]
    BY <1>0, <2>4, <2>5, Zenon
  <2>7. UNCHANGED <<revoked, caught>>
    BY <1>4, Zenon DEF FinishConfirmation
  <2>8. \A g \in Handoff :
          \/ confirm'[g] \in {None, confirm[g]}
          \/ /\ confirm[g] # None /\ confirm'[g] \in ConfirmRow
             /\ confirm'[g].user = confirm[g].user /\ confirm'[g].from = confirm[g].from
    BY <1>0, <2>4, <2>5, Zenon
  <2> QED
    BY <1>2, <2>6, <2>7, <2>8, Zenon
<1>5. ASSUME NEW r \in Request, Exchange(r)
      PROVE  /\ confirm' \in [Handoff -> ConfirmRow \cup {None}]
             /\ \A h \in Handoff : ConfirmOK(h)'
  <2>1. PICK w \in Ask : w.kind = "exchange" /\ req'[r].what = w
    BY <1>0, <1>5, ArrivesAs, ZenonT(30) DEF Exchange, Moved, Pc
  <2>2. PICK h \in Handoff : h = w.handoff
    BY <2>1, AskTypes, Zenon
  <2>3. confirm' = confirm \/ confirm' = [confirm EXCEPT ![h] = None]
    BY <1>5, <2>1, <2>2, Zenon DEF Exchange, Exchanged
  <2>4. UNCHANGED <<revoked, caught>>
    BY <1>5, Zenon DEF Exchange
  <2>5. /\ confirm' \in [Handoff -> ConfirmRow \cup {None}]
        /\ \A g \in Handoff : confirm'[g] \in {None, confirm[g]}
    BY <1>0, <2>3, Zenon
  <2> QED
    BY <1>2, <2>4, <2>5, Zenon
<1>6. ASSUME Pause
      PROVE  /\ confirm' \in [Handoff -> ConfirmRow \cup {None}]
             /\ \A h \in Handoff : ConfirmOK(h)'
  <2>1. /\ confirm' = [h \in Handoff |-> IF confirm[h] = None THEN None
                                         ELSE [confirm[h] EXCEPT !.old = TRUE]]
        /\ UNCHANGED <<revoked, caught>>
    BY <1>6, Zenon DEF Pause
  <2>2. \A h \in Handoff : confirm[h] # None =>
          LET c == [confirm[h] EXCEPT !.old = TRUE] IN
          c \in ConfirmRow /\ c.user = confirm[h].user /\ c.from = confirm[h].from
    BY <1>0, Zenon DEF ConfirmRow
  <2>3. /\ confirm' \in [Handoff -> ConfirmRow \cup {None}]
        /\ \A g \in Handoff :
          \/ confirm'[g] \in {None, confirm[g]}
          \/ /\ confirm[g] # None /\ confirm'[g] \in ConfirmRow
             /\ confirm'[g].user = confirm[g].user /\ confirm'[g].from = confirm[g].from
    BY <2>1, <2>2, Zenon
  <2> QED
    BY <1>2, <2>1, <2>3, Zenon
<1>7. \/ confirm' = confirm
      \/ Pause
      \/ \E r \in Request : CreateConfirmation(r) \/ FinishConfirmation(r) \/ Exchange(r)
  BY ZenonT(30) DEF Next, Login, AuthenticateUser, RecordFailure, CreateSession, CommitSession, Logout,
         OidcCallback, FindOIDCUser, CreateOIDCUser, AdminRequest, Mutate, MutateWrites, Restart,
         users
<1>8. CASE confirm' = confirm
  <2>1. \A h \in Handoff : ConfirmOK(h)'
    <3>1. CASE UNCHANGED <<revoked, caught>>
      BY <1>2, <1>8, <3>1, Zenon
    <3>2. CASE \E r \in Request : Writes(r)
      BY <1>1, <1>8, <3>2, Zenon
    <3> QED
      BY <1>0, <3>1, <3>2, StepFrame, Zenon
  <2> QED
    BY <1>0, <1>8, <2>1, Zenon
<1> QED
  BY <1>3, <1>4, <1>5, <1>6, <1>7, <1>8, Zenon

-----------------------------------------------------------------------------
(***************************************************************************)
(* The handlers.                                                           *)
(***************************************************************************)
\* Nothing is said of a request that has not arrived or has ended.
LEMMA RestingRequest ==
    ASSUME NEW q \in Request, req'[q].pc \in {"idle", "done"}
    PROVE  Handler(q)' /\ Carried(q)'
BY Zenon DEF Handler, Carried

\* A request that does not move stays sound, whatever the others do.
LEMMA OtherRequest ==
    ASSUME IInv, Next, NEW q \in Request, req'[q] = req[q]
    PROVE  Handler(q)' /\ Carried(q)'
<1>0. /\ TypeOK /\ (\A r \in Request : Handler(r)) /\ Stays /\ sqlite' = sqlite
      /\ Handler(q) /\ Carried(q)
  BY StepFrame, Zenon DEF IInv
<1>1. CASE req[q].pc \in {"idle", "done"}
  BY <1>1, RestingRequest, Zenon
<1>2. CASE req[q].pc \notin {"idle", "done"}
  <2>1. /\ req[q].what \in Ask
        /\ req[q].what.kind \in {"login", "oidc", "desktop", "admin"} => req[q].what.user \in User
    BY <1>0, <1>2, AskTypes, Zenon DEF Handler
  <2>2. req[q].pc \in Pc
    BY <1>0, Zenon DEF TypeOK, RequestState, Pc
  <2>3. req[q].what.user \in User
    BY <1>0, <1>2, <2>1, <2>2, Zenon DEF Handler, Pc
  <2>4. Handler(q)'
    BY <1>0, <2>3, Zenon DEF Handler, Stays
  <2>5. CASE req[q].pc \notin {"create", "commit", "confirm"}
    BY <2>4, <2>5, Zenon DEF Carried
  <2>6. CASE req[q].pc \in {"create", "commit", "confirm"}
    <3>1. req[q].user = req[q].what.user /\ req[q].what.kind \in {"login", "oidc", "desktop"}
      BY <1>0, <2>6, Zenon DEF Handler
    <3>2. req[q].pc = "confirm" => req[q].what.kind = "desktop"
      BY <1>0, Zenon DEF Handler
    <3>3. req[q].pc = "confirm" => req[q].what.handoff \in Handoff
      BY <2>1, <3>2, AskTypes, Zenon
    <3>4. CASE UNCHANGED <<revoked, caught>>
      <4>1. Carried(q)'
        BY <1>0, <3>4, Zenon DEF Carried
      <4> QED
        BY <2>4, <4>1, Zenon
    <3>5. ASSUME NEW r \in Request, Writes(r)
          PROVE  Carried(q)'
      <4> DEFINE w == req[r].what
                 u == req[q].user
      <4>1. /\ w.user \in User
            /\ \A v \in User : v # w.user => revoked'[v] = revoked[v]
            /\ caught \subseteq caught'
            /\ Revokes(w) => /\ revoked'[w.user] = revoked[w.user] + 1
                             /\ UnderWay(w.user) \subseteq caught'
            /\ ~ Revokes(w) => revoked' = revoked /\ caught' = caught
        BY <3>5, WriteEffect, ZenonT(30)
      <4>2. /\ req[q].from <= revoked[u]
            /\ req[q].from < revoked[u] =>
                 /\ <<q, u>> \in caught
                 /\ req[q].pc = "confirm" => <<req[q].what.handoff, u>> \in caught
        BY <1>0, <2>6, Zenon DEF Carried
      <4>3. CASE u # w.user \/ ~ Revokes(w)
        <5>1. revoked'[u] = revoked[u]
          BY <2>3, <3>1, <4>1, <4>3, Zenon
        <5> QED
          BY <4>1, <4>2, <5>1, Zenon DEF Carried
      <4>4. CASE u = w.user /\ Revokes(w)
        <5>1. Live(q) /\ req[q].what.kind # "admin" /\ req[q].what.user = w.user
          BY <1>2, <3>1, <4>4, Zenon DEF Live
        <5>2. <<q, w.user>> \in UnderWay(w.user)
          BY <5>1, Zenon DEF UnderWay
        <5>3. req[q].pc = "confirm" => <<req[q].what.handoff, w.user>> \in UnderWay(w.user)
          BY <3>2, <3>3, <5>1, Zenon DEF UnderWay
        <5>4. revoked[u] \in Nat /\ req[q].from \in Nat
          BY <1>0, <2>3, <3>1, Zenon DEF TypeOK, RequestState
        <5>5. req[q].from <= revoked'[u]
          BY <4>1, <4>2, <4>4, <5>4
        <5> QED
          BY <4>1, <4>4, <5>2, <5>3, <5>5, Zenon DEF Carried
      <4> QED
        BY <4>3, <4>4, Zenon
    <3> QED
      BY <1>0, <2>4, <3>4, <3>5, StepFrame, Zenon
  <2> QED
    BY <2>4, <2>5, <2>6, Zenon
<1> QED
  BY <1>1, <1>2, Zenon

\* A request that has just identified its user carries the current count.
LEMMA IdentifiedRequest ==
    ASSUME TypeOK, NEW r \in Request, NEW u \in User, NEW pc \in {"create", "confirm"},
           Moved(r, req[r].what, u, revoked[u], pc),
           req[r].what \in Ask, req[r].what.user = u, account'[u] # None,
           pc = "create" => req[r].what.kind \in {"login", "oidc"},
           pc = "confirm" => req[r].what.kind = "desktop",
           revoked' = revoked
    PROVE  Handler(r)' /\ Carried(r)'
<1>1. /\ req'[r].what = req[r].what /\ req'[r].user = u /\ req'[r].from = revoked[u]
      /\ req'[r].pc = pc
  BY Zenon DEF Moved
<1>2. revoked[u] \in Nat
  BY Zenon DEF TypeOK
<1> QED
  BY <1>1, <1>2 DEF Handler, Carried

\* Only request r moves, to a sound state.
Sound(r) ==
    /\ req' \in [Request -> RequestState]
    /\ \A q \in Request : q # r => req'[q] = req[q]
    /\ Handler(r)' /\ Carried(r)'

\* A request that ends is sound.
LEMMA EndedSound ==
    ASSUME NEW r \in Request, NEW what, NEW user, NEW from, Moved(r, what, user, from, "done")
    PROVE  Sound(r)
BY RestingRequest, Zenon DEF Sound, Moved

\* A request that moves to a step at which it carries no identity.
LEMMA MovedSound ==
    ASSUME NEW r \in Request, NEW what \in Ask, NEW user, NEW from, NEW pc,
           Moved(r, what, user, from, pc),
           \/ pc \in {"auth", "fail"} /\ what.kind = "login"
           \/ pc \in {"find", "new"} /\ what.kind \in {"oidc", "desktop"}
           \/ pc = "mutate" /\ what.kind = "admin"
           \/ /\ pc = "write" /\ what.kind = "admin" /\ ~ sqlite'
              /\ account'[what.user] # None /\ what.op # "create"
    PROVE  Sound(r)
<1>1. req'[r].what = what /\ req'[r].pc = pc
  BY Zenon DEF Moved
<1>2. Handler(r)' /\ Carried(r)'
  BY <1>1, Zenon DEF Handler, Carried
<1> QED
  BY <1>2, Zenon DEF Sound, Moved

\* Every action of a request brings it to a sound state: password logins and
\* sessions.
LEMMA LoginSound ==
    ASSUME IInv, Next, NEW r \in Request,
           \/ Login(r) \/ AuthenticateUser(r) \/ RecordFailure(r)
           \/ CreateSession(r) \/ CommitSession(r) \/ Logout(r)
    PROVE  Sound(r)
<1>0. TypeOK /\ Handler(r) /\ Carried(r) /\ req[r] \in RequestState /\ Stays
  BY StepFrame, Zenon DEF IInv, TypeOK
<1>1. "done" \in Pc /\ "commit" \in Pc
  BY Zenon DEF Pc
<1>2. CASE Login(r)
  <2>1. PICK w \in Ask : /\ w.kind = "login"
                         /\ Moved(r, w, req[r].user, req[r].from,
                                   IF Blocked(w.user) THEN "done" ELSE "auth")
    BY <1>0, <1>2, LoginMoves, Zenon
  <2>2. CASE Blocked(w.user)
    BY <2>1, <2>2, EndedSound, Zenon
  <2>3. CASE ~ Blocked(w.user)
    BY <2>1, <2>3, MovedSound, Zenon
  <2> QED
    BY <2>2, <2>3, Zenon
<1>3. CASE AuthenticateUser(r)
  <2> DEFINE u == req[r].what.user
  <2>1. req[r].what \in Ask /\ req[r].what.kind = "login" /\ revoked' = revoked
    BY <1>0, <1>3, Zenon DEF AuthenticateUser, Handler
  <2>2. CASE Enabled(u) /\ u \in User /\ Moved(r, req[r].what, u, revoked[u], "create")
    <3>1. account'[u] # None
      BY <1>0, <2>2, Zenon DEF Stays, Enabled
    <3>2. Handler(r)' /\ Carried(r)'
      BY <1>0, <2>1, <2>2, <3>1, IdentifiedRequest, Zenon
    <3> QED
      BY <2>2, <3>2, Zenon DEF Sound, Moved
  <2>3. CASE Moved(r, req[r].what, req[r].user, req[r].from, "fail")
    BY <2>1, <2>3, MovedSound, Zenon
  <2> QED
    BY <1>0, <1>3, <2>2, <2>3, AuthenticateMoves, Zenon
<1>4. CASE RecordFailure(r) \/ CommitSession(r)
  BY <1>0, <1>1, <1>4, StepMoves, EndedSound, Zenon DEF RecordFailure, CommitSession, End
<1>5. CASE Logout(r)
  BY <1>0, <1>1, <1>5, ArrivesAs, EndedSound, Zenon DEF Logout
<1>6. CASE CreateSession(r)
  <2>1. CASE req' = [req EXCEPT ![r].pc = "done"]
    BY <1>0, <1>1, <2>1, StepMoves, EndedSound, Zenon
  <2>2. CASE req' = [req EXCEPT ![r].pc = "commit"] /\ ~ sqlite
    <3>1. Moved(r, req[r].what, req[r].user, req[r].from, "commit")
      BY <1>0, <1>1, <2>2, StepMoves, Zenon
    <3>2. /\ req'[r].what = req[r].what /\ req'[r].user = req[r].user
          /\ req'[r].from = req[r].from /\ req'[r].pc = "commit"
      BY <3>1, Zenon DEF Moved
    <3>3. /\ req[r].pc = "create" /\ sqlite' = sqlite /\ revoked' = revoked /\ caught' = caught
          /\ account' = account
      BY <1>6, Zenon DEF CreateSession, fixed
    <3>4. Handler(r)'
      BY <1>0, <2>2, <3>2, <3>3, Zenon DEF Handler
    <3>5. Carried(r)'
      BY <1>0, <3>2, <3>3, Zenon DEF Carried
    <3> QED
      BY <3>1, <3>4, <3>5, Zenon DEF Sound, Moved
  <2> QED
    BY <1>6, <2>1, <2>2, Zenon DEF CreateSession, Step, End
<1> QED
  BY <1>2, <1>3, <1>4, <1>5, <1>6, Zenon

\* OIDC sign-ins, handoffs and user administration.
LEMMA OidcSound ==
    ASSUME IInv, Next, NEW r \in Request,
           \/ OidcCallback(r) \/ FindOIDCUser(r) \/ CreateOIDCUser(r)
           \/ CreateConfirmation(r) \/ FinishConfirmation(r) \/ Exchange(r)
           \/ AdminRequest(r) \/ Mutate(r) \/ MutateWrites(r)
    PROVE  Sound(r)
<1>0. /\ TypeOK /\ Handler(r) /\ Carried(r) /\ req[r] \in RequestState /\ Stays
      /\ sqlite' = sqlite
  BY StepFrame, Zenon DEF IInv, TypeOK
<1>1. "done" \in Pc /\ "find" \in Pc /\ "new" \in Pc
  BY Zenon DEF Pc
<1>2. CASE OidcCallback(r)
  <2>1. Arrive(r, "oidc", "find") \/ Arrive(r, "desktop", "find")
    BY <1>2, Zenon DEF OidcCallback
  <2>2. \E w \in Ask : /\ w.kind \in {"oidc", "desktop"}
                       /\ Moved(r, w, req[r].user, req[r].from, "find")
    BY <1>0, <1>1, <2>1, ArrivesAs, Zenon
  <2> QED
    BY <2>2, MovedSound, Zenon
<1>3. ASSUME req[r].what \in Ask, req[r].what.kind \in {"oidc", "desktop"}, revoked' = revoked,
             account'[req[r].what.user] # None,
             Moved(r, req[r].what, req[r].what.user, revoked[req[r].what.user],
                   IF req[r].what.kind = "oidc" THEN "create" ELSE "confirm")
      PROVE  Sound(r)
  <2>1. req[r].what.user \in User
    BY <1>3, AskTypes, Zenon
  <2>2. CASE req[r].what.kind = "oidc"
    <3>1. Handler(r)' /\ Carried(r)'
      BY <1>0, <1>3, <2>1, <2>2, IdentifiedRequest, Zenon
    <3> QED
      BY <1>3, <3>1, Zenon DEF Sound, Moved
  <2>3. CASE req[r].what.kind = "desktop"
    <3>1. Moved(r, req[r].what, req[r].what.user, revoked[req[r].what.user], "confirm")
      BY <1>3, <2>3, Zenon
    <3>2. Handler(r)' /\ Carried(r)'
      BY <1>0, <1>3, <2>1, <2>3, <3>1, IdentifiedRequest, Zenon
    <3> QED
      BY <1>3, <3>2, Zenon DEF Sound, Moved
  <2> QED
    BY <1>3, <2>2, <2>3, Zenon
<1>4. CASE FindOIDCUser(r)
  <2> DEFINE u == req[r].what.user
  <2>1. /\ req[r].what \in Ask /\ req[r].what.kind \in {"oidc", "desktop"}
        /\ revoked' = revoked /\ account' = account
    BY <1>0, <1>4, Zenon DEF FindOIDCUser, Handler, users
  <2>2. u \in User
    BY <2>1, AskTypes, Zenon
  <2>3. CASE Step(r, "new")
    BY <1>0, <1>1, <2>1, <2>3, StepMoves, MovedSound, Zenon DEF Step
  <2>4. CASE End(r)
    BY <1>0, <1>1, <2>4, StepMoves, EndedSound, Zenon DEF End
  <2>5. CASE account[u] # None /\ Identified(r, u)
    BY <1>0, <1>3, <2>1, <2>2, <2>5, OidcMoves, Zenon
  <2> QED
    BY <1>4, <2>3, <2>4, <2>5, Zenon DEF FindOIDCUser
<1>5. CASE CreateOIDCUser(r)
  <2>1. /\ req[r].what \in Ask /\ req[r].what.kind \in {"oidc", "desktop"}
        /\ revoked' = revoked
    BY <1>0, <1>5, Zenon DEF CreateOIDCUser, Handler
  <2> DEFINE u == req[r].what.user
             pc == IF req[r].what.kind = "oidc" THEN "create" ELSE "confirm"
  <2>2. u \in User /\ account \in [User -> AccountRow \cup {None}]
    BY <2>1, <1>0, AskTypes, Zenon DEF TypeOK
  <2>3. CASE /\ account' = [account EXCEPT ![u] = Account(FALSE)]
             /\ Moved(r, req[r].what, u, revoked[u], pc)
    <3>1. account'[u] = Account(FALSE) /\ Account(FALSE) \in AccountRow
      BY <2>2, <2>3, Zenon DEF Account, AccountRow
    <3>2. account'[u] # None
      BY <3>1, NoneIsNoRow, Zenon
    <3> QED
      BY <1>3, <2>1, <2>3, <3>2, Zenon
  <2>4. CASE Moved(r, req[r].what, req[r].user, req[r].from, "done")
    BY <2>4, EndedSound, Zenon
  <2> HIDE DEF u, pc
  <2>5. \/ /\ account' = [account EXCEPT ![u] = Account(FALSE)]
           /\ Moved(r, req[r].what, u, revoked[u], pc)
        \/ Moved(r, req[r].what, req[r].user, req[r].from, "done")
    BY <1>0, <1>5, NewAccountStays, Zenon DEF u, pc
  <2> QED
    BY <2>3, <2>4, <2>5, Zenon
<1>6. CASE CreateConfirmation(r)
  BY <1>0, <1>1, <1>6, StepMoves, EndedSound, Zenon DEF CreateConfirmation, End
<1>7. CASE FinishConfirmation(r) \/ Exchange(r)
  BY <1>0, <1>1, <1>7, ArrivesAs, EndedSound, Zenon DEF FinishConfirmation, Exchange
<1>8. CASE AdminRequest(r)
  <2>1. PICK w \in Ask, pc \in {"mutate", "done"} :
             w.kind = "admin" /\ Moved(r, w, req[r].user, req[r].from, pc)
    BY <1>0, <1>8, AdminMoves, Zenon
  <2> QED
    BY <2>1, MovedSound, EndedSound, Zenon
<1>9. CASE Mutate(r) \/ MutateWrites(r)
  <2>1. req[r].what \in Ask /\ req[r].what.kind = "admin"
    BY <1>0, <1>9, Zenon DEF Handler, Mutate, MutateWrites
  <2>2. CASE Moved(r, req[r].what, req[r].user, req[r].from, "done")
    BY <2>2, EndedSound, Zenon
  <2>3. CASE /\ ~ sqlite /\ account' = account
             /\ account[req[r].what.user] # None /\ req[r].what.op # "create"
             /\ Moved(r, req[r].what, req[r].user, req[r].from, "write")
    BY <1>0, <2>1, <2>3, MovedSound, Zenon
  <2> QED
    BY <1>0, <1>9, <2>2, <2>3, MutateCases, Zenon DEF Writes
<1> QED
  BY <1>2, <1>4, <1>5, <1>6, <1>7, <1>8, <1>9, Zenon

\* Every step keeps every request sound.
LEMMA HandlersStep ==
    ASSUME IInv, Next
    PROVE  /\ req' \in [Request -> RequestState]
           /\ \A q \in Request : Handler(q)' /\ Carried(q)'
<1>1. ASSUME NEW r \in Request, Sound(r)
      PROVE  /\ req' \in [Request -> RequestState]
             /\ \A q \in Request : Handler(q)' /\ Carried(q)'
  BY <1>1, OtherRequest, Zenon DEF Sound
<1>2. CASE Pause
  <2>1. req' = req
    BY <1>2, Zenon DEF Pause
  <2> QED
    BY <2>1, OtherRequest, Zenon DEF IInv, TypeOK
<1>3. CASE Restart
  <2>1. TypeOK
    BY Zenon DEF IInv
  <2>2. /\ req' \in [Request -> RequestState]
        /\ \A r \in Request : (Live(r) => req'[r].pc = "done") /\ (~ Live(r) => req'[r] = req[r])
    BY <1>3, <2>1, RestartStays, Zenon
  <2> QED
    BY <2>2, RestingRequest, OtherRequest, Zenon
<1> QED
  BY <1>1, <1>2, <1>3, LoginSound, OidcSound, Zenon DEF Next

-----------------------------------------------------------------------------
(***************************************************************************)
(* Administrators, approvals and the limiter.                              *)
(***************************************************************************)
\* On SQLite the transaction that looks at the other administrators is the one
\* that writes, so one of them remains.
LEMMA AdministratorsStep ==
    ASSUME IInv, Next
    PROVE  AnAdministratorRemains'
<1>0. /\ TypeOK /\ (\A r \in Request : Handler(r)) /\ Stays /\ sqlite' = sqlite
      /\ account \in [User -> AccountRow \cup {None}]
  BY StepFrame, Zenon DEF IInv, TypeOK
<1>1. SUFFICES ASSUME sqlite
               PROVE  \E u \in User : Enabled(u)' /\ account'[u].admin
  BY <1>0, Zenon DEF AnAdministratorRemains
<1>2. PICK v \in User : Enabled(v) /\ account[v].admin
  BY <1>1, Zenon DEF IInv, AnAdministratorRemains
<1>3. account[v] # None /\ ~ account[v].disabled
  BY <1>2, Zenon DEF Enabled
<1>4. ASSUME NEW u \in User, Enabled(u), account[u].admin, account'[u] = account[u]
      PROVE  \E x \in User : Enabled(x)' /\ account'[x].admin
  BY <1>4, Zenon DEF Enabled
<1>5. ASSUME NEW r \in Request, Writes(r)
      PROVE  \E u \in User : Enabled(u)' /\ account'[u].admin
  <2> DEFINE w == req[r].what
  <2>1. /\ w \in Ask /\ w.kind = "admin" /\ ~ Refused(w)
        /\ account[w.user] # None => w.op # "create"
        /\ account' = [account EXCEPT ![w.user] = Changed(w)]
    BY <1>1, <1>5, Zenon DEF Writes, Write
  <2>2. w.user \in User
    BY <2>1, AskTypes, Zenon
  <2>3. \A u \in User : u # w.user => account'[u] = account[u]
    BY <1>0, <2>1, <2>2, Zenon
  <2>4. CASE v # w.user
    BY <1>2, <1>4, <2>3, <2>4, Zenon
  <2>5. CASE v = w.user /\ Others(w.user) # {}
    <3>1. PICK u \in User : u # w.user /\ Enabled(u) /\ account[u].admin
      BY <2>5, Zenon DEF Others
    <3> QED
      BY <1>4, <2>3, <3>1, Zenon
  <2>6. CASE v = w.user /\ Others(w.user) = {}
    <3>1. w.op \notin {"create", "demote", "disable"}
      BY <1>2, <1>3, <2>1, <2>6, Zenon DEF Refused
    <3>2. account[w.user] \in AccountRow /\ account'[w.user] = Changed(w)
      BY <1>0, <1>3, <2>1, <2>2, <2>6, Zenon
    <3>3. Changed(w).admin /\ Changed(w).disabled \in {account[w.user].disabled, FALSE}
      BY <1>2, <2>6, <3>1, <3>2, ChangedFlags, Zenon
    <3>4. account'[v] # None
      BY <1>0, <1>3, Zenon DEF Stays
    <3>5. Enabled(v)'
      BY <1>3, <2>6, <3>2, <3>3, <3>4, Zenon DEF Enabled
    <3> QED
      BY <2>6, <3>2, <3>3, <3>5, Zenon
  <2> QED
    BY <2>4, <2>5, <2>6, Zenon
<1>6. CASE Restart
  <2>1. account'[v] # None /\ account'[v].disabled = account[v].disabled /\ account'[v].admin
    BY <1>0, <1>2, <1>3, <1>6, RestartStays, Zenon DEF Stays
  <2> QED
    BY <1>3, <2>1, Zenon DEF Enabled
<1>7. ASSUME NEW r \in Request, CreateOIDCUser(r)
      PROVE  account'[v] = account[v]
  <2>1. Handler(r)
    BY <1>0, Zenon
  <2> QED
    BY <1>0, <1>3, <1>7, <2>1, NewAccountStays, Zenon
<1>8. ASSUME NEW r \in Request, Mutate(r) \/ MutateWrites(r)
      PROVE  account' = account \/ Writes(r)
  <2>1. Handler(r)
    BY <1>0, Zenon
  <2> QED
    BY <1>0, <1>8, <2>1, MutateCases, Zenon
<1>9. \/ account' = account \/ Restart
      \/ \E r \in Request : CreateOIDCUser(r) \/ Writes(r)
  BY <1>8, ZenonT(30) DEF Next, Login, AuthenticateUser, RecordFailure, CreateSession, CommitSession, Logout,
         OidcCallback, FindOIDCUser, CreateConfirmation, FinishConfirmation,
         Exchange, AdminRequest, Pause, users
<1> QED
  BY <1>2, <1>4, <1>5, <1>6, <1>7, <1>9, Zenon

\* An exchange deletes the approved confirmation it uses, and an approval needs
\* a confirmation that is pending.
LEMMA ApprovalsStep ==
    ASSUME IInv, Next
    PROVE  /\ approved' \in [Handoff -> Nat] /\ exchanged' \in [Handoff -> Nat]
           /\ Approvals'
<1>0. /\ TypeOK /\ approved \in [Handoff -> Nat] /\ exchanged \in [Handoff -> Nat]
      /\ confirm \in [Handoff -> ConfirmRow \cup {None}]
      /\ \A h \in Handoff : exchanged[h] + ApprovedNow(h) <= approved[h]
      /\ \A h \in Handoff : ApprovedNow(h) \in {0, 1} /\ ApprovedNow(h)' \in {0, 1}
  BY Zenon DEF IInv, TypeOK, Approvals, ApprovedNow
<1>1. ASSUME UNCHANGED <<approved, exchanged>>,
             \A h \in Handoff : ApprovedNow(h)' <= ApprovedNow(h)
      PROVE  /\ approved' \in [Handoff -> Nat] /\ exchanged' \in [Handoff -> Nat]
             /\ \A h \in Handoff : exchanged'[h] + ApprovedNow(h)' <= approved'[h]
  <2>1. ASSUME NEW h \in Handoff
        PROVE  exchanged[h] + ApprovedNow(h)' <= approved[h]
    <3>1. exchanged[h] \in Nat /\ approved[h] \in Nat
      BY <1>0, Zenon
    <3>2. ApprovedNow(h) \in Nat /\ ApprovedNow(h)' \in Nat
      BY <1>0
    <3>3. exchanged[h] + ApprovedNow(h) <= approved[h]
      BY <1>0, Zenon
    <3> QED
      BY <1>1, <3>1, <3>2, <3>3
  <2> QED
    BY <1>0, <1>1, <2>1, Zenon
<1>2. ASSUME NEW r \in Request, FinishConfirmation(r)
      PROVE  /\ approved' \in [Handoff -> Nat] /\ exchanged' \in [Handoff -> Nat]
             /\ \A h \in Handoff : exchanged'[h] + ApprovedNow(h)' <= approved'[h]
  <2>1. PICK w \in Ask : w.kind = "finish" /\ req'[r].what = w
    BY <1>0, <1>2, ArrivesAs DEF FinishConfirmation, Moved, Pc
  <2>2. PICK h \in Handoff : h = w.handoff
    BY <2>1, AskTypes, Zenon
  <2>3. PICK status \in {"approved", "cancelled"} :
          \/ UNCHANGED <<confirm, approved>>
          \/ /\ Pending(h) /\ confirm' = [confirm EXCEPT ![h].status = status]
             /\ approved' = IF status = "approved" THEN [approved EXCEPT ![h] = @ + 1] ELSE approved
    BY <1>2, <2>1, <2>2, Zenon DEF FinishConfirmation
  <2>4. exchanged' = exchanged
    BY <1>2, Zenon DEF FinishConfirmation
  <2>5. CASE UNCHANGED <<confirm, approved>>
    <3>1. \A g \in Handoff : ApprovedNow(g)' = ApprovedNow(g)
      BY <2>5, Zenon DEF ApprovedNow
    <3>2. \A g \in Handoff : ApprovedNow(g)' <= ApprovedNow(g)
      BY <1>0, <3>1
    <3> QED
      BY <1>1, <2>4, <2>5, <3>2, Zenon
  <2>6. CASE /\ Pending(h) /\ confirm' = [confirm EXCEPT ![h].status = status]
             /\ approved' = IF status = "approved" THEN [approved EXCEPT ![h] = @ + 1] ELSE approved
    <3>1. ApprovedNow(h) = 0
      BY <2>6, Zenon DEF ApprovedNow, Pending
    <3>2. confirm'[h].status = status /\ \A g \in Handoff : g # h => confirm'[g] = confirm[g]
      BY <1>0, <2>6, Zenon DEF Pending, ConfirmRow
    <3>3. \A g \in Handoff : g # h => ApprovedNow(g)' = ApprovedNow(g) /\ approved'[g] = approved[g]
      BY <1>0, <2>6, <3>2, Zenon DEF ApprovedNow
    <3>4. status = "approved" => approved'[h] = approved[h] + 1
      BY <1>0, <2>6, Zenon
    <3>5. status = "cancelled" => ApprovedNow(h)' = 0 /\ approved' = approved
      BY <2>6, <3>2, Zenon DEF ApprovedNow
    <3>6. approved' \in [Handoff -> Nat]
      BY <1>0, <2>6
    <3>7. exchanged[h] \in Nat /\ approved[h] \in Nat /\ exchanged[h] <= approved[h]
      <4>1. exchanged[h] + ApprovedNow(h) <= approved[h]
        BY <1>0, Zenon
      <4> QED
        BY <1>0, <3>1, <4>1
    <3>8. ApprovedNow(h)' \in {0, 1}
      BY <1>0, Zenon
    <3>9. exchanged[h] + ApprovedNow(h)' <= approved'[h]
      <4>1. CASE status = "approved"
        BY <3>4, <3>7, <3>8, <4>1
      <4>2. CASE status = "cancelled"
        BY <3>5, <3>7, <4>2
      <4> QED
        BY <4>1, <4>2, Zenon
    <3>10. ASSUME NEW g \in Handoff, g # h
           PROVE  exchanged[g] + ApprovedNow(g)' <= approved'[g]
      BY <1>0, <3>3, <3>10, Zenon
    <3> QED
      BY <1>0, <2>4, <3>6, <3>9, <3>10, Zenon
  <2> QED
    BY <2>3, <2>5, <2>6, Zenon
<1>3. ASSUME NEW r \in Request, Exchange(r)
      PROVE  /\ approved' \in [Handoff -> Nat] /\ exchanged' \in [Handoff -> Nat]
             /\ \A h \in Handoff : exchanged'[h] + ApprovedNow(h)' <= approved'[h]
  <2>1. PICK w \in Ask : w.kind = "exchange" /\ req'[r].what = w
    BY <1>0, <1>3, ArrivesAs DEF Exchange, Moved, Pc
  <2>2. PICK h \in Handoff : h = w.handoff
    BY <2>1, AskTypes, Zenon
  <2>3. /\ approved' = approved
        /\ \/ UNCHANGED <<confirm, exchanged>>
           \/ Ready(h) /\ Exchanged(r, h)
    BY <1>3, <2>1, <2>2, Zenon DEF Exchange
  <2>4. CASE UNCHANGED <<confirm, exchanged>>
    <3>1. \A g \in Handoff : ApprovedNow(g)' = ApprovedNow(g)
      BY <2>4, Zenon DEF ApprovedNow
    <3>2. \A g \in Handoff : ApprovedNow(g)' <= ApprovedNow(g)
      BY <1>0, <3>1
    <3> QED
      BY <1>1, <2>3, <2>4, <3>2, Zenon
  <2>5. CASE Ready(h) /\ Exchanged(r, h)
    <3>1. ApprovedNow(h) = 1
      BY <2>5, Zenon DEF ApprovedNow, Ready
    <3>2. confirm' = [confirm EXCEPT ![h] = None] /\ exchanged' = [exchanged EXCEPT ![h] = @ + 1]
      BY <2>5, Zenon DEF Exchanged
    <3>3. /\ exchanged' \in [Handoff -> Nat] /\ exchanged'[h] = exchanged[h] + 1
          /\ \A g \in Handoff : g # h => confirm'[g] = confirm[g] /\ exchanged'[g] = exchanged[g]
          /\ confirm'[h] = None
      BY <1>0, <3>2
    <3>4. ApprovedNow(h)' = 0 /\ \A g \in Handoff : g # h => ApprovedNow(g)' = ApprovedNow(g)
      BY <3>3, Zenon DEF ApprovedNow
    <3>5. exchanged[h] \in Nat /\ approved[h] \in Nat /\ exchanged[h] + 1 <= approved[h]
      <4>1. exchanged[h] + ApprovedNow(h) <= approved[h]
        BY <1>0, Zenon
      <4> QED
        BY <1>0, <3>1, <4>1, Zenon
    <3>6. exchanged'[h] + ApprovedNow(h)' <= approved'[h]
      BY <2>3, <3>3, <3>4, <3>5
    <3>7. ASSUME NEW g \in Handoff, g # h
          PROVE  exchanged'[g] + ApprovedNow(g)' <= approved'[g]
      BY <1>0, <2>3, <3>3, <3>4, <3>7, Zenon
    <3> QED
      BY <1>0, <2>3, <3>3, <3>6, <3>7, Zenon
  <2> QED
    BY <2>3, <2>4, <2>5, Zenon
<1>4. ASSUME NEW r \in Request, CreateConfirmation(r)
      PROVE  /\ UNCHANGED <<approved, exchanged>>
             /\ \A h \in Handoff : ApprovedNow(h)' <= ApprovedNow(h)
  <2> DEFINE kept == [g \in Handoff |-> IF confirm[g] # None /\ confirm[g].old
                                        THEN None ELSE confirm[g]]
             c == [user |-> req[r].user, status |-> "pending", old |-> FALSE, from |-> req[r].from]
  <2>1. \/ confirm' = kept
        \/ \E h : confirm' = [kept EXCEPT ![h] = c]
    BY <1>4, Zenon DEF CreateConfirmation
  <2>2. c.status = "pending"
    BY Zenon
  <2> HIDE DEF c
  <2>3. \A g \in Handoff : confirm'[g] \in {None, confirm[g], c}
    BY <2>1, Zenon
  <2>4. \A g \in Handoff : ApprovedNow(g)' = 0 \/ ApprovedNow(g)' = ApprovedNow(g)
    BY <2>2, <2>3, Zenon DEF ApprovedNow
  <2>5. \A g \in Handoff : ApprovedNow(g)' <= ApprovedNow(g)
    BY <1>0, <2>4
  <2>6. UNCHANGED <<approved, exchanged>>
    BY <1>4, Zenon DEF CreateConfirmation, handoffs
  <2> QED
    BY <2>5, <2>6, Zenon
<1>5. ASSUME Pause
      PROVE  /\ UNCHANGED <<approved, exchanged>>
             /\ \A h \in Handoff : ApprovedNow(h)' <= ApprovedNow(h)
  <2>1. /\ confirm' = [h \in Handoff |-> IF confirm[h] = None THEN None
                                         ELSE [confirm[h] EXCEPT !.old = TRUE]]
        /\ UNCHANGED <<approved, exchanged>>
    BY <1>5, Zenon DEF Pause, handoffs
  <2>2. \A h \in Handoff : confirm[h] # None =>
          [confirm[h] EXCEPT !.old = TRUE].status = confirm[h].status
    BY <1>0, Zenon DEF ConfirmRow
  <2>3. \A h \in Handoff : ApprovedNow(h)' = ApprovedNow(h) \/ ApprovedNow(h)' = 0
    BY <2>1, <2>2, Zenon DEF ApprovedNow
  <2>4. \A h \in Handoff : ApprovedNow(h)' <= ApprovedNow(h)
    BY <1>0, <2>3
  <2> QED
    BY <2>1, <2>4, Zenon
<1>6. CASE UNCHANGED <<confirm, approved, exchanged>>
  <2>1. \A g \in Handoff : ApprovedNow(g)' = ApprovedNow(g)
    BY <1>6, Zenon DEF ApprovedNow
  <2>2. \A g \in Handoff : ApprovedNow(g)' <= ApprovedNow(g)
    BY <1>0, <2>1
  <2> QED
    BY <1>1, <1>6, <2>2, Zenon DEF Approvals, ApprovedNow
<1>7. \/ UNCHANGED <<confirm, approved, exchanged>> \/ Pause
      \/ \E r \in Request : FinishConfirmation(r) \/ Exchange(r) \/ CreateConfirmation(r)
  BY ZenonT(30) DEF Next, Login, AuthenticateUser, RecordFailure, CreateSession, CommitSession, Logout,
         OidcCallback, FindOIDCUser, CreateOIDCUser, AdminRequest, Mutate, MutateWrites, Restart,
         users, handoffs
<1>8. /\ approved' \in [Handoff -> Nat] /\ exchanged' \in [Handoff -> Nat]
      /\ \A h \in Handoff : exchanged'[h] + ApprovedNow(h)' <= approved'[h]
  BY <1>1, <1>2, <1>3, <1>4, <1>5, <1>6, <1>7, Zenon DEF Approvals, ApprovedNow
<1> QED
  BY <1>8, Zenon DEF Approvals, ApprovedNow

\* The two sets of logins are finite.
LEMMA LoginsFinite ==
    ASSUME NEW u
    PROVE  /\ IsFiniteSet(Trying(u)) /\ Cardinality(Trying(u)) \in Nat
           /\ IsFiniteSet(Failing(u)) /\ Cardinality(Failing(u)) \in Nat
<1>1. IsFiniteSet(Request) /\ Trying(u) \in SUBSET Request /\ Failing(u) \in SUBSET Request
  BY IdentityAssumptions, Zenon DEF Trying, Failing
<1> QED
  BY <1>1, FS_Subset, FS_CardinalityType, Zenon

\* How the move of one request changes them.
LEMMA LoginsMove ==
    ASSUME NEW u, NEW r \in Request, \A q \in Request : q # r => req'[q] = req[q]
    PROVE  /\ IF req'[r].pc = "auth" /\ req'[r].what.user = u
              THEN Trying(u)' = Trying(u) \cup {r} ELSE Trying(u)' = Trying(u) \ {r}
           /\ IF req'[r].pc = "fail" /\ req'[r].what.user = u
              THEN Failing(u)' = Failing(u) \cup {r} ELSE Failing(u)' = Failing(u) \ {r}
BY Zenon DEF Trying, Failing

\* A step of a request that is neither checking a password nor will be.
LEMMA BudgetElsewhere ==
    ASSUME TypeOK, NEW u \in User, Budget(u), NEW r \in Request,
           \A q \in Request : q # r => req'[q] = req[q],
           req[r].pc \notin {"auth", "fail"}, req'[r].pc \notin {"auth", "fail"},
           fails' = fails, guesses' = guesses, overlaps' \in Nat, overlaps <= overlaps'
    PROVE  Budget(u)'
<1>1. Trying(u)' = Trying(u) /\ Failing(u)' = Failing(u)
  BY LoginsMove DEF Trying, Failing
<1>2. /\ guesses[u] \in Nat /\ fails[u] \in Nat /\ LoginLimit \in Nat /\ overlaps \in Nat
      /\ Cardinality(Trying(u)) \in Nat /\ Cardinality(Failing(u)) \in Nat
  BY LoginsFinite, IdentityAssumptions, Zenon DEF TypeOK
<1>3. /\ guesses[u] + Cardinality(Trying(u)) <= LoginLimit + overlaps'
      /\ guesses[u] <= fails[u] + Cardinality(Failing(u))
  BY <1>2 DEF Budget
<1> QED
  BY <1>1, <1>3, Zenon DEF Budget

\* A login that the limiter lets pass.
LEMMA BudgetLogin ==
    ASSUME IInv, NEW r \in Request, Login(r), NEW u \in User
    PROVE  Budget(u)' /\ overlaps' \in Nat
<1>0. /\ TypeOK /\ (\A q \in Request : Handler(q)) /\ Budget(u) /\ req[r].pc = "idle"
      /\ fails' = fails /\ guesses' = guesses
  BY Zenon DEF IInv, Login
<1>1. /\ guesses[u] \in Nat /\ fails[u] \in Nat /\ LoginLimit \in Nat /\ overlaps \in Nat
      /\ Cardinality(Trying(u)) \in Nat /\ Cardinality(Failing(u)) \in Nat
  BY <1>0, LoginsFinite, IdentityAssumptions, Zenon DEF TypeOK
<1> DEFINE busy == \E q \in Request : Live(q) /\ req[q].what.kind = "login"
<1>2. overlaps' = IF busy THEN overlaps + 1 ELSE overlaps
  BY Zenon DEF Login
<1>3. overlaps' \in Nat /\ overlaps <= overlaps' /\ (busy => overlaps' = overlaps + 1)
  BY <1>1, <1>2
<1>4. ~ busy => Trying(u) = {} /\ Failing(u) = {}
  BY <1>0, Zenon DEF Trying, Failing, Live, Handler
<1> HIDE DEF busy
<1>5. PICK w \in Ask : /\ w.kind = "login"
                       /\ Moved(r, w, req[r].user, req[r].from,
                                IF Blocked(w.user) THEN "done" ELSE "auth")
  BY <1>0, LoginMoves, Zenon
<1>6. /\ \A q \in Request : q # r => req'[q] = req[q]
      /\ req'[r].what = w /\ req'[r].pc = IF Blocked(w.user) THEN "done" ELSE "auth"
  BY <1>5, Zenon DEF Moved
<1>7. CASE Blocked(w.user)
  BY <1>0, <1>3, <1>6, <1>7, BudgetElsewhere, Zenon
<1>8. CASE ~ Blocked(w.user) /\ w.user # u
  <2>1. Trying(u)' = Trying(u) /\ Failing(u)' = Failing(u)
    BY <1>0, <1>6, <1>8, LoginsMove DEF Trying, Failing
  <2>2. /\ guesses[u] + Cardinality(Trying(u)) <= LoginLimit + overlaps'
        /\ guesses[u] <= fails[u] + Cardinality(Failing(u))
    BY <1>0, <1>1, <1>3 DEF Budget
  <2> QED
    BY <1>0, <1>3, <2>1, <2>2, Zenon DEF Budget
<1>9. CASE ~ Blocked(w.user) /\ w.user = u
  <2>1. Trying(u)' = Trying(u) \cup {r} /\ r \notin Trying(u) /\ Failing(u)' = Failing(u)
    BY <1>0, <1>6, <1>9, LoginsMove DEF Trying, Failing
  <2>2. Cardinality(Trying(u)') = Cardinality(Trying(u)) + 1
    BY <2>1, LoginsFinite, FS_AddElement, Zenon
  <2>3. fails[u] < LoginLimit
    BY <1>0, <1>1, <1>9, IdentityAssumptions, SMTT(30) DEF Blocked, TypeOK
  <2>4. guesses[u] + (Cardinality(Trying(u)) + 1) <= LoginLimit + overlaps'
    <3>1. CASE busy
      <4>1. guesses[u] + Cardinality(Trying(u)) <= LoginLimit + overlaps
        BY <1>0, Zenon DEF Budget
      <4> QED
        BY <1>1, <1>3, <3>1, <4>1
    <3>2. CASE ~ busy
      <4>1. Cardinality(Trying(u)) = 0 /\ Cardinality(Failing(u)) = 0
        BY <1>4, <3>2, FS_EmptySet, Zenon
      <4>2. guesses[u] <= fails[u] + Cardinality(Failing(u))
        BY <1>0, Zenon DEF Budget
      <4> QED
        BY <1>1, <1>3, <2>3, <4>1, <4>2
    <3> QED
      BY <3>1, <3>2, Zenon
  <2>5. guesses[u] <= fails[u] + Cardinality(Failing(u))
    BY <1>0, Zenon DEF Budget
  <2> QED
    BY <1>0, <1>3, <2>1, <2>2, <2>4, <2>5, ZenonT(30) DEF Budget
<1> QED
  BY <1>3, <1>7, <1>8, <1>9, Zenon

\* A password check, and the record of a wrong one.
LEMMA BudgetCheck ==
    ASSUME IInv, NEW r \in Request, AuthenticateUser(r) \/ RecordFailure(r), NEW u \in User
    PROVE  Budget(u)' /\ fails' \in [User -> Nat] /\ guesses' \in [User -> Nat]
<1>0. /\ TypeOK /\ Handler(r) /\ Budget(u) /\ overlaps' = overlaps
      /\ fails \in [User -> Nat] /\ guesses \in [User -> Nat]
  BY Zenon DEF IInv, TypeOK, AuthenticateUser, RecordFailure
<1>1. /\ guesses[u] \in Nat /\ fails[u] \in Nat /\ LoginLimit \in Nat /\ overlaps \in Nat
      /\ Cardinality(Trying(u)) \in Nat /\ Cardinality(Failing(u)) \in Nat
      /\ IsFiniteSet(Trying(u)) /\ IsFiniteSet(Failing(u))
  BY <1>0, LoginsFinite, IdentityAssumptions, Zenon DEF TypeOK
<1>2. /\ guesses[u] + Cardinality(Trying(u)) <= LoginLimit + overlaps
      /\ guesses[u] <= fails[u] + Cardinality(Failing(u))
  BY <1>0, Zenon DEF Budget
<1>3. PICK v \in User : v = req[r].what.user
  BY <1>0, AskTypes, Zenon DEF AuthenticateUser, RecordFailure, Handler
<1>4. CASE /\ req[r].pc = "auth" /\ Moved(r, req[r].what, v, revoked[v], "create")
           /\ fails' = [fails EXCEPT ![v] = 0] /\ guesses' = [guesses EXCEPT ![v] = 0]
  <2>1. Trying(u)' = Trying(u) \ {r} /\ Failing(u)' = Failing(u)
    BY <1>4, LoginsMove DEF Moved, Failing
  <2>2. Cardinality(Trying(u)') \in Nat /\ Cardinality(Trying(u)') <= Cardinality(Trying(u))
    <3>1. /\ IsFiniteSet(Trying(u) \ {r})
          /\ Cardinality(Trying(u) \ {r}) = IF r \in Trying(u) THEN Cardinality(Trying(u)) - 1
                                            ELSE Cardinality(Trying(u))
      BY <1>1, FS_RemoveElement, Zenon
    <3>2. Cardinality(Trying(u) \ {r}) \in Nat
      BY <3>1, FS_CardinalityType, Zenon
    <3> QED
      BY <1>1, <2>1, <3>1, <3>2
  <2>3. guesses'[u] = (IF u = v THEN 0 ELSE guesses[u]) /\ fails'[u] = IF u = v THEN 0 ELSE fails[u]
    BY <1>0, <1>4, Zenon
  <2>4. /\ guesses'[u] + Cardinality(Trying(u)') <= LoginLimit + overlaps
        /\ guesses'[u] <= fails'[u] + Cardinality(Failing(u))
    BY <1>1, <1>2, <2>2, <2>3
  <2>5. fails' \in [User -> Nat] /\ guesses' \in [User -> Nat]
    BY <1>0, <1>4, Zenon
  <2> QED
    BY <1>0, <2>1, <2>4, <2>5, Zenon DEF Budget
<1>5. CASE /\ req[r].pc = "auth" /\ Moved(r, req[r].what, req[r].user, req[r].from, "fail")
           /\ fails' = fails /\ guesses' = [guesses EXCEPT ![v] = @ + 1]
  <2>1. guesses' \in [User -> Nat] /\ guesses'[u] = IF u = v THEN guesses[u] + 1 ELSE guesses[u]
    BY <1>0, <1>5
  <2>2. CASE u # v
    <3>1. Trying(u)' = Trying(u) /\ Failing(u)' = Failing(u)
      BY <1>3, <1>5, <2>2, LoginsMove DEF Moved, Failing, Trying
    <3> QED
      BY <1>0, <1>2, <1>5, <2>1, <2>2, <3>1, ZenonT(30) DEF Budget
  <2>3. CASE u = v
    <3>1. /\ Trying(u)' = Trying(u) \ {r} /\ r \in Trying(u)
          /\ Failing(u)' = Failing(u) \cup {r} /\ r \notin Failing(u)
      BY <1>3, <1>5, <2>3, LoginsMove DEF Moved, Failing, Trying
    <3>2. /\ Cardinality(Trying(u)') = Cardinality(Trying(u)) - 1
          /\ Cardinality(Failing(u)') = Cardinality(Failing(u)) + 1
      <4>1. Cardinality(Trying(u) \ {r}) = Cardinality(Trying(u)) - 1
        BY <1>1, <3>1, FS_RemoveElement, Zenon
      <4>2. Cardinality(Failing(u) \cup {r}) = Cardinality(Failing(u)) + 1
        BY <1>1, <3>1, FS_AddElement, Zenon
      <4> QED
        BY <3>1, <4>1, <4>2, Zenon
    <3>3. /\ guesses'[u] + Cardinality(Trying(u)') <= LoginLimit + overlaps
          /\ guesses'[u] <= fails[u] + Cardinality(Failing(u)')
      BY <1>1, <1>2, <2>1, <2>3, <3>2, SMTT(30)
    <3> QED
      BY <1>0, <1>5, <2>1, <3>3, ZenonT(30) DEF Budget
  <2> QED
    BY <2>2, <2>3, Zenon
<1>6. CASE RecordFailure(r)
  <2>1. /\ req[r].pc = "fail" /\ fails' = [fails EXCEPT ![v] = @ + 1] /\ guesses' = guesses
        /\ Moved(r, req[r].what, req[r].user, req[r].from, "done")
    BY <1>0, <1>3, <1>6, StepMoves, Zenon DEF RecordFailure, End, Pc
  <2>2. fails' \in [User -> Nat] /\ fails'[u] = IF u = v THEN fails[u] + 1 ELSE fails[u]
    BY <1>0, <2>1, SMTT(30)
  <2>3. Trying(u)' = Trying(u) /\ Failing(u)' = Failing(u) \ {r}
    BY <2>1, LoginsMove DEF Moved, Trying
  <2>4. (u = v => r \in Failing(u)) /\ (u # v => r \notin Failing(u))
    BY <1>3, <2>1, Zenon DEF Failing
  <2>5. Cardinality(Failing(u)') = IF u = v THEN Cardinality(Failing(u)) - 1
                                   ELSE Cardinality(Failing(u))
    BY <1>1, <2>3, <2>4, FS_RemoveElement, Zenon
  <2>6. guesses[u] <= fails'[u] + Cardinality(Failing(u)')
    BY <1>1, <1>2, <2>2, <2>5
  <2> QED
    BY <1>0, <1>2, <2>1, <2>2, <2>3, <2>6, Zenon DEF Budget
<1>7. AuthenticateUser(r) =>
        /\ req[r].pc = "auth"
        /\ \/ /\ Moved(r, req[r].what, v, revoked[v], "create")
              /\ fails' = [fails EXCEPT ![v] = 0] /\ guesses' = [guesses EXCEPT ![v] = 0]
           \/ /\ Moved(r, req[r].what, req[r].user, req[r].from, "fail")
              /\ fails' = fails /\ guesses' = [guesses EXCEPT ![v] = @ + 1]
  <2>1. AuthenticateUser(r) => req[r].pc = "auth"
    BY Zenon DEF AuthenticateUser
  <2> QED
    BY <1>0, <1>3, <2>1, AuthenticateMoves, Zenon
<1> QED
  BY <1>4, <1>5, <1>6, <1>7, Zenon

\* The other handlers never go to a password check.
LEMMA LeavesLogin ==
    ASSUME TypeOK, \A q \in Request : Handler(q), NEW r \in Request,
           \/ CreateSession(r) \/ CommitSession(r) \/ Logout(r)
           \/ OidcCallback(r) \/ FindOIDCUser(r) \/ CreateOIDCUser(r)
           \/ CreateConfirmation(r) \/ FinishConfirmation(r) \/ Exchange(r)
           \/ AdminRequest(r) \/ Mutate(r) \/ MutateWrites(r)
    PROVE  req'[r].pc \notin {"auth", "fail"}
<1>0. Handler(r) /\ req \in [Request -> RequestState] /\ Pc \cap {"auth", "fail"} = {"auth", "fail"}
  BY Zenon DEF TypeOK, Pc
<1>1. CASE \E pc : req' = [req EXCEPT ![r].pc = pc] /\ pc \notin {"auth", "fail"}
  BY <1>0, <1>1, Zenon DEF RequestState
<1>2. CASE \E pc : pc \in Pc \ {"auth", "fail"} /\ \E kind : Arrive(r, kind, pc)
  <2>1. PICK pc \in Pc : pc \notin {"auth", "fail"} /\ \E kind : Arrive(r, kind, pc)
    BY <1>2, Zenon
  <2>2. PICK kind : Arrive(r, kind, pc)
    BY <2>1, Zenon
  <2> QED
    BY <2>1, <2>2, ArrivesAs, ZenonT(30) DEF Moved
<1>3. CASE CreateSession(r) \/ CommitSession(r) \/ CreateConfirmation(r)
  BY <1>1, <1>3, ZenonT(30) DEF CreateSession, CommitSession, CreateConfirmation, Step, End
<1>4. CASE Logout(r) \/ OidcCallback(r) \/ FinishConfirmation(r) \/ Exchange(r)
  BY <1>2, <1>4, Zenon DEF Logout, OidcCallback, FinishConfirmation, Exchange, Pc
<1>5. ASSUME NEW u \in User, Identified(r, u)
      PROVE  req'[r].pc \notin {"auth", "fail"}
  BY <1>5, OidcMoves, Zenon DEF Moved
<1>6. CASE FindOIDCUser(r)
  <2>1. req[r].what.user \in User
    BY <1>0, <1>6, AskTypes, Zenon DEF FindOIDCUser, Handler
  <2> QED
    BY <1>1, <1>5, <1>6, <2>1, Zenon DEF FindOIDCUser, Step, End
<1>7. CASE CreateOIDCUser(r)
  BY <1>0, <1>7, NewAccountStays, Zenon DEF Moved
<1>8. CASE AdminRequest(r)
  BY <1>8, AdminMoves, Zenon DEF Moved
<1>9. CASE Mutate(r) \/ MutateWrites(r)
  BY <1>0, <1>9, MutateCases, Zenon DEF Writes, Moved
<1> QED
  BY <1>3, <1>4, <1>6, <1>7, <1>8, <1>9, Zenon

\* Every step keeps the limiter's budget.
LEMMA BudgetStep ==
    ASSUME IInv, Next
    PROVE  /\ fails' \in [User -> Nat] /\ address' \in Nat
           /\ guesses' \in [User -> Nat] /\ overlaps' \in Nat
           /\ \A u \in User : Budget(u)'
<1>0. /\ TypeOK /\ (\A r \in Request : Handler(r)) /\ (\A u \in User : Budget(u))
      /\ fails \in [User -> Nat] /\ address \in Nat
      /\ guesses \in [User -> Nat] /\ overlaps \in Nat /\ LoginLimit \in Nat
  BY IdentityAssumptions, Zenon DEF IInv, TypeOK
<1>1. ASSUME NEW r \in Request, Login(r)
      PROVE  overlaps' \in Nat /\ \A u \in User : Budget(u)'
  <2>1. overlaps' \in Nat
    BY <1>0, <1>1 DEF Login
  <2> QED
    BY <1>1, <2>1, BudgetLogin, Zenon
<1>2. ASSUME NEW r \in Request, AuthenticateUser(r) \/ RecordFailure(r)
      PROVE  /\ fails' \in [User -> Nat] /\ guesses' \in [User -> Nat]
             /\ \A u \in User : Budget(u)'
  BY <1>2, BudgetCheck, IdentityAssumptions, Zenon
<1>3. ASSUME Pause \/ Restart
      PROVE  /\ fails' \in [User -> Nat] /\ address' = 0
             /\ guesses' \in [User -> Nat] /\ overlaps' = 0
             /\ \A u \in User : Budget(u)'
  <2>1. /\ fails' = [u \in User |-> 0] /\ address' = 0
        /\ guesses' = [u \in User |-> 0] /\ overlaps' = 0
    BY <1>3, Zenon DEF Pause, Restart
  <2>2. \A r \in Request : req'[r].pc \notin {"auth", "fail"}
    <3>1. CASE Pause
      BY <3>1, Zenon DEF Pause, Live
    <3>2. CASE Restart
      <4>1. \A r \in Request : /\ Live(r) => req'[r].pc = "done"
                               /\ ~ Live(r) => req'[r] = req[r]
        BY <1>0, <3>2, RestartStays, Zenon
      <4> QED
        BY <4>1, Zenon DEF Live
    <3> QED
      BY <1>3, <3>1, <3>2, Zenon
  <2>3. \A u \in User : Trying(u)' = {} /\ Failing(u)' = {}
    BY <2>2, Zenon DEF Trying, Failing
  <2>4. \A u \in User : Cardinality(Trying(u)') = 0 /\ Cardinality(Failing(u)') = 0
    BY <2>3, FS_EmptySet, Zenon
  <2>5. \A u \in User : Budget(u)'
    BY <1>0, <2>1, <2>4 DEF Budget
  <2> QED
    BY <2>1, <2>5, Zenon
<1>4. ASSUME NEW r \in Request, NEW u \in User, UNCHANGED limiter, Sound(r),
             req[r].pc \notin {"auth", "fail"}, req'[r].pc \notin {"auth", "fail"}
      PROVE  Budget(u)'
  <2>1. overlaps' \in Nat /\ overlaps <= overlaps' /\ fails' = fails /\ guesses' = guesses
    BY <1>0, <1>4 DEF limiter
  <2>2. \A q \in Request : q # r => req'[q] = req[q]
    BY <1>4, Zenon DEF Sound
  <2> QED
    BY <1>0, <1>4, <2>1, <2>2, BudgetElsewhere, Zenon
<1>5. ASSUME NEW r \in Request,
             \/ CreateSession(r) \/ CommitSession(r) \/ Logout(r)
             \/ OidcCallback(r) \/ FindOIDCUser(r) \/ CreateOIDCUser(r)
             \/ CreateConfirmation(r) \/ FinishConfirmation(r) \/ Exchange(r)
             \/ AdminRequest(r) \/ Mutate(r) \/ MutateWrites(r)
      PROVE  UNCHANGED limiter /\ \A u \in User : Budget(u)'
  <2>1. UNCHANGED limiter
    BY <1>5, Zenon DEF CreateSession, CommitSession, Logout, OidcCallback, FindOIDCUser, CreateOIDCUser,
         CreateConfirmation, FinishConfirmation, Exchange, AdminRequest, Mutate, MutateWrites
  <2>2. req[r].pc \notin {"auth", "fail"}
    BY <1>5, Zenon DEF CreateSession, CommitSession, Logout, OidcCallback, FindOIDCUser, CreateOIDCUser,
         CreateConfirmation, FinishConfirmation, Exchange, AdminRequest, Mutate, MutateWrites, Arrive
  <2>3. req'[r].pc \notin {"auth", "fail"}
    BY <1>0, <1>5, LeavesLogin, Zenon
  <2>4. Sound(r)
    BY <1>5, LoginSound, OidcSound, Zenon
  <2> QED
    BY <1>4, <2>1, <2>2, <2>3, <2>4, Zenon
<1>6. CASE \E r \in Request : Login(r)
  <2>1. fails' = fails /\ guesses' = guesses /\ address' = address
    BY <1>6, Zenon DEF Login
  <2> QED
    BY <1>0, <1>1, <1>6, <2>1, Zenon
<1>7. CASE \E r \in Request : AuthenticateUser(r) \/ RecordFailure(r)
  <2>1. overlaps' = overlaps /\ address' \in Nat
    <3>1. overlaps' = overlaps /\ (address' = address \/ address' = address + 1)
      BY <1>7, Zenon DEF AuthenticateUser, RecordFailure
    <3>2. address \in Nat
      BY <1>0, Zenon
    <3>3. address + 1 \in Nat
      BY <3>2
    <3> QED BY <3>1, <3>2, <3>3, Zenon
  <2> QED
    BY <1>0, <1>2, <1>7, <2>1, ZenonT(30)
<1>8. CASE Pause \/ Restart
  BY <1>3, <1>8
<1>9. CASE \E r \in Request :
             \/ CreateSession(r) \/ CommitSession(r) \/ Logout(r)
             \/ OidcCallback(r) \/ FindOIDCUser(r) \/ CreateOIDCUser(r)
             \/ CreateConfirmation(r) \/ FinishConfirmation(r) \/ Exchange(r)
             \/ AdminRequest(r) \/ Mutate(r) \/ MutateWrites(r)
  <2>1. UNCHANGED limiter /\ \A u \in User : Budget(u)'
    BY <1>5, <1>9, Zenon
  <2> QED
    BY <1>0, <2>1, Zenon DEF limiter
<1> QED
  BY <1>6, <1>7, <1>8, <1>9, Zenon DEF Next

-----------------------------------------------------------------------------
(***************************************************************************)
(* The theorems.                                                           *)
(***************************************************************************)
\* The initial state.
LEMMA InitInv == Init => IInv
<1> SUFFICES ASSUME Init
             PROVE  IInv
  BY Zenon
<1>1. PICK P \in SUBSET (User \ Oidc) : \E A \in SUBSET P :
         /\ Bootstrap \in A
         /\ account = [u \in User |-> IF u \in P THEN Account(u \in A) ELSE None]
         /\ session = {[id |-> u, user |-> u, via |-> None, from |-> 0, since |-> 0] : u \in P}
  BY Zenon DEF Init
<1>2. PICK A \in SUBSET P :
         /\ Bootstrap \in A
         /\ account = [u \in User |-> IF u \in P THEN Account(u \in A) ELSE None]
         /\ session = {[id |-> u, user |-> u, via |-> None, from |-> 0, since |-> 0] : u \in P}
  BY <1>1, Zenon
<1>3. \A u \in User : /\ Account(u \in A) \in AccountRow
                      /\ ~ Account(u \in A).disabled /\ (u \in A => Account(u \in A).admin)
  <2>1. /\ Account(TRUE) \in AccountRow /\ ~ Account(TRUE).disabled /\ Account(TRUE).admin
        /\ Account(FALSE) \in AccountRow /\ ~ Account(FALSE).disabled
    BY Zenon DEF Account, AccountRow
  <2>2. \A u \in User : (u \in A) = TRUE \/ (u \in A) = FALSE
    OBVIOUS
  <2> QED
    BY <2>1, <2>2, Zenon
<1>4. /\ account \in [User -> AccountRow \cup {None}]
      /\ \A u \in P : Enabled(u)
      /\ Enabled(Bootstrap) /\ account[Bootstrap].admin /\ Bootstrap \in User
  BY <1>2, <1>3, NoneIsNoRow, ZenonT(30) DEF Enabled
<1>5. \A s \in session : /\ s \in SessionRow /\ s.user \in P /\ s.from = 0 /\ s.since = 0
  BY <1>2 DEF SessionRow
<1>6. Idle \in RequestState /\ Idle.pc = "idle"
  BY Zenon DEF Idle, RequestState
<1>7. /\ req \in [Request -> RequestState] /\ \A r \in Request : req[r].pc = "idle"
      /\ revoked = [u \in User |-> 0] /\ revoked \in [User -> Nat]
      /\ \A h \in Handoff : confirm[h] = None
  BY <1>6, Zenon DEF Init
<1>8. \A s \in session : account[s.user] # None /\ s.from <= s.since
  BY <1>4, <1>5 DEF Enabled
<1>9. TypeOK
  BY <1>4, <1>5, <1>7, <1>8, ZenonT(30) DEF TypeOK, Init, Enabled
<1>10. \A r \in Request : Handler(r) /\ Carried(r)
  BY <1>7, Zenon DEF Handler, Carried
<1>11. \A h \in Handoff : Confirmed(h)
  BY <1>7, Zenon DEF Confirmed
<1>12. AnAdministratorRemains
  BY <1>4, Zenon DEF AnAdministratorRemains
<1>13. RevocationHolds
  BY <1>4, <1>5, <1>7, SMTT(30) DEF RevocationHolds
<1>14. Approvals
  BY <1>7 DEF Approvals, ApprovedNow, Init
<1>15. ASSUME NEW u \in User
       PROVE  Budget(u)
  <2>1. Trying(u) = {} /\ Failing(u) = {}
    BY <1>7, Zenon DEF Trying, Failing
  <2>2. Cardinality(Trying(u)) = 0 /\ Cardinality(Failing(u)) = 0
    BY <2>1, FS_EmptySet, Zenon
  <2> QED
    BY <2>2, IdentityAssumptions DEF Budget, Init
<1> QED
  BY <1>9, <1>10, <1>11, <1>12, <1>13, <1>14, <1>15, Zenon DEF IInv

\* The invariant is inductive.
LEMMA StepInv == IInv /\ [Next]_vars => IInv'
<1> SUFFICES ASSUME IInv, [Next]_vars
             PROVE  IInv'
  BY Zenon
<1>1. CASE UNCHANGED vars
  BY <1>1, ZenonT(30) DEF vars, users, limiter, handoffs, fixed, IInv, TypeOK, Handler, Carried, Confirmed,
       AnAdministratorRemains, RevocationHolds, Approvals, ApprovedNow, Budget, Trying, Failing,
       Enabled
<1>2. CASE Next
  <2>1. /\ sqlite' = sqlite /\ asked' = asked /\ Stays
        /\ revoked' \in [User -> Nat]
    <3>1. TypeOK /\ (\A r \in Request : Handler(r)) /\ revoked \in [User -> Nat]
      BY Zenon DEF IInv, TypeOK
    <3> QED
      BY <1>2, <3>1, StepFrame, WriteEffect, Zenon
  <2>2. running' \in BOOLEAN /\ pauses' \in Nat /\ restarts' \in Nat
    <3>1. TypeOK /\ running \in BOOLEAN /\ pauses \in Nat /\ restarts \in Nat
      BY Zenon DEF IInv, TypeOK
    <3>2. Restart => running' \in BOOLEAN
      BY <3>1, RestartStays, Zenon
    <3>3. CASE Pause
      BY <3>1, <3>3 DEF Pause
    <3>4. CASE Restart
      <4>1. restarts' = restarts + 1 /\ pauses' = pauses
        BY <3>4, Zenon DEF Restart
      <4> QED
        BY <3>1, <3>2, <3>4, <4>1
    <3>5. CASE UNCHANGED fixed
      BY <3>1, <3>5, Zenon DEF fixed
    <3> QED
      BY <1>2, <3>3, <3>4, <3>5, ZenonT(30) DEF Next, Login, AuthenticateUser, RecordFailure, CreateSession,
         CommitSession, Logout, OidcCallback, FindOIDCUser, CreateOIDCUser, CreateConfirmation,
         FinishConfirmation, Exchange, AdminRequest, Mutate, MutateWrites
  <2>3. \A s \in session' : SessionOK(s)'
    BY <1>2, SessionsStep, Zenon
  <2>4. confirm' \in [Handoff -> ConfirmRow \cup {None}] /\ \A h \in Handoff : ConfirmOK(h)'
    BY <1>2, ConfirmsStep, Zenon
  <2>5. /\ req' \in [Request -> RequestState]
        /\ \A q \in Request : Handler(q)' /\ Carried(q)'
    BY <1>2, HandlersStep, Zenon
  <2>6. AnAdministratorRemains'
    BY <1>2, AdministratorsStep, Zenon
  <2>7. approved' \in [Handoff -> Nat] /\ exchanged' \in [Handoff -> Nat] /\ Approvals'
    BY <1>2, ApprovalsStep, Zenon
  <2>8. /\ fails' \in [User -> Nat] /\ address' \in Nat
        /\ guesses' \in [User -> Nat] /\ overlaps' \in Nat
        /\ \A u \in User : Budget(u)'
    BY <1>2, BudgetStep, Zenon
  <2>9. account'[Bootstrap] # None /\ sqlite' \in BOOLEAN /\ asked' \in Scenarios
    BY <2>1, IdentityAssumptions, Zenon DEF IInv, TypeOK, Stays
  <2>10. /\ session' \subseteq SessionRow
         /\ \A s \in session' : account'[s.user] # None /\ s.from <= s.since
    BY <2>3, Zenon DEF SessionOK
  <2>11. \A h \in Handoff : (confirm'[h] # None => account'[confirm'[h].user] # None) /\ Confirmed(h)'
    BY <2>4, Zenon DEF ConfirmOK
  <2>12. TypeOK'
    BY <2>1, <2>2, <2>4, <2>5, <2>7, <2>8, <2>9, <2>10, <2>11, ZenonT(30) DEF TypeOK, Stays
  <2>13. RevocationHolds'
    BY <2>3, Zenon DEF SessionOK, RevocationHolds
  <2> QED
    BY <2>5, <2>6, <2>7, <2>8, <2>11, <2>12, <2>13, Zenon DEF IInv
<1> QED
  BY <1>1, <1>2, Zenon

\* Types: a session and a confirmation always belong to an account, and no
\* account disappears.
THEOREM TypeCorrect == Spec => []TypeOK
<1>1. IInv => TypeOK
  BY Zenon DEF IInv
<1> QED
  BY <1>1, InitInv, StepInv, PTL DEF Spec

\* With any number of administrators who demote and disable one another at the
\* same time, SQLite always keeps an enabled one (SetManagedUserAdmin,
\* SetManagedUserDisabled).
THEOREM AdministratorRemains == Spec => []AnAdministratorRemains
<1>1. IInv => AnAdministratorRemains
  BY Zenon DEF IInv
<1> QED
  BY <1>1, InitInv, StepInv, PTL DEF Spec

\* A disabling, a password reset and a revocation end the user's sessions; only a
\* sign-in or a handoff under way at that moment can give one with an older
\* identification, and on SQLite none exists for a disabled account.
THEOREM RevocationAlwaysHolds == Spec => []RevocationHolds
<1>1. IInv => RevocationHolds
  BY Zenon DEF IInv
<1> QED
  BY <1>1, InitInv, StepInv, PTL DEF Spec

\* However the desktop polls and the browser approves, an approval gives at most
\* one session (ExchangeOIDCDesktopHandoff).
THEOREM SessionPerApproval == Spec => []OneSessionPerApproval
<1>1. IInv => OneSessionPerApproval
  <2> SUFFICES ASSUME IInv, NEW h \in Handoff
               PROVE  exchanged[h] <= approved[h]
    BY Zenon DEF OneSessionPerApproval
  <2>1. /\ exchanged[h] \in Nat /\ approved[h] \in Nat
        /\ exchanged[h] + ApprovedNow(h) <= approved[h]
    BY Zenon DEF IInv, TypeOK, Approvals
  <2>2. ApprovedNow(h) \in {0, 1}
    BY Zenon DEF ApprovedNow
  <2> QED
    BY <2>1, <2>2
<1> QED
  BY <1>1, InitInv, StepInv, PTL DEF Spec

\* For every limit and any number of concurrent logins, the wrong passwords an
\* account sees in a minute exceed the limit by no more than the logins that
\* overlapped (limiter.blocked, recordFailure).
THEOREM LimiterBounds == Spec => []GuessesBounded
<1>1. IInv => GuessesBounded
  <2> SUFFICES ASSUME IInv, NEW u \in User
               PROVE  guesses[u] <= LoginLimit + overlaps
    BY Zenon DEF GuessesBounded
  <2>1. /\ guesses[u] \in Nat /\ overlaps \in Nat /\ LoginLimit \in Nat
        /\ Cardinality(Trying(u)) \in Nat
    BY LoginsFinite, IdentityAssumptions, Zenon DEF IInv, TypeOK
  <2>2. guesses[u] + Cardinality(Trying(u)) <= LoginLimit + overlaps
    BY Zenon DEF IInv, Budget
  <2> QED
    BY <2>1, <2>2
<1> QED
  BY <1>1, InitInv, StepInv, PTL DEF Spec

=============================================================================
