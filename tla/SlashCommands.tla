--------------------------- MODULE SlashCommands ---------------------------
(***************************************************************************)
(* Imported slash commands: a command is sent to its integration once per  *)
(* Idempotency-Key, and the integration may answer later through a         *)
(* response URL of limited use (internal/server/commands.go,               *)
(* command_channel.go, internal/store/store.go, slash_channel.go).         *)
(***************************************************************************)
EXTENDS Actions

CONSTANTS
    Team,      \* teams that may define the trigger
    MaxUses,   \* deliveries a response URL accepts: five
    MaxValues  \* responses one delivery may carry: up to five

ASSUME SlashAssumptions ==
    /\ IsFiniteSet(Team)
    /\ MaxUses \in Nat \ {0} /\ MaxValues \in Nat \ {0}
    /\ \A w \in UNION Scenarios : w.kind \in {"command", "delayed"} => w.key \in Key

VARIABLES
    sqlite,    \* one database connection, so that a transaction is one step
    command,   \* slash_commands: command[t] is the key of the token's cipher
    slash,     \* slash_command_executions by request_key
    response,  \* slash_command_responses: <<k, r, i>>, i-th value of request r
    called     \* history: called[k] requests to the integration with key k

slashVars == <<sqlite, command, slash, response, called>>

SlashInit ==
    /\ sqlite \in IF Asks("delayed") THEN BOOLEAN ELSE {TRUE}
    /\ \/ command = [t \in Team |-> None]
       \/ Asks("command") /\ setting # None /\ \E t \in Team : command = [u \in Team |-> IF u = t THEN setting ELSE None]
    /\ slash = [k \in Key |-> None]
    /\ response = {}
    /\ called = [k \in Key |-> 0]

\* A request ends with its answer.
End(r, a) == req' = [req EXCEPT ![r].pc = "done", ![r].ans = a, ![r].out = "", ![r].seen = 0]

\* Definitions that exist stay as they are (one that differs refuses the import).
Imported(T) ==
    [t \in Team |-> IF t \in T /\ command[t] = None THEN setting' ELSE command[t]]

ImportSlashCommands ==
    /\ Edit /\ Asks("command")
    /\ \E T \in SUBSET Team \ {{}} :
         /\ setting' = EnsureStoredKey
         /\ command' = Imported(T)
    /\ UNCHANGED <<asked, req, exec, card, post, target, seed, aged, history, sqlite,
                   slash, response, called>>

-----------------------------------------------------------------------------
(***************************************************************************)
(* Running a command.                                                      *)
(***************************************************************************)
Defining == {t \in Team : command[t] # None}

\* executeSlashCommand names the team; executeChannelCommand takes the one the
\* channel is aliased to, or the only one that defines the trigger.
Resolved(w) ==
    {t \in Defining : IF w.team # None THEN t = w.team ELSE Defining = {t}}

\* late: the command had been answered with its key before (a history).
Submit(r) ==
    /\ req[r].pc = "idle"
    /\ \E w \in {v \in asked : v.kind = "command"} :
         req' = [req EXCEPT ![r].what = w, ![r].pc = "resolve",
             ![r].late = \E q \in Request : req[q].what = w /\ req[q].ans = "ok"]
    /\ UNCHANGED <<exec, config, aged, history, slashVars>>

\* The command is found and its token decrypted before anything is recorded.
Resolve(r) ==
    /\ req[r].pc = "resolve"
    /\ LET found == Resolved(req[r].what) IN
       IF found = {} THEN End(r, "not found")
       ELSE \E t \in found :
              IF Decrypts(command[t])
              THEN req' = [req EXCEPT ![r].pc = "record", ![r].out = t]
              ELSE End(r, "unavailable")
    /\ UNCHANGED <<exec, config, aged, history, slashVars>>

Execution(r) == [what |-> req[r].what, team |-> req[r].out, count |-> 0, expired |-> FALSE]

\* CreateSlashCommandExecution: INSERT, unique in request_key.
RecordCommand(r) ==
    /\ req[r].pc = "record"
    /\ LET k == req[r].what.key IN
       \/ /\ slash[k] = None
          /\ slash' = [slash EXCEPT ![k] = Execution(r)]
          /\ Step(r, "dispatch")
       \/ /\ slash[k] # None
          /\ slash' = slash
          /\ Step(r, "known")
    /\ UNCHANGED <<exec, config, aged, history, sqlite, command, response, called>>

\* The execution with the key: replayed for the same command, user and text.
\* The composer's handler takes an execution without responses for a failure.
Recording(k) == {p \in response : p[1] = k}

Replay_Expired(r) ==
    /\ req[r].pc = "known"
    /\ LET k == req[r].what.key IN
       IF slash[k].what = req[r].what /\ ~ slash[k].expired
       THEN End(r, IF Recording(k) # {} THEN "replayed" ELSE "empty")
       ELSE End(r, "conflict")
    /\ UNCHANGED <<exec, config, aged, history, slashVars>>

Replay(r) ==
    /\ req[r].pc = "known"
    /\ LET k == req[r].what.key IN
       IF slash[k].what = req[r].what /\ slash[k].team = req[r].out
       THEN End(r, IF Recording(k) # {} THEN "replayed"
                   ELSE IF req[r].what.composer THEN "error" ELSE "empty")
       ELSE End(r, "conflict")
    /\ UNCHANGED <<exec, config, aged, history, slashVars>>

\* The integration is called; a failure leaves an execution without responses.
Dispatch(r) ==
    /\ req[r].pc = "dispatch"
    /\ called' = [called EXCEPT ![req[r].what.key] = @ + 1]
    /\ \/ End(r, "bad gateway")
       \/ \E n \in 1..MaxValues : req' = [req EXCEPT ![r].pc = "respond", ![r].seen = n]
    /\ UNCHANGED <<exec, config, aged, history, sqlite, command, slash, response>>

AddSlashCommandResponse(r) == response' = response \cup {<<req[r].what.key, r, req[r].seen>>}

\* Every value of the answer is recorded by a statement of its own.
Respond(r) ==
    /\ req[r].pc = "respond"
    /\ AddSlashCommandResponse(r)
    /\ IF req[r].seen > 1 THEN req' = [req EXCEPT ![r].seen = @ - 1] ELSE End(r, "ok")
    /\ UNCHANGED <<exec, config, aged, history, sqlite, command, slash, called>>

-----------------------------------------------------------------------------
(***************************************************************************)
(* Delayed responses.                                                      *)
(***************************************************************************)
Deliver(r) ==
    /\ req[r].pc = "idle"
    /\ \E w \in {v \in asked : v.kind = "delayed"} :
         /\ slash[w.key] # None /\ called[w.key] > 0
         /\ req' = [req EXCEPT ![r].what = w, ![r].pc = "use",
                                 ![r].late = slash[w.key].expired]
    /\ UNCHANGED <<exec, config, aged, history, slashVars>>

Usable_OneMore(e) == ~ e.expired /\ e.count <= MaxUses

Usable(e) == ~ e.expired /\ e.count < MaxUses

Accepts(r) == \E n \in 1..MaxValues : req' = [req EXCEPT ![r].pc = "respond", ![r].seen = n]

\* UseSlashResponseToken: read, check and count in one transaction.
UseToken(r) ==
    /\ req[r].pc = "use"
    /\ LET k == req[r].what.key IN
       \/ /\ ~ Usable(slash[k])
          /\ slash' = slash
          /\ End(r, "gone")
       \/ /\ Usable(slash[k]) /\ sqlite
          /\ slash' = [slash EXCEPT ![k].count = @ + 1]
          /\ Accepts(r)
       \/ /\ Usable(slash[k]) /\ ~ sqlite
          /\ slash' = slash
          /\ Step(r, "count")
    /\ UNCHANGED <<exec, config, aged, history, sqlite, command, response, called>>

\* PostgreSQL, READ COMMITTED: the count is raised by a later statement.
CountUse(r) ==
    /\ req[r].pc = "count"
    /\ slash' = [slash EXCEPT ![req[r].what.key].count = @ + 1]
    /\ Accepts(r)
    /\ UNCHANGED <<exec, config, aged, history, sqlite, command, response, called>>

SlashStep(r) ==
    \/ Submit(r) \/ Resolve(r) \/ RecordCommand(r) \/ Replay(r) \/ Dispatch(r)
    \/ Respond(r) \/ Deliver(r) \/ UseToken(r) \/ CountUse(r)

\* The response URL of an execution expires.
Expired == [k \in Key |-> IF slash[k] = None THEN None
                          ELSE [slash[k] EXCEPT !.expired = TRUE]]

-----------------------------------------------------------------------------
(***************************************************************************)
(* Properties.                                                             *)
(***************************************************************************)

\* A command reaches the integration at most once per key.  One retried after
\* it was answered is replayed: not refused, and not run again, after half an
\* hour and after a restart with another key too.
\* Only the composer of a channel without an alias may find the trigger gone:
\* another team has imported it meanwhile (SlashCommandForChannel).
RetryReplays ==
    /\ \A k \in Key : called[k] <= 1
    /\ \A r \in Request : (req[r].late /\ req[r].what.kind = "command" /\ req[r].pc = "done") =>
        \/ req[r].ans = "replayed"
        \/ req[r].ans = "not found" /\ req[r].what.team = None /\ Cardinality(Defining) > 1

Delivered(k) ==
    {r \in Request : req[r].what # None /\ req[r].what.kind = "delayed"
                     /\ \E p \in response : p[1] = k /\ p[2] = r}

\* A response URL records nothing after its expiry, and on SQLite at most
\* MaxUses deliveries (UseSlashResponseToken).
DeliveriesBounded ==
    \A k \in Key : /\ sqlite => Cardinality(Delivered(k)) <= MaxUses
                   /\ \A r \in Delivered(k) : ~ req[r].late

=============================================================================
