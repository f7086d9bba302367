----------------------------- MODULE Operations -----------------------------
(***************************************************************************)
(* The operations with an Idempotency-Key together: clicks on cards, tool  *)
(* calls of an agent (which may run an action) and slash commands share    *)
(* the encryption key, the passing of time, lost requests and restarts.    *)
(***************************************************************************)
EXTENDS AgentTools, SlashCommands

OperationsInit == ActionInit /\ ToolInit /\ SlashInit

\* Half an hour passes for the reservations and the response URLs alike; it
\* makes a difference only when there is one.
TimePasses ==
    /\ \E k \in Key : exec[k] # None \/ tool[k] # None \/ slash[k] # None
    /\ ToolAge
    /\ slash' = Expired
    /\ UNCHANGED <<sqlite, command, response, called>>

OperationsNext ==
    \/ \E r \in Request : (ToolStep(r) \/ ToolLose(r)) /\ UNCHANGED slashVars
    \/ \E r \in Request : ActionStep(r) /\ UNCHANGED <<toolVars, slashVars>>
    \/ \E r \in Request : SlashStep(r) /\ UNCHANGED toolVars
    \/ TimePasses
    \/ AdminNext /\ UNCHANGED <<toolVars, slashVars>>
    \/ ImportSlashCommands /\ UNCHANGED toolVars
    \/ RevokeAgent /\ UNCHANGED slashVars
    \/ ToolRestart /\ UNCHANGED slashVars

OperationsSpec ==
    OperationsInit /\ [][OperationsNext]_<<actionVars, toolVars, slashVars>>

-----------------------------------------------------------------------------
(***************************************************************************)
(* Types.                                                                  *)
(***************************************************************************)
Commands == {w \in UNION Scenarios : w.kind = "command"}
Asked == {w \in UNION Scenarios : w.kind \in {"click", "tool", "command", "delayed"}}

PCs == {"idle", "load", "look", "clear", "insert", "existing", "prepare", "call",
        "finish", "done", "lost", "returned", "tclear", "tinsert", "texisting",
        "apply", "message", "mark", "beat", "insert event", "complete", "release",
        "effect", "event", "resolve", "record", "known", "dispatch", "respond", "use",
        "count"}

Answers == Words \cup Results
Outs == Answers \cup Seeds \cup Team

RequestState ==
    [what : Asked \cup {None}, pc : PCs, seen : Nat, late : BOOLEAN, out : Outs,
     ans : Answers]

ExecutionRow == [kind : {"http", "mattermost"}, index : Nat, user : User,
                 status : {"running", "succeeded", "failed"}, old : BOOLEAN]
InvocationRow == [args : Calls, status : {"running", "completed"},
                  result : Results \cup {""}, old : BOOLEAN]
SlashRow == [what : Commands, team : Team, count : Nat, expired : BOOLEAN]

ActionTypes ==
    /\ asked \in Scenarios
    /\ req \in [Request -> RequestState]
    /\ exec \in [Key -> ExecutionRow \cup {None}]
    /\ card \in [id : Nat, cipher : Seeds] \cup {None}
    /\ post \in Seeds \cup {None} /\ target \in Seeds \cup {None}
    /\ setting \in Seeds \cup {None}
    /\ seed \in Seeds /\ edits \in Nat /\ aged \in Nat
    /\ sent \in [Key -> Nat] /\ lost \in [Key -> Nat] /\ taken \subseteq Key \X Op

ToolTypes ==
    /\ tool \in [Key -> InvocationRow \cup {None}]
    /\ run \in [Request \cup {Open} -> {"none", "running", "completed", "cancelled"}]
    /\ state \in {"firing", "resolved"}
    /\ message \subseteq [key : Key, id : Request]
    /\ channel \in BOOLEAN /\ presence \in Request \cup {None} /\ enabled \in BOOLEAN
    /\ made \subseteq Calls \X Request
    /\ event \subseteq Request /\ caught \subseteq Request
    /\ toolLost \in [Key -> Nat]

SlashTypes ==
    /\ sqlite \in BOOLEAN
    /\ command \in [Team -> Seeds \cup {None}]
    /\ slash \in [Key -> SlashRow \cup {None}]
    /\ response \subseteq Key \X Request \X Nat
    /\ called \in [Key -> Nat]

\* Every variable has its type.
TypeOK == ActionTypes /\ ToolTypes /\ SlashTypes

=============================================================================
