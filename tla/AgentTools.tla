----------------------------- MODULE AgentTools -----------------------------
(***************************************************************************)
(* The mutating MCP tools of one agent (internal/server/mcp.go), the       *)
(* agent_tool_invocations that make them idempotent, and the agent's runs  *)
(* (internal/store/agents.go).  A tool call is a request of Actions; the   *)
(* tool notifications.invoke_action.v1 runs an action's steps inside it,   *)
(* with the same Idempotency-Key.                                          *)
(***************************************************************************)
EXTENDS Actions

CONSTANT Open \* a run that is open at the start

Tools == {"runs.start", "runs.record", "runs.finish", "messages.publish",
          "notifications.publish", "notifications.set_state",
          "notifications.invoke_action", "channels.create", "agents.heartbeat"}

\* Tools whose success mcpMutate adds to the run given as run_id.
Recorded == {"messages.publish", "notifications.publish",
             "notifications.invoke_action", "channels.create"}

Calls == {w \in UNION Scenarios : w.kind = "tool"}

\* The answers that are not the result of a tool.
Words == {"", "error", "running", "succeeded", "failed", "conflict", "not found",
          "forbidden", "changed", "in progress", "unavailable", "replayed", "empty",
          "bad gateway", "ok", "gone"}

ASSUME ToolAssumptions ==
    /\ \A w \in Calls :
         /\ w.key \in Key /\ w.user \in User /\ w.tool \in Tools
         /\ w.tool = "notifications.invoke_action" =>
              w.args.op \in Op /\ w.args.op.kind = "http"
    /\ Request \cap Words = {}

VARIABLES
    tool,     \* agent_tool_invocations of the agent, by idempotency_key
    run,      \* run[x]: state of the run started by request x, or of Open
    state,    \* state of the notification that set_state changes
    message,  \* keys of the agent's messages: unique per author and channel
    channel,  \* the channel that channels.create names exists
    presence, \* the request whose heartbeat agent_presence shows
    enabled,  \* the agent is enabled and its credential is not revoked
    made,     \* history: <<w, r>>, request r made call w and had its effect
    event,    \* agent_run_events: the requests recorded in their run
    toolLost, \* history: toolLost[k] calls ended without completing the row
    caught    \* history: the calls in progress when the agent was revoked

toolVars == <<tool, run, state, message, channel, presence, enabled, made, event,
              toolLost, caught>>
data == <<run, state, message, channel, presence, made, event>>

ToolInit ==
    /\ tool = [k \in Key |-> None]
    /\ run = [x \in Request \cup {Open} |-> IF x = Open THEN "running" ELSE "none"]
    /\ state = "firing" /\ message = {} /\ channel = FALSE /\ presence = None
    /\ enabled = TRUE
    /\ made = {} /\ event = {} /\ caught = {}
    /\ toolLost = [k \in Key |-> 0]

IsTool(r) == req[r].what # None /\ req[r].what.kind = "tool"

\* The call owns the row of its key: from the INSERT to Complete or Release.
HoldsTool(r) ==
    IsTool(r) /\ req[r].pc \notin {"idle", "done", "lost", "tclear", "tinsert",
                                   "texisting", "effect", "event"}

\* The answer of a tool call: the stored result, or a failure.
Reply(r, a) == req' = [req EXCEPT ![r].ans = a, ![r].pc = "done", ![r].out = ""]

-----------------------------------------------------------------------------
(***************************************************************************)
(* mcpMutate.                                                              *)
(***************************************************************************)
\* AgentForToken: a disabled agent does not authenticate.
ToolCall(r) ==
    /\ req[r].pc = "idle"
    /\ enabled
    /\ \E w \in Calls \cap asked : req' = [req EXCEPT ![r].what = w, ![r].pc = "tclear"]
    /\ UNCHANGED <<exec, config, aged, history, toolVars>>

ClearStaleTool_AnyAge(r) ==
    /\ req[r].pc = "tclear"
    /\ LET k == req[r].what.key IN
       tool' = [tool EXCEPT ![k] = IF @ # None /\ @.status = "running" THEN None ELSE @]
    /\ Step(r, "tinsert")
    /\ UNCHANGED <<exec, config, aged, history, data, enabled, toolLost, caught>>

ClearStaleTool(r) ==
    /\ req[r].pc = "tclear"
    /\ LET k == req[r].what.key IN
       tool' = [tool EXCEPT ![k] = IF @ # None /\ @.status = "running" /\ @.old
                                   THEN None ELSE @]
    /\ Step(r, "tinsert")
    /\ UNCHANGED <<exec, config, aged, history, data, enabled, toolLost, caught>>

InsertTool(r) ==
    /\ req[r].pc = "tinsert"
    /\ LET k == req[r].what.key IN
       \/ /\ tool[k] = None
          /\ tool' = [tool EXCEPT ![k] = [args |-> req[r].what, status |-> "running",
                                          result |-> "", old |-> FALSE]]
          /\ Step(r, "apply")
       \/ /\ tool[k] # None
          /\ tool' = tool
          /\ Step(r, "texisting")
    /\ UNCHANGED <<exec, config, aged, history, data, enabled, toolLost, caught>>

ReadExistingTool_AnyArguments(r) ==
    /\ req[r].pc = "texisting"
    /\ LET row == tool[req[r].what.key] IN
       Reply(r, IF row = None THEN "error"
                ELSE IF row.status # "completed" THEN "in progress"
                ELSE row.result)
    /\ UNCHANGED <<exec, config, aged, history, toolVars>>

\* The stored result is replayed only for the same tool and arguments.
ReadExistingTool(r) ==
    /\ req[r].pc = "texisting"
    /\ LET row == tool[req[r].what.key] IN
       Reply(r, IF row = None THEN "error"
                ELSE IF row.args # req[r].what THEN "conflict"
                ELSE IF row.status # "completed" THEN "in progress"
                ELSE row.result)
    /\ UNCHANGED <<exec, config, aged, history, toolVars>>

\* The tool succeeded with this result, or failed.
Applied(r, res) == req' = [req EXCEPT ![r].pc = "complete", ![r].out = res]
Failed(r) == Step(r, "release")
Effect(r) == made' = made \cup {<<req[r].what, r>>}

\* A failed call frees its key.
Release(r) ==
    /\ req[r].pc = "release"
    /\ LET k == req[r].what.key IN
       tool' = [tool EXCEPT ![k] = IF @ # None /\ @.status = "running" THEN None ELSE @]
    /\ Reply(r, "failed")
    /\ UNCHANGED <<exec, config, aged, history, data, enabled, toolLost, caught>>

\* The result is stored and, where the tool names a run, the effect recorded.
\* A failure to store it is only logged: the caller gets the result.
Complete(r) ==
    /\ req[r].pc = "complete"
    /\ LET k == req[r].what.key IN
       \/ /\ tool' = [tool EXCEPT ![k] = IF @ = None THEN @
                          ELSE [@ EXCEPT !.status = "completed", !.result = req[r].out]]
          /\ toolLost' = toolLost
       \/ /\ tool' = tool
          /\ toolLost' = [toolLost EXCEPT ![k] = @ + 1]
    /\ req' = [req EXCEPT ![r].ans = req[r].out, ![r].out = "",
                          ![r].pc = IF req[r].what.tool \in Recorded THEN "effect" ELSE "done"]
    /\ UNCHANGED <<exec, config, aged, history, data, enabled, caught>>

-----------------------------------------------------------------------------
(***************************************************************************)
(* The tools.  A run_id argument always names the run Open.                *)
(***************************************************************************)
Uses(r, name) == req[r].pc = "apply" /\ req[r].what.tool = name

\* StartAgentRun does not look at the agent again.
StartAgentRun(r) ==
    /\ Uses(r, "runs.start")
    /\ run' = [run EXCEPT ![r] = "running"]
    /\ Effect(r) /\ Applied(r, r)
    /\ UNCHANGED <<exec, config, aged, history, tool, state, message, channel,
                   presence, enabled, event, toolLost, caught>>

FinishAgentRun(r) ==
    /\ Uses(r, "runs.finish")
    /\ \/ /\ run[Open] = "running"
          /\ run' = [run EXCEPT ![Open] = "completed"]
          /\ Effect(r) /\ Applied(r, "completed")
       \/ /\ run[Open] # "running"
          /\ UNCHANGED <<run, made>>
          /\ Failed(r)
    /\ UNCHANGED <<exec, config, aged, history, tool, state, message, channel,
                   presence, enabled, event, toolLost, caught>>

\* RecordAgentRunEvent: the state is read, then the event inserted.  Its callers
\* are the tool runs.record, set_state, and mcpMutate for the recorded tools.
CheckRun(r) ==
    /\ Uses(r, "runs.record") \/ req[r].pc \in {"effect", "mark"}
    /\ \/ /\ run[Open] = "running"
          /\ Step(r, IF req[r].pc = "effect" THEN "event" ELSE "insert event")
       \/ /\ run[Open] # "running"
          /\ Step(r, IF req[r].pc = "effect" THEN "done" ELSE "release")
    /\ UNCHANGED <<exec, config, aged, history, toolVars>>

InsertEvent(r) ==
    /\ req[r].pc \in {"event", "insert event"}
    /\ event' = event \cup {r}
    /\ \/ req[r].pc = "event" /\ Step(r, "done")
       \/ req[r].pc = "insert event" /\ Applied(r, "recorded")
    /\ UNCHANGED <<exec, config, aged, history, tool, run, state, message, channel,
                   presence, enabled, made, toolLost, caught>>

\* CreateFromAgent: one transaction, with the state of the run.
PublishNotification(r) ==
    /\ Uses(r, "notifications.publish")
    /\ \/ run[Open] = "running" /\ Effect(r) /\ Applied(r, r)
       \/ run[Open] # "running" /\ made' = made /\ Failed(r)
    /\ UNCHANGED <<exec, config, aged, history, tool, run, state, message, channel,
                   presence, enabled, event, toolLost, caught>>

\* CreateChannelMessageFromAgent: the run is checked first, then the message
\* of the same author and key is returned if there is one.
CheckMessageRun(r) ==
    /\ Uses(r, "messages.publish")
    /\ Step(r, IF run[Open] = "running" THEN "message" ELSE "release")
    /\ UNCHANGED <<exec, config, aged, history, toolVars>>

CreateMessage(r) ==
    /\ req[r].pc = "message"
    /\ LET k == req[r].what.key IN
       \/ /\ k \notin {m.key : m \in message}
          /\ message' = message \cup {[key |-> k, id |-> r]}
          /\ Effect(r) /\ Applied(r, r)
       \/ /\ UNCHANGED <<message, made>>
          /\ \E m \in message : m.key = k /\ Applied(r, m.id)
    /\ UNCHANGED <<exec, config, aged, history, tool, run, state, channel,
                   presence, enabled, event, toolLost, caught>>

\* SetNotificationState, then the event: without the event the call fails and
\* its key is freed, but the state stays changed.
SetState(r) ==
    /\ Uses(r, "notifications.set_state")
    /\ state' = "resolved"
    /\ made' = IF state = "resolved" THEN made ELSE made \cup {<<req[r].what, r>>}
    /\ Step(r, "mark")
    /\ UNCHANGED <<exec, config, aged, history, tool, run, message, channel,
                   presence, enabled, event, toolLost, caught>>

\* channels.create: a name that is taken fails.
CreateChannel(r) ==
    /\ Uses(r, "channels.create")
    /\ channel' = TRUE
    /\ \/ ~ channel /\ Effect(r) /\ Applied(r, r)
       \/ channel /\ made' = made /\ Failed(r)
    /\ UNCHANGED <<exec, config, aged, history, tool, run, state, message,
                   presence, enabled, event, toolLost, caught>>

\* ReportAgentPresence: the agent's authority is read again, then the upsert.
CheckPresence(r) ==
    /\ Uses(r, "agents.heartbeat")
    /\ Step(r, IF enabled THEN "beat" ELSE "release")
    /\ UNCHANGED <<exec, config, aged, history, toolVars>>

UpsertPresence(r) ==
    /\ req[r].pc = "beat"
    /\ presence' = r
    /\ Effect(r) /\ Applied(r, "ttl")
    /\ UNCHANGED <<exec, config, aged, history, tool, run, state, message, channel,
                   enabled, event, toolLost, caught>>

\* notifications.invoke_action: executeHTTPAction with the same key.
InvokeAction(r) ==
    /\ Uses(r, "notifications.invoke_action")
    /\ req' = [req EXCEPT ![r] = Arriving(req[r].what)]
    /\ UNCHANGED <<exec, config, aged, history, toolVars>>

\* Only a success of the action is one of the tool.
InvokeReturns(r) ==
    /\ req[r].pc = "returned"
    /\ IF req[r].ans = "succeeded"
       THEN req' = [req EXCEPT ![r].pc = "complete", ![r].out = "succeeded"]
       ELSE Step(r, "release")
    /\ UNCHANGED <<exec, config, aged, history, toolVars>>

ToolStep(r) ==
    \/ ToolCall(r) \/ ClearStaleTool(r) \/ InsertTool(r) \/ ReadExistingTool(r)
    \/ StartAgentRun(r) \/ FinishAgentRun(r) \/ CheckRun(r) \/ InsertEvent(r)
    \/ PublishNotification(r) \/ CheckMessageRun(r) \/ CreateMessage(r)
    \/ SetState(r) \/ CreateChannel(r) \/ CheckPresence(r) \/ UpsertPresence(r)
    \/ InvokeAction(r) \/ InvokeReturns(r)
    \/ Complete(r) \/ Release(r)

RevokeAgent_KeepRuns ==
    /\ enabled /\ Edit
    /\ enabled' = FALSE
    /\ run' = run
    /\ caught' = {r \in Request : IsTool(r) /\ Live(r)}
    /\ UNCHANGED <<asked, req, exec, card, post, target, setting, seed, aged, history, tool,
                   state, message, channel, presence, made, event, toolLost>>

\* RevokeAgent: one transaction.
RevokeAgent ==
    /\ enabled /\ Edit
    /\ enabled' = FALSE
    /\ run' = [x \in DOMAIN run |-> IF run[x] = "running" THEN "cancelled" ELSE run[x]]
    /\ caught' = {r \in Request : IsTool(r) /\ Live(r)}
    /\ UNCHANGED <<asked, req, exec, card, post, target, setting, seed, aged, history, tool,
                   state, message, channel, presence, made, event, toolLost>>

-----------------------------------------------------------------------------
(***************************************************************************)
(* Time and failures, for both kinds of reservation.                       *)
(***************************************************************************)
ToolAge ==
    /\ Age
    /\ tool' = Aged(tool)
    /\ UNCHANGED <<data, enabled, toolLost, caught>>

ToolLose(r) ==
    /\ Lose(r)
    /\ toolLost' = IF HoldsTool(r) THEN [toolLost EXCEPT ![req[r].what.key] = @ + 1]
                                   ELSE toolLost
    /\ UNCHANGED <<tool, data, enabled, caught>>

ToolRestart ==
    /\ Restart
    /\ toolLost' = [k \in Key |-> toolLost[k] +
           Cardinality({r \in Request : HoldsTool(r) /\ req[r].what.key = k})]
    /\ UNCHANGED <<tool, data, enabled, caught>>

-----------------------------------------------------------------------------
(***************************************************************************)
(* Properties.                                                             *)
(***************************************************************************)
EffectsOf(w) == {r \in Request : <<w, r>> \in made}

\* A repeated tool call does not repeat the effect, unless the first one ended
\* without completing its row (mcpMutate, ReserveAgentToolInvocation).
AppliedAgainOnlyAfterLoss ==
    \A w \in Calls : Cardinality(EffectsOf(w)) <= 1 + toolLost[w.key]

Results == Request \cup {"completed", "recorded", "ttl", "succeeded"}

\* Two calls that get a result under one key get the same result, unless a row
\* was lost in between (the stored replay of the first result).
ReplaysAgree ==
    \A r, q \in Request :
        (IsTool(r) /\ IsTool(q) /\ req[r].what.key = req[q].what.key
           /\ req[r].ans \in Results /\ req[q].ans \in Results
           /\ toolLost[req[r].what.key] = 0)
        => req[r].what = req[q].what /\ req[r].ans = req[q].ans

\* After a revocation only a call that had authenticated before it can leave a
\* run open (RevokeAgent, StartAgentRun).
RevokedRunsEnd ==
    ~ enabled => \A x \in DOMAIN run : run[x] = "running" => x \in caught

=============================================================================
