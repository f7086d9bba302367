---------------------------- MODULE AgentBridge ----------------------------
(***************************************************************************)
(* The queue of AgentQueue with its clients: bridge processes              *)
(* (internal/agentbridge/queue.go and codex.go) that claim commands, run   *)
(* them as turns of a Codex runtime thread and publish the results.        *)
(*                                                                         *)
(* A process has a main loop (pc) and, while it serves a command, a turn   *)
(* goroutine (task).  Both talk to the server through calls that are       *)
(* admitted and executed by AgentQueue; a process may die at any point and *)
(* leave a call behind, and its replacement has another lease owner key.   *)
(* A renewal updates the row and then reads it back in a statement of its  *)
(* own.  The runtime is external: its turns are started and interrupted by *)
(* the bridges and end by themselves.                                      *)
(***************************************************************************)
EXTENDS AgentQueue

CONSTANTS
    NoCommand,
    Faulty,         \* processes that may crash or lose calls
    MaxTries        \* attempts to publish a result (3)

ASSUME BridgeAssumptions ==
    /\ NoCommand \notin Command
    /\ Faulty \subseteq Owner
    /\ MaxTries \in Nat

VARIABLES
    pc, cmd, known, cancelled, tries,   \* main loop
    task, turn, stopped, result,        \* turn goroutine, its context
    invoked,        \* idempotency record of the process's completion call
    runtime,        \* status of every turn in the runtime thread
    started_for,    \* the command a turn was started for
    forewarned      \* history: cancelled before the present holder claimed

queueVars   == vars
mainVars    == <<pc, cmd, known, cancelled, tries>>
taskVars    == <<task, turn, stopped, result>>
runtimeVars == <<runtime, started_for>>
bridgeVars  == <<mainVars, taskVars, invoked, runtimeVars, forewarned>>
allVars     == <<queueVars, bridgeVars>>

MainState == {"off", "poll", "claim", "claimed", "first", "firstRead", "serve",
              "tick", "tickRead", "publish", "sent", "exit"}
TaskState == {"none", "idle", "start", "record", "recording", "recorded",
              "wait", "recover", "done"}
Result    == {"none", "ok", "error", "canceled", "unknown"}
TurnState == {"none", "inProgress", "completed", "failed", "interrupted"}

BridgeTypeOK ==
    /\ pc \in [Owner -> MainState]
    /\ cmd \in [Owner -> Command \cup {NoCommand}]
    /\ known \in [Owner -> Turn \cup {NoTurn}]
    /\ cancelled \in [Owner -> BOOLEAN]
    /\ tries \in [Owner -> 0..MaxTries]
    /\ task \in [Owner -> TaskState]
    /\ turn \in [Owner -> Turn \cup {NoTurn}]
    /\ stopped \in [Owner -> BOOLEAN]
    /\ result \in [Owner -> Result]
    /\ invoked \in [Owner -> {"none", "running", "completed"}]
    /\ runtime \in [Turn -> TurnState]
    /\ started_for \in [Turn -> Command \cup {NoCommand}]
    /\ forewarned \subseteq Command

BridgeInit ==
    /\ Init
    /\ pc = [o \in Owner |-> "off"]
    /\ cmd = [o \in Owner |-> NoCommand]
    /\ known = [o \in Owner |-> NoTurn]
    /\ cancelled = [o \in Owner |-> FALSE]
    /\ tries = [o \in Owner |-> 0]
    /\ task = [o \in Owner |-> "none"]
    /\ turn = [o \in Owner |-> NoTurn]
    /\ stopped = [o \in Owner |-> FALSE]
    /\ result = [o \in Owner |-> "none"]
    /\ invoked = [o \in Owner |-> "none"]
    /\ runtime = [t \in Turn |-> "none"]
    /\ started_for = [t \in Turn |-> NoCommand]
    /\ forewarned = {}

-----------------------------------------------------------------------------
(* Helpers.                                                                *)

\* runQueuedCommand is left: by an error, which ends the process, or to poll
\* for the next command.
Leave(o, next) ==
    /\ pc' = [pc EXCEPT ![o] = next]
    /\ cmd' = [cmd EXCEPT ![o] = NoCommand]
    /\ known' = [known EXCEPT ![o] = NoTurn]
    /\ cancelled' = [cancelled EXCEPT ![o] = FALSE]
    /\ tries' = [tries EXCEPT ![o] = 0]
    /\ task' = [task EXCEPT ![o] = "none"]
    /\ turn' = [turn EXCEPT ![o] = NoTurn]
    /\ stopped' = [stopped EXCEPT ![o] = FALSE]
    /\ result' = [result EXCEPT ![o] = "none"]
    /\ invoked' = [invoked EXCEPT ![o] = "none"]

Goto(o, next) == pc' = [pc EXCEPT ![o] = next]

TaskDone(o, r) ==
    /\ task' = [task EXCEPT ![o] = "done"]
    /\ result' = [result EXCEPT ![o] = r]

\* turn/interrupt answered by the runtime.
Interrupted(t) ==
    [runtime EXCEPT ![t] = IF @ = "inProgress" THEN "interrupted" ELSE @]

\* Mutants: errors are ignored; a requested cancellation is ignored.
OutcomeOf_IgnoresErrors(o) ==
    IF cancelled[o] \/ result[o] = "canceled" THEN "cancelled" ELSE "completed"
OutcomeOf_IgnoresCancel(o) ==
    IF result[o] = "canceled" THEN "cancelled"
    ELSE IF result[o] = "ok" THEN "completed" ELSE "failed"

\* The state a finished command is published with.
OutcomeOf(o) ==
    IF cancelled[o] \/ result[o] = "canceled" THEN "cancelled"
    ELSE IF result[o] = "ok" THEN "completed" ELSE "failed"

Renewal(o, t) == [op |-> "renew", owner |-> o, id |-> cmd[o], turn |-> t]
Completion(o) ==
    [op |-> "complete", owner |-> o, id |-> cmd[o], outcome |-> OutcomeOf(o)]

MayTry(o) == tries[o] < MaxTries

\* Mutant: only a command without a recorded turn that is queued wakes the
\* bridge.
Pending_QueuedOnly ==
    \E c \in Command :
        /\ state[c] = "queued"
        /\ \A d \in Command : state[d] \in Open => c <= d

\* AgentCommandPending: the oldest open command has no live lease.
Pending ==
    \E c \in Command :
        /\ state[c] \in Open
        /\ lease[c] <= 0
        /\ \A d \in Command : state[d] \in Open => c <= d

-----------------------------------------------------------------------------
(* Main loop.                                                              *)

StartProcess(o) ==
    /\ pc[o] = "off"
    /\ Goto(o, "poll")
    /\ UNCHANGED <<queueVars, cmd, known, cancelled, tries, taskVars, invoked,
                   runtimeVars, forewarned>>

PollAndClaim(o) ==
    /\ pc[o] = "poll"
    /\ Connected
    /\ bound = AgentOf[o]
    /\ Pending
    /\ Admit([op |-> "claim", owner |-> o])
    /\ Goto(o, "claim")
    /\ UNCHANGED <<cmd, known, cancelled, tries, taskVars, invoked,
                   runtimeVars, forewarned>>

\* The renewal before anything is started.
FirstRenew(o) ==
    /\ pc[o] = "claimed"
    /\ Admit(Renewal(o, NoTurn))
    /\ Goto(o, "first")
    /\ UNCHANGED <<cmd, known, cancelled, tries, taskVars, invoked,
                   runtimeVars, forewarned>>

\* Mutant: the recorded turn is not looked at.
Recovers_IfInterrupted(c) == state[c] = "interrupted"

\* The command was taken up before.
Recovers(c) == state[c] = "interrupted" \/ turn_id[c] # NoTurn

\* The row as read back decides how the command is taken up: an interrupted
\* command without a turn ends the process; a recorded turn is recovered
\* (and interrupted first if cancellation was requested); a cancelling
\* command without a turn is closed; any other is run.
TakeUp(o) ==
    LET c == cmd[o]
        t == turn_id[c]
        initialCancel == cancel_requested[c] \/ state[c] = "cancelling"
        serve(next, r) ==
            /\ Goto(o, "serve")
            /\ task' = [task EXCEPT ![o] = next]
            /\ turn' = [turn EXCEPT ![o] = t]
            /\ known' = [known EXCEPT ![o] = t]
            /\ cancelled' = [cancelled EXCEPT ![o] = initialCancel]
            /\ result' = [result EXCEPT ![o] = r]
            /\ UNCHANGED <<cmd, tries, stopped, invoked>>
    IN /\ pc[o] = "firstRead"
       /\ Connected
       /\ \/ /\ Recovers(c) /\ t = NoTurn
             /\ Leave(o, "exit")
             /\ UNCHANGED runtime
          \/ /\ Recovers(c) /\ t # NoTurn
             /\ serve("recover", "none")
             /\ runtime' = IF initialCancel THEN Interrupted(t) ELSE runtime
          \/ /\ ~Recovers(c) /\ state[c] = "cancelling" /\ t = NoTurn
             /\ serve("done", "canceled")
             /\ UNCHANGED runtime
          \/ /\ ~Recovers(c) /\ ~(state[c] = "cancelling" /\ t = NoTurn)
             /\ serve("idle", "none")
             /\ UNCHANGED runtime
       /\ UNCHANGED <<queueVars, started_for, forewarned>>

\* case id := <-started
ReceiveStarted(o) ==
    /\ pc[o] = "serve"
    /\ task[o] = "wait" /\ known[o] = NoTurn
    /\ known' = [known EXCEPT ![o] = turn[o]]
    /\ UNCHANGED <<queueVars, pc, cmd, cancelled, tries, taskVars, invoked,
                   runtimeVars, forewarned>>

TickerRenew(o) ==
    /\ pc[o] = "serve"
    /\ Admit(Renewal(o, NoTurn))
    /\ Goto(o, "tick")
    /\ UNCHANGED <<cmd, known, cancelled, tries, taskVars, invoked,
                   runtimeVars, forewarned>>

\* A cancellation seen by a renewal interrupts the turn if it is known and
\* ends the context of the goroutine.
TickerRead(o) ==
    /\ pc[o] = "tickRead"
    /\ Connected
    /\ Goto(o, "serve")
    /\ IF state[cmd[o]] = "cancelling" /\ ~cancelled[o]
       THEN /\ cancelled' = [cancelled EXCEPT ![o] = TRUE]
            /\ stopped' = [stopped EXCEPT ![o] = TRUE]
            /\ runtime' = IF known[o] # NoTurn THEN Interrupted(known[o])
                                               ELSE runtime
       ELSE UNCHANGED <<cancelled, stopped, runtime>>
    /\ UNCHANGED <<queueVars, cmd, known, tries, task, turn, result, invoked,
                   started_for, forewarned>>

\* case result := <-finished: an unknown runtime state ends the process.
ReceiveFinished(o) ==
    /\ pc[o] = "serve"
    /\ task[o] = "done"
    /\ IF result[o] = "unknown"
       THEN Leave(o, "exit")
       ELSE Goto(o, "publish") /\ UNCHANGED <<cmd, known, cancelled, tries,
                                              taskVars, invoked>>
    /\ UNCHANGED <<queueVars, runtimeVars, forewarned>>

\* One attempt of the publication, all with one idempotency key: a record of
\* a completed call is answered from the record, one still in progress is
\* refused, and otherwise the call is made.
Publish(o) ==
    /\ pc[o] = "publish"
    /\ MayTry(o)
    /\ \/ /\ invoked[o] = "completed"
          /\ Leave(o, "poll")
          /\ UNCHANGED queueVars
       \/ /\ invoked[o] = "running"
          /\ tries' = [tries EXCEPT ![o] = @ + 1]
          /\ UNCHANGED <<queueVars, pc, cmd, known, cancelled, taskVars,
                         invoked>>
       \/ /\ invoked[o] = "none"
          /\ Admit(Completion(o))
          /\ invoked' = [invoked EXCEPT ![o] = "running"]
          /\ Goto(o, "sent")
          /\ UNCHANGED <<cmd, known, cancelled, tries, taskVars>>
    /\ UNCHANGED <<runtimeVars, forewarned>>

\* The answer to the completion: success, or an error (the call was refused
\* or the answer was lost) that is retried.
Answered(o) ==
    /\ pc[o] = "sent"
    /\ Completion(o) \notin admitted
    /\ invoked[o] = "completed"
    /\ Leave(o, "poll")
    /\ UNCHANGED <<queueVars, runtimeVars, forewarned>>

AnswerLost(o) ==
    /\ pc[o] = "sent"
    /\ o \in Faulty
    /\ tries' = [tries EXCEPT ![o] = @ + 1]
    /\ Goto(o, "publish")
    /\ UNCHANGED <<queueVars, cmd, known, cancelled, taskVars, invoked,
                   runtimeVars, forewarned>>

PublishGivesUp(o) ==
    /\ pc[o] = "publish"
    /\ tries[o] = MaxTries
    /\ Leave(o, "exit")
    /\ UNCHANGED <<queueVars, runtimeVars, forewarned>>

\* The process is killed, or a call to the server or the runtime fails where
\* the code returns the error.
Crash(o) ==
    /\ o \in Faulty
    /\ pc[o] \notin {"off", "exit"}
    /\ Leave(o, "exit")
    /\ UNCHANGED <<queueVars, runtimeVars, forewarned>>

-----------------------------------------------------------------------------
(* Turn goroutine: runTurn and recoverTurn.                                *)

\* waitUntilIdle: the thread has no turn in progress; it may also be in a
\* state that is neither idle nor active, or the context may end.
WaitIdle(o) ==
    /\ task[o] = "idle"
    /\ \/ /\ \A t \in Turn : runtime[t] # "inProgress"
          /\ task' = [task EXCEPT ![o] = "start"]
          /\ UNCHANGED result
       \/ stopped[o] /\ TaskDone(o, "canceled")
       \/ o \in Faulty /\ TaskDone(o, "error")
    /\ UNCHANGED <<queueVars, mainVars, turn, stopped, invoked, runtimeVars,
                   forewarned>>

\* turn/start: an error leaves open whether the turn was started.
StartTurn(o) ==
    /\ task[o] = "start"
    /\ \/ /\ stopped[o] \/ o \in Faulty
          /\ TaskDone(o, "unknown")
          /\ UNCHANGED <<turn, runtimeVars>>
       \/ \E t \in Turn :
            /\ ~stopped[o]
            /\ runtime[t] = "none"
            /\ runtime' = [runtime EXCEPT ![t] = "inProgress"]
            /\ started_for' = [started_for EXCEPT ![t] = cmd[o]]
            /\ \/ /\ task' = [task EXCEPT ![o] = "record"]
                  /\ turn' = [turn EXCEPT ![o] = t]
                  /\ UNCHANGED result
               \/ /\ o \in Faulty
                  /\ TaskDone(o, "unknown")
                  /\ UNCHANGED turn
    /\ UNCHANGED <<queueVars, mainVars, stopped, invoked, forewarned>>

\* onStarted: the renewal that records the turn.
RecordTurn(o) ==
    /\ task[o] = "record"
    /\ ~stopped[o]
    /\ Admit(Renewal(o, turn[o]))
    /\ task' = [task EXCEPT ![o] = "recording"]
    /\ UNCHANGED <<mainVars, turn, stopped, result, invoked, runtimeVars,
                   forewarned>>

\* The recording fails (its context ended, the call was refused or its answer
\* lost): the turn is interrupted if the runtime still answers.
RecordFails(o) ==
    /\ task[o] \in {"record", "recording", "recorded"}
    /\ \/ o \in Faulty \/ stopped[o]
       \/ task[o] = "record" /\ ~Checked(Renewal(o, turn[o]))
       \/ task[o] = "recording" /\ Renewal(o, turn[o]) \notin admitted
    /\ TaskDone(o, "unknown")
    /\ runtime' \in {Interrupted(turn[o])} \cup
                    (IF o \in Faulty THEN {runtime} ELSE {})
    /\ UNCHANGED <<queueVars, mainVars, turn, stopped, invoked, started_for,
                   forewarned>>

Recorded(o) ==
    /\ task[o] = "recorded"
    /\ task' = [task EXCEPT ![o] = "wait"]
    /\ UNCHANGED <<queueVars, mainVars, turn, stopped, result, invoked,
                   runtimeVars, forewarned>>

\* What completedReply makes of a turn that has ended: a turn completed
\* without a message is an error.
Ended(o) ==
    \/ runtime[turn[o]] = "completed" /\ TaskDone(o, "ok")
    \/ runtime[turn[o]] \in {"completed", "failed", "interrupted"}
       /\ TaskDone(o, "error")

WaitTurn(o) ==
    /\ task[o] = "wait"
    /\ \/ Ended(o) /\ UNCHANGED runtime
       \/ /\ stopped[o]
          /\ TaskDone(o, "canceled")
          /\ runtime' \in {Interrupted(turn[o])} \cup
                          (IF o \in Faulty THEN {runtime} ELSE {})
       \/ o \in Faulty /\ TaskDone(o, "unknown") /\ UNCHANGED runtime
    /\ UNCHANGED <<queueVars, mainVars, turn, stopped, invoked, started_for,
                   forewarned>>

\* thread/read until the recorded turn has ended; the thread may no longer
\* know it.
RecoverTurn(o) ==
    /\ task[o] = "recover"
    /\ \/ Ended(o)
       \/ stopped[o] /\ (TaskDone(o, "canceled") \/ TaskDone(o, "unknown"))
       \/ o \in Faulty /\ TaskDone(o, "unknown")
    /\ UNCHANGED <<queueVars, mainVars, turn, stopped, invoked, runtimeVars,
                   forewarned>>

-----------------------------------------------------------------------------
(* The server executes the calls, and answers a process that still waits.  *)

ExecClaim(o) ==
    /\ ClaimAgentCommand(o)
    /\ pc' = IF pc[o] = "claim" /\ claiming' = {}
             THEN [pc EXCEPT ![o] = "poll"] ELSE pc
    /\ UNCHANGED <<cmd, known, cancelled, tries, taskVars, invoked,
                   runtimeVars, forewarned>>

ExecClaimUpdate(x) ==
    /\ ClaimUpdate(x)
    /\ IF pc[x.owner] = "claim"
       THEN /\ pc' = [pc EXCEPT ![x.owner] = "claimed"]
            /\ cmd' = [cmd EXCEPT ![x.owner] = x.id]
       ELSE UNCHANGED <<pc, cmd>>
    /\ forewarned' = IF cancel_requested[x.id] THEN forewarned \cup {x.id}
                                               ELSE forewarned \ {x.id}
    /\ UNCHANGED <<known, cancelled, tries, taskVars, invoked, runtimeVars>>

ExecRenew(o, c, t) ==
    /\ RenewAgentCommand(o, c, t)
    /\ pc' = IF t # NoTurn THEN pc
             ELSE [pc EXCEPT ![o] = CASE @ = "first" -> "firstRead"
                                      [] @ = "tick"  -> "tickRead"
                                      [] OTHER       -> @]
    /\ task' = IF t # NoTurn /\ task[o] = "recording"
               THEN [task EXCEPT ![o] = "recorded"] ELSE task
    /\ UNCHANGED <<cmd, known, cancelled, tries, turn, stopped, result,
                   invoked, runtimeVars, forewarned>>

\* The record of the call is completed afterwards; the server may fail to.
ExecComplete(o, c, s) ==
    /\ CompleteAgentCommand(o, c, s)
    /\ invoked' \in {[invoked EXCEPT ![o] = IF @ = "running" THEN "completed"
                                                             ELSE @]}
                    \cup (IF o \in Faulty THEN {invoked} ELSE {})
    /\ UNCHANGED <<mainVars, taskVars, runtimeVars, forewarned>>

\* A call the row condition refuses, or that was left behind by its caller:
\* a refused completion releases its record, a refused claim or renewal of
\* the main loop is an error that ends the process.
Refuse(call) ==
    LET o == call.owner
    IN /\ Drop(call)
       /\ \/ pc[o] = "exit"
          \/ call.op = "claim" /\ bound # AgentOf[o]
          \/ call.op = "renew" /\ ~(/\ Holds(o, call.id)
                                    /\ TurnAccepted(call.id, call.turn))
          \/ call.op = "complete" /\ ~Holds(o, call.id)
       /\ IF call.op = "claim" \/ (call.op = "renew" /\ call.turn = NoTurn)
          THEN Leave(o, "exit")
          ELSE /\ invoked' = IF call.op = "complete"
                             THEN [invoked EXCEPT ![o] = "none"] ELSE invoked
               /\ UNCHANGED <<mainVars, taskVars>>
       /\ UNCHANGED <<runtimeVars, forewarned>>

\* The refusal of a completion reaches the process.
AnswerRefused(o) ==
    /\ pc[o] = "sent"
    /\ Completion(o) \notin admitted
    /\ invoked[o] = "none"
    /\ tries' = [tries EXCEPT ![o] = @ + 1]
    /\ Goto(o, "publish")
    /\ UNCHANGED <<queueVars, cmd, known, cancelled, taskVars, invoked,
                   runtimeVars, forewarned>>

\* The reads before a call's transaction refuse it.
Forbidden(o) ==
    /\ \/ pc[o] = "poll" /\ (AgentOf[o] \notin operators \/ bound # AgentOf[o])
       \/ pc[o] \in {"claimed", "serve"} /\ ~Checked(Renewal(o, NoTurn))
    /\ Leave(o, "exit")
    /\ UNCHANGED <<queueVars, runtimeVars, forewarned>>

ForbiddenCompletion(o) ==
    /\ pc[o] = "publish"
    /\ MayTry(o)
    /\ invoked[o] = "none"
    /\ ~Checked(Completion(o))
    /\ tries' = [tries EXCEPT ![o] = @ + 1]
    /\ UNCHANGED <<queueVars, pc, cmd, known, cancelled, taskVars, invoked,
                   runtimeVars, forewarned>>

\* A turn ends by itself.
EndTurn(t) ==
    /\ runtime[t] = "inProgress"
    /\ runtime' \in {[runtime EXCEPT ![t] = s] :
                     s \in {"completed", "failed", "interrupted"}}
    /\ UNCHANGED <<queueVars, mainVars, taskVars, invoked, started_for,
                   forewarned>>

-----------------------------------------------------------------------------
Human ==
    \/ \E a \in Agent : BindAgent(a)
    \/ \E u \in Agent \cup Author : SetOperator(u)
    \/ \E c \in Command : Enqueue(c) \/ Cancel(c) \/ Reconcile(c)

Main(o) ==
    \/ StartProcess(o) \/ PollAndClaim(o) \/ FirstRenew(o) \/ TakeUp(o)
    \/ ReceiveStarted(o) \/ TickerRenew(o) \/ TickerRead(o)
    \/ ReceiveFinished(o) \/ Publish(o) \/ Answered(o) \/ AnswerLost(o)
    \/ AnswerRefused(o) \/ PublishGivesUp(o) \/ Forbidden(o)
    \/ ForbiddenCompletion(o) \/ Crash(o)

Task(o) ==
    \/ WaitIdle(o) \/ StartTurn(o) \/ RecordTurn(o) \/ RecordFails(o)
    \/ Recorded(o) \/ WaitTurn(o) \/ RecoverTurn(o)

Execute(call) ==
    \/ call.op = "claim" /\ ExecClaim(call.owner)
    \/ call.op = "renew" /\ ExecRenew(call.owner, call.id, call.turn)
    \/ call.op = "complete" /\ ExecComplete(call.owner, call.id, call.outcome)
    \/ Refuse(call)

\* Calls of the goroutine carry a turn, those of the main loop do not.
ExecuteTaskCall(o) ==
    \E call \in admitted :
        call.owner = o /\ call.op = "renew" /\ call.turn # NoTurn /\ Execute(call)

ExecuteMainCall(o) ==
    \E call \in admitted :
        /\ call.owner = o
        /\ call.op = "renew" => call.turn = NoTurn
        /\ Execute(call)

CommitClaim == \E x \in claiming : ExecClaimUpdate(x)

Server ==
    \/ \E o \in Owner : ExecuteTaskCall(o) \/ ExecuteMainCall(o)
    \/ CommitClaim

Steps ==
    \/ Human /\ UNCHANGED bridgeVars
    \/ \E o \in Owner : Main(o) \/ Task(o)
    \/ Server
    \/ \E t \in Turn : EndTurn(t)

BridgeNext == Steps \/ (Tick /\ UNCHANGED bridgeVars)

BridgeSpec == BridgeInit /\ [][BridgeNext]_allVars

-----------------------------------------------------------------------------
(* Fairness.  A faulty process crashes sooner or later, at any point of    *)
(* its work; the others are scheduled.  The server answers, turns end, and *)
(* time passes; a process that is not faulty renews its lease every ten    *)
(* seconds and so before the 60 seconds have run out.  Authority           *)
(* is left alone; the binding is created before the first process starts   *)
(* and one process runs at a time, restarted when it ends, as              *)
(* docs/AGENT_CONVERSATIONS.md and the systemd unit have it.  A select     *)
(* with several cases ready takes each of them eventually.  Nothing is     *)
(* assumed of humans.                                                      *)

InTime ==
    \A c \in Command :
        /\ lease[c] = 1
        /\ state[c] \in Leased
        /\ lease_owner[c] \in Owner \ Faulty
        => pc[lease_owner[c]] = "exit"

Startable == bound # NoAgent /\ \A o \in Owner : pc[o] \in {"off", "exit"}

LiveNext ==
    \/ /\ Steps
       /\ UNCHANGED operators
       /\ \A o \in Owner : pc[o] = "off" /\ pc'[o] # "off" => Startable
    \/ Tick /\ InTime /\ UNCHANGED bridgeVars

Fairness ==
    /\ WF_allVars(Tick /\ InTime /\ UNCHANGED bridgeVars)
    /\ WF_allVars(CommitClaim)
    /\ \A o \in Owner : WF_allVars(ExecuteMainCall(o))
                      /\ WF_allVars(ExecuteTaskCall(o))
    /\ \A t \in Turn : WF_allVars(EndTurn(t))
    /\ \A o \in Faulty : WF_allVars(Crash(o))
    /\ \A o \in Owner \ Faulty :
         /\ WF_allVars(Startable /\ StartProcess(o))
         /\ WF_allVars(PollAndClaim(o) \/ FirstRenew(o)
                       \/ TakeUp(o) \/ TickerRead(o) \/ Publish(o)
                       \/ Answered(o) \/ AnswerRefused(o) \/ PublishGivesUp(o)
                       \/ Forbidden(o) \/ ForbiddenCompletion(o))
         /\ WF_allVars(TickerRenew(o))
         /\ SF_allVars(ReceiveFinished(o))
         /\ WF_allVars(WaitIdle(o) \/ StartTurn(o) \/ RecordTurn(o)
                       \/ Recorded(o) \/ WaitTurn(o) \/ RecoverTurn(o))
         /\ WF_allVars(RecordFails(o))

BridgeLiveSpec == BridgeInit /\ [][LiveNext]_allVars /\ Fairness

-----------------------------------------------------------------------------
(* Properties.                                                             *)

\* "A replacement bridge reads the recorded runtime turn to recover an
\* existing result or wait for that turn; it never starts the command again":
\* no turn is started for a command that has a recorded one.
RecordedNeverRestarted ==
    [][\A t \in Turn :
          runtime[t] = "none" /\ runtime'[t] # "none" =>
              turn_id[started_for'[t]] = NoTurn]_allVars

\* "Interrupted commands must be reconciled with the runtime, never
\* replayed": no command is started twice.
NeverReplayed ==
    \A t, u \in Turn :
        started_for[t] # NoCommand /\ started_for[t] = started_for[u] => t = u

\* What the reply says is what happened in the runtime: a completed command
\* has a recorded turn that completed, and a failed one no turn that is still
\* in progress, whichever process published it and whoever started the turn.
OutcomeReflectsTurn ==
    \A c \in Command :
        /\ reply[c] = "completed" =>
              turn_id[c] # NoTurn /\ runtime[turn_id[c]] = "completed"
        /\ reply[c] = "failed" /\ turn_id[c] # NoTurn =>
              runtime[turn_id[c]] # "inProgress"

\* "Cancellation intent survives lease expiry": a command cancelled before
\* its holder claimed it is never published as completed or failed, even when
\* its turn had completed.
ForewarnedNeverCompletes ==
    \A c \in forewarned : reply[c] \notin {"completed", "failed"}

\* A command waits for a human only if its turn was never recorded and its
\* holder is gone.
Stranded(c) ==
    /\ state[c] \in Leased
    /\ turn_id[c] = NoTurn
    /\ lease_owner[c] # NoOwner
    /\ pc[lease_owner[c]] = "exit"

\* Every command is eventually closed or stranded, although processes crash,
\* lose answers and leave calls behind: leases of dead processes expire,
\* recorded turns are recovered, results are published.
EventuallyClosedOrStranded ==
    \A c \in Command :
        state[c] = "queued" ~> (state[c] \in Outcome \/ Stranded(c))
=============================================================================
