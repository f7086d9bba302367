----------------------------- MODULE AgentQueue -----------------------------
(***************************************************************************)
(* The durable agent command queue of one bound channel: the tables        *)
(* agent_bindings and agent_commands, the threaded replies, and the        *)
(* operations of internal/store/agent_queue.go on them.                    *)
(*                                                                         *)
(* Commands are numbered by their place in the (created_at, id) order the  *)
(* queue is read in.  Time is not a counter: lease[c] is lease_until - now *)
(* for the server clock, cut off at -1 (any time in the past, which also   *)
(* stands for the column default lease_until = 0), so                      *)
(*     lease_until > now   is  lease[c] > 0,                               *)
(*     lease_until = now   is  lease[c] = 0,                               *)
(*     lease_until < now   is  lease[c] < 0.                               *)
(*                                                                         *)
(* A tool call first reads who is an operator and then runs its            *)
(* transaction, and the two are not one step: a call that passed the reads *)
(* waits in "admitted" until it is executed or dropped.                    *)
(*                                                                         *)
(* A claim is a transaction of several statements.  On SQLite the store    *)
(* has one connection, so nothing runs between them; on PostgreSQL the     *)
(* isolation level is READ COMMITTED, the binding row is locked and the    *)
(* chosen command is not, so other statements do run between its SELECT    *)
(* and its UPDATE: "claiming" holds what the SELECT read.                  *)
(***************************************************************************)
EXTENDS Integers, FiniteSets

CONSTANTS
    Agent,          \* registered agents
    Owner,          \* lease owner keys, one per bridge process
    Author,         \* human users who post messages
    Command,        \* commands, by their place in the queue order
    Turn,           \* runtime turn identifiers
    NoAgent, NoOwner, NoTurn, NoReply,
    AgentOf,        \* the agent each bridge process authenticates as
    AuthorOf,       \* the author of each command's message
    Lease,          \* lease duration (60000 ms), in ticks
    MaxAdmitted,    \* bound: calls between their checks and their transaction
    SingleConnection, \* SQLite: the store has one database connection
    CommitInOrder,  \* messages become visible in (created_at, id) order
    LeaseEndSeen    \* some clock reading falls on the last instant of a lease

ASSUME QueueAssumptions ==
    /\ Command \subseteq Nat
    /\ Lease \in Nat /\ Lease > 0
    /\ MaxAdmitted \in Nat
    /\ AgentOf \in [Owner -> Agent]
    /\ AuthorOf \in [Command -> Author]
    /\ NoAgent \notin Agent /\ NoOwner \notin Owner /\ NoTurn \notin Turn
    /\ {SingleConnection, CommitInOrder, LeaseEndSeen} \subseteq BOOLEAN

Leased   == {"running", "cancelling", "interrupted"}
Open     == Leased \cup {"queued"}
Outcome  == {"completed", "failed", "cancelled"}
State    == Open \cup Outcome \cup {"absent"}

ASSUME NoReplyAssumption == NoReply \notin Outcome

VARIABLES
    bound,              \* agent_bindings: the agent bound to the channel
    operators,          \* users RequireChannelOperator accepts
    state, agent_id, lease_owner, lease, turn_id, cancel_requested,
    reply,              \* outcome told by the message msg_reply_<id>
    admitted,           \* calls past their checks, not yet executed
    claiming            \* the claim transaction between SELECT and UPDATE

vars == <<bound, operators, state, agent_id, lease_owner, lease, turn_id,
          cancel_requested, reply, admitted, claiming>>

ClaimCall    == [op : {"claim"}, owner : Owner]
RenewCall    == [op : {"renew"}, owner : Owner, id : Command,
                 turn : Turn \cup {NoTurn}]
CompleteCall == [op : {"complete"}, owner : Owner, id : Command,
                 outcome : Outcome]
Call         == ClaimCall \cup RenewCall \cup CompleteCall

\* What an open claim transaction knows: the row it chose, the state it will
\* write, what will be left of the lease it computed from its own reading of
\* the clock, and the rows it has already updated and so keeps locked.
ClaimTx == [owner : Owner, id : Command, to : Leased, left : -1..Lease,
            swept : SUBSET Command]

TypeOK ==
    /\ bound \in Agent \cup {NoAgent}
    /\ operators \subseteq Agent \cup Author
    /\ state \in [Command -> State]
    /\ agent_id \in [Command -> Agent \cup {NoAgent}]
    /\ lease_owner \in [Command -> Owner \cup {NoOwner}]
    /\ lease \in [Command -> -1..Lease]
    /\ turn_id \in [Command -> Turn \cup {NoTurn}]
    /\ cancel_requested \in [Command -> BOOLEAN]
    /\ reply \in [Command -> Outcome \cup {NoReply}]
    /\ admitted \subseteq Call
    /\ claiming \subseteq ClaimTx

Init ==
    /\ bound = NoAgent
    /\ operators = Agent \cup Author
    /\ state = [c \in Command |-> "absent"]
    /\ agent_id = [c \in Command |-> NoAgent]
    /\ lease_owner = [c \in Command |-> NoOwner]
    /\ lease = [c \in Command |-> -1]
    /\ turn_id = [c \in Command |-> NoTurn]
    /\ cancel_requested = [c \in Command |-> FALSE]
    /\ reply = [c \in Command |-> NoReply]
    /\ admitted = {}
    /\ claiming = {}

\* A statement can run: with one connection, only outside a transaction.
Connected == SingleConnection => claiming = {}

\* A row another transaction has updated waits for its commit.
Unlocked(c) == \A x \in claiming : c \notin x.swept

-----------------------------------------------------------------------------
(* Bindings, messages, authority and time.                                 *)

\* A binding is never moved to another agent; rebinding the same agent is a
\* no-op.
BindAgent(a) ==
    /\ Connected
    /\ a \in operators
    /\ bound = NoAgent
    /\ bound' = a
    /\ UNCHANGED <<operators, state, agent_id, lease_owner, lease, turn_id,
                   cancel_requested, reply, admitted, claiming>>

\* A message of a human operator in a bound channel is a command.
IsCommand(c) == bound # NoAgent /\ AuthorOf[c] \in operators

\* A top-level message becomes a command in the transaction that creates it.
\* created_at and the id are taken before that transaction begins, so
\* messages may commit in another order.
Enqueue(c) ==
    /\ Connected
    /\ state[c] = "absent"
    /\ IsCommand(c)
    /\ CommitInOrder => \A d \in Command : state[d] # "absent" => d < c
    /\ state' = [state EXCEPT ![c] = "queued"]
    /\ agent_id' = [agent_id EXCEPT ![c] = bound]
    /\ UNCHANGED <<bound, operators, lease_owner, lease, turn_id,
                   cancel_requested, reply, admitted, claiming>>

\* Membership, administrator and disabled changes, by their effect on
\* RequireChannelOperator.
SetOperator(u) ==
    /\ Connected
    /\ operators' = IF u \in operators THEN operators \ {u}
                                       ELSE operators \cup {u}
    /\ UNCHANGED <<bound, state, agent_id, lease_owner, lease, turn_id,
                   cancel_requested, reply, admitted, claiming>>

Elapse(n) ==
    IF n < 1 \/ (n = 1 /\ ~LeaseEndSeen) THEN -1 ELSE n - 1

Tick ==
    /\ \E c \in Command : lease[c] >= 0
    /\ lease' = [c \in Command |-> Elapse(lease[c])]
    /\ claiming' = {[owner |-> x.owner, id |-> x.id, to |-> x.to,
                      left |-> Elapse(x.left), swept |-> x.swept] :
                     x \in claiming}
    /\ UNCHANGED <<bound, operators, state, agent_id, lease_owner, turn_id,
                   cancel_requested, reply, admitted>>

-----------------------------------------------------------------------------
(* Tool calls of the bridges.                                              *)

\* The reads before the transaction: the agent is an operator, and for a
\* renewal the author of the command as well.
Checked(call) ==
    /\ AgentOf[call.owner] \in operators
    /\ call.op \in {"renew", "complete"} => state[call.id] # "absent"
    /\ call.op = "renew" => AuthorOf[call.id] \in operators

Admit(call) ==
    /\ Connected
    /\ call \notin admitted
    /\ Cardinality(admitted) < MaxAdmitted
    /\ Checked(call)
    /\ admitted' = admitted \cup {call}
    /\ UNCHANGED <<bound, operators, state, agent_id, lease_owner, lease,
                   turn_id, cancel_requested, reply, claiming>>

\* The call ends without effect: its context ended, or the update it makes
\* matched no row.
Drop(call) ==
    /\ call \in admitted
    /\ admitted' = admitted \ {call}
    /\ UNCHANGED <<bound, operators, state, agent_id, lease_owner, lease,
                   turn_id, cancel_requested, reply, claiming>>

\* The two updates a claim makes before it looks at the queue: queued
\* commands of authors without permission are cancelled, expired ones
\* interrupted.
Swept(c) ==
    IF state[c] = "queued" /\ AuthorOf[c] \notin operators THEN "cancelled"
    ELSE IF state[c] \in {"running", "cancelling"} /\ lease[c] < 0
         THEN "interrupted" ELSE state[c]

\* The oldest open command once the sweep is done, as a set of at most one.
Head ==
    {c \in Command : /\ Swept(c) \in Open
                     /\ \A d \in Command : Swept(d) \in Open => c <= d}

\* The claim up to its SELECT: nothing to claim ends the call.
ClaimAgentCommand(o) ==
    /\ claiming = {}                       \* the binding row lock
    /\ [op |-> "claim", owner |-> o] \in admitted
    /\ admitted' = admitted \ {[op |-> "claim", owner |-> o]}
    /\ bound = AgentOf[o]
    /\ state' = [c \in Command |-> Swept(c)]
    /\ claiming' =
          {[owner |-> o, id |-> c, left |-> Lease,
            to |-> IF Swept(c) = "queued" THEN "running" ELSE Swept(c),
            swept |-> {d \in Command : Swept(d) # state[d]}] :
           c \in {d \in Head : lease[d] <= 0}}
    /\ UNCHANGED <<bound, operators, agent_id, lease_owner, lease, turn_id,
                   cancel_requested, reply>>

\* The UPDATE of the chosen row, by its id alone, and the commit.
ClaimUpdate(x) ==
    /\ x \in claiming
    /\ claiming' = {}
    /\ state' = [state EXCEPT ![x.id] = x.to]
    /\ lease_owner' = [lease_owner EXCEPT ![x.id] = x.owner]
    /\ lease' = [lease EXCEPT ![x.id] = x.left]
    /\ UNCHANGED <<bound, operators, agent_id, turn_id, cancel_requested,
                   reply, admitted>>

\* Mutant: only the lease is checked, not the state.
Holds_AnyState(o, c) ==
    /\ agent_id[c] = AgentOf[o]
    /\ lease_owner[c] = o
    /\ lease[c] > 0

\* The row condition shared by renewals and completions.
Holds(o, c) ==
    /\ agent_id[c] = AgentOf[o]
    /\ lease_owner[c] = o
    /\ lease[c] > 0
    /\ state[c] \in Leased

\* Mutant: any turn is accepted.
TurnAccepted_Any(c, t) == TRUE

\* The turn condition of a renewal: a recorded turn is not replaced.
TurnAccepted(c, t) == turn_id[c] \in {NoTurn, t} \/ t = NoTurn

RenewAgentCommand(o, c, t) ==
    LET call == [op |-> "renew", owner |-> o, id |-> c, turn |-> t]
    IN /\ call \in admitted
       /\ admitted' = admitted \ {call}
       /\ Connected
       /\ Holds(o, c)
       /\ TurnAccepted(c, t)
       /\ lease' = [lease EXCEPT ![c] = Lease]
       /\ turn_id' = [turn_id EXCEPT ![c] = IF t = NoTurn THEN @ ELSE t]
       /\ UNCHANGED <<bound, operators, state, agent_id, lease_owner,
                      cancel_requested, reply, claiming>>

\* The outcome and the threaded reply are written in one transaction.
CompleteAgentCommand(o, c, s) ==
    LET call == [op |-> "complete", owner |-> o, id |-> c, outcome |-> s]
    IN /\ call \in admitted
       /\ admitted' = admitted \ {call}
       /\ Connected
       /\ Holds(o, c)
       /\ state' = [state EXCEPT ![c] = s]
       /\ lease' = [lease EXCEPT ![c] = -1]
       /\ reply' = [reply EXCEPT ![c] = IF @ = NoReply THEN s ELSE @]
       /\ UNCHANGED <<bound, operators, agent_id, lease_owner, turn_id,
                      cancel_requested, claiming>>

-----------------------------------------------------------------------------
(* Human control: ControlAgentCommand.  Some operator is assumed to exist. *)

\* Mutant: a queued command keeps its state when it is cancelled.
Cancel_KeepsQueued(c) ==
    /\ Connected /\ Unlocked(c)
    /\ state[c] \in {"queued", "running", "interrupted"}
    /\ state' = [state EXCEPT ![c] = IF @ = "queued" THEN @ ELSE "cancelling"]
    /\ cancel_requested' = [cancel_requested EXCEPT ![c] = TRUE]
    /\ UNCHANGED <<bound, operators, agent_id, lease_owner, lease, turn_id,
                   reply, admitted, claiming>>

Cancel(c) ==
    /\ Connected /\ Unlocked(c)
    /\ state[c] \in {"queued", "running", "interrupted"}
    /\ state' = [state EXCEPT ![c] = IF @ = "queued" THEN "cancelled"
                                                     ELSE "cancelling"]
    /\ cancel_requested' = [cancel_requested EXCEPT ![c] = TRUE]
    /\ UNCHANGED <<bound, operators, agent_id, lease_owner, lease, turn_id,
                   reply, admitted, claiming>>

\* Mutant: reconciliation replays.
Reconcile_Requeues(c) ==
    /\ Connected /\ Unlocked(c)
    /\ state[c] = "interrupted"
    /\ state' = [state EXCEPT ![c] = "queued"]
    /\ UNCHANGED <<bound, operators, agent_id, lease_owner, lease, turn_id,
                   cancel_requested, reply, admitted, claiming>>

Reconcile(c) ==
    /\ Connected /\ Unlocked(c)
    /\ \/ state[c] = "interrupted"
       \/ state[c] \in {"running", "cancelling"} /\ lease[c] < 0
    /\ state' = [state EXCEPT ![c] = "cancelled"]
    /\ UNCHANGED <<bound, operators, agent_id, lease_owner, lease, turn_id,
                   cancel_requested, reply, admitted, claiming>>

-----------------------------------------------------------------------------
Next ==
    \/ \E a \in Agent : BindAgent(a)
    \/ \E u \in Agent \cup Author : SetOperator(u)
    \/ \E c \in Command : Enqueue(c) \/ Cancel(c) \/ Reconcile(c)
    \/ Tick
    \/ \E call \in Call : Admit(call) \/ Drop(call)
    \/ \E o \in Owner : ClaimAgentCommand(o)
    \/ \E x \in claiming : ClaimUpdate(x)
    \/ \E o \in Owner, c \in Command, t \in Turn \cup {NoTurn} :
          RenewAgentCommand(o, c, t)
    \/ \E o \in Owner, c \in Command, s \in Outcome :
          CompleteAgentCommand(o, c, s)

\* Any client may make any call at any time: nothing is assumed of the
\* bridges.
Spec == Init /\ [][Next]_vars

-----------------------------------------------------------------------------
(* Properties.                                                             *)

\* "Complete stores the result and threaded reply atomically": a command is
\* completed or failed exactly when its reply says so, and a reply never
\* disagrees with the state, however late calls, cancellations and
\* reconciliations interleave.
ReplyMatchesState ==
    \A c \in Command :
        /\ reply[c] # NoReply => state[c] = reply[c]
        /\ state[c] \in {"completed", "failed"} => reply[c] = state[c]

\* Claims serialize a bound channel in queue order: at most one command is in the hands
\* of a bridge or waits for reconciliation, and nothing older than it is
\* still queued.
OneActive ==
    \A c, d \in Command :
        state[c] \in Leased /\ state[d] \in Open => c <= d

\* Serialization as far as the code guarantees it: it holds when messages
\* become visible in queue order.
SerializedIfInOrder == CommitInOrder => OneActive

\* What the column values mean to the users of the channel.
Status ==
    [c \in Command |->
        IF state[c] = "absent" THEN "none"
        ELSE IF state[c] = "queued" THEN "waiting"
        ELSE IF state[c] \in Leased THEN "active" ELSE "done"]

Serial == INSTANCE SerialChannel WITH status <- Status

\* The queue of a standalone server (one connection, messages visible in
\* order) implements the serial channel: leases, expiry, takeovers,
\* cancellation and reconciliation never run a command twice, out of order,
\* next to another one, or after it is done.
ImplementsSerialChannel == Serial!Spec

\* "Cancel cancels queued commands", and "cancellation intent survives lease
\* expiry": once cancellation has been requested no claim makes the command
\* runnable again.
CancelledNeverRuns ==
    \A c \in Command :
        cancel_requested[c] =>
            state[c] \in {"cancelling", "interrupted"} \cup Outcome

\* Only processes of the bound agent ever hold a command: bindings are
\* immutable and a claim goes through the binding row.
HeldByBoundAgent ==
    \A c \in Command :
        lease_owner[c] # NoOwner =>
            /\ AgentOf[lease_owner[c]] = bound
            /\ agent_id[c] = bound

\* What was closed stays closed: no late call of a process that lost its
\* lease reopens a command, rewrites its turn or its reply.
ClosedStaysClosed ==
    [][\A c \in Command : state[c] \in Outcome =>
          /\ state'[c] = state[c]
          /\ reply'[c] = reply[c]
          /\ turn_id'[c] = turn_id[c]]_vars

\* A live lease is never taken over, and a recorded runtime turn is never
\* replaced by another one.
LeaseAndTurnKept ==
    [][\A c \in Command :
          /\ lease[c] > 0 => lease_owner'[c] = lease_owner[c]
          /\ turn_id[c] # NoTurn => turn_id'[c] = turn_id[c]]_vars

\* "Expired commands become interrupted and block newer work": a command
\* starts running only when every older one is closed.
OldestFirst ==
    [][\A c, d \in Command :
          state[c] = "queued" /\ state'[c] = "running" /\ d < c =>
              state'[d] \notin Open]_vars
=============================================================================
