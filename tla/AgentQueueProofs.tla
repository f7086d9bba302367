-------------------------- MODULE AgentQueueProofs --------------------------
(***************************************************************************)
(* Proofs about AgentQueue for any number of agents, bridge processes,     *)
(* commands and pending calls, and any lease duration.                     *)
(***************************************************************************)
EXTENDS AgentQueue, TLAPS

-----------------------------------------------------------------------------
(* Type correctness.                                                       *)

\* A tick keeps what is left of a lease in range.
LEMMA ElapseType ==
    ASSUME NEW n \in -1..Lease
    PROVE  /\ Elapse(n) \in -1..Lease
           /\ n <= 0 => Elapse(n) <= 0
BY QueueAssumptions DEF Elapse

\* A sweep turns states into states, never into the absence of the row.
LEMMA SweptType ==
    ASSUME TypeOK, NEW c \in Command
    PROVE  /\ Swept(c) \in State
           /\ Swept(c) \in Open => Swept(c) = "queued" \/ Swept(c) \in Leased
BY DEF TypeOK, Swept, State, Open, Leased, Outcome

\* A sweep closes or interrupts commands; it opens, completes and fails none.
LEMMA SweptMoves ==
    ASSUME NEW c \in Command
    PROVE  /\ Swept(c) = "absent" <=> state[c] = "absent"
           /\ Swept(c) \in {"completed", "failed"} => Swept(c) = state[c]
           /\ state[c] \in Outcome => Swept(c) = state[c]
           /\ Swept(c) \in Open => state[c] \in Open
           /\ Swept(c) \in Leased => state[c] \in Leased
           /\ Swept(c) = "queued" => state[c] = "queued"
           /\ Swept(c) = "running" => state[c] = "running"
BY DEF Swept, Outcome, Open, Leased

\* The head of the queue is one command.
LEMMA HeadUnique ==
    ASSUME NEW c \in Head, NEW d \in Head
    PROVE  c = d
<1>1. c \in Nat /\ d \in Nat /\ c <= d /\ d <= c
  BY QueueAssumptions DEF Head
<1> QED BY <1>1

\* What a claim remembers of the row it chose.
LEMMA ClaimChoice ==
    ASSUME NEW o \in Owner, ClaimAgentCommand(o), NEW x \in claiming'
    PROVE  /\ x.id \in Command
           /\ x.to = IF Swept(x.id) = "queued" THEN "running" ELSE Swept(x.id)
<1>1. PICK c \in {d \in Head : lease[d] <= 0} :
          x = [owner |-> o, id |-> c, left |-> Lease,
               to |-> IF Swept(c) = "queued" THEN "running" ELSE Swept(c),
               swept |-> {d \in Command : Swept(d) # state[d]}]
  BY DEF ClaimAgentCommand
<1>2. x.id = c /\ x.to = IF Swept(c) = "queued" THEN "running" ELSE Swept(c)
  BY <1>1
<1>3. c \in Command
  BY <1>1 DEF Head
<1> QED BY <1>2, <1>3

\* The type invariant holds initially,
LEMMA TypeInit == Init => TypeOK
BY QueueAssumptions, SMTT(30) DEF Init, TypeOK, State

\* and every step keeps it.
LEMMA TypeStep == TypeOK /\ [Next]_vars => TypeOK'
<1> SUFFICES ASSUME TypeOK, [Next]_vars PROVE TypeOK'
  OBVIOUS
<1> USE QueueAssumptions DEF TypeOK
<1>1. ASSUME NEW a \in Agent, BindAgent(a) PROVE TypeOK'
  BY <1>1 DEF BindAgent
<1>2. ASSUME NEW u \in Agent \cup Author, SetOperator(u) PROVE TypeOK'
  BY <1>2 DEF SetOperator
<1>3. ASSUME NEW c \in Command, Enqueue(c) PROVE TypeOK'
  BY <1>3 DEF Enqueue, State, Open
<1>4. ASSUME NEW c \in Command, Cancel(c) PROVE TypeOK'
  BY <1>4 DEF Cancel, State, Open, Leased, Outcome
<1>5. ASSUME NEW c \in Command, Reconcile(c) PROVE TypeOK'
  BY <1>5 DEF Reconcile, State, Outcome
<1>6. CASE Tick
  <2>1. lease' \in [Command -> -1..Lease]
    BY <1>6, ElapseType DEF Tick
  <2>2. claiming' \subseteq ClaimTx
    BY <1>6, ElapseType DEF Tick, ClaimTx
  <2> QED BY <1>6, <2>1, <2>2 DEF Tick
<1>7. ASSUME NEW call \in Call, Admit(call) PROVE TypeOK'
  BY <1>7 DEF Admit
<1>8. ASSUME NEW call \in Call, Drop(call) PROVE TypeOK'
  BY <1>8 DEF Drop
<1>9. ASSUME NEW o \in Owner, ClaimAgentCommand(o) PROVE TypeOK'
  <2>1. state' \in [Command -> State]
    BY <1>9, SweptType DEF ClaimAgentCommand
  <2>2. claiming' \subseteq ClaimTx
    BY <1>9, SweptType DEF ClaimAgentCommand, ClaimTx, Head, Leased
  <2> QED BY <1>9, <2>1, <2>2 DEF ClaimAgentCommand
<1>10. ASSUME NEW x \in claiming, ClaimUpdate(x) PROVE TypeOK'
  BY <1>10 DEF ClaimUpdate, ClaimTx, State, Open
<1>11. ASSUME NEW o \in Owner, NEW c \in Command, NEW t \in Turn \cup {NoTurn},
              RenewAgentCommand(o, c, t)
       PROVE TypeOK'
  BY <1>11 DEF RenewAgentCommand
<1>12. ASSUME NEW o \in Owner, NEW c \in Command, NEW s \in Outcome,
              CompleteAgentCommand(o, c, s)
       PROVE TypeOK'
  BY <1>12 DEF CompleteAgentCommand, State
<1>13. CASE UNCHANGED vars
  BY <1>13 DEF vars
<1> QED
  BY <1>1, <1>2, <1>3, <1>4, <1>5, <1>6, <1>7, <1>8, <1>9, <1>10, <1>11,
     <1>12, <1>13, Zenon DEF Next

\* Every column keeps its type, every admitted call and every open claim is
\* well formed.
THEOREM TypeCorrect == Spec => []TypeOK
BY TypeInit, TypeStep, PTL DEF Spec

-----------------------------------------------------------------------------
(* The inductive invariant.  An invariant about the commands alone is not  *)
(* inductive, because a claim writes what it read before: it needs what    *)
(* stays true of the chosen row between the SELECT and the UPDATE.         *)

\* Rows are tied to the binding; a row without an owner was never claimed.
Bindings ==
    \A c \in Command :
        /\ state[c] # "absent" => bound # NoAgent /\ agent_id[c] = bound
        /\ lease_owner[c] # NoOwner =>
               state[c] # "absent" /\ AgentOf[lease_owner[c]] = bound

\* The row an open claim has chosen exists, has no live lease and no reply.
ChosenRow ==
    \A x \in claiming :
        /\ AgentOf[x.owner] = bound
        /\ state[x.id] # "absent"
        /\ lease[x.id] <= 0
        /\ reply[x.id] = NoReply
        /\ \A y \in claiming : y = x

QueueInv == TypeOK /\ Bindings /\ ChosenRow /\ ReplyMatchesState

\* The inductive invariant holds initially.
LEMMA QueueInvInit == Init => QueueInv
<1> SUFFICES ASSUME Init PROVE QueueInv
  OBVIOUS
<1>1. TypeOK
  BY TypeInit
<1>2. Bindings /\ ChosenRow /\ ReplyMatchesState
  BY DEF Init, Bindings, ChosenRow, ReplyMatchesState
<1> QED BY <1>1, <1>2 DEF QueueInv

\* A command that is not finished has no reply.
LEMMA OpenHasNoReply ==
    ASSUME TypeOK, ReplyMatchesState, NEW c \in Command, state[c] \in Open
    PROVE  state[c] # "absent" /\ reply[c] = NoReply
<1>1. state[c] # "absent" /\ state[c] \notin Outcome
  BY DEF Open, Leased, Outcome
<1>2. reply[c] \in Outcome \cup {NoReply}
  BY SMTT(30) DEF TypeOK
<1> QED BY <1>1, <1>2 DEF ReplyMatchesState

\* Every step keeps the inductive invariant.
LEMMA QueueInvStep == QueueInv /\ [Next]_vars => QueueInv'
<1> SUFFICES ASSUME QueueInv, [Next]_vars PROVE QueueInv'
  OBVIOUS
<1> DEFINE Rest == Bindings /\ ChosenRow /\ ReplyMatchesState
<1>0. TypeOK'
  BY TypeStep DEF QueueInv
<1> SUFFICES Rest'
  BY <1>0 DEF QueueInv
<1> USE QueueAssumptions, NoReplyAssumption
        DEF QueueInv, TypeOK, Bindings, ChosenRow, ReplyMatchesState
<1>1. ASSUME NEW a \in Agent, BindAgent(a) PROVE Rest'
  BY <1>1, ZenonT(30) DEF BindAgent, ClaimTx
<1>2. ASSUME NEW u \in Agent \cup Author, SetOperator(u) PROVE Rest'
  BY <1>2 DEF SetOperator
<1>3. ASSUME NEW c \in Command, Enqueue(c) PROVE Rest'
  BY <1>3 DEF Enqueue, IsCommand, ClaimTx, Outcome
<1>4. ASSUME NEW c \in Command, Cancel(c) PROVE Rest'
  BY <1>4 DEF Cancel, ClaimTx, Outcome
<1>5. ASSUME NEW c \in Command, Reconcile(c) PROVE Rest'
  BY <1>5 DEF Reconcile, ClaimTx, Outcome
<1>6. CASE Tick
  <2>1. \A c \in Command : lease[c] <= 0 => lease'[c] <= 0
    BY <1>6, ElapseType, Zenon DEF Tick
  <2>2. \A y \in claiming' : \E x \in claiming :
            y = [owner |-> x.owner, id |-> x.id, to |-> x.to,
                 left |-> Elapse(x.left), swept |-> x.swept]
    BY <1>6 DEF Tick
  <2>3. Bindings' /\ ReplyMatchesState'
    BY <1>6 DEF Tick
  <2>4. ChosenRow'
    <3> SUFFICES ASSUME NEW y \in claiming'
                 PROVE  /\ AgentOf[y.owner] = bound
                        /\ state[y.id] # "absent"
                        /\ lease'[y.id] <= 0
                        /\ reply[y.id] = NoReply
                        /\ \A z \in claiming' : z = y
      BY <1>6 DEF Tick
    <3>1. PICK x \in claiming :
              y = [owner |-> x.owner, id |-> x.id, to |-> x.to,
                   left |-> Elapse(x.left), swept |-> x.swept]
      BY <2>2
    <3>2. \A z \in claiming' : z = y
      BY <2>2, <3>1
    <3> QED BY <2>1, <3>1, <3>2, Zenon DEF ClaimTx
  <2> QED BY <2>3, <2>4
<1>7. ASSUME NEW call \in Call, Admit(call) PROVE Rest'
  BY <1>7 DEF Admit
<1>8. ASSUME NEW call \in Call, Drop(call) PROVE Rest'
  BY <1>8, SMTT(30) DEF Drop
<1>9. ASSUME NEW o \in Owner, ClaimAgentCommand(o) PROVE Rest'
  <2>1. \A c \in Command : state'[c] = Swept(c)
    BY <1>9 DEF ClaimAgentCommand
  <2>2. Bindings' /\ ReplyMatchesState'
    BY <1>9, <2>1, SweptMoves DEF ClaimAgentCommand
  <2>3. \A x \in claiming' : /\ x.owner = o
                             /\ x.id \in Head /\ lease[x.id] <= 0
    BY <1>9 DEF ClaimAgentCommand
  <2>4. \A c \in Head : c \in Command /\ state[c] \in Open
    BY SweptMoves DEF Head
  <2>5. ASSUME NEW x \in claiming', NEW y \in claiming' PROVE x = y
    <3> DEFINE tx(c) ==
          [owner |-> o, id |-> c, left |-> Lease,
           to |-> IF Swept(c) = "queued" THEN "running" ELSE Swept(c),
           swept |-> {d \in Command : Swept(d) # state[d]}]
    <3>1. claiming' = {tx(c) : c \in {d \in Head : lease[d] <= 0}}
      BY <1>9 DEF ClaimAgentCommand
    <3>2. PICK c \in Head, d \in Head : x = tx(c) /\ y = tx(d)
      BY <2>5, <3>1
    <3> QED BY <3>2, HeadUnique, ZenonT(30)
  <2>6. \A c \in Head : state[c] # "absent" /\ reply[c] = NoReply
    <3>1. TypeOK /\ ReplyMatchesState
      BY DEF QueueInv
    <3> HIDE DEF QueueInv, TypeOK, Bindings, ChosenRow, ReplyMatchesState
    <3> QED BY ONLY <2>4, <3>1, OpenHasNoReply
  <2>7. ChosenRow'
    BY <1>9, <2>1, <2>3, <2>4, <2>5, <2>6, SweptMoves DEF ClaimAgentCommand
  <2> QED BY <2>2, <2>7
<1>10. ASSUME NEW x \in claiming, ClaimUpdate(x) PROVE Rest'
  <2>1. x \in ClaimTx
    OBVIOUS
  <2>2. Bindings' /\ ChosenRow'
    BY <1>10, <2>1 DEF ClaimUpdate, ClaimTx, Leased
  <2>3. ReplyMatchesState'
    BY <1>10, <2>1, ZenonT(30) DEF ClaimUpdate, ClaimTx, Leased
  <2> QED BY <2>2, <2>3, Zenon
<1>11. ASSUME NEW o \in Owner, NEW c \in Command, NEW t \in Turn \cup {NoTurn},
              RenewAgentCommand(o, c, t)
       PROVE Rest'
  BY <1>11 DEF RenewAgentCommand, TurnAccepted, Holds, ClaimTx
<1>12. ASSUME NEW o \in Owner, NEW c \in Command, NEW s \in Outcome,
              CompleteAgentCommand(o, c, s)
       PROVE Rest'
  <2>1. \A x \in claiming : x.id \in Command /\ x.id # c
    BY <1>12, SMTT(30) DEF CompleteAgentCommand, Holds, ClaimTx
  <2>2. Bindings' /\ ChosenRow'
    BY <1>12, <2>1, SMTT(30) DEF CompleteAgentCommand, Holds, Leased, Outcome
  <2>3. reply[c] = NoReply
    BY <1>12, SMTT(30) DEF CompleteAgentCommand, Holds, Leased, Outcome
  <2>4. ReplyMatchesState'
    BY <1>12, <2>3 DEF CompleteAgentCommand
  <2> QED BY <2>2, <2>4
<1>13. CASE UNCHANGED vars
  BY <1>13 DEF vars
<1> QED
  BY <1>1, <1>2, <1>3, <1>4, <1>5, <1>6, <1>7, <1>8, <1>9, <1>10, <1>11,
     <1>12, <1>13, Zenon DEF Next

\* So it always holds.
LEMMA QueueInvariant == Spec => []QueueInv
BY QueueInvInit, QueueInvStep, PTL DEF Spec

\* The result of a command and its threaded reply are stored together and
\* agree from then on, on SQLite and on PostgreSQL.
THEOREM RepliesCorrect == Spec => []ReplyMatchesState
BY QueueInvariant, PTL DEF QueueInv

\* No process of another agent ever holds a command of the channel.
THEOREM HoldersCorrect == Spec => []HeldByBoundAgent
<1>1. QueueInv => HeldByBoundAgent
  BY DEF QueueInv, Bindings, HeldByBoundAgent
<1> QED BY <1>1, QueueInvariant, PTL

-----------------------------------------------------------------------------
(* Serialization and order.                                                *)

\* Nothing older than the chosen row is open: no older command can appear
\* meanwhile if messages commit in order or nothing runs meanwhile.
ChosenOldest ==
    CommitInOrder \/ SingleConnection =>
        \A x \in claiming, d \in Command : state[d] \in Open => x.id <= d

\* If anything is leased while a claim is open, it is the chosen row.
ChosenAlone ==
    CommitInOrder =>
        \A x \in claiming, d \in Command : state[d] \in Leased => x.id = d

OrderInv == QueueInv /\ SerializedIfInOrder /\ ChosenOldest /\ ChosenAlone

\* With the order of the leases added, it holds initially,
LEMMA OrderInvInit == Init => OrderInv
<1>1. Init => QueueInv
  BY QueueInvInit
<1>2. Init => SerializedIfInOrder /\ ChosenOldest /\ ChosenAlone
  BY DEF Init, SerializedIfInOrder, OneActive, ChosenOldest, ChosenAlone,
         Leased, Open
<1> QED BY <1>1, <1>2 DEF OrderInv

\* A step that opens no command, leases none and chooses no row keeps the
\* order.
LEMMA OrderKept ==
    ASSUME OrderInv, TypeOK',
           \A c \in Command : /\ state'[c] \in Open => state[c] \in Open
                              /\ state'[c] \in Leased => state[c] \in Leased,
           \A y \in claiming' : \E x \in claiming : y.id = x.id
    PROVE  (SerializedIfInOrder /\ ChosenOldest /\ ChosenAlone)'
BY DEF OrderInv, SerializedIfInOrder, OneActive, ChosenOldest, ChosenAlone

\* every step keeps it,
LEMMA OrderInvStep == OrderInv /\ [Next]_vars => OrderInv'
<1> SUFFICES ASSUME OrderInv, [Next]_vars PROVE OrderInv'
  OBVIOUS
<1> DEFINE Rest == SerializedIfInOrder /\ ChosenOldest /\ ChosenAlone
<1>0. QueueInv' /\ TypeOK /\ TypeOK'
  BY QueueInvStep DEF OrderInv, QueueInv
<1> SUFFICES Rest'
  BY <1>0 DEF OrderInv
<1>1. ASSUME NEW a \in Agent, BindAgent(a) PROVE Rest'
  BY <1>0, <1>1, OrderKept DEF BindAgent
<1>2. ASSUME NEW u \in Agent \cup Author, SetOperator(u) PROVE Rest'
  BY <1>0, <1>2, OrderKept DEF SetOperator
<1>3. ASSUME NEW c \in Command, Enqueue(c) PROVE Rest'
  <2>1. \A d \in Command : /\ d # c => state'[d] = state[d]
                           /\ state'[c] = "queued"
    BY <1>0, <1>3 DEF Enqueue, TypeOK
  <2>2. CommitInOrder => \A d \in Command : state[d] # "absent" => d < c
    BY <1>3 DEF Enqueue
  <2>3. claiming' = claiming /\ (SingleConnection => claiming = {})
    BY <1>3, SMTT(30) DEF Enqueue, Connected
  <2>4. \A x \in claiming : x.id \in Command /\ state[x.id] # "absent"
    BY <1>0 DEF OrderInv, QueueInv, ChosenRow, TypeOK, ClaimTx
  <2>5. SerializedIfInOrder'
    <3> SUFFICES ASSUME CommitInOrder, NEW d \in Command, NEW e \in Command,
                        state'[d] \in Leased, state'[e] \in Open
                 PROVE  d <= e
      BY DEF SerializedIfInOrder, OneActive
    <3>1. d # c /\ state[d] \in Leased
      BY <2>1 DEF Leased
    <3>2. CASE e = c
      BY <2>2, <3>1, <3>2, QueueAssumptions DEF Leased
    <3>3. CASE e # c
      BY <2>1, <3>1, <3>3 DEF OrderInv, SerializedIfInOrder, OneActive
    <3> QED BY <3>2, <3>3
  <2>6. ChosenOldest'
    <3> SUFFICES ASSUME CommitInOrder \/ SingleConnection,
                        NEW x \in claiming, NEW d \in Command,
                        state'[d] \in Open
                 PROVE  x.id <= d
      BY <2>3 DEF ChosenOldest
    <3>1. CASE d = c
      <4>1. CommitInOrder
        BY <2>3
      <4>2. x.id \in Command /\ x.id < c
        BY <2>2, <2>4, <4>1
      <4>3. x.id \in Nat /\ c \in Nat
        BY <4>2, QueueAssumptions, Zenon
      <4> QED BY <3>1, <4>2, <4>3
    <3>2. CASE d # c
      BY <2>1, <3>2 DEF OrderInv, ChosenOldest
    <3> QED BY <3>1, <3>2
  <2>7. ChosenAlone'
    BY <2>1, <2>3 DEF OrderInv, ChosenAlone, Leased
  <2> QED BY <2>5, <2>6, <2>7, SMTT(30)
<1>4. ASSUME NEW c \in Command, Cancel(c) PROVE Rest'
  BY <1>0, <1>4, OrderKept DEF Cancel, TypeOK, Open, Leased
<1>5. ASSUME NEW c \in Command, Reconcile(c) PROVE Rest'
  BY <1>0, <1>5, OrderKept DEF Reconcile, TypeOK, Open, Leased
<1>6. CASE Tick
  <2>1. \A y \in claiming' : \E x \in claiming : y.id = x.id
    BY <1>6 DEF Tick
  <2> QED BY <1>0, <1>6, <2>1, OrderKept DEF Tick
<1>7. ASSUME NEW call \in Call, Admit(call) PROVE Rest'
  BY <1>0, <1>7, OrderKept DEF Admit
<1>8. ASSUME NEW call \in Call, Drop(call) PROVE Rest'
  BY <1>0, <1>8, OrderKept, SMTT(30) DEF Drop
<1>9. ASSUME NEW o \in Owner, ClaimAgentCommand(o) PROVE Rest'
  <2>1. \A c \in Command : /\ state'[c] = Swept(c)
                           /\ state'[c] \in Open => state[c] \in Open
                           /\ state'[c] \in Leased => state[c] \in Leased
    BY <1>9, SweptMoves, SMTT(30) DEF ClaimAgentCommand
  <2>2. \A x \in claiming' : x.id \in Head
    BY <1>9 DEF ClaimAgentCommand
  <2>3. SerializedIfInOrder'
    BY <2>1 DEF OrderInv, SerializedIfInOrder, OneActive
  <2>4. ChosenOldest'
    BY <2>1, <2>2 DEF ChosenOldest, Head
  <2>5. ChosenAlone'
    <3> SUFFICES ASSUME CommitInOrder, NEW c \in Head, NEW d \in Command,
                        state'[d] \in Leased
                 PROVE  c = d
      BY <2>2 DEF ChosenAlone
    <3>1. c \in Command /\ state[c] \in Open /\ state[d] \in Leased
      BY <2>1, SweptMoves DEF Head
    <3>2. d <= c
      BY <3>1 DEF OrderInv, SerializedIfInOrder, OneActive
    <3>3. c <= d
      BY <2>1 DEF Head, Open
    <3> QED BY <3>1, <3>2, <3>3, QueueAssumptions
  <2> QED BY <2>3, <2>4, <2>5
<1>10. ASSUME NEW x \in claiming, ClaimUpdate(x) PROVE Rest'
  <2>1. /\ claiming' = {}
        /\ x.id \in Command /\ x.to \in Leased
        /\ \A d \in Command : d # x.id => state'[d] = state[d]
        /\ state'[x.id] = x.to
    BY <1>0, <1>10, SMTT(30) DEF ClaimUpdate, TypeOK, ClaimTx
  <2>2. SerializedIfInOrder'
    <3> SUFFICES ASSUME CommitInOrder, NEW d \in Command, NEW e \in Command,
                        state'[d] \in Leased, state'[e] \in Open
                 PROVE  d <= e
      BY DEF SerializedIfInOrder, OneActive
    <3>1. d = x.id
      BY <2>1 DEF OrderInv, ChosenAlone
    <3>2. e = x.id \/ state[e] \in Open
      BY <2>1
    <3> QED BY <3>1, <3>2, QueueAssumptions DEF OrderInv, ChosenOldest
  <2> QED BY <2>1, <2>2 DEF ChosenOldest, ChosenAlone
<1>11. ASSUME NEW o \in Owner, NEW c \in Command, NEW t \in Turn \cup {NoTurn},
              RenewAgentCommand(o, c, t)
       PROVE Rest'
  BY <1>0, <1>11, OrderKept, SMTT(30) DEF RenewAgentCommand
<1>12. ASSUME NEW o \in Owner, NEW c \in Command, NEW s \in Outcome,
              CompleteAgentCommand(o, c, s)
       PROVE Rest'
  BY <1>0, <1>12, OrderKept
     DEF CompleteAgentCommand, TypeOK, Open, Leased, Outcome
<1>13. CASE UNCHANGED vars
  BY <1>0, <1>13, OrderKept DEF vars
<1> QED
  BY <1>1, <1>2, <1>3, <1>4, <1>5, <1>6, <1>7, <1>8, <1>9, <1>10, <1>11,
     <1>12, <1>13, Zenon DEF Next

\* and it always holds.
LEMMA OrderInvariant == Spec => []OrderInv
BY OrderInvInit, OrderInvStep, PTL DEF Spec

\* At most one command of a bound channel is leased or awaits reconciliation,
\* and none older than it is open, provided messages become visible in the
\* order of their timestamps; on SQLite and on PostgreSQL.
THEOREM ClaimsSerialize == Spec => []SerializedIfInOrder
BY OrderInvariant, PTL DEF OrderInv

\* A command starts only when every older one is closed.
THEOREM StartsOldestFirst ==
    ASSUME CommitInOrder \/ SingleConnection
    PROVE  Spec => OldestFirst
<1>1. OrderInv /\ [Next]_vars =>
          [\A c, d \in Command :
              state[c] = "queued" /\ state'[c] = "running" /\ d < c =>
                  state'[d] \notin Open]_vars
  <2> SUFFICES ASSUME OrderInv, Next, NEW c \in Command, NEW d \in Command,
                      state[c] = "queued", state'[c] = "running", d < c
               PROVE  state'[d] \notin Open
    BY DEF vars
  <2>1. TypeOK
    BY DEF OrderInv, QueueInv
  <2>2. ASSUME NEW x \in claiming, ClaimUpdate(x) PROVE state'[d] \notin Open
    <3>1. x.id = c /\ state'[d] = state[d]
      BY <2>1, <2>2, QueueAssumptions DEF ClaimUpdate, TypeOK, ClaimTx
    <3> QED BY <3>1, QueueAssumptions DEF OrderInv, ChosenOldest
  <2>3. ASSUME NEW o \in Owner, ClaimAgentCommand(o) PROVE FALSE
    BY <2>3, SweptMoves DEF ClaimAgentCommand
  <2>4. ASSUME NEW e \in Command, Enqueue(e) \/ Cancel(e) \/ Reconcile(e)
        PROVE  FALSE
    BY <2>1, <2>4, SMTT(30) DEF Enqueue, Cancel, Reconcile, TypeOK
  <2>5. ASSUME NEW o \in Owner, NEW e \in Command, NEW s \in Outcome,
               CompleteAgentCommand(o, e, s)
        PROVE  FALSE
    BY <2>1, <2>5, SMTT(30) DEF CompleteAgentCommand, TypeOK, Outcome
  <2> QED
    BY <2>2, <2>3, <2>4, <2>5, Zenon
       DEF Next, BindAgent, SetOperator, Tick, Admit, Drop, RenewAgentCommand
<1> QED BY <1>1, OrderInvariant, PTL DEF Spec, OldestFirst

\* A live lease is never taken over and a recorded turn never replaced: not by
\* a claim, although it writes by id alone, because the row it has chosen has
\* no live lease.
THEOREM LeasesAndTurnsKept == Spec => LeaseAndTurnKept
<1>1. QueueInv /\ [Next]_vars =>
          [\A c \in Command :
              /\ lease[c] > 0 => lease_owner'[c] = lease_owner[c]
              /\ turn_id[c] # NoTurn => turn_id'[c] = turn_id[c]]_vars
  <2> SUFFICES ASSUME QueueInv, Next, NEW c \in Command
               PROVE  /\ lease[c] > 0 => lease_owner'[c] = lease_owner[c]
                      /\ turn_id[c] # NoTurn => turn_id'[c] = turn_id[c]
    BY Zenon DEF vars
  <2>1. TypeOK
    BY DEF QueueInv
  <2>2. ASSUME NEW x \in claiming, ClaimUpdate(x)
        PROVE  /\ lease[c] > 0 => lease_owner'[c] = lease_owner[c]
               /\ turn_id'[c] = turn_id[c]
    <3>1. lease[x.id] <= 0
      BY DEF QueueInv, ChosenRow
    <3>2. ~(lease[c] > 0 /\ c = x.id)
      BY <2>1, <3>1, QueueAssumptions, SMTT(30) DEF TypeOK
    <3> QED BY <2>1, <2>2, <3>2 DEF ClaimUpdate, TypeOK, ClaimTx
  <2>3. ASSUME NEW o \in Owner, NEW e \in Command,
               NEW t \in Turn \cup {NoTurn}, RenewAgentCommand(o, e, t)
        PROVE  /\ lease_owner'[c] = lease_owner[c]
               /\ turn_id[c] # NoTurn => turn_id'[c] = turn_id[c]
    BY <2>1, <2>3 DEF RenewAgentCommand, TurnAccepted, TypeOK
  <2> QED
    BY <2>2, <2>3, ZenonT(30)
       DEF Next, BindAgent, SetOperator, Tick, Admit, Drop, Enqueue, Cancel,
           Reconcile, ClaimAgentCommand, CompleteAgentCommand
<1> QED BY <1>1, QueueInvariant, PTL DEF Spec, LeaseAndTurnKept

-----------------------------------------------------------------------------
(* One connection: what a claim writes is what it read.                    *)

\* The chosen row has not changed since it was read.
ChosenUnchanged ==
    \A x \in claiming :
        state[x.id] = x.to \/ (state[x.id] = "queued" /\ x.to = "running")

SingleInv == OrderInv /\ ChosenUnchanged /\ CancelledNeverRuns

\* With a single connection the stronger invariant holds initially,
LEMMA SingleInvInit == Init => SingleInv
<1>1. Init => OrderInv
  BY OrderInvInit
<1>2. Init => ChosenUnchanged /\ CancelledNeverRuns
  BY SMTT(30) DEF Init, ChosenUnchanged, CancelledNeverRuns
<1> QED BY <1>1, <1>2 DEF SingleInv

\* every step keeps it,
LEMMA SingleInvStep ==
    ASSUME SingleConnection
    PROVE  SingleInv /\ [Next]_vars => SingleInv'
<1> SUFFICES ASSUME SingleInv, [Next]_vars PROVE SingleInv'
  OBVIOUS
<1> DEFINE Rest == ChosenUnchanged /\ CancelledNeverRuns
<1>0. OrderInv' /\ TypeOK
  BY OrderInvStep DEF SingleInv, OrderInv, QueueInv
<1> SUFFICES Rest'
  BY <1>0, SMTT(30) DEF SingleInv
<1> USE <1>0 DEF SingleInv, TypeOK, ChosenUnchanged, CancelledNeverRuns
<1>1. ASSUME NEW a \in Agent, BindAgent(a) PROVE Rest'
  BY <1>1 DEF BindAgent
<1>2. ASSUME NEW u \in Agent \cup Author, SetOperator(u) PROVE Rest'
  BY <1>2 DEF SetOperator
<1>3. ASSUME NEW c \in Command, Enqueue(c) PROVE Rest'
  BY <1>3 DEF Enqueue, Connected, Outcome
<1>4. ASSUME NEW c \in Command, Cancel(c) PROVE Rest'
  BY <1>4, SMTT(30) DEF Cancel, Connected, Outcome
<1>5. ASSUME NEW c \in Command, Reconcile(c) PROVE Rest'
  BY <1>5, SMTT(30) DEF Reconcile, Connected, Outcome
<1>6. CASE Tick
  <2>1. ASSUME NEW y \in claiming'
        PROVE  \E x \in claiming : y.id = x.id /\ y.to = x.to
    <3>1. PICK x \in claiming : y = [owner |-> x.owner, id |-> x.id, to |-> x.to,
                                     left |-> Elapse(x.left), swept |-> x.swept]
      BY <1>6, <2>1, Zenon DEF Tick
    <3> QED
      BY <3>1, Zenon
  <2>2. state' = state /\ cancel_requested' = cancel_requested
    BY <1>6, Zenon DEF Tick
  <2>3. ChosenUnchanged'
    BY <2>1, <2>2, Zenon DEF ChosenUnchanged
  <2>4. CancelledNeverRuns'
    BY <2>2, Zenon DEF CancelledNeverRuns
  <2> QED BY <2>3, <2>4, Zenon
<1>7. ASSUME NEW call \in Call, Admit(call) PROVE Rest'
  BY <1>7 DEF Admit
<1>8. ASSUME NEW call \in Call, Drop(call) PROVE Rest'
  BY <1>8 DEF Drop
<1>9. ASSUME NEW o \in Owner, ClaimAgentCommand(o) PROVE Rest'
  <2>1. \A c \in Command : state'[c] = Swept(c)
    BY <1>9 DEF ClaimAgentCommand
  <2>2. \A x \in claiming' : /\ x.id \in Command
                             /\ x.to = IF Swept(x.id) = "queued"
                                       THEN "running" ELSE Swept(x.id)
    BY ONLY <1>9, ClaimChoice, SMTT(30)
  <2>3. \A c \in Command :
            state[c] \in {"cancelling", "interrupted"} \cup Outcome =>
                Swept(c) \in {"cancelling", "interrupted"} \cup Outcome
    BY SMTT(30) DEF Swept, Outcome
  <2>4. CancelledNeverRuns'
    BY <1>9, <2>1, <2>3, SMTT(30) DEF ClaimAgentCommand
  <2>5. ChosenUnchanged'
    BY <2>1, <2>2, SMTT(30)
  <2> QED BY <2>4, <2>5, ZenonT(30)
<1>10. ASSUME NEW x \in claiming, ClaimUpdate(x) PROVE Rest'
  <2>1. x.id \in Command /\ x.to \in Leased
    BY DEF ClaimTx
  <2>2. cancel_requested[x.id] => x.to \in {"cancelling", "interrupted"}
    BY <2>1, SMTT(30) DEF Outcome, Leased
  <2> QED BY <1>10, <2>1, <2>2 DEF ClaimUpdate
<1>11. ASSUME NEW o \in Owner, NEW c \in Command, NEW t \in Turn \cup {NoTurn},
              RenewAgentCommand(o, c, t)
       PROVE Rest'
  BY <1>11, SMTT(30) DEF RenewAgentCommand
<1>12. ASSUME NEW o \in Owner, NEW c \in Command, NEW s \in Outcome,
              CompleteAgentCommand(o, c, s)
       PROVE Rest'
  BY <1>12, Zenon DEF CompleteAgentCommand, Connected, Outcome
<1>13. CASE UNCHANGED vars
  BY <1>13 DEF vars
<1> QED
  BY <1>1, <1>2, <1>3, <1>4, <1>5, <1>6, <1>7, <1>8, <1>9, <1>10, <1>11,
     <1>12, <1>13, Zenon DEF Next

\* and it always holds.
LEMMA SingleInvariant ==
    ASSUME SingleConnection
    PROVE  Spec => []SingleInv
BY SingleInvInit, SingleInvStep, PTL DEF Spec

\* On a standalone SQLite server a command whose cancellation was requested
\* is never made runnable again.
THEOREM CancellationSticks ==
    ASSUME SingleConnection
    PROVE  Spec => []CancelledNeverRuns
BY SingleInvariant, PTL DEF SingleInv

\* On a standalone SQLite server no late call, claim or control changes a
\* closed command, its turn or its reply.
THEOREM ClosedCommandsStayClosed ==
    ASSUME SingleConnection
    PROVE  Spec => ClosedStaysClosed
<1> DEFINE Kept(c) == state[c] \in Outcome =>
                          /\ state'[c] = state[c]
                          /\ reply'[c] = reply[c]
                          /\ turn_id'[c] = turn_id[c]
<1>1. SingleInv /\ [Next]_vars => [\A c \in Command : Kept(c)]_vars
  <2> SUFFICES ASSUME SingleInv, Next, NEW c \in Command PROVE Kept(c)
    BY Zenon DEF vars
  <2>1. TypeOK
    BY SMTT(30) DEF SingleInv, OrderInv, QueueInv
  <2>2. ASSUME NEW x \in claiming, ClaimUpdate(x) PROVE Kept(c)
    <3>1. x.id \in Command /\ x.to \in Leased /\ state[x.id] \notin Outcome
      BY <2>1, SMTT(30) DEF SingleInv, ChosenUnchanged, TypeOK, ClaimTx, Leased, Outcome
    <3> QED BY <2>1, <2>2, <3>1 DEF ClaimUpdate, TypeOK
  <2>3. ASSUME NEW o \in Owner, ClaimAgentCommand(o) PROVE Kept(c)
    BY <2>3, SweptMoves, Zenon DEF ClaimAgentCommand
  <2>4. ASSUME NEW e \in Command, Enqueue(e) \/ Cancel(e) \/ Reconcile(e)
        PROVE  Kept(c)
    BY <2>1, <2>4, SMTT(30) DEF Enqueue, Cancel, Reconcile, TypeOK, Outcome
  <2>5. ASSUME NEW o \in Owner, NEW e \in Command, NEW s \in Outcome,
               CompleteAgentCommand(o, e, s)
        PROVE  Kept(c)
    BY <2>1, <2>5, SMTT(30) DEF CompleteAgentCommand, Holds, TypeOK, Outcome, Leased
  <2>6. ASSUME NEW o \in Owner, NEW e \in Command,
               NEW t \in Turn \cup {NoTurn}, RenewAgentCommand(o, e, t)
        PROVE  Kept(c)
    BY <2>1, <2>6 DEF RenewAgentCommand, Holds, TypeOK, Outcome, Leased
  <2> QED
    BY <2>2, <2>3, <2>4, <2>5, <2>6, ZenonT(30)
       DEF Next, BindAgent, SetOperator, Tick, Admit, Drop
<1> QED BY <1>1, SingleInvariant, PTL DEF Spec, ClosedStaysClosed

-----------------------------------------------------------------------------
(* The standalone queue implements the serial channel.                     *)

\* The abstract status of a command, in terms of its row.
LEMMA StatusOf ==
    ASSUME TypeOK, NEW c \in Command
    PROVE  /\ Status[c] = "none" <=> state[c] = "absent"
           /\ Status[c] = "waiting" <=> state[c] = "queued"
           /\ Status[c] = "active" <=> state[c] \in Leased
           /\ Status[c] = "done" <=> state[c] \in Outcome
BY DEF TypeOK, Status, State, Open, Leased, Outcome

\* The initial states are those of the serial queue,
LEMMA SerialInit == Init => Serial!Init
BY SMTT(30) DEF Init, Serial!Init, Status

\* and a step of the queue is one of the serial queue, or none.
LEMMA SerialStep ==
    ASSUME SingleConnection, CommitInOrder
    PROVE  SingleInv /\ SingleInv' /\ [Next]_vars => [Serial!Next]_Status
<1> SUFFICES ASSUME SingleInv, SingleInv', [Next]_vars
             PROVE  [Serial!Next]_Status
  OBVIOUS
<1>0. TypeOK /\ TypeOK'
  BY DEF SingleInv, OrderInv, QueueInv
<1>1. state' = state => Status' = Status
  BY DEF Status
<1>2. ASSUME NEW c \in Command, Enqueue(c) PROVE Serial!Next
  <2>1. Serial!Submit(c)
    BY <1>0, <1>2, Zenon DEF Enqueue, Serial!Submit, Status, TypeOK
  <2> QED BY <2>1 DEF Serial!Next
<1>3. ASSUME NEW c \in Command, Cancel(c) PROVE [Serial!Next]_Status
  <2>1. CASE state[c] = "queued"
    <3>1. Serial!Withdraw({c})
      BY <1>0, <1>3, <2>1, SMTT(30) DEF Cancel, Serial!Withdraw, Status, TypeOK, Leased
    <3> QED BY <3>1, SMTT(30) DEF Serial!Next
  <2>2. CASE state[c] # "queued"
    BY <1>0, <1>3, <2>2, ZenonT(30) DEF Cancel, Status, TypeOK, Leased
  <2> QED BY <2>1, <2>2
<1>4. ASSUME NEW c \in Command, Reconcile(c) PROVE Serial!Next
  <2>1. Serial!Finish(c)
    BY <1>0, <1>4, ZenonT(30) DEF Reconcile, Serial!Finish, Status, TypeOK, Leased
  <2> QED BY <2>1 DEF Serial!Next
<1>5. ASSUME NEW o \in Owner, ClaimAgentCommand(o) PROVE Serial!Next
  <2> DEFINE W == {c \in Command : state[c] = "queued" /\ Swept(c) = "cancelled"}
  <2>1. Serial!Withdraw(W)
    BY <1>0, <1>5, Zenon DEF ClaimAgentCommand, Serial!Withdraw, Status, Swept, TypeOK,
                      Leased
  <2> QED BY <2>1 DEF Serial!Next
<1>6. ASSUME NEW x \in claiming, ClaimUpdate(x) PROVE [Serial!Next]_Status
  <2>0. x.id \in Command /\ x.to \in Leased
    BY <1>0, SMTT(30) DEF TypeOK, ClaimTx
  <2>1. CASE state[x.id] = x.to
    BY <1>0, <1>6, <2>0, <2>1 DEF ClaimUpdate, Status, TypeOK
  <2>2. CASE state[x.id] = "queued"
    <3>1. \A d \in Command : state[d] \notin Leased
      BY <2>0, <2>2 DEF SingleInv, OrderInv, ChosenAlone, Leased
    <3>2. \A d \in Command : d < x.id => state[d] \notin Open
      <4>1. \A d \in Command : state[d] \in Open => x.id <= d
        BY DEF SingleInv, OrderInv, ChosenOldest
      <4>2. x.id \in Nat /\ \A d \in Command : d \in Nat
        BY <2>0, QueueAssumptions, Zenon
      <4> QED BY <4>1, <4>2, SMTT(30)
    <3>3. Status' = [Status EXCEPT ![x.id] = "active"]
      BY <1>0, <1>6, <2>0, Zenon DEF ClaimUpdate, Status, TypeOK, Leased
    <3>4. Serial!Start(x.id)
      BY <1>0, <2>0, <2>2, <3>1, <3>2, <3>3, StatusOf DEF Serial!Start, Open
    <3> QED BY <2>0, <3>4, SMTT(30) DEF Serial!Next
  <2> QED BY <2>1, <2>2 DEF SingleInv, ChosenUnchanged
<1>7. ASSUME NEW o \in Owner, NEW c \in Command, NEW s \in Outcome,
             CompleteAgentCommand(o, c, s)
      PROVE  Serial!Next
  <2>1. Serial!Finish(c)
    BY <1>0, <1>7, Zenon DEF CompleteAgentCommand, Holds, Serial!Finish, Status,
                      TypeOK, Leased, Outcome
  <2> QED BY <2>1 DEF Serial!Next
<1> QED
  BY <1>1, <1>2, <1>3, <1>4, <1>5, <1>6, <1>7, Zenon
     DEF Next, vars, BindAgent, SetOperator, Tick, Admit, Drop,
         RenewAgentCommand

\* A standalone server whose messages become visible in order implements the
\* serial channel, for any number of bridges and commands.
THEOREM QueueImplementsSerialChannel ==
    ASSUME SingleConnection, CommitInOrder
    PROVE  Spec => ImplementsSerialChannel
BY SerialInit, SerialStep, SingleInvariant, PTL
   DEF Spec, ImplementsSerialChannel, Serial!Spec
=============================================================================
