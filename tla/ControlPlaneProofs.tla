------------------------- MODULE ControlPlaneProofs -------------------------
(***************************************************************************)
(* Proofs about ControlPlane for any set of nodes and rows, any number of  *)
(* elections, mutations, snapshots and crashes.                            *)
(***************************************************************************)
EXTENDS ControlPlane, TLAPS

-----------------------------------------------------------------------------
(* Type correctness.                                                       *)

\* What is at most b is not the next after b.
LEMMA NotNext ==
    ASSUME NEW a \in Nat, NEW b \in Nat, a <= b
    PROVE  a # b + 1
OBVIOUS

\* What is below b is below all that b is below; an index at most b is up to b.
LEMMA Below ==
    ASSUME NEW a \in Nat, NEW b \in Nat, NEW c \in Nat
    PROVE  /\ a <= b /\ b <= c => a <= c
           /\ a <= b /\ c > b => a < c
           /\ a # 0 /\ a <= b => a \in 1 .. b
OBVIOUS

\* The fields of what the holder of mutateMu is doing.
LEMMA CallFields ==
    ASSUME NEW c \in Call
    PROVE  /\ c.pc \in {"idle", "staging", "staged", "wait"}
           /\ c.pc = "staging" => c.change \in Wanted /\ c.term \in 1..MaxTerm
           /\ c.pc = "staged" => /\ c.rows \in SUBSET Rows /\ c.term \in 1..MaxTerm
                                 /\ c.base \in Nat /\ c.seed \in BOOLEAN
           /\ c.pc = "wait" => c.index \in Nat \ {0} /\ c.entry \in Entry
BY DEF Call, Idle

\* Nothing is going on.
LEMMA IdleCall == Idle \in Call /\ Idle.pc = "idle"
BY DEF Call, Idle

\* The leader's term is a term.
LEMMA LeaderTerm ==
    ASSUME TypeOK, NEW n, Leads(n)
    PROVE  term \in 1..MaxTerm
<1>1. term \in 0..MaxTerm /\ MaxTerm \in Nat
  BY ControlAssumptions DEF TypeOK
<1>2. term > 0
  BY DEF Leads
<1> QED BY <1>1, <1>2

\* What a mutation makes of rows are rows.
LEMMA MutatedRows ==
    ASSUME NEW rows \in SUBSET Rows, NEW c \in Wanted
    PROVE  Mutated(rows, c) \in SUBSET Rows
<1>1. c.row \in Rows
  BY ControlAssumptions DEF Rows
<1> QED BY <1>1 DEF Mutated

\* The committed log grows by one entry, and its earlier entries stay.
LEMMA LogGrows ==
    ASSUME TypeOK, NEW e \in Entry, log' = Append(log, e)
    PROVE  /\ log' \in Seq(Entry) /\ Len(log) \in Nat /\ Len(log') = Len(log) + 1
           /\ \A i \in 1..Len(log) : log'[i] = log[i]
           /\ log'[Len(log) + 1] = e
BY DEF TypeOK

\* A step of Raft: the log stays or takes the entry in flight.
RaftStep ==
    /\ UNCHANGED nodeVars
    /\ log' = log \/ (inflight # None /\ log' = Append(log, inflight))

\* The log after a step of Raft.
LEMMA RaftLog ==
    ASSUME TypeOK, RaftStep
    PROVE  /\ log' \in Seq(Entry) /\ Len(log) \in Nat /\ Len(log') \in Nat
           /\ Len(log') \in {Len(log), Len(log) + 1} /\ Len(log) <= Len(log')
           /\ \A i \in 1..Len(log) : log'[i] = log[i]
           /\ \A i \in 1..Len(log') : log'[i] \in Entry
           /\ \A i \in 1..Len(log') : i > Len(log) => inflight # None /\ log'[i] = inflight
<1>0. log \in Seq(Entry) /\ Len(log) \in Nat /\ \A i \in 1..Len(log) : log[i] \in Entry
  BY DEF TypeOK
<1>1. CASE log' = log
  BY <1>0, <1>1
<1>2. CASE inflight # None /\ log' = Append(log, inflight)
  <2>1. inflight \in Entry
    BY <1>2 DEF TypeOK
  <2> QED BY <1>0, <1>2, <2>1, LogGrows
<1> QED BY <1>1, <1>2 DEF RaftStep

\* At the start there is no log and no call.
LEMMA TypeInit == Init => TypeOK
<1> SUFFICES ASSUME Init PROVE TypeOK
  OBVIOUS
<1> USE DEF Init
<1>1. log \in Seq(Entry) /\ Len(log) = 0
  OBVIOUS
<1>2. SeedRows \subseteq Rows
  BY ControlAssumptions
<1>3. live \in [Nodes -> SUBSET Rows]
  BY <1>2
<1>4. op \in [Nodes -> Call]
  BY IdleCall
<1>5. /\ term \in 0..MaxTerm /\ bel \in [Nodes -> 0..MaxTerm]
      /\ voters \subseteq Nodes
  BY ControlAssumptions
<1>6. /\ latest \in [Nodes -> Installed \cup {None}] /\ snaps \in [Nodes -> SUBSET Snapshot]
      /\ own \in [Nodes -> SUBSET Deleted]
  OBVIOUS
<1> QED BY <1>1, <1>3, <1>4, <1>5, <1>6 DEF TypeOK

\* A step of Raft keeps the types of what the nodes have.
LEMMA RaftType ==
    ASSUME TypeOK, RaftStep, inflight' \in Entry \cup {None},
           term' \in 0..MaxTerm, bel' \in [Nodes -> 0..MaxTerm], voters' \subseteq Nodes,
           UNCHANGED <<up, has, newCluster, acked>>, op' \in [Nodes -> Call]
    PROVE  TypeOK'
<1>1. /\ log' \in Seq(Entry) /\ Len(log) \in Nat /\ Len(log') \in Nat /\ Len(log) <= Len(log')
  BY RaftLog
<1>2. ASSUME NEW n \in Nodes
      PROVE  /\ applied[n] <= Len(log') /\ at[n] <= Len(log')
             /\ latest[n] # None => latest[n].i <= Len(log')
             /\ \A s \in snaps[n] : s.index <= Len(log') /\ s.i <= Len(log')
  <2>1. /\ applied[n] \in Nat /\ at[n] \in Nat /\ (latest[n] # None => latest[n].i \in Nat)
        /\ \A s \in snaps[n] : s.index \in Nat /\ s.i \in Nat
    BY DEF TypeOK, Snapshot, Installed
  <2> QED BY <1>1, <2>1, SMTT(30) DEF TypeOK
<1>3. UNCHANGED <<live, applied, latest, snaps, at, refused, own>>
  BY DEF RaftStep, nodeVars
<1> QED BY <1>1, <1>2, <1>3 DEF TypeOK

\* What is left to show of a step that leaves Raft alone.
LEMMA NodeType ==
    ASSUME TypeOK, UNCHANGED raftVars,
           up' \in [Nodes -> BOOLEAN], has' \in [Nodes -> BOOLEAN],
           live' \in [Nodes -> SUBSET Rows],
           applied' \in [Nodes -> Nat], at' \in [Nodes -> Nat],
           latest' \in [Nodes -> Installed \cup {None}], snaps' \in [Nodes -> SUBSET Snapshot],
           refused' \subseteq Nodes \X Nat, own' \in [Nodes -> SUBSET Deleted],
           \A n \in Nodes :
              /\ applied'[n] <= Len(log) /\ at'[n] <= Len(log)
              /\ latest'[n] # None => latest'[n].i <= Len(log)
              /\ \A s \in snaps'[n] : s.index <= Len(log) /\ s.i <= Len(log),
           UNCHANGED <<op, newCluster, acked>>
    PROVE  TypeOK'
BY DEF TypeOK, raftVars

\* A step of Mutate or Initialize that leaves Raft and the FSM alone.
LEMMA CallType ==
    ASSUME TypeOK, UNCHANGED raftVars, UNCHANGED nodeVars, UNCHANGED <<up, has>>,
           NEW n \in Nodes, NEW c \in Call, op' = [op EXCEPT ![n] = c],
           newCluster' \in BOOLEAN, acked' \subseteq [index : Nat \ {0}, entry : Entry]
    PROVE  TypeOK'
<1>1. op' \in [Nodes -> Call]
  BY DEF TypeOK
<1> QED BY <1>1, Zenon DEF TypeOK, raftVars, nodeVars

\* FSM.Restore installs the rows of a snapshot.
LEMMA RestoreType ==
    ASSUME TypeOK, NEW n \in Nodes, NEW s \in Snapshot, FSMRestore(n, s),
           s.index <= Len(log), s.i <= Len(log)
    PROVE  /\ live' \in [Nodes -> SUBSET Rows]
           /\ applied' \in [Nodes -> Nat] /\ at' \in [Nodes -> Nat]
           /\ latest' \in [Nodes -> Installed \cup {None}] /\ own' \in [Nodes -> SUBSET Deleted]
           /\ \A m \in Nodes : /\ applied'[m] <= Len(log) /\ at'[m] <= Len(log)
                               /\ latest'[m] # None => latest'[m].i <= Len(log)
<1>1. s.rows \in SUBSET Rows /\ s.index \in Nat /\ s.i \in Nat /\ s.own \in SUBSET Deleted
  BY DEF Snapshot
<1>2. [rows |-> s.rows, i |-> s.i, own |-> s.own] \in Installed
  BY <1>1 DEF Installed
<1>3. latest' \in [Nodes -> Installed \cup {None}]
  BY <1>2 DEF FSMRestore, TypeOK
<1>4. live' \in [Nodes -> SUBSET Rows]
  BY <1>1 DEF FSMRestore, TypeOK, Merge
<1>5. applied' \in [Nodes -> Nat] /\ at' \in [Nodes -> Nat]
  BY <1>1 DEF FSMRestore, TypeOK
<1>6. \A m \in Nodes : applied'[m] <= Len(log) /\ at'[m] <= Len(log)
  BY DEF FSMRestore, TypeOK
<1>7. \A m \in Nodes : latest'[m] # None => latest'[m].i <= Len(log)
  BY DEF FSMRestore, TypeOK
<1>8. own' \in [Nodes -> SUBSET Deleted]
  BY <1>1, Zenon DEF FSMRestore, TypeOK
<1> QED BY <1>3, <1>4, <1>5, <1>6, <1>7, <1>8

\* A term is not after itself.
LEMMA TermSelf == TypeOK => term <= term
BY DEF TypeOK

\* A node writes control tables by itself.
Directly(n) == Replicate(n) \/ InsertDirectly(n) \/ DeleteDirectly(n)

\* What it leaves alone.
LEMMA DirectFrame ==
    ASSUME TypeOK, NEW n \in Nodes, Directly(n)
    PROVE  /\ has' \in [Nodes -> BOOLEAN] /\ UNCHANGED raftVars
           /\ UNCHANGED <<applied, latest, snaps, at, refused, up, op, newCluster, acked>>
<1>1. has' \in [Nodes -> BOOLEAN]
  <2>1. has' = [has EXCEPT ![n] = TRUE] \/ has' = has
    BY Zenon DEF Directly, Replicate, InsertDirectly, DeleteDirectly
  <2> QED BY <2>1, Zenon DEF TypeOK
<1> QED BY <1>1, Zenon DEF Directly, Replicate, InsertDirectly, DeleteDirectly

\* It inserts upserted rows of its own, or deletes a row and notes that.
LEMMA DirectWrites ==
    ASSUME TypeOK, NEW n \in Nodes, Directly(n)
    PROVE  \E rows \in SUBSET Rows, gone \in SUBSET Deleted :
             /\ live' = [live EXCEPT ![n] = rows] /\ own' = [own EXCEPT ![n] = gone]
             /\ live[n] \ rows \subseteq gone /\ own[n] \subseteq gone
             /\ rows \ live[n] \subseteq Named \cup Inserted
<1>1. /\ live[n] \in SUBSET Rows /\ own[n] \in SUBSET Deleted /\ own \in [Nodes -> SUBSET Deleted]
      /\ Named \subseteq Rows /\ Inserted \subseteq Rows
  BY ControlAssumptions DEF TypeOK, Rows
<1>2. own = [own EXCEPT ![n] = own[n]]
  BY <1>1, Zenon
<1>3. ASSUME NEW add \in SUBSET (Named \cup Inserted),
             live' = [live EXCEPT ![n] = live[n] \cup add], own' = own
      PROVE  \E rows \in SUBSET Rows, gone \in SUBSET Deleted :
               /\ live' = [live EXCEPT ![n] = rows] /\ own' = [own EXCEPT ![n] = gone]
               /\ live[n] \ rows \subseteq gone /\ own[n] \subseteq gone
               /\ rows \ live[n] \subseteq Named \cup Inserted
  <2>1. PICK rows \in SUBSET Rows, gone \in SUBSET Deleted : rows = live[n] \cup add /\ gone = own[n]
    BY <1>1
  <2> WITNESS rows \in SUBSET Rows, gone \in SUBSET Deleted
  <2> QED BY <1>2, <1>3, <2>1, Zenon
<1>4. CASE Replicate(n)
  <2>1. live' = [live EXCEPT ![n] = live[n] \cup Named] /\ own' = own
    BY <1>4, Zenon DEF Replicate
  <2> QED BY <1>3, <2>1, Zenon
<1>5. CASE InsertDirectly(n)
  <2>1. PICK r \in Inserted : live' = [live EXCEPT ![n] = live[n] \cup {r}] /\ own' = own
    BY <1>5, Zenon DEF InsertDirectly
  <2>2. PICK add \in SUBSET (Named \cup Inserted) : add = {r}
    BY Zenon
  <2> QED BY <1>3, <2>1, <2>2, Zenon
<1>6. CASE DeleteDirectly(n)
  <2>1. PICK r \in Deleted : /\ live' = [live EXCEPT ![n] = live[n] \ {r}]
                             /\ own' = [own EXCEPT ![n] = own[n] \cup {r}]
    BY <1>6, Zenon DEF DeleteDirectly
  <2>2. PICK rows \in SUBSET Rows, gone \in SUBSET Deleted :
               rows = live[n] \ {r} /\ gone = own[n] \cup {r}
    BY <1>1
  <2> WITNESS rows \in SUBSET Rows, gone \in SUBSET Deleted
  <2> QED BY <2>1, <2>2, Zenon
<1> QED BY <1>4, <1>5, <1>6, Zenon DEF Directly

\* Every action keeps the types.
LEMMA TypeStep == TypeOK /\ [Next]_vars => TypeOK'
<1> SUFFICES ASSUME TypeOK, [Next]_vars PROVE TypeOK'
  OBVIOUS
<1>0. /\ Len(log) \in Nat /\ \A i \in 1..Len(log) : log[i] \in Entry
      /\ \A n \in Nodes : applied[n] \in Nat /\ at[n] \in Nat /\ live[n] \in SUBSET Rows
      /\ \A n \in Nodes : op[n] \in Call /\ latest[n] \in Installed \cup {None}
      /\ inflight \in Entry \cup {None} /\ MaxTerm \in Nat
      /\ \A n \in Nodes : \A s \in snaps[n] : s \in Snapshot /\ s.index <= Len(log) /\ s.i <= Len(log)
  BY ControlAssumptions, SMTT(30) DEF TypeOK
<1>1. CASE Commit
  BY <1>1, RaftType, Zenon DEF Commit, RaftStep, TypeOK
<1>2. ASSUME NEW n \in Nodes, Elect(n) PROVE TypeOK'
  <2>1. term' \in 0..MaxTerm /\ bel' \in [Nodes -> 0..MaxTerm]
    BY <1>0, <1>2 DEF Elect, TypeOK
  <2> QED BY <1>2, <2>1, RaftType, Zenon DEF Elect, RaftStep, TypeOK
<1>3. ASSUME NEW n \in Nodes, StepDown(n) PROVE TypeOK'
  <2>1. bel' \in [Nodes -> 0..MaxTerm]
    BY <1>0, <1>3 DEF StepDown, TypeOK
  <2> QED BY <1>3, <2>1, RaftType, Zenon DEF StepDown, RaftStep, TypeOK
<1>4. ASSUME NEW n \in Nodes, AddVoter(n) PROVE TypeOK'
  <2>1. voters' \subseteq Nodes
    BY <1>4 DEF AddVoter, TypeOK
  <2> QED BY <1>4, <2>1, RaftType, Zenon DEF AddVoter, RaftStep, TypeOK
<1>5. ASSUME NEW n \in Nodes, ApplyNext(n) PROVE TypeOK'
  <2> DEFINE i == applied[n] + 1
  <2>1. i \in Nat /\ i <= Len(log) /\ log[i] \in Entry /\ FSMApply(n, i)
    <3>1. applied[n] < Len(log) /\ FSMApply(n, i)
      BY <1>5 DEF ApplyNext
    <3>2. applied[n] \in Nat /\ Len(log) \in Nat
      BY <1>0
    <3>3. i \in 1..Len(log)
      BY <3>1, <3>2
    <3>4. log[i] \in Entry
      BY <1>0, <3>3
    <3> QED BY <3>1, <3>2, <3>3, <3>4
  <2> HIDE DEF i
  <2>2. log[i].rows \in SUBSET Rows
    BY <2>1 DEF Entry
  <2>3. [rows |-> log[i].rows, i |-> i, own |-> {}] \in Installed
    BY <2>1, <2>2 DEF Installed
  <2>4. applied' \in [Nodes -> Nat] /\ at' \in [Nodes -> Nat] /\ refused' \subseteq Nodes \X Nat
    BY <2>1, SMTT(30) DEF FSMApply, TypeOK
  <2>5. \A m \in Nodes : applied'[m] <= Len(log) /\ at'[m] <= Len(log)
    BY <2>1 DEF FSMApply, TypeOK
  <2>6. live' \in [Nodes -> SUBSET Rows]
    <3>1. Merge(live[n], log[i].rows) \in SUBSET Rows
      BY <1>0, <2>2 DEF Merge
    <3> QED BY <2>1, <3>1, Zenon DEF FSMApply, TypeOK
  <2>7. latest' \in [Nodes -> Installed \cup {None}]
    <3>1. PICK r \in Installed : r = [rows |-> log[i].rows, i |-> i, own |-> {}]
      BY <2>3, Zenon
    <3>2. latest' = latest \/ latest' = [latest EXCEPT ![n] = r]
      BY <2>1, <3>1, Zenon DEF FSMApply
    <3>3. latest \in [Nodes -> Installed \cup {None}]
      BY Zenon DEF TypeOK
    <3> QED BY <3>2, <3>3, Zenon
  <2>8. snaps' = snaps
    BY <2>1 DEF FSMApply
  <2>9. ASSUME NEW m \in Nodes, latest'[m] # None PROVE latest'[m].i <= Len(log)
    <3>1. latest'[m] = latest[m] \/ latest'[m] = [rows |-> log[i].rows, i |-> i, own |-> {}]
      <4>1. PICK r : r = [rows |-> log[i].rows, i |-> i, own |-> {}]
        BY Zenon
      <4>2. latest' = latest \/ latest' = [latest EXCEPT ![n] = r]
        BY <2>1, <4>1, Zenon DEF FSMApply
      <4>3. latest \in [Nodes -> Installed \cup {None}]
        BY Zenon DEF TypeOK
      <4> QED BY <4>1, <4>2, <4>3, Zenon
    <3> QED BY <2>1, <2>9, <3>1, SMTT(30) DEF TypeOK
  <2>10. own' \in [Nodes -> SUBSET Deleted]
    BY <2>1, Zenon DEF FSMApply, TypeOK
  <2> QED BY <1>5, <2>4, <2>5, <2>6, <2>7, <2>8, <2>9, <2>10, NodeType, Zenon DEF ApplyNext, TypeOK
<1>6. ASSUME NEW n \in Nodes, TakeSnapshot(n) PROVE TypeOK'
  <2>1. /\ FSMSnapshot(n).rows \in SUBSET Rows /\ FSMSnapshot(n).i \in Nat /\ FSMSnapshot(n).i <= Len(log)
        /\ FSMSnapshot(n).own \in SUBSET Deleted
    <3>1. CASE latest[n] = None
      BY <1>0, <3>1 DEF FSMSnapshot, Export, TypeOK
    <3>2. CASE latest[n] # None
      BY <1>0, <3>2, SMTT(30) DEF FSMSnapshot, Installed, TypeOK
    <3> QED BY <3>1, <3>2
  <2> DEFINE s == [index |-> applied[n], rows |-> FSMSnapshot(n).rows, i |-> FSMSnapshot(n).i,
                   own |-> FSMSnapshot(n).own]
  <2>2. s \in Snapshot /\ s.index <= Len(log) /\ s.i <= Len(log)
    <3>1. applied[n] \in Nat \ {0} /\ applied[n] <= Len(log)
      <4>1. applied[n] \in Nat /\ applied[n] <= Len(log)
        BY <1>0, Zenon DEF TypeOK
      <4>2. applied[n] > 0
        BY <1>6, Zenon DEF TakeSnapshot
      <4> QED BY <4>1, <4>2
    <3>2. PICK t : t = s
      BY Zenon
    <3>3. t \in Snapshot
      <4>1. PICK a \in Nat \ {0}, b \in SUBSET Rows, c \in Nat, d \in SUBSET Deleted :
              t = [index |-> a, rows |-> b, i |-> c, own |-> d]
        BY <2>1, <3>1, <3>2, Zenon
      <4> QED BY <4>1, Zenon DEF Snapshot
    <3>4. t.index = applied[n] /\ t.i = FSMSnapshot(n).i
      BY <3>2, Zenon
    <3> QED BY <2>1, <3>1, <3>2, <3>3, <3>4, Zenon
  <2>3. snaps' = [snaps EXCEPT ![n] = @ \cup {s}]
    BY <1>6 DEF TakeSnapshot
  <2> HIDE DEF s
  <2>4. snaps' \in [Nodes -> SUBSET Snapshot]
    BY <2>2, <2>3 DEF TypeOK
  <2>5. \A m \in Nodes : \A t \in snaps'[m] : t.index <= Len(log) /\ t.i <= Len(log)
    BY <2>2, <2>3, Zenon DEF TypeOK
  <2> QED BY <1>6, <2>4, <2>5, NodeType, Zenon DEF TakeSnapshot, TypeOK
<1>7. ASSUME NEW n \in Nodes, Install(n) PROVE TypeOK'
  <2>0. PICK l \in Nodes : \E s \in snaps[l] :
           /\ snaps' = [snaps EXCEPT ![n] = @ \cup {s}]
           /\ FSMRestore(n, s) \/ UNCHANGED <<live, applied, latest, at, own>>
    BY <1>7, Zenon DEF Install
  <2>1. PICK s \in snaps[l] :
           /\ snaps' = [snaps EXCEPT ![n] = @ \cup {s}]
           /\ FSMRestore(n, s) \/ UNCHANGED <<live, applied, latest, at, own>>
    BY <2>0, Zenon
  <2>2. s \in Snapshot /\ s.index <= Len(log) /\ s.i <= Len(log)
    BY <1>0
  <2>3. snaps' \in [Nodes -> SUBSET Snapshot]
    BY <2>1, <2>2 DEF TypeOK
  <2>4. \A m \in Nodes : \A t \in snaps'[m] : t.index <= Len(log) /\ t.i <= Len(log)
    BY <2>1, <2>2 DEF TypeOK
  <2>5. /\ live' \in [Nodes -> SUBSET Rows]
        /\ applied' \in [Nodes -> Nat] /\ at' \in [Nodes -> Nat]
        /\ latest' \in [Nodes -> Installed \cup {None}] /\ own' \in [Nodes -> SUBSET Deleted]
        /\ \A m \in Nodes : /\ applied'[m] <= Len(log) /\ at'[m] <= Len(log)
                            /\ latest'[m] # None => latest'[m].i <= Len(log)
    <3>1. CASE FSMRestore(n, s)
      BY <2>2, <3>1, RestoreType
    <3>2. CASE UNCHANGED <<live, applied, latest, at, own>>
      BY <3>2, Zenon DEF TypeOK
    <3> QED BY <2>1, <3>1, <3>2
  <2> QED BY <1>7, <2>3, <2>4, <2>5, NodeType, Zenon DEF Install, TypeOK
<1>8. ASSUME NEW n \in Nodes, Begin(n) PROVE TypeOK'
  <2>1. PICK c \in Wanted : op' = [op EXCEPT ![n] = [pc |-> "staging", change |-> c, term |-> term]]
    BY <1>8, ZenonT(30) DEF Begin
  <2>2. term \in 1..MaxTerm
    BY <1>8, LeaderTerm DEF Begin
  <2>3. [pc |-> "staging", change |-> c, term |-> term] \in Call
    BY <2>2 DEF Call
  <2> QED BY <1>8, <2>1, <2>3, CallType, Zenon DEF Begin, TypeOK
<1>9. ASSUME NEW n \in Nodes, Stage(n) PROVE TypeOK'
  <2>1. op[n].change \in Wanted /\ op[n].term \in 1..MaxTerm
    BY <1>0, <1>9, CallFields DEF Stage
  <2> DEFINE rows == Export(Mutated(live[n], op[n].change))
             c == [pc |-> "staged", rows |-> rows, term |-> op[n].term, base |-> at[n], seed |-> FALSE]
  <2>2. op' = [op EXCEPT ![n] = Idle] \/ op' = [op EXCEPT ![n] = c]
    BY <1>9, ZenonT(30) DEF Stage
  <2>3. rows \in SUBSET Rows
    BY <1>0, <2>1, MutatedRows, SMTT(30) DEF Export
  <2> HIDE DEF rows
  <2>4. c \in Call
    BY <1>0, <2>1, <2>3 DEF Call
  <2> HIDE DEF c
  <2> QED BY <1>9, <2>2, <2>4, IdleCall, CallType, Zenon DEF Stage, TypeOK
<1>10. ASSUME NEW n \in Nodes, ExportSeed(n) PROVE TypeOK'
  <2> DEFINE c == [pc |-> "staged", rows |-> Export(live[n]), term |-> term, base |-> at[n], seed |-> TRUE]
  <2>1. term \in 1..MaxTerm
    BY <1>10, LeaderTerm, Zenon DEF ExportSeed
  <2>2. c \in Call
    BY <1>0, <2>1, Zenon DEF Call, Export
  <2>3. op' = [op EXCEPT ![n] = c]
    BY <1>10, Zenon DEF ExportSeed
  <2> HIDE DEF c
  <2> QED BY <1>10, <2>2, <2>3, CallType, Zenon DEF ExportSeed, TypeOK
<1>11. ASSUME NEW n \in Nodes, Submit(n) PROVE TypeOK'
  <2>1. /\ op[n].rows \in SUBSET Rows /\ op[n].term \in 1..MaxTerm
        /\ op[n].base \in Nat /\ op[n].seed \in BOOLEAN
    BY <1>0, <1>11, CallFields DEF Submit
  <2>2. term \in 1..MaxTerm
    BY <1>11, LeaderTerm DEF Submit
  <2>3. inflight' \in Entry
    BY <1>11, <2>1, <2>2, Zenon DEF Submit, Entry
  <2>4. [pc |-> "wait", index |-> Len(log) + 1, entry |-> inflight'] \in Call
    BY <1>0, <2>3 DEF Call
  <2>5. op' \in [Nodes -> Call]
    BY <1>11, <2>4, Zenon DEF Submit, TypeOK
  <2> QED BY <1>11, <2>3, <2>5, RaftType, Zenon DEF Submit, RaftStep, TypeOK
<1>12. ASSUME NEW n \in Nodes, Answered(n) PROVE TypeOK'
  <2>1. op[n].index \in Nat \ {0} /\ op[n].entry \in Entry
    BY <1>0, <1>12, CallFields, SMTT(30) DEF Answered
  <2>2. acked' \subseteq [index : Nat \ {0}, entry : Entry]
    BY <1>12, <2>1, SMTT(30) DEF Answered, TypeOK
  <2>3. newCluster' \in BOOLEAN
    BY <1>12, Zenon DEF Answered, TypeOK
  <2> QED BY <1>12, <2>2, <2>3, IdleCall, CallType, Zenon DEF Answered
<1>13. ASSUME NEW n \in Nodes, MutateFails(n) PROVE TypeOK'
  BY <1>13, IdleCall, CallType, Zenon DEF MutateFails, TypeOK
<1>14. ASSUME NEW n \in Nodes, Stop(n) PROVE TypeOK'
  <2>1. op' \in [Nodes -> Call]
    BY <1>14, IdleCall, Zenon DEF Stop, TypeOK
  <2>2. up' \in [Nodes -> BOOLEAN] /\ bel' \in [Nodes -> 0..MaxTerm]
    BY <1>0, <1>14 DEF Stop, TypeOK
  <2>3. latest' \in [Nodes -> Installed \cup {None}]
    BY <1>14 DEF Stop, TypeOK
  <2>4. \A m \in Nodes : latest'[m] # None => latest'[m].i <= Len(log)
    BY <1>14, Zenon DEF Stop, TypeOK
  <2> QED BY <1>14, <2>1, <2>2, <2>3, <2>4, Zenon DEF Stop, TypeOK
<1>15. ASSUME NEW n \in Nodes, Restart(n) PROVE TypeOK'
  <2>1. up' \in [Nodes -> BOOLEAN] /\ newCluster' \in BOOLEAN
    BY <1>15 DEF Restart, TypeOK
  <2>2. /\ live' \in [Nodes -> SUBSET Rows]
        /\ applied' \in [Nodes -> Nat] /\ at' \in [Nodes -> Nat]
        /\ latest' \in [Nodes -> Installed \cup {None}] /\ own' \in [Nodes -> SUBSET Deleted]
        /\ \A m \in Nodes : /\ applied'[m] <= Len(log) /\ at'[m] <= Len(log)
                            /\ latest'[m] # None => latest'[m].i <= Len(log)
    <3>1. CASE applied' = [applied EXCEPT ![n] = 0] /\ UNCHANGED <<live, latest, at, own>>
      BY <1>0, <3>1, SMTT(30) DEF TypeOK
    <3>2. CASE \E s \in snaps[n] : FSMRestore(n, s)
      BY <1>0, <3>2, RestoreType, Zenon
    <3> QED BY <1>15, <3>1, <3>2, Zenon DEF Restart
  <2> QED BY <1>15, <2>1, <2>2, SMTT(30) DEF Restart, TypeOK, raftVars
<1>16. ASSUME NEW n \in Nodes, Directly(n) PROVE TypeOK'
  <2>1. PICK rows \in SUBSET Rows, gone \in SUBSET Deleted :
             live' = [live EXCEPT ![n] = rows] /\ own' = [own EXCEPT ![n] = gone]
    BY <1>0, <1>16, DirectWrites
  <2>2. live' \in [Nodes -> SUBSET Rows] /\ own' \in [Nodes -> SUBSET Deleted]
    BY <2>1, Zenon DEF TypeOK
  <2>3. /\ has' \in [Nodes -> BOOLEAN] /\ UNCHANGED raftVars
        /\ UNCHANGED <<applied, latest, snaps, at, refused, up, op, newCluster, acked>>
    BY <1>16, DirectFrame, Zenon
  <2> QED BY <2>2, <2>3, Zenon DEF TypeOK, raftVars
<1>17. CASE UNCHANGED vars
  BY <1>17 DEF vars, TypeOK
<1> QED
  BY <1>1, <1>2, <1>3, <1>4, <1>5, <1>6, <1>7, <1>8, <1>9, <1>10, <1>11, <1>12, <1>13,
     <1>14, <1>15, <1>16, <1>17 DEF Next, Crash, InitializeFails, Directly

\* Every variable keeps its type, and no node is past the end of the log.
THEOREM TypeCorrect == Spec => []TypeOK
BY TypeInit, TypeStep, PTL DEF Spec

-----------------------------------------------------------------------------
(* What the nodes have.  The database of a node, every Raft snapshot on    *)
(* its disk and FSM.latest are the rows of one committed entry, up to rows *)
(* of upserted tables, and an FSM refused each entry they are behind by.   *)

\* Rows that are in the seed's database or in a committed entry, or that nodes
\* insert by themselves.
Known == SeedRows \cup Named \cup Inserted \cup UNION {log[i].rows : i \in 1..Len(log)}

\* The rows are those of entry i, but for the ones that are gone, and upserted
\* ones.
Committed(rows, i, gone) ==
    LET base == IF i = 0 THEN rows \cap SeedRows ELSE log[i].rows
    IN  base \ rows \subseteq gone /\ rows \ base \subseteq Upserted \cap Known

\* They stand for the log up to index.
Sound(rows, i, gone, index) ==
    Committed(rows, i, gone) /\ \A k \in (i + 1)..index : Refused(k)

SnapsSound(n) == \A s \in snaps[n] : Sound(s.rows, s.i, s.own, s.index)

LatestSound(n) ==
    latest[n] # None => /\ latest[n].i = at[n]
                        /\ Committed(latest[n].rows, at[n], latest[n].own)

NodeInv ==
    \A n \in Nodes : Sound(live[n], at[n], own[n], applied[n]) /\ SnapsSound(n) /\ LatestSound(n)

\* The rows of an entry are known.
LEMMA EntryKnown ==
    ASSUME TypeOK, NEW i \in 1..Len(log)
    PROVE  log[i].rows \subseteq Known
BY DEF Known

\* Committed rows are known.
LEMMA CommittedKnown ==
    ASSUME TypeOK, NEW rows, NEW gone, NEW i \in 0..Len(log), Committed(rows, i, gone)
    PROVE  rows \subseteq Known
<1>1. CASE i = 0
  BY <1>1 DEF Committed, Known
<1>2. CASE i # 0
  <2>1. i \in 1..Len(log)
    BY <1>2 DEF TypeOK
  <2> QED BY <1>2, <2>1, EntryKnown DEF Committed
<1> QED BY <1>1, <1>2

\* Merging committed rows into a committed database.
LEMMA MergeCommitted ==
    ASSUME NEW old \in SUBSET Rows, old \subseteq Known, NEW rows, NEW gone, NEW i,
           Committed(rows, i, gone)
    PROVE  Committed(Merge(old, rows), i, gone)
<1>1. old \ Replaced \subseteq Upserted \cap Known
  BY DEF Rows
<1> QED BY <1>1 DEF Committed, Merge

\* An entry is committed.
LEMMA EntryCommitted ==
    ASSUME NEW i \in 1..Len(log)
    PROVE  Committed(log[i].rows, i, {})
BY DEF Committed

\* Known rows stay known, and committed ones committed.
LEMMA CommittedGrows ==
    ASSUME TypeOK, RaftStep
    PROVE  /\ Known \subseteq Known'
           /\ \A rows, gone : \A i \in 0..Len(log) : Committed(rows, i, gone) => Committed(rows, i, gone)'
<1>1. /\ Len(log) \in Nat /\ Len(log') \in Nat /\ Len(log) <= Len(log')
      /\ \A i \in 1..Len(log) : log'[i] = log[i]
  BY RaftLog
<1>2. Known \subseteq Known'
  <2> SUFFICES ASSUME NEW i \in 1..Len(log) PROVE log[i].rows \subseteq Known'
    BY DEF Known
  <2>1. i \in 1..Len(log') /\ log'[i] = log[i]
    BY <1>1
  <2> QED BY <2>1 DEF Known
<1>3. ASSUME NEW rows, NEW gone, NEW i \in 0..Len(log), Committed(rows, i, gone) PROVE Committed(rows, i, gone)'
  <2>1. CASE i = 0
    BY <1>2, <1>3, <2>1 DEF Committed
  <2>2. CASE i # 0
    <3>1. log'[i] = log[i]
      BY <1>1, <2>2
    <3> QED BY <1>2, <1>3, <2>2, <3>1 DEF Committed
  <2> QED BY <2>1, <2>2
<1> QED BY <1>2, <1>3

\* At the start the seed has its rows and the others none.
LEMMA NodeInit == Init => NodeInv
<1> SUFFICES ASSUME Init, NEW n \in Nodes
             PROVE  Sound(live[n], at[n], own[n], applied[n]) /\ SnapsSound(n) /\ LatestSound(n)
  BY Zenon DEF NodeInv
<1>1. /\ live[n] \subseteq SeedRows /\ at[n] = 0 /\ applied[n] = 0 /\ snaps[n] = {}
      /\ latest[n] = None
  BY DEF Init
<1>2. Committed(live[n], at[n], own[n])
  BY <1>1 DEF Committed
<1>3. (at[n] + 1)..applied[n] = {}
  BY <1>1
<1> QED BY <1>1, <1>2, <1>3 DEF Sound, SnapsSound, LatestSound

\* A step of Raft.
LEMMA RaftNode ==
    ASSUME TypeOK, NodeInv, RaftStep
    PROVE  NodeInv'
<1>1. UNCHANGED <<live, applied, latest, snaps, at, refused, own>>
  BY DEF RaftStep, nodeVars
<1>2. \A rows, gone : \A i \in 0..Len(log) : \A index :
         Sound(rows, i, gone, index) => Sound(rows, i, gone, index)'
  BY <1>1, CommittedGrows, Zenon DEF Sound, Refused
<1> SUFFICES ASSUME NEW n \in Nodes
             PROVE  (Sound(live[n], at[n], own[n], applied[n]) /\ SnapsSound(n) /\ LatestSound(n))'
  BY DEF NodeInv
<1>3. at[n] \in 0..Len(log) /\ \A s \in snaps[n] : s.i \in 0..Len(log)
  BY DEF TypeOK, Snapshot
<1>4. Sound(live[n], at[n], own[n], applied[n]) /\ SnapsSound(n) /\ LatestSound(n)
  BY SMTT(30) DEF NodeInv
<1>5. Sound(live[n], at[n], own[n], applied[n])'
  BY <1>1, <1>2, <1>3, <1>4, Zenon
<1>6. SnapsSound(n)'
  BY <1>1, <1>2, <1>3, <1>4, Zenon DEF SnapsSound
<1>7. LatestSound(n)'
  BY <1>1, <1>3, <1>4, CommittedGrows DEF LatestSound
<1> QED BY <1>5, <1>6, <1>7

\* Rows stay sound while the log stays.
LEMMA SoundStays ==
    ASSUME log' = log, refused \subseteq refused'
    PROVE  /\ \A rows, i, gone : Committed(rows, i, gone) <=> Committed(rows, i, gone)'
           /\ \A rows, i, gone, index : Sound(rows, i, gone, index) => Sound(rows, i, gone, index)'
<1>1. \A rows, i, gone : Committed(rows, i, gone) <=> Committed(rows, i, gone)'
  BY DEF Committed, Known
<1>2. \A rows, i, gone, index : Sound(rows, i, gone, index) => Sound(rows, i, gone, index)'
  BY <1>1, Zenon DEF Sound, Refused
<1> QED BY <1>1, <1>2

\* The nodes other than n keep what they have.
Others(n) ==
    \A m \in Nodes \ {n} :
        /\ live'[m] = live[m] /\ at'[m] = at[m] /\ applied'[m] = applied[m]
        /\ snaps'[m] = snaps[m] /\ latest'[m] = latest[m] /\ own'[m] = own[m]

\* A step of node n that leaves the log alone: what is left to show.
LEMMA OneNode ==
    ASSUME NodeInv, log' = log, refused \subseteq refused', NEW n \in Nodes, Others(n),
           Sound(live[n], at[n], own[n], applied[n])', SnapsSound(n)', LatestSound(n)'
    PROVE  NodeInv'
<1> SUFFICES ASSUME NEW m \in Nodes \ {n}
             PROVE  (Sound(live[m], at[m], own[m], applied[m]) /\ SnapsSound(m) /\ LatestSound(m))'
  BY SMTT(30) DEF NodeInv
<1>1. /\ live'[m] = live[m] /\ at'[m] = at[m] /\ applied'[m] = applied[m]
      /\ snaps'[m] = snaps[m] /\ latest'[m] = latest[m] /\ own'[m] = own[m]
  BY DEF Others
<1>2. Sound(live[m], at[m], own[m], applied[m]) /\ SnapsSound(m) /\ LatestSound(m)
  BY Zenon DEF NodeInv
<1>3. Sound(live[m], at[m], own[m], applied[m])'
  BY <1>1, <1>2, SoundStays, Zenon
<1>4. SnapsSound(m)'
  BY <1>1, <1>2, SoundStays, Zenon DEF SnapsSound
<1>5. LatestSound(m)'
  BY <1>1, <1>2, SoundStays, ZenonT(30) DEF LatestSound
<1> QED BY <1>3, <1>4, <1>5, SMTT(30)

\* The same for a step that leaves the database of n alone.
LEMMA SameDatabase ==
    ASSUME NodeInv, UNCHANGED <<log, live, at, applied, refused, own>>, NEW n \in Nodes, Others(n),
           SnapsSound(n)', latest'[n] \in {latest[n], None}
    PROVE  NodeInv'
<1>1. Sound(live[n], at[n], own[n], applied[n]) /\ LatestSound(n)
  BY Zenon DEF NodeInv
<1>2. Sound(live[n], at[n], own[n], applied[n])'
  BY <1>1, SoundStays, Zenon
<1>3. LatestSound(n)'
  BY <1>1, SoundStays, Zenon DEF LatestSound
<1> QED BY <1>2, <1>3, OneNode, Zenon

\* A snapshot more on the disk of n.
LEMMA OneSnapshot ==
    ASSUME NodeInv, log' = log, refused' = refused, NEW n \in Nodes, NEW s,
           snaps'[n] = snaps[n] \cup {s}, Sound(s.rows, s.i, s.own, s.index)
    PROVE  SnapsSound(n)'
<1>1. SnapsSound(n)
  BY DEF NodeInv
<1>2. \A t \in snaps'[n] : Sound(t.rows, t.i, t.own, t.index)
  BY <1>1 DEF SnapsSound
<1> QED BY <1>2, SoundStays, Zenon DEF SnapsSound

\* The entry behind a node's rows is committed.
LEMMA AtBound ==
    ASSUME TypeOK, NEW n \in Nodes
    PROVE  at[n] \in 0..Len(log)
<1>1. at[n] \in Nat /\ Len(log) \in Nat /\ at[n] <= Len(log)
  BY SMTT(30) DEF TypeOK
<1> QED BY <1>1

\* FSM.Restore installs rows that are sound.
LEMMA RestoreSound ==
    ASSUME TypeOK, NodeInv, log' = log, refused' = refused,
           NEW n \in Nodes, NEW s \in Snapshot, FSMRestore(n, s), Sound(s.rows, s.i, s.own, s.index)
    PROVE  /\ Sound(live[n], at[n], own[n], applied[n])' /\ LatestSound(n)'
           /\ \A m \in Nodes \ {n} :
                 /\ live'[m] = live[m] /\ at'[m] = at[m] /\ applied'[m] = applied[m]
                 /\ latest'[m] = latest[m] /\ own'[m] = own[m]
<1>1. /\ live'[n] = Merge(live[n], s.rows) /\ at'[n] = s.i /\ applied'[n] = s.index
      /\ latest'[n] = [rows |-> s.rows, i |-> s.i, own |-> s.own] /\ own'[n] = s.own
      /\ \A m \in Nodes \ {n} :
            /\ live'[m] = live[m] /\ at'[m] = at[m] /\ applied'[m] = applied[m]
            /\ latest'[m] = latest[m] /\ own'[m] = own[m]
  BY Zenon DEF FSMRestore, TypeOK
<1>2. live[n] \in SUBSET Rows /\ at[n] \in 0..Len(log) /\ Committed(live[n], at[n], own[n])
  <2>1. live[n] \in SUBSET Rows /\ at[n] \in 0..Len(log)
    BY AtBound, Zenon DEF TypeOK
  <2>2. Committed(live[n], at[n], own[n])
    BY ZenonT(30) DEF NodeInv, Sound
  <2> QED BY <2>1, <2>2, Zenon
<1>3. live[n] \subseteq Known
  BY <1>2, CommittedKnown, Zenon
<1>4. Committed(s.rows, s.i, s.own)
  BY Zenon DEF Sound
<1>5. Sound(Merge(live[n], s.rows), s.i, s.own, s.index)
  BY <1>2, <1>3, <1>4, MergeCommitted, Zenon DEF Sound
<1>6. Sound(live[n], at[n], own[n], applied[n])'
  BY <1>1, <1>5, SoundStays
<1>7. latest'[n].i = at'[n] /\ Committed(latest'[n].rows, at'[n], latest'[n].own)
  <2>1. /\ latest'[n].i = at'[n] /\ latest'[n].rows = s.rows /\ at'[n] = s.i
        /\ latest'[n].own = s.own
    <3>1. PICK t : t = [rows |-> s.rows, i |-> s.i, own |-> s.own]
      BY Zenon
    <3>2. t.i = s.i /\ t.rows = s.rows /\ t.own = s.own
      BY <3>1, Zenon
    <3> QED BY <1>1, <3>1, <3>2, Zenon
  <2> QED BY <1>4, <2>1, Zenon
<1>8. LatestSound(n)'
  BY <1>7, SoundStays DEF LatestSound
<1> QED BY <1>1, <1>6, <1>8, Zenon

\* FSM.Apply installs an entry or refuses it.
LEMMA ApplySound ==
    ASSUME TypeOK, NodeInv, NEW n \in Nodes, ApplyNext(n)
    PROVE  NodeInv'
<1> DEFINE i == applied[n] + 1
<1> USE DEF raftVars
<1>1. /\ i \in 1..Len(log) /\ FSMApply(n, i) /\ log' = log
      /\ applied[n] \in Nat /\ at[n] \in 0..Len(log) /\ i = applied[n] + 1
  <2>1. applied[n] \in Nat /\ Len(log) \in Nat
    BY DEF TypeOK
  <2>2. applied[n] < Len(log) /\ FSMApply(n, i) /\ log' = log
    BY DEF ApplyNext
  <2>3. i \in 1..Len(log)
    BY <2>1, <2>2
  <2> QED BY <2>1, <2>2, <2>3, AtBound
<1>a. /\ i \in Nat /\ (i + 1)..i = {}
      /\ \A k \in (at[n] + 1)..i : k # i => k \in (at[n] + 1)..applied[n]
  <2>1. applied[n] \in Nat /\ at[n] \in Nat
    BY Zenon DEF TypeOK
  <2> QED BY <2>1
<1> HIDE DEF i
<1>2. /\ applied'[n] = i /\ snaps' = snaps /\ refused \subseteq refused'
      /\ \A m \in Nodes \ {n} :
            /\ live'[m] = live[m] /\ at'[m] = at[m] /\ applied'[m] = applied[m]
            /\ latest'[m] = latest[m] /\ own'[m] = own[m]
  BY <1>1, SMTT(30) DEF FSMApply, TypeOK
<1>3. Others(n)
  BY <1>2, Zenon DEF Others
<1>4. Sound(live[n], at[n], own[n], applied[n]) /\ Committed(live[n], at[n], own[n]) /\ LatestSound(n) /\ SnapsSound(n)
  BY Zenon DEF NodeInv, Sound
<1>5. live[n] \in SUBSET Rows /\ live[n] \subseteq Known
  <2>1. live[n] \in SUBSET Rows
    BY Zenon DEF TypeOK
  <2> QED BY <1>1, <1>4, <2>1, CommittedKnown, Zenon
<1>6. SnapsSound(n)'
  BY <1>1, <1>2, <1>4, SoundStays, Zenon DEF SnapsSound
<1>7. CASE Accepts(n, log[i].rows)
  <2>1. /\ live'[n] = Merge(live[n], log[i].rows) /\ at'[n] = i
        /\ latest'[n] = [rows |-> log[i].rows, i |-> i, own |-> {}] /\ own'[n] = {}
    <3>1. PICK t : t = [rows |-> log[i].rows, i |-> i, own |-> {}]
      BY Zenon
    <3>2. /\ live' = [live EXCEPT ![n] = Merge(@, log[i].rows)] /\ at' = [at EXCEPT ![n] = i]
          /\ latest' = [latest EXCEPT ![n] = t] /\ own' = [own EXCEPT ![n] = {}]
      BY <1>1, <1>7, <3>1, Zenon DEF FSMApply
    <3> QED BY <3>1, <3>2, Zenon DEF TypeOK
  <2>2. Committed(log[i].rows, i, {})
    BY <1>1, EntryCommitted, Zenon
  <2>3. Committed(Merge(live[n], log[i].rows), i, {})
    BY <1>5, <2>2, MergeCommitted, Zenon
  <2>5. Sound(Merge(live[n], log[i].rows), i, {}, i)
    BY <1>a, <2>3, Zenon DEF Sound
  <2>6. Sound(live[n], at[n], own[n], applied[n])'
    BY <1>1, <1>2, <2>1, <2>5, SoundStays, Zenon
  <2>7. latest'[n].i = at'[n] /\ Committed(latest'[n].rows, at'[n], latest'[n].own)
    <3>1. /\ latest'[n].i = at'[n] /\ latest'[n].rows = log[i].rows /\ at'[n] = i
          /\ latest'[n].own = {}
      <4>1. PICK t : t = [rows |-> log[i].rows, i |-> i, own |-> {}]
        BY Zenon
      <4>2. t.i = i /\ t.rows = log[i].rows /\ t.own = {}
        BY <4>1, Zenon
      <4> QED BY <2>1, <4>1, <4>2, Zenon
    <3> QED BY <2>2, <3>1, ZenonT(30)
  <2>8. LatestSound(n)'
    BY <1>1, <1>2, <2>7, SoundStays, Zenon DEF LatestSound
  <2> QED BY <1>1, <1>2, <1>3, <1>6, <2>6, <2>8, OneNode, Zenon
<1>8. CASE ~ Accepts(n, log[i].rows)
  <2>1. /\ live' = live /\ at' = at /\ latest' = latest /\ refused' = refused \cup {<<n, i>>}
        /\ own' = own
    BY <1>1, <1>8 DEF FSMApply
  <2>2. ASSUME NEW k \in (at[n] + 1)..i PROVE Refused(k)'
    <3>1. CASE k = i
      BY <2>1, <3>1 DEF Refused
    <3>2. CASE k # i
      <4>1. k \in (at[n] + 1)..applied[n]
        BY <1>a, <3>2, Zenon
      <4>2. Refused(k)
        BY <1>4, <4>1, Zenon DEF Sound
      <4> QED BY <2>1, <4>2 DEF Refused
    <3> QED BY <3>1, <3>2
  <2>3. Committed(live[n], at[n], own[n])'
    BY <1>1, <1>2, <1>4, <2>1, SoundStays, ZenonT(30)
  <2>4. Sound(live[n], at[n], own[n], applied[n])'
    BY <1>2, <2>1, <2>2, <2>3, ZenonT(30) DEF Sound
  <2>5. LatestSound(n)'
    BY <1>1, <1>2, <1>4, <2>1, SoundStays, Zenon DEF LatestSound
  <2> QED BY <1>1, <1>2, <1>3, <1>6, <2>4, <2>5, OneNode, Zenon
<1> QED BY <1>7, <1>8, Zenon

\* What a node writes by itself is noted, or of the kinds nodes may insert.
LEMMA DirectSound ==
    ASSUME TypeOK, NodeInv, NEW n \in Nodes, Directly(n)
    PROVE  NodeInv'
<1>1. PICK rows \in SUBSET Rows, gone \in SUBSET Deleted :
        /\ live' = [live EXCEPT ![n] = rows] /\ own' = [own EXCEPT ![n] = gone]
        /\ live[n] \ rows \subseteq gone /\ own[n] \subseteq gone
        /\ rows \ live[n] \subseteq Named \cup Inserted
  BY DirectWrites, Zenon
<1>2. UNCHANGED <<log, applied, latest, snaps, at, refused>>
  BY DirectFrame, Zenon DEF raftVars
<1>3. /\ live'[n] = rows /\ own'[n] = gone
      /\ \A m \in Nodes \ {n} : live'[m] = live[m] /\ own'[m] = own[m]
  BY <1>1, Zenon DEF TypeOK
<1>4. Sound(live[n], at[n], own[n], applied[n]) /\ SnapsSound(n) /\ LatestSound(n)
  BY Zenon DEF NodeInv
<1>5. Committed(rows, at[n], gone)
  <2>1. Committed(live[n], at[n], own[n])
    BY <1>4, Zenon DEF Sound
  <2>2. rows \ live[n] \subseteq Upserted \cap Known
    BY <1>1, ControlAssumptions, Zenon DEF Known
  <2>3. CASE at[n] = 0
    BY <2>1, <2>2, <2>3, Zenon DEF Committed
  <2>4. CASE at[n] # 0
    BY <1>1, <2>1, <2>2, <2>4, Zenon DEF Committed
  <2> QED BY <2>3, <2>4, Zenon
<1>6. Sound(rows, at[n], gone, applied[n])
  BY <1>4, <1>5, Zenon DEF Sound
<1>7. Sound(live[n], at[n], own[n], applied[n])'
  BY <1>2, <1>3, <1>6, SoundStays, Zenon
<1>8. SnapsSound(n)' /\ LatestSound(n)'
  BY <1>2, <1>4, SoundStays, Zenon DEF SnapsSound, LatestSound
<1>9. Others(n)
  BY <1>2, <1>3, Zenon DEF Others
<1> QED BY <1>2, <1>7, <1>8, <1>9, OneNode, Zenon

\* Every action keeps what the nodes have sound.
LEMMA NodeStep == TypeOK /\ NodeInv /\ [Next]_vars => NodeInv'
<1> SUFFICES ASSUME TypeOK, NodeInv, [Next]_vars PROVE NodeInv'
  OBVIOUS
<1>1. ASSUME RaftStep PROVE NodeInv'
  BY <1>1, RaftNode
<1>2. ASSUME NEW n \in Nodes,
             \/ Commit \/ Elect(n) \/ StepDown(n) \/ AddVoter(n) \/ Begin(n) \/ Stage(n)
             \/ ExportSeed(n) \/ Submit(n) \/ Answered(n) \/ MutateFails(n)
      PROVE  NodeInv'
  <2>1. RaftStep
    BY <1>2, Zenon DEF RaftStep, raftVars, Commit, Elect, StepDown, AddVoter, Begin, Stage,
                ExportSeed, Submit, Answered, MutateFails
  <2> QED BY <1>1, <2>1, Zenon
<1>3. ASSUME NEW n \in Nodes, ApplyNext(n) PROVE NodeInv'
  BY <1>3, ApplySound
<1>4. ASSUME NEW n \in Nodes, TakeSnapshot(n) PROVE NodeInv'
  <2> DEFINE s == [index |-> applied[n], rows |-> FSMSnapshot(n).rows, i |-> FSMSnapshot(n).i,
                   own |-> FSMSnapshot(n).own]
  <2>1. /\ snaps' = [snaps EXCEPT ![n] = @ \cup {s}]
        /\ UNCHANGED <<log, live, applied, latest, at, refused, own>>
    BY <1>4, Zenon DEF TakeSnapshot, raftVars
  <2>2. Sound(live[n], at[n], own[n], applied[n]) /\ LatestSound(n)
    BY Zenon DEF NodeInv
  <2>3. Committed(FSMSnapshot(n).rows, at[n], FSMSnapshot(n).own) /\ FSMSnapshot(n).i = at[n]
    BY <2>2, Zenon DEF FSMSnapshot, Export, Sound, LatestSound
  <2>4. Sound(s.rows, s.i, s.own, s.index)
    BY <2>2, <2>3 DEF Sound
  <2> HIDE DEF s
  <2>5. snaps'[n] = snaps[n] \cup {s} /\ \A m \in Nodes \ {n} : snaps'[m] = snaps[m]
    BY <2>1 DEF TypeOK
  <2>6. SnapsSound(n)'
    BY <2>1, <2>4, <2>5, OneSnapshot
  <2>7. Others(n)
    BY <2>1, <2>5 DEF Others
  <2> QED BY <2>1, <2>6, <2>7, SameDatabase, Zenon
<1>5. ASSUME NEW n \in Nodes, Install(n) PROVE NodeInv'
  <2>0. PICK l \in Nodes : \E s \in snaps[l] :
           /\ snaps' = [snaps EXCEPT ![n] = @ \cup {s}]
           /\ FSMRestore(n, s) \/ UNCHANGED <<live, applied, latest, at, own>>
    BY <1>5, Zenon DEF Install
  <2>1. PICK s \in snaps[l] :
           /\ snaps' = [snaps EXCEPT ![n] = @ \cup {s}]
           /\ FSMRestore(n, s) \/ UNCHANGED <<live, applied, latest, at, own>>
    BY <2>0, Zenon
  <2>2. s \in Snapshot /\ Sound(s.rows, s.i, s.own, s.index)
    BY DEF NodeInv, SnapsSound, TypeOK
  <2>3. log' = log /\ refused' = refused
    BY <1>5, Zenon DEF Install, raftVars
  <2>4. snaps'[n] = snaps[n] \cup {s} /\ \A m \in Nodes \ {n} : snaps'[m] = snaps[m]
    BY <2>1, Zenon DEF TypeOK
  <2>5. SnapsSound(n)'
    BY <2>2, <2>3, <2>4, OneSnapshot, Zenon
  <2>6. CASE FSMRestore(n, s)
    <3>1. /\ Sound(live[n], at[n], own[n], applied[n])' /\ LatestSound(n)'
          /\ \A m \in Nodes \ {n} :
                /\ live'[m] = live[m] /\ at'[m] = at[m] /\ applied'[m] = applied[m]
                /\ latest'[m] = latest[m] /\ own'[m] = own[m]
      BY <2>2, <2>3, <2>6, RestoreSound, Zenon
    <3>2. Others(n)
      BY <2>4, <3>1, Zenon DEF Others
    <3> QED BY <2>3, <2>5, <3>1, <3>2, OneNode, Zenon
  <2>7. CASE UNCHANGED <<live, applied, latest, at, own>>
    <3>1. Others(n)
      BY <2>4, <2>7 DEF Others
    <3> QED BY <2>3, <2>5, <2>7, <3>1, SameDatabase, SMTT(30)
  <2> QED BY <2>1, <2>6, <2>7, Zenon
<1>6. ASSUME NEW n \in Nodes, Stop(n) PROVE NodeInv'
  <2>1. /\ UNCHANGED <<log, live, applied, snaps, at, refused, own>> /\ latest'[n] = None
        /\ \A m \in Nodes \ {n} : latest'[m] = latest[m]
    BY <1>6 DEF Stop, TypeOK
  <2>2. SnapsSound(n)
    BY Zenon DEF NodeInv
  <2>3. SnapsSound(n)'
    BY <2>1, <2>2, SoundStays, ZenonT(30) DEF SnapsSound
  <2>4. Others(n)
    BY <2>1, Zenon DEF Others
  <2> QED BY <2>1, <2>3, <2>4, SameDatabase, Zenon
<1>7. ASSUME NEW n \in Nodes, Restart(n) PROVE NodeInv'
  <2>1. log' = log /\ refused' = refused /\ snaps' = snaps
    BY <1>7, Zenon DEF Restart, raftVars
  <2>2. Sound(live[n], at[n], own[n], applied[n]) /\ SnapsSound(n) /\ LatestSound(n)
    BY Zenon DEF NodeInv
  <2>3. SnapsSound(n)'
    BY <2>1, <2>2, SoundStays, ZenonT(30) DEF SnapsSound
  <2>4. CASE applied' = [applied EXCEPT ![n] = 0] /\ UNCHANGED <<live, latest, at, own>>
    <3>1. applied'[n] = 0 /\ \A m \in Nodes \ {n} : applied'[m] = applied[m]
      BY <2>4 DEF TypeOK
    <3>2. (at[n] + 1)..0 = {}
      BY DEF TypeOK
    <3>3. Sound(live[n], at[n], own[n], 0)
      BY <2>2, <3>2, Zenon DEF Sound
    <3>4. Sound(live[n], at[n], own[n], applied[n])'
      BY <2>1, <2>4, <3>1, <3>3, SoundStays, ZenonT(30)
    <3>5. LatestSound(n)'
      BY <2>1, <2>2, <2>4, SoundStays, ZenonT(30) DEF LatestSound
    <3>6. Others(n)
      BY <2>1, <2>4, <3>1, Zenon DEF Others
    <3> QED BY <2>1, <2>3, <3>4, <3>5, <3>6, OneNode, Zenon
  <2>5. CASE \E s \in snaps[n] : FSMRestore(n, s)
    <3>1. PICK s \in snaps[n] : FSMRestore(n, s)
      BY <2>5, Zenon
    <3>2. s \in Snapshot /\ Sound(s.rows, s.i, s.own, s.index)
      BY <2>2, ZenonT(30) DEF SnapsSound, TypeOK
    <3>3. /\ Sound(live[n], at[n], own[n], applied[n])' /\ LatestSound(n)'
          /\ \A m \in Nodes \ {n} :
                /\ live'[m] = live[m] /\ at'[m] = at[m] /\ applied'[m] = applied[m]
                /\ latest'[m] = latest[m] /\ own'[m] = own[m]
      BY <2>1, <3>1, <3>2, RestoreSound, Zenon
    <3>4. Others(n)
      BY <2>1, <3>3, Zenon DEF Others
    <3> QED BY <2>1, <2>3, <3>3, <3>4, OneNode, Zenon
  <2> QED BY <1>7, <2>4, <2>5, Zenon DEF Restart
<1>8. CASE UNCHANGED vars
  BY <1>1, <1>8 DEF vars, RaftStep, nodeVars
<1>9. Nodes # {}
  BY ControlAssumptions
<1>10. ASSUME NEW n \in Nodes, Directly(n) PROVE NodeInv'
  BY <1>10, DirectSound, Zenon
<1> QED
  BY <1>2, <1>3, <1>4, <1>5, <1>6, <1>7, <1>8, <1>9, <1>10
  DEF Next, Crash, InitializeFails, Directly

\* What the nodes have is sound in every reachable state.
LEMMA NodeInvariant == Spec => []NodeInv
BY NodeInit, NodeStep, TypeCorrect, PTL DEF Spec

\* The control tables of a node hold one committed entry, but for rows that a
\* node has deleted by itself since, and nothing of an uncommitted mutation,
\* through elections, Raft snapshots, crashes, refusals and the nodes' own
\* writes.
THEOREM LiveIsCommittedHolds == Spec => []LiveIsCommitted
<1>1. NodeInv => LiveIsCommitted
  BY Zenon DEF NodeInv, Sound, Committed, Known, LiveIsCommitted
<1> QED BY <1>1, NodeInvariant, PTL

\* A node is behind what Raft handed to its FSM only by entries an FSM refused.
THEOREM BehindOnlyByRefusalHolds == Spec => []BehindOnlyByRefusal
<1>1. NodeInv => BehindOnlyByRefusal
  BY Zenon DEF NodeInv, Sound, BehindOnlyByRefusal
<1> QED BY <1>1, NodeInvariant, PTL

-----------------------------------------------------------------------------
(* Leadership.  Terms have one leader each, and a call knows its term.     *)

LeadInv ==
    /\ \A n \in Nodes :
          /\ bel[n] <= term
          /\ ~ up[n] => bel[n] = 0 /\ op[n] = Idle
          /\ op[n].pc \in {"staging", "staged"} => op[n].term <= term
          /\ op[n].pc = "wait" => op[n].entry.term <= term
    /\ \A n, m \in Nodes : bel[n] = bel[m] /\ bel[n] > 0 => n = m

\* At the start nobody leads.
LEMMA LeadInit == Init => LeadInv
<1> SUFFICES ASSUME Init PROVE LeadInv
  BY SMTT(30)
<1>1. term = 0 /\ \A n \in Nodes : bel[n] = 0 /\ op[n] = Idle
  BY DEF Init
<1>2. \A n \in Nodes : bel[n] <= term /\ ~ (bel[n] > 0)
  BY <1>1, SMTT(30)
<1> QED BY <1>1, <1>2, IdleCall DEF LeadInv

\* A step of the call of one node.
LEMMA CallLead ==
    ASSUME TypeOK, LeadInv, UNCHANGED <<term, bel, up>>,
           NEW n \in Nodes, NEW c \in Call, op' = [op EXCEPT ![n] = c],
           up[n] \/ c = Idle,
           c.pc \in {"staging", "staged"} => c.term <= term,
           c.pc = "wait" => c.entry.term <= term
    PROVE  LeadInv'
<1>1. op'[n] = c /\ \A m \in Nodes \ {n} : op'[m] = op[m]
  BY Zenon DEF TypeOK
<1> QED BY <1>1, ZenonT(30) DEF LeadInv

\* Every action keeps one leader per term.
LEMMA LeadStep == TypeOK /\ LeadInv /\ [Next]_vars => LeadInv'
<1> SUFFICES ASSUME TypeOK, LeadInv, [Next]_vars PROVE LeadInv'
  BY SMTT(30)
<1> USE DEF raftVars, nodeVars
<1>0. /\ \A n \in Nodes : op[n] \in Call /\ bel[n] \in Nat
      /\ term \in Nat
  BY ControlAssumptions, SMTT(30) DEF TypeOK
<1>1. ASSUME UNCHANGED <<term, bel, up, op>> PROVE LeadInv'
  BY <1>1, ZenonT(30) DEF LeadInv
<1>2. ASSUME NEW n \in Nodes, Commit \/ AddVoter(n) \/ ApplyNext(n) \/ TakeSnapshot(n)
                              \/ Install(n) \/ Directly(n)
      PROVE  LeadInv'
  BY <1>1, <1>2, DirectFrame, ZenonT(30) DEF Commit, AddVoter, ApplyNext, TakeSnapshot, Install
<1>3. ASSUME NEW n \in Nodes, Elect(n) PROVE LeadInv'
  <2>1. /\ term' = term + 1 /\ up' = up /\ op' = op /\ up[n]
        /\ bel'[n] = term + 1 /\ \A m \in Nodes \ {n} : bel'[m] = bel[m]
    BY <1>3, Zenon DEF Elect, TypeOK
  <2>2. ASSUME NEW m \in Nodes
        PROVE  /\ bel'[m] <= term'
               /\ ~ up'[m] => bel'[m] = 0 /\ op'[m] = Idle
    <3>1. /\ bel[m] \in Nat /\ term \in Nat /\ bel[m] <= term
          /\ ~ up[m] => bel[m] = 0 /\ op[m] = Idle
      BY <1>0, Zenon DEF LeadInv
    <3>2. bel'[m] <= term'
      BY <2>1, <3>1, SMTT(30)
    <3> QED BY <2>1, <3>1, <3>2, Zenon
  <2>3. ASSUME NEW m \in Nodes
        PROVE  /\ op'[m].pc \in {"staging", "staged"} => op'[m].term <= term'
               /\ op'[m].pc = "wait" => op'[m].entry.term <= term'
    <3>1. /\ op[m].pc \in {"staging", "staged"} => op[m].term \in Nat
          /\ op[m].pc = "wait" => op[m].entry.term \in Nat
      BY <1>0, CallFields, SMTT(30) DEF Entry
    <3> QED BY <1>0, <2>1, <3>1, SMTT(30) DEF LeadInv
  <2>4. \A l, m \in Nodes : bel'[l] = bel'[m] /\ bel'[l] > 0 => l = m
    BY <1>0, <2>1, SMTT(30) DEF LeadInv
  <2> QED BY <2>2, <2>3, <2>4, Zenon DEF LeadInv
<1>4. ASSUME NEW n \in Nodes, StepDown(n) PROVE LeadInv'
  <2>1. /\ term' = term /\ up' = up /\ op' = op /\ bel'[n] = 0
        /\ \A m \in Nodes \ {n} : bel'[m] = bel[m]
    BY <1>4, Zenon DEF StepDown, TypeOK
  <2> QED BY <1>0, <2>1, SMTT(30) DEF LeadInv
<1>5. ASSUME NEW n \in Nodes, NEW c, up[n], UNCHANGED <<term, bel, up>>,
             op' = [op EXCEPT ![n] = c],
             \/ c = Idle
             \/ c.pc \in {"staging", "staged"} /\ c.term <= term
             \/ c.pc = "wait" /\ c.entry.term <= term
      PROVE  LeadInv'
  <2>1. c \in Call
    BY <1>5, TypeStep, ZenonT(30) DEF TypeOK
  <2> QED BY <1>5, <2>1, IdleCall, CallLead, Zenon
<1>6. ASSUME NEW n \in Nodes, Begin(n) \/ ExportSeed(n) PROVE LeadInv'
  <2>1. PICK c : op' = [op EXCEPT ![n] = c] /\ c.pc \in {"staging", "staged"} /\ c.term = term
    <3>1. CASE Begin(n)
      <4>1. PICK w \in Wanted : op' = [op EXCEPT ![n] = [pc |-> "staging", change |-> w, term |-> term]]
        BY <3>1, Zenon DEF Begin
      <4> WITNESS [pc |-> "staging", change |-> w, term |-> term]
      <4> QED BY <4>1
    <3>2. CASE ExportSeed(n)
      <4> WITNESS [pc |-> "staged", rows |-> Export(live[n]), term |-> term,
                   base |-> at[n], seed |-> TRUE]
      <4> QED BY <3>2 DEF ExportSeed
    <3> QED BY <1>6, <3>1, <3>2
  <2>2. up[n] /\ UNCHANGED <<term, bel, up>>
    BY <1>6, Zenon DEF Begin, ExportSeed, Leads
  <2>3. c.term <= term
    BY <2>1, TermSelf, Zenon
  <2> QED BY <1>5, <2>1, <2>2, <2>3, Zenon
<1>7. ASSUME NEW n \in Nodes, Stage(n) PROVE LeadInv'
  <2>1. PICK c : /\ op' = [op EXCEPT ![n] = c]
                 /\ c = Idle \/ (c.pc = "staged" /\ c.term = op[n].term)
    <3> WITNESS IF op[n].change.row \in Marks /\ ~ has[n] THEN Idle
                ELSE [pc |-> "staged", rows |-> Export(Mutated(live[n], op[n].change)),
                      term |-> op[n].term, base |-> at[n], seed |-> FALSE]
    <3> QED BY <1>7, Zenon DEF Stage
  <2>2. up[n] /\ UNCHANGED <<term, bel, up>> /\ op[n].term <= term
    BY <1>7, Zenon DEF Stage, LeadInv
  <2> QED BY <1>5, <2>1, <2>2, ZenonT(30)
<1>8. ASSUME NEW n \in Nodes, Submit(n) PROVE LeadInv'
  <2>1. PICK c : op' = [op EXCEPT ![n] = c] /\ c.pc = "wait" /\ c.entry.term = term
    <3> WITNESS [pc |-> "wait", index |-> Len(log) + 1, entry |-> inflight']
    <3> QED BY <1>8 DEF Submit
  <2>2. up[n] /\ UNCHANGED <<term, bel, up>>
    BY <1>8 DEF Submit, Leads
  <2>3. c.entry.term <= term
    BY <1>0, <2>1
  <2> QED BY <1>5, <2>1, <2>2, <2>3, Zenon
<1>9. ASSUME NEW n \in Nodes, Answered(n) \/ MutateFails(n) PROVE LeadInv'
  BY <1>9, IdleCall, CallLead, ZenonT(30) DEF Answered, MutateFails
<1>10. ASSUME NEW n \in Nodes, Stop(n) PROVE LeadInv'
  <2>1. /\ term' = term /\ ~ up'[n] /\ op'[n] = Idle /\ bel'[n] = 0
        /\ \A m \in Nodes \ {n} : bel'[m] = bel[m] /\ up'[m] = up[m] /\ op'[m] = op[m]
    BY <1>10 DEF Stop, TypeOK
  <2>2. bel'[n] <= term'
    BY <1>0, <2>1, SMTT(30)
  <2>3. ASSUME NEW m \in Nodes
        PROVE  /\ bel'[m] <= term' /\ (~ up'[m] => bel'[m] = 0 /\ op'[m] = Idle)
               /\ op'[m].pc \in {"staging", "staged"} => op'[m].term <= term'
               /\ op'[m].pc = "wait" => op'[m].entry.term <= term'
    <3>1. CASE m = n
      BY <2>1, <2>2, <3>1, IdleCall, Zenon
    <3>2. CASE m # n
      BY <2>1, <3>2, Zenon DEF LeadInv
    <3> QED BY <3>1, <3>2, Zenon
  <2>4. ~ (bel'[n] > 0)
    BY <2>1, SMTT(30)
  <2>5. \A l, m \in Nodes : bel'[l] = bel'[m] /\ bel'[l] > 0 => l = m
    BY <2>1, <2>4, ZenonT(30) DEF LeadInv
  <2> QED BY <2>3, <2>5, Zenon DEF LeadInv
<1>11. ASSUME NEW n \in Nodes, Restart(n) PROVE LeadInv'
  <2>1. /\ UNCHANGED <<term, bel, op>> /\ up'[n]
        /\ \A m \in Nodes \ {n} : up'[m] = up[m]
    BY <1>11 DEF Restart, TypeOK
  <2> QED BY <2>1, Zenon DEF LeadInv
<1>12. CASE UNCHANGED vars
  BY <1>1, <1>12, Zenon DEF vars
<1>13. Nodes # {}
  BY ControlAssumptions, SMTT(30)
<1> QED
  BY <1>2, <1>3, <1>4, <1>5, <1>6, <1>7, <1>8, <1>9, <1>10, <1>11, <1>12, <1>13, Zenon
  DEF Next, Crash, InitializeFails, Directly

-----------------------------------------------------------------------------
(* Success means committed.  The entry a call waits for is committed at    *)
(* its index, or still in flight, or its node was deposed and cannot apply *)
(* as far as that index without noticing.                                  *)

Accounted(n) ==
    \/ op[n].index <= Len(log) /\ log[op[n].index] = op[n].entry
    \/ bel[n] = term /\ inflight = op[n].entry /\ op[n].index = Len(log) + 1
    \/ bel[n] # term /\ applied[n] < op[n].index

WaitInv ==
    \A n \in Nodes : op[n].pc = "wait" /\ bel[n] = op[n].entry.term => Accounted(n)

\* The fields of a call that waits.
LEMMA WaitFields ==
    ASSUME TypeOK, NEW n \in Nodes, op[n].pc = "wait"
    PROVE  /\ op[n].index \in Nat \ {0} /\ op[n].entry \in Entry
           /\ op[n].entry.term \in Nat \ {0}
<1>1. op[n] \in Call
  BY DEF TypeOK
<1>2. op[n].index \in Nat \ {0} /\ op[n].entry \in Entry
  BY <1>1, CallFields, Zenon
<1> QED BY <1>2, SMTT(30) DEF Entry

\* Steps that leave Raft alone, and apply entries only where that is allowed.
LEMMA QuietWait ==
    ASSUME TypeOK, WaitInv, UNCHANGED <<log, term, bel, inflight>>,
           \A m \in Nodes : op'[m] = op[m] \/ op'[m].pc # "wait",
           \A m \in Nodes : applied'[m] = applied[m] \/ bel[m] \in {0, term} \/ op[m].pc # "wait"
    PROVE  WaitInv'
<1> SUFFICES ASSUME NEW n \in Nodes, op'[n].pc = "wait", bel'[n] = op'[n].entry.term
             PROVE  Accounted(n)'
  BY Zenon DEF WaitInv
<1>1. op'[n] = op[n] /\ op[n].pc = "wait" /\ bel[n] = op[n].entry.term /\ bel[n] # 0
  <2>1. op'[n] = op[n]
    OBVIOUS
  <2> QED BY <2>1, WaitFields, ZenonT(30)
<1>2. applied'[n] = applied[n] \/ bel[n] = term
  BY <1>1, Zenon
<1> QED BY <1>1, <1>2, Zenon DEF WaitInv, Accounted

\* At the start nobody waits.
LEMMA WaitInit == Init => WaitInv
BY IdleCall, Zenon DEF Init, WaitInv

\* Every action accounts for the entries calls wait for.
LEMMA WaitStep == TypeOK /\ LeadInv /\ WaitInv /\ [Next]_vars => WaitInv'
<1> SUFFICES ASSUME TypeOK, LeadInv, WaitInv, [Next]_vars PROVE WaitInv'
  BY SMTT(30)
<1> USE DEF raftVars, nodeVars
<1>0. /\ \A n \in Nodes : op[n] \in Call /\ bel[n] \in Nat /\ applied[n] \in Nat /\ applied[n] <= Len(log)
      /\ term \in Nat /\ Len(log) \in Nat
  BY ControlAssumptions, SMTT(30) DEF TypeOK
<1>1. ASSUME NEW n \in Nodes, AddVoter(n) \/ TakeSnapshot(n) \/ Directly(n) PROVE WaitInv'
  BY <1>1, DirectFrame, QuietWait, ZenonT(30) DEF AddVoter, TakeSnapshot
<1>2. ASSUME NEW n \in Nodes, UNCHANGED <<log, term, bel, inflight, applied>>, NEW c,
             op' = [op EXCEPT ![n] = c], c.pc # "wait"
      PROVE  WaitInv'
  <2>1. op'[n] = c /\ \A m \in Nodes \ {n} : op'[m] = op[m]
    BY <1>2 DEF TypeOK
  <2> QED BY <1>2, <2>1, QuietWait, Zenon
<1>3. ASSUME NEW n \in Nodes, Begin(n) \/ ExportSeed(n) \/ Stage(n) \/ Answered(n) \/ MutateFails(n)
      PROVE  WaitInv'
  <2>1. CASE Begin(n)
    <3>1. PICK w \in Wanted : op' = [op EXCEPT ![n] = [pc |-> "staging", change |-> w, term |-> term]]
      BY <2>1, Zenon DEF Begin
    <3>2. [pc |-> "staging", change |-> w, term |-> term].pc # "wait"
      OBVIOUS
    <3> QED BY <1>2, <2>1, <3>1, <3>2, Zenon DEF Begin
  <2>2. CASE ExportSeed(n)
    <3> DEFINE c == [pc |-> "staged", rows |-> Export(live[n]), term |-> term,
                     base |-> at[n], seed |-> TRUE]
    <3>1. op' = [op EXCEPT ![n] = c] /\ c.pc # "wait"
      BY <2>2, Zenon DEF ExportSeed
    <3> HIDE DEF c
    <3> QED BY <1>2, <2>2, <3>1, ZenonT(30) DEF ExportSeed
  <2>3. CASE Stage(n)
    <3> DEFINE c == [pc |-> "staged", rows |-> Export(Mutated(live[n], op[n].change)),
                     term |-> op[n].term, base |-> at[n], seed |-> FALSE]
    <3>1. (op' = [op EXCEPT ![n] = c] \/ op' = [op EXCEPT ![n] = Idle]) /\ c.pc # "wait"
      BY <2>3, ZenonT(30) DEF Stage
    <3> HIDE DEF c
    <3> QED BY <1>2, <2>3, <3>1, IdleCall, Zenon DEF Stage
  <2>4. CASE Answered(n) \/ MutateFails(n)
    BY <1>2, <2>4, IdleCall, Zenon DEF Answered, MutateFails
  <2> QED BY <1>3, <2>1, <2>2, <2>3, <2>4, Zenon
<1>4. ASSUME NEW n \in Nodes, ApplyNext(n) PROVE WaitInv'
  <2>1. /\ UNCHANGED <<log, term, bel, inflight, op>> /\ bel[n] \in {0, term}
        /\ \A m \in Nodes \ {n} : applied'[m] = applied[m]
    BY <1>4, Zenon DEF ApplyNext, FSMApply, TypeOK
  <2> QED BY <2>1, QuietWait, Zenon
<1>5. ASSUME NEW n \in Nodes, Install(n) PROVE WaitInv'
  <2>1. UNCHANGED <<log, term, bel, inflight, op>> /\ bel[n] = 0
    BY <1>5, Zenon DEF Install
  <2>2. \A m \in Nodes \ {n} : applied'[m] = applied[m]
    BY <1>5, Zenon DEF Install, FSMRestore, TypeOK
  <2> QED BY <2>1, <2>2, QuietWait, ZenonT(30)
<1>6. ASSUME NEW n \in Nodes, Restart(n) PROVE WaitInv'
  <2>1. UNCHANGED <<log, term, bel, inflight, op>> /\ op[n].pc # "wait"
    BY <1>6, IdleCall, Zenon DEF Restart, LeadInv
  <2>2. \A m \in Nodes \ {n} : applied'[m] = applied[m]
    BY <1>6, Zenon DEF Restart, FSMRestore, TypeOK
  <2> QED BY <2>1, <2>2, QuietWait, Zenon
<1>7. ASSUME NEW n \in Nodes, Stop(n) \/ StepDown(n) PROVE WaitInv'
  <2>1. /\ UNCHANGED <<log, term, inflight, applied>> /\ bel'[n] = 0
        /\ op'[n] \in {op[n], Idle}
        /\ \A m \in Nodes \ {n} : bel'[m] = bel[m] /\ op'[m] = op[m]
    BY <1>7, Zenon DEF Stop, StepDown, TypeOK
  <2>2. ~ (op'[n].pc = "wait" /\ bel'[n] = op'[n].entry.term)
    BY <2>1, IdleCall, WaitFields, ZenonT(30)
  <2>3. \A m \in Nodes \ {n} : Accounted(m) => Accounted(m)'
    BY <2>1, ZenonT(30) DEF Accounted
  <2> QED BY <2>1, <2>2, <2>3, ZenonT(30) DEF WaitInv
<1>8. ASSUME NEW n \in Nodes, Elect(n) PROVE WaitInv'
  <2>1. /\ term' = term + 1 /\ op' = op /\ applied' = applied
        /\ bel'[n] = term + 1 /\ \A m \in Nodes \ {n} : bel'[m] = bel[m]
    BY <1>8 DEF Elect, TypeOK
  <2>2. RaftStep
    BY <1>8, Zenon DEF Elect, RaftStep
  <2> SUFFICES ASSUME NEW m \in Nodes, op[m].pc = "wait", bel'[m] = op[m].entry.term
               PROVE  Accounted(m)'
    BY <2>1, Zenon DEF WaitInv
  <2>3. op[m].index \in Nat \ {0} /\ op[m].entry.term \in Nat /\ op[m].entry.term <= term
    BY WaitFields, Zenon DEF LeadInv
  <2>4. m # n /\ bel'[m] = bel[m] /\ bel'[m] # term'
    <3>1. op[m].entry.term # term + 1
      BY <1>0, <2>3, NotNext, Zenon
    <3>2. m # n
      BY <2>1, <3>1, Zenon
    <3> QED BY <2>1, <3>1, <3>2, Zenon
  <2>5. CASE op[m].index <= Len(log) /\ log[op[m].index] = op[m].entry
    <3>1. op[m].index \in 1..Len(log)
      BY <1>0, <2>3, <2>5, Below, Zenon
    <3>2. Len(log') \in Nat /\ Len(log) <= Len(log') /\ log'[op[m].index] = log[op[m].index]
      BY <2>2, <3>1, RaftLog, Zenon
    <3>3. op[m].index <= Len(log')
      BY <1>0, <2>3, <2>5, <3>2, Below, Zenon
    <3> QED BY <2>1, <2>5, <3>2, <3>3, Zenon DEF Accounted
  <2>6. CASE op[m].index > Len(log) /\ bel[m] = term
    <3>1. applied[m] \in Nat /\ applied[m] <= Len(log) /\ Len(log) \in Nat
      BY <1>0, Zenon
    <3>2. applied[m] < op[m].index
      BY <2>3, <2>6, <3>1, Below, Zenon
    <3> QED BY <2>1, <2>4, <3>2, Zenon DEF Accounted
  <2>7. CASE applied[m] < op[m].index
    BY <2>1, <2>4, <2>7, Zenon DEF Accounted
  <2>8. Accounted(m)
    BY <2>4, Zenon DEF WaitInv
  <2>9. op[m].index = Len(log) + 1 => op[m].index > Len(log)
    BY <1>0, SMTT(30)
  <2> QED BY <2>5, <2>6, <2>7, <2>8, <2>9, ZenonT(30) DEF Accounted
<1>9. CASE Commit
  <2>1. UNCHANGED <<term, bel, op, applied>> /\ inflight # None /\ log' = Append(log, inflight)
    BY <1>9, Zenon DEF Commit
  <2>2. inflight \in Entry
    BY <2>1 DEF TypeOK
  <2>3. /\ Len(log') = Len(log) + 1 /\ log'[Len(log) + 1] = inflight
        /\ \A i \in 1..Len(log) : log'[i] = log[i]
    BY <2>1, <2>2, LogGrows, Zenon
  <2> SUFFICES ASSUME NEW m \in Nodes, op[m].pc = "wait", bel[m] = op[m].entry.term
               PROVE  Accounted(m)'
    BY <2>1, Zenon DEF WaitInv
  <2>4. op[m].index \in Nat \ {0} /\ Accounted(m) /\ Len(log) \in Nat
    BY <1>0, WaitFields, Zenon DEF WaitInv
  <2>5. CASE op[m].index <= Len(log) /\ log[op[m].index] = op[m].entry
    <3>1. op[m].index \in 1..Len(log) /\ op[m].index <= Len(log) + 1
      BY <2>4, <2>5, SMTT(30)
    <3> QED BY <2>1, <2>3, <2>5, <3>1, Zenon DEF Accounted
  <2>6. CASE inflight = op[m].entry /\ op[m].index = Len(log) + 1
    <3>1. Len(log) + 1 <= Len(log) + 1
      BY <2>4, SMTT(30)
    <3> QED BY <2>1, <2>3, <2>6, <3>1, Zenon DEF Accounted
  <2>7. CASE bel[m] # term /\ applied[m] < op[m].index
    BY <2>1, <2>7, Zenon DEF Accounted
  <2> QED BY <2>4, <2>5, <2>6, <2>7, Zenon DEF Accounted
<1>10. ASSUME NEW n \in Nodes, Submit(n) PROVE WaitInv'
  <2>1. /\ UNCHANGED <<log, term, bel, applied>> /\ bel[n] = term /\ term > 0
        /\ \A m \in Nodes \ {n} : op'[m] = op[m]
    BY <1>10, Zenon DEF Submit, Leads, TypeOK
  <2>2. op'[n] = [pc |-> "wait", index |-> Len(log) + 1, entry |-> inflight']
    BY <1>10, Zenon DEF Submit, TypeOK
  <2>3. Accounted(n)'
    <3>1. bel'[n] = term' /\ inflight' = op'[n].entry /\ op'[n].index = Len(log') + 1
      BY <2>1, <2>2, SMTT(30)
    <3> QED BY <3>1, Zenon DEF Accounted
  <2>4. ASSUME NEW m \in Nodes \ {n}, op[m].pc = "wait", bel[m] = op[m].entry.term
        PROVE  Accounted(m)'
    <3>1. bel[m] # term
      BY <2>1, Zenon DEF LeadInv
    <3> QED BY <2>1, <2>4, <3>1, Zenon DEF WaitInv, Accounted
  <2> QED BY <2>1, <2>3, <2>4, Zenon DEF WaitInv
<1>11. CASE UNCHANGED vars
  BY <1>11, QuietWait DEF vars
<1> QED
  BY <1>1, <1>3, <1>4, <1>5, <1>6, <1>7, <1>8, <1>9, <1>10, <1>11, SMTT(30)
  DEF Next, Crash, InitializeFails, Directly

\* At the start nothing is acknowledged.
LEMMA AckInit == Init => AcknowledgedIsCommitted
BY Zenon DEF Init, AcknowledgedIsCommitted

\* Entries stay committed, and a call that is answered waits for a committed one.
LEMMA AckStep ==
    TypeOK /\ WaitInv /\ AcknowledgedIsCommitted /\ [Next]_vars => AcknowledgedIsCommitted'
<1> SUFFICES ASSUME TypeOK, WaitInv, AcknowledgedIsCommitted, [Next]_vars
             PROVE  AcknowledgedIsCommitted'
  BY Zenon
<1> USE DEF raftVars, nodeVars
<1>0. Len(log) \in Nat /\ \A a \in acked : a.index \in Nat \ {0}
  <2>1. log \in Seq(Entry) /\ acked \subseteq [index : Nat \ {0}, entry : Entry]
    BY Zenon DEF TypeOK
  <2>2. Len(log) \in Nat
    BY <2>1
  <2>3. \A a \in acked : a.index \in Nat \ {0}
    BY <2>1, Zenon
  <2> QED BY <2>2, <2>3, Zenon
<1>1. ASSUME NEW n \in Nodes, Answered(n) PROVE AcknowledgedIsCommitted'
  <2>1. op[n].pc = "wait" /\ bel[n] = op[n].entry.term /\ applied[n] >= op[n].index /\ log' = log
    BY <1>1, ZenonT(30) DEF Answered
  <2>2. op[n].index \in Nat /\ applied[n] \in Nat /\ applied[n] <= Len(log)
    BY <2>1, WaitFields, Zenon DEF TypeOK
  <2>3. Accounted(n)
    BY <2>1, Zenon DEF WaitInv
  <2>4. op[n].index <= Len(log) /\ log[op[n].index] = op[n].entry
    <3>1. Len(log) \in Nat
      BY <1>0
    <3>2. op[n].index # Len(log) + 1 /\ ~ (applied[n] < op[n].index)
      BY <2>1, <2>2, <3>1, SMTT(30)
    <3> QED BY <2>3, <3>2 DEF Accounted
  <2>5. acked' \subseteq acked \cup {[index |-> op[n].index, entry |-> op[n].entry]}
    BY <1>1, Zenon DEF Answered
  <2>6. PICK new : new = [index |-> op[n].index, entry |-> op[n].entry]
    BY Zenon
  <2>7. new.index = op[n].index /\ new.entry = op[n].entry
    BY <2>6, Zenon
  <2>8. \A a \in acked' : a \in acked \/ a = new
    BY <2>5, <2>6, Zenon
  <2> QED BY <2>1, <2>4, <2>7, <2>8, Zenon DEF AcknowledgedIsCommitted
<1>2. ASSUME acked' = acked, log' = log \/ (inflight # None /\ log' = Append(log, inflight))
      PROVE  AcknowledgedIsCommitted'
  <2>1. CASE log' = log
    BY <1>2, <2>1, Zenon DEF AcknowledgedIsCommitted
  <2>2. CASE inflight # None /\ log' = Append(log, inflight)
    <3>1. inflight \in Entry
      BY <2>2 DEF TypeOK
    <3>2. Len(log') = Len(log) + 1 /\ \A i \in 1..Len(log) : log'[i] = log[i]
      BY <2>2, <3>1, LogGrows
    <3> QED BY <1>0, <1>2, <3>2, SMTT(30) DEF AcknowledgedIsCommitted
  <2> QED BY <1>2, <2>1, <2>2, Zenon
<1>3. ASSUME NEW n \in Nodes,
             \/ Commit \/ Elect(n) \/ StepDown(n) \/ AddVoter(n) \/ ApplyNext(n) \/ TakeSnapshot(n)
             \/ Install(n) \/ Begin(n) \/ Stage(n) \/ ExportSeed(n) \/ Submit(n) \/ MutateFails(n)
             \/ Stop(n) \/ Restart(n) \/ Directly(n)
      PROVE  AcknowledgedIsCommitted'
  <2>1. acked' = acked /\ (log' = log \/ (inflight # None /\ log' = Append(log, inflight)))
    BY <1>3, DirectFrame, Zenon DEF Commit, Elect, StepDown, AddVoter, ApplyNext, TakeSnapshot, Install,
                Begin, Stage, ExportSeed, Submit, MutateFails, Stop, Restart
  <2> QED BY <1>2, <2>1, Zenon
<1>4. CASE UNCHANGED vars
  BY <1>2, <1>4 DEF vars
<1>5. Nodes # {}
  BY ControlAssumptions
<1> QED BY <1>1, <1>3, <1>4, <1>5 DEF Next, Crash, InitializeFails, Directly

\* What calls know of leadership, in every reachable state.
LEMMA CallInvariant == Spec => [](LeadInv /\ WaitInv)
<1>1. Init => LeadInv /\ WaitInv
  BY LeadInit, WaitInit
<1>2. TypeOK /\ (LeadInv /\ WaitInv) /\ [Next]_vars => (LeadInv /\ WaitInv)'
  BY LeadStep, WaitStep
<1> QED BY <1>1, <1>2, TypeCorrect, PTL DEF Spec

\* When Mutate reports success, the entry it proposed is in the committed log
\* at the index it was given, whatever elections happened meanwhile.
THEOREM AcknowledgedIsCommittedHolds == Spec => []AcknowledgedIsCommitted
BY AckInit, AckStep, TypeCorrect, CallInvariant, PTL DEF Spec

-----------------------------------------------------------------------------
(* Mutations build on each other.  As long as its leadership lasts a call  *)
(* has the whole log behind its copy, and nobody else submits an entry.    *)

\* An FSM refused every entry after base.
Since(base) == \A k \in (base + 1)..Len(log) : Refused(k)

\* The call of n is under way in the leadership in which it began.
Current(n) == op[n].pc \in {"staging", "staged"} /\ bel[n] = term /\ op[n].term = term

Based(n) ==
    /\ op[n].pc = "staging" => applied[n] = Len(log) /\ inflight = None
    /\ op[n].pc = "staged" /\ ~ op[n].seed => Since(op[n].base) /\ inflight = None

BaseInv == \A n \in Nodes : Current(n) => Based(n)

FlightInv ==
    inflight # None /\ ~ inflight.seed /\ inflight.from = inflight.term => Since(inflight.base)

BuildInv == BaseInv /\ FlightInv /\ BuildsOnPrevious

\* At the start there is nothing to build on.
LEMMA BuildInit == Init => BuildInv
<1> SUFFICES ASSUME Init PROVE BuildInv
  BY SMTT(30)
<1>1. log = << >> /\ inflight = None /\ \A n \in Nodes : op[n] = Idle
  BY DEF Init
<1>2. BaseInv
  BY <1>1, IdleCall DEF BaseInv, Current
<1>3. FlightInv
  BY <1>1 DEF FlightInv
<1>4. 1..Len(log) = {}
  BY <1>1
<1>5. BuildsOnPrevious
  BY <1>4 DEF BuildsOnPrevious
<1> QED BY <1>2, <1>3, <1>5 DEF BuildInv

\* Refusals are remembered.
LEMMA RefusedStays ==
    ASSUME refused \subseteq refused'
    PROVE  \A k : Refused(k) => Refused(k)'
BY DEF Refused

\* Steps that leave Raft alone: what is left to show.
LEMMA QuietBuild ==
    ASSUME BuildInv, UNCHANGED <<log, term, bel, inflight>>, refused \subseteq refused',
           \A m \in Nodes : \/ op'[m] = op[m] /\ applied'[m] = applied[m]
                            \/ Current(m)' => Based(m)'
    PROVE  BuildInv'
<1>1. \A base : Since(base) => Since(base)'
  BY RefusedStays, Zenon DEF Since
<1>2. BaseInv'
  <2> SUFFICES ASSUME NEW m \in Nodes, Current(m)', op'[m] = op[m], applied'[m] = applied[m]
               PROVE  Based(m)'
    BY Zenon DEF BaseInv
  <2>1. Based(m)
    BY Zenon DEF BuildInv, BaseInv, Current
  <2> QED BY <1>1, <2>1, Zenon DEF Based
<1>3. FlightInv'
  BY <1>1, Zenon DEF BuildInv, FlightInv
<1>4. BuildsOnPrevious'
  BY RefusedStays, SMTT(30) DEF BuildInv, BuildsOnPrevious
<1> QED BY <1>2, <1>3, <1>4, Zenon DEF BuildInv

\* The entry in flight is committed or dropped.
LEMMA FlightBuilds ==
    ASSUME TypeOK, BuildInv, RaftStep
    PROVE  BuildsOnPrevious'
<1>1. /\ Len(log) \in Nat /\ Len(log') \in {Len(log), Len(log) + 1}
      /\ \A i \in 1..Len(log) : log'[i] = log[i]
      /\ \A i \in 1..Len(log') : i > Len(log) => inflight # None /\ log'[i] = inflight
  BY RaftLog
<1>2. \A k : Refused(k) => Refused(k)'
  BY RefusedStays, Zenon DEF RaftStep, nodeVars
<1> SUFFICES ASSUME NEW i \in 1..Len(log'), ~ log'[i].seed, log'[i].from = log'[i].term,
                    NEW k \in (log'[i].base + 1)..(i - 1)
             PROVE  Refused(k)
  BY <1>2, Zenon DEF BuildsOnPrevious
<1>3. CASE i <= Len(log)
  <2>1. i \in 1..Len(log) /\ log'[i] = log[i]
    BY <1>1, <1>3
  <2> QED BY <2>1, Zenon DEF BuildInv, BuildsOnPrevious
<1>4. CASE i > Len(log)
  <2>1. i = Len(log) + 1 /\ inflight # None /\ log'[i] = inflight
    BY <1>1, <1>4, SMTT(30)
  <2>2. Since(inflight.base) /\ i - 1 = Len(log)
    BY <1>1, <2>1, SMTT(30) DEF BuildInv, FlightInv
  <2> QED BY <2>1, <2>2, Zenon DEF Since
<1> QED BY <1>1, <1>3, <1>4, SMTT(30)

\* Every action keeps what calls are based on.
LEMMA BuildStep == TypeOK /\ LeadInv /\ NodeInv /\ BuildInv /\ [Next]_vars => BuildInv'
<1> SUFFICES ASSUME TypeOK, LeadInv, NodeInv, BuildInv, [Next]_vars PROVE BuildInv'
  BY Zenon
<1> USE DEF raftVars, nodeVars
<1>0. /\ \A n \in Nodes : op[n] \in Call /\ bel[n] \in Nat /\ applied[n] \in Nat
      /\ term \in Nat /\ Len(log) \in Nat
  BY ControlAssumptions, SMTT(30) DEF TypeOK
<1>a. \A n \in Nodes : op[n].pc \in {"staging", "staged"} => op[n].term \in Nat \ {0}
  <2> SUFFICES ASSUME NEW n \in Nodes, op[n].pc \in {"staging", "staged"}
               PROVE  op[n].term \in Nat \ {0}
    OBVIOUS
  <2>1. op[n].term \in 1..MaxTerm
    BY <1>0, CallFields, Zenon
  <2> QED BY <2>1, ControlAssumptions
<1>1. ASSUME NEW n \in Nodes, AddVoter(n) \/ TakeSnapshot(n) \/ Directly(n) PROVE BuildInv'
  BY <1>1, DirectFrame, QuietBuild, Zenon DEF AddVoter, TakeSnapshot
<1>2. ASSUME NEW n \in Nodes, UNCHANGED <<log, term, bel, inflight, applied, refused>>,
             \A m \in Nodes \ {n} : op'[m] = op[m], Current(n)' => Based(n)'
      PROVE  BuildInv'
  BY <1>2, QuietBuild, Zenon
<1>3. ASSUME NEW n \in Nodes, Begin(n) PROVE BuildInv'
  <2>1. PICK w \in Wanted : op' = [op EXCEPT ![n] = [pc |-> "staging", change |-> w, term |-> term]]
    BY <1>3, ZenonT(30) DEF Begin
  <2>2. op'[n].pc = "staging" /\ \A m \in Nodes \ {n} : op'[m] = op[m]
    BY <2>1, SMTT(30) DEF TypeOK
  <2>3. /\ applied[n] = Len(log) /\ inflight = None
        /\ UNCHANGED <<log, term, bel, inflight, applied, refused>>
    BY <1>3 DEF Begin
  <2>4. Based(n)'
    BY <2>2, <2>3, Zenon DEF Based
  <2> QED BY <1>2, <2>2, <2>3, <2>4, Zenon
<1>4. ASSUME NEW n \in Nodes, Stage(n) PROVE BuildInv'
  <2>1. /\ UNCHANGED <<log, term, bel, inflight, applied, refused>> /\ op[n].pc = "staging"
        /\ \A m \in Nodes \ {n} : op'[m] = op[m]
    BY <1>4, Zenon DEF Stage, TypeOK
  <2>2. op'[n].pc = "idle" \/ (op'[n].pc = "staged" /\ op'[n].term = op[n].term /\ op'[n].base = at[n])
    BY <1>4, IdleCall, Zenon DEF Stage, TypeOK
  <2>3. CASE op'[n].pc = "idle"
    BY <1>2, <2>1, <2>3, Zenon DEF Current
  <2>4. CASE op'[n].pc = "staged" /\ op'[n].term = op[n].term /\ op'[n].base = at[n]
    <3>1. ASSUME Current(n)' PROVE Based(n)'
      <4>1. Current(n)
        BY <2>1, <2>4, <3>1, Zenon DEF Current
      <4>2. applied[n] = Len(log) /\ inflight = None
        BY <2>1, <4>1, Zenon DEF BuildInv, BaseInv, Based
      <4>3. Since(at[n])
        BY <4>2 DEF NodeInv, Sound, Since
      <4>4. Since(at[n])' <=> \A k \in (at'[n] + 1)..Len(log') : Refused(k)'
        BY Zenon DEF Since
      <4>5. at' = at
        BY <1>4, ZenonT(30) DEF Stage
      <4>6. Since(op[n].base)'
        BY <2>1, <2>4, <4>3, <4>5, RefusedStays, Zenon DEF Since
      <4> QED BY <2>1, <2>4, <4>2, <4>6, Zenon DEF Based
    <3> QED BY <1>2, <2>1, <3>1, Zenon
  <2> QED BY <2>2, <2>3, <2>4, Zenon
<1>5. ASSUME NEW n \in Nodes, ExportSeed(n) PROVE BuildInv'
  <2>1. /\ UNCHANGED <<log, term, bel, inflight, applied, refused>>
        /\ op'[n].pc = "staged" /\ op'[n].seed
        /\ \A m \in Nodes \ {n} : op'[m] = op[m]
    BY <1>5, Zenon DEF ExportSeed, TypeOK
  <2> QED BY <1>2, <2>1, ZenonT(30) DEF Based
<1>6. ASSUME NEW n \in Nodes, Answered(n) \/ MutateFails(n) PROVE BuildInv'
  <2>1. /\ UNCHANGED <<log, term, bel, inflight, applied, refused>> /\ op'[n] = Idle
        /\ \A m \in Nodes \ {n} : op'[m] = op[m]
    BY <1>6, Zenon DEF Answered, MutateFails, TypeOK
  <2> QED BY <1>2, <2>1, IdleCall, ZenonT(30) DEF Current
<1>7. ASSUME NEW n \in Nodes, UNCHANGED <<log, term, bel, inflight, op>>, refused \subseteq refused',
             \A m \in Nodes \ {n} : applied'[m] = applied[m],
             Current(n) => applied'[n] = applied[n]
      PROVE  BuildInv'
  <2>1. Current(n)' => Current(n)
    BY <1>7, ZenonT(30) DEF Current
  <2>2. \A base : Since(base) => Since(base)'
    BY <1>7, RefusedStays, ZenonT(30) DEF Since
  <2>3. Current(n)' => Based(n)'
    BY <1>7, <2>1, <2>2, Zenon DEF BuildInv, BaseInv, Based
  <2> QED BY <1>7, <2>3, QuietBuild, ZenonT(30)
<1>8. ASSUME NEW n \in Nodes, ApplyNext(n) PROVE BuildInv'
  <2>1. /\ UNCHANGED <<log, term, bel, inflight, op>> /\ refused \subseteq refused'
        /\ \A m \in Nodes \ {n} : applied'[m] = applied[m]
    BY <1>8, Zenon DEF ApplyNext, FSMApply, TypeOK
  <2>2. ~ (Current(n) /\ op[n].pc = "staging")
    <3>1. Current(n) /\ op[n].pc = "staging" => applied[n] = Len(log)
      BY Zenon DEF BuildInv, BaseInv, Based
    <3>2. applied[n] < Len(log)
      BY <1>8, ZenonT(30) DEF ApplyNext
    <3> QED BY <1>0, <3>1, <3>2, SMTT(30)
  <2>3. Current(n)' => Based(n)'
    <3>1. \A base : Since(base) => Since(base)'
      BY <2>1, RefusedStays DEF Since
    <3>2. Current(n)' => Current(n)
      BY <2>1, Zenon DEF Current
    <3> QED BY <2>1, <2>2, <3>1, <3>2, Zenon DEF BuildInv, BaseInv, Based
  <2> QED BY <2>1, <2>3, QuietBuild, Zenon
<1>9. ASSUME NEW n \in Nodes, Install(n) PROVE BuildInv'
  <2>1. UNCHANGED <<log, term, bel, inflight, op, refused>> /\ bel[n] = 0
    BY <1>9, ZenonT(30) DEF Install
  <2>2. \A m \in Nodes \ {n} : applied'[m] = applied[m]
    BY <1>9, Zenon DEF Install, FSMRestore, TypeOK
  <2>3. ~ Current(n)
    BY <1>a, <2>1, Zenon DEF Current
  <2> QED BY <1>7, <2>1, <2>2, <2>3, Zenon
<1>10. ASSUME NEW n \in Nodes, Restart(n) PROVE BuildInv'
  <2>1. UNCHANGED <<log, term, bel, inflight, op, refused>> /\ op[n] = Idle
    BY <1>10, Zenon DEF Restart, LeadInv
  <2>2. \A m \in Nodes \ {n} : applied'[m] = applied[m]
    BY <1>10, Zenon DEF Restart, FSMRestore, TypeOK
  <2>3. ~ Current(n)
    BY <2>1, IdleCall DEF Current
  <2> QED BY <1>7, <2>1, <2>2, <2>3, ZenonT(30)
<1>11. ASSUME NEW n \in Nodes, Stop(n) \/ StepDown(n) PROVE BuildInv'
  <2>1. /\ UNCHANGED <<log, term, inflight, applied, refused>> /\ bel'[n] = 0
        /\ op'[n] \in {op[n], Idle}
        /\ \A m \in Nodes \ {n} : bel'[m] = bel[m] /\ op'[m] = op[m]
    BY <1>11, Zenon DEF Stop, StepDown, TypeOK
  <2>2. ~ Current(n)'
    BY <1>a, <2>1, IdleCall, ZenonT(30) DEF Current
  <2>3. \A base : Since(base) => Since(base)'
    BY <2>1, RefusedStays, ZenonT(30) DEF Since
  <2>4. ASSUME NEW m \in Nodes \ {n}, Current(m)' PROVE Based(m)'
    <3>1. Based(m)
      BY <2>1, <2>4, Zenon DEF Current, BuildInv, BaseInv
    <3> QED BY <2>1, <2>3, <3>1, Zenon DEF Based
  <2>5. BaseInv'
    BY <2>2, <2>4, Zenon DEF BaseInv
  <2>6. FlightInv'
    BY <2>1, <2>3, ZenonT(30) DEF BuildInv, FlightInv
  <2>7. BuildsOnPrevious'
    BY <2>1, RefusedStays, Zenon DEF BuildInv, BuildsOnPrevious
  <2> QED BY <2>5, <2>6, <2>7, Zenon DEF BuildInv
<1>12. ASSUME NEW n \in Nodes, Elect(n) PROVE BuildInv'
  <2>1. term' = term + 1 /\ op' = op /\ inflight' = None /\ RaftStep
    BY <1>12, Zenon DEF Elect, RaftStep
  <2>2. \A m \in Nodes : ~ Current(m)'
    <3>1. \A m \in Nodes : op[m].pc \in {"staging", "staged"} => op[m].term <= term
      BY Zenon DEF LeadInv
    <3>2. term \in Nat
      BY <1>0, Zenon
    <3> QED BY <1>a, <2>1, <3>1, <3>2, SMTT(30) DEF Current
  <2> QED BY <2>1, <2>2, FlightBuilds, Zenon DEF BuildInv, BaseInv, FlightInv
<1>13. CASE Commit
  <2>1. UNCHANGED <<term, bel, op, applied, refused>> /\ inflight # None /\ inflight' = None /\ RaftStep
    BY <1>13, Zenon DEF Commit, RaftStep
  <2>2. ASSUME NEW m \in Nodes, Current(m)' PROVE Based(m)'
    <3>1. Based(m)
      BY <2>1, <2>2, ZenonT(30) DEF Current, BuildInv, BaseInv
    <3>2. op[m].pc = "staged" /\ op[m].seed
      BY <2>1, <2>2, <3>1, <1>0, CallFields DEF Based, Current
    <3> QED BY <2>1, <3>2, Zenon DEF Based
  <2> QED BY <2>1, <2>2, FlightBuilds, Zenon DEF BuildInv, BaseInv, FlightInv
<1>14. ASSUME NEW n \in Nodes, Submit(n) PROVE BuildInv'
  <2>1. /\ UNCHANGED <<log, term, bel, applied, refused>> /\ bel[n] = term /\ term > 0
        /\ op[n].pc = "staged" /\ op'[n].pc = "wait"
        /\ \A m \in Nodes \ {n} : op'[m] = op[m]
    BY <1>14, Zenon DEF Submit, Leads, TypeOK
  <2>2. /\ inflight'.term = term /\ inflight'.from = op[n].term
        /\ inflight'.base = op[n].base /\ inflight'.seed = op[n].seed
    BY <1>14 DEF Submit
  <2>3. \A m \in Nodes : ~ Current(m)'
    <3>1. \A m \in Nodes \ {n} : bel[m] # term
      BY <2>1, Zenon DEF LeadInv
    <3> QED BY <2>1, <3>1, Zenon DEF Current
  <2>4. FlightInv'
    <3> SUFFICES ASSUME ~ inflight'.seed, inflight'.from = inflight'.term
                 PROVE  Since(inflight.base)'
      BY Zenon DEF FlightInv
    <3>1. Current(n)
      BY <2>1, <2>2, Zenon DEF Current
    <3>2. Since(op[n].base)
      BY <2>1, <2>2, <3>1, Zenon DEF BuildInv, BaseInv, Based
    <3> QED BY <2>1, <2>2, <3>2, RefusedStays, Zenon DEF Since
  <2>5. BuildsOnPrevious'
    BY <2>1, RefusedStays, Zenon DEF BuildInv, BuildsOnPrevious
  <2> QED BY <2>3, <2>4, <2>5, Zenon DEF BuildInv, BaseInv
<1>15. CASE UNCHANGED vars
  BY <1>15, QuietBuild, Zenon DEF vars
<1> QED
  BY <1>1, <1>3, <1>4, <1>5, <1>6, <1>8, <1>9, <1>10, <1>11, <1>12, <1>13, <1>14, <1>15, SMTT(30)
  DEF Next, Crash, InitializeFails, Directly

\* A mutation that starts and ends under one leadership misses no entry but
\* refused ones: Mutate holds mutateMu and waits for Raft's barrier first.
THEOREM BuildsOnPreviousHolds == Spec => []BuildsOnPrevious
<1>1. BuildInv => BuildsOnPrevious
  BY DEF BuildInv
<1> QED BY <1>1, BuildInit, BuildStep, TypeCorrect, NodeInvariant, CallInvariant, PTL DEF Spec

=============================================================================
