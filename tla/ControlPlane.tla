---------------------------- MODULE ControlPlane ----------------------------
(***************************************************************************)
(* The control plane of a SQLite cluster: users, sessions, credentials and *)
(* read marks are changed on the leader and reach every node as complete   *)
(* snapshots in a Raft log (internal/controlraft, internal/store/          *)
(* control_replication.go).  A node also writes some of these tables by    *)
(* itself, outside the log: it inserts the channel and webhook rows that a *)
(* notification needs, and deletes the marks of a reopened notification    *)
(* and subscriptions that have expired.                                    *)
(*                                                                         *)
(* A row stands for its key.  The columns a node updates in place (when a  *)
(* credential was last used, when the last snapshot was applied) are left  *)
(* out.                                                                    *)
(*                                                                         *)
(* Raft itself (hashicorp/raft) is external.  It is represented by what    *)
(* its users see: one committed log, one leader per term that can commit,  *)
(* deposed leaders that still believe they lead, at most one entry in      *)
(* flight per leader, which a new leader either finishes or drops, and the *)
(* calls into the FSM.                                                     *)
(***************************************************************************)
EXTENDS Integers, Sequences, FiniteSets

CONSTANTS
    Nodes,       \* the configured servers
    Seed,        \* the node started with -control-raft-bootstrap
    Replaced,    \* rows of the tables with Replace: deleted and inserted anew
    Upserted,    \* rows of the other tables: inserted or updated, never deleted
    Marks,       \* rows of notification_user_state: they refer to a notification
    Named,       \* the channel and webhook rows of that notification
    Inserted,    \* rows a node inserts by itself: webhooks of agents, channels
    Deleted,     \* rows a node deletes by itself: marks, expired subscriptions
    SeedRows,    \* the rows the seed node has before there is a cluster
    MaxTerm,     \* bound: elections
    Wanted,      \* what users ask for, each once: a row added, or removed where
                 \* allowed
    MaxSnapshots,\* bound: Raft snapshots taken
    MaxCrashes   \* bound: crashes

Rows == Replaced \cup Upserted

ASSUME ControlAssumptions ==
    /\ Seed \in Nodes
    /\ Replaced \cap Upserted = {}
    /\ Marks \subseteq Replaced
    /\ SeedRows \subseteq Rows \ Marks
    /\ Named \subseteq Upserted /\ Inserted \subseteq Upserted
    /\ Deleted \subseteq Replaced
    /\ Wanted \subseteq [op : {"add"}, row : Rows] \cup [op : {"remove"}, row : Replaced]
    /\ MaxSnapshots \in Nat /\ MaxTerm \in Nat /\ MaxCrashes \in Nat

\* None stands for a nil value.
None == [none |-> TRUE]

VARIABLES
    log,       \* committed entries, the same for all nodes (Raft)
    inflight,  \* the entry the leader submitted and Raft has not committed
    term,      \* the latest term that has a leader
    bel,       \* bel[n]: the term n believes it leads, 0 if it does not
    voters,    \* the nodes of the Raft configuration
    up,        \* up[n]: the process runs
    live,      \* live[n]: the control rows in n's SQLite database
    has,       \* has[n]: the notification that marks refer to is on n
    applied,   \* applied[n]: entries Raft has handed to n's FSM
    latest,    \* latest[n]: FSM.latest, None before the first success
    snaps,     \* snaps[n]: the Raft snapshots on n's disk
    op,        \* op[n]: what the holder of mutateMu is doing
    newCluster,\* Node.newCluster of the seed node
    changes,   \* mutations asked for so far
    crashes,   \* number of crashes so far
    at,        \* history: at[n] is the entry live[n] reflects
    acked,     \* history: the entries whose caller saw success
    refused,   \* history: <<n, i>> where n's FSM refused entry i
    own        \* history: own[n], rows of entry at[n] that a node has deleted from
               \* this database, or from the one it was copied from

raftVars == <<log, inflight, term, bel, voters>>
nodeVars == <<live, applied, latest, snaps, at, refused, own>>
vars == <<log, inflight, term, bel, voters, up, live, has, applied, latest,
          snaps, op, newCluster, changes, crashes, at, acked, refused, own>>

Idle == [pc |-> "idle"]

Init ==
    /\ log = <<>> /\ inflight = None /\ term = 0 /\ voters = {Seed}
    /\ bel = [n \in Nodes |-> 0]
    /\ up = [n \in Nodes |-> TRUE]
    /\ live = [n \in Nodes |-> IF n = Seed THEN SeedRows ELSE {}]
    /\ has = [n \in Nodes |-> n = Seed]
    /\ applied = [n \in Nodes |-> 0]
    /\ latest = [n \in Nodes |-> None]
    /\ snaps = [n \in Nodes |-> {}]
    /\ op = [n \in Nodes |-> Idle]
    /\ newCluster = TRUE
    /\ changes = {} /\ crashes = 0
    /\ at = [n \in Nodes |-> 0]
    /\ acked = {} /\ refused = {}
    /\ own = [n \in Nodes |-> {}]

-----------------------------------------------------------------------------
(***************************************************************************)
(* Raft (external).                                                        *)
(***************************************************************************)
Majority == 2 * Cardinality({n \in voters : up[n]}) > Cardinality(voters)

\* Only the leader of the latest term reaches a majority.
Leads(n) == up[n] /\ bel[n] = term /\ term > 0 /\ Majority

\* A new leader either has the entry its predecessor had in flight, and
\* commits it with its own first entry, or overwrites it.
Elect(n) ==
    /\ up[n] /\ n \in voters /\ Majority
    /\ term < MaxTerm /\ bel[n] # term + 1
    /\ term' = term + 1
    /\ bel' = [bel EXCEPT ![n] = term + 1]
    /\ inflight' = None
    /\ \/ log' = log
       \/ inflight # None /\ log' = Append(log, inflight)
    /\ UNCHANGED <<voters, up, has, op, newCluster, changes, crashes, acked>>
    /\ UNCHANGED nodeVars

\* A leader notices a higher term or loses contact with its followers.
StepDown(n) ==
    /\ bel[n] > 0 /\ bel[n] < term
    /\ bel' = [bel EXCEPT ![n] = 0]
    /\ UNCHANGED <<log, inflight, term, voters, up, has, op, newCluster,
                   changes, crashes, acked>>
    /\ UNCHANGED nodeVars

Commit ==
    /\ inflight # None /\ Majority
    /\ \E n \in Nodes : Leads(n)
    /\ log' = Append(log, inflight)
    /\ inflight' = None
    /\ UNCHANGED <<term, bel, voters, up, has, op, newCluster, changes,
                   crashes, acked>>
    /\ UNCHANGED nodeVars

\* Node.reconcileLoop: the leader adds each configured peer as a voter.
AddVoter(n) ==
    /\ Leads(n)
    /\ \E p \in Nodes \ voters : voters' = voters \cup {p}
    /\ UNCHANGED <<log, inflight, term, bel, up, has, op, newCluster, changes,
                   crashes, acked>>
    /\ UNCHANGED nodeVars

-----------------------------------------------------------------------------
(***************************************************************************)
(* Snapshots of the control tables, and the FSM.                           *)
(***************************************************************************)

\* Store.ExportControlSnapshot reads every control table in one transaction.
Export(rows) == rows

\* Store.applyControlSnapshot is one transaction.  The digest, the encoding
\* and the clock are good (one build, clocks within two minutes); what can
\* still fail is a foreign key: a mark whose notification is not here yet.
Accepts(n, rows) == rows \cap Marks # {} => has[n]

Merge_NoDelete(old, rows) == old \cup rows

\* Tables with Replace take the snapshot's rows; the others are upserted.
Merge(old, rows) == (old \ Replaced) \cup rows

\* FSM.Apply: Raft goes on to the next entry whatever the result is.
FSMApply(n, i) ==
    /\ applied' = [applied EXCEPT ![n] = i]
    /\ IF Accepts(n, log[i].rows)
         THEN /\ live' = [live EXCEPT ![n] = Merge(@, log[i].rows)]
              /\ latest' = [latest EXCEPT ![n] =
                    [rows |-> log[i].rows, i |-> i, own |-> {}]]
              /\ at' = [at EXCEPT ![n] = i]
              /\ own' = [own EXCEPT ![n] = {}]
              /\ UNCHANGED refused
         ELSE /\ refused' = refused \cup {<<n, i>>}
              /\ UNCHANGED <<live, latest, at, own>>
    /\ UNCHANGED snaps

\* A deposed leader learns of new entries from its successor, and steps down
\* first.  (What it had committed itself it may as well have applied before
\* the election.)
ApplyNext(n) ==
    /\ up[n] /\ bel[n] \in {0, term} /\ applied[n] < Len(log)
    /\ FSMApply(n, applied[n] + 1)
    /\ UNCHANGED raftVars
    /\ UNCHANGED <<up, has, op, newCluster, changes, crashes, acked>>

\* FSM.Snapshot: what the last successful Apply installed, or the database if
\* there was none since the process started.  Raft files it under its index.
FSMSnapshot(n) ==
    IF latest[n] = None
    THEN [rows |-> Export(live[n]), i |-> at[n], own |-> own[n]] ELSE latest[n]

TakeSnapshot_AtCommit(n) ==
    /\ up[n] /\ \A s \in snaps[n] : s.index < applied[n]
    /\ applied[n] > 0 /\ Cardinality(UNION {snaps[m] : m \in Nodes}) < MaxSnapshots
    /\ snaps' = [snaps EXCEPT ![n] = @ \cup
          {[index |-> Len(log), rows |-> FSMSnapshot(n).rows, i |-> FSMSnapshot(n).i,
            own |-> FSMSnapshot(n).own]}]
    /\ UNCHANGED <<live, applied, latest, at, refused, own>>
    /\ UNCHANGED raftVars
    /\ UNCHANGED <<up, has, op, newCluster, changes, crashes, acked>>

TakeSnapshot(n) ==
    /\ up[n] /\ \A s \in snaps[n] : s.index < applied[n]
    /\ applied[n] > 0 /\ Cardinality(UNION {snaps[m] : m \in Nodes}) < MaxSnapshots
    /\ snaps' = [snaps EXCEPT ![n] = @ \cup
          {[index |-> applied[n], rows |-> FSMSnapshot(n).rows, i |-> FSMSnapshot(n).i,
            own |-> FSMSnapshot(n).own]}]
    /\ UNCHANGED <<live, applied, latest, at, refused, own>>
    /\ UNCHANGED raftVars
    /\ UNCHANGED <<up, has, op, newCluster, changes, crashes, acked>>

\* FSM.Restore: as Apply, but an error is reported to Raft.
FSMRestore(n, s) ==
    /\ Accepts(n, s.rows)
    /\ live' = [live EXCEPT ![n] = Merge(@, s.rows)]
    /\ applied' = [applied EXCEPT ![n] = s.index]
    /\ latest' = [latest EXCEPT ![n] = [rows |-> s.rows, i |-> s.i, own |-> s.own]]
    /\ at' = [at EXCEPT ![n] = s.i]
    /\ own' = [own EXCEPT ![n] = s.own]

\* The leader sends its newest snapshot to a node that is behind it.  The file
\* is kept even if the FSM refuses it.
Install(n) ==
    /\ up[n] /\ bel[n] = 0
    /\ \E l \in Nodes \ {n} :
          /\ Leads(l)
          /\ \E s \in snaps[l] :
                /\ \A t \in snaps[l] : t.index <= s.index
                /\ s.index > applied[n]
                /\ snaps' = [snaps EXCEPT ![n] = @ \cup {s}]
                /\ \/ FSMRestore(n, s)
                   \/ ~Accepts(n, s.rows) /\ UNCHANGED <<live, applied, latest, at, own>>
    /\ UNCHANGED raftVars
    /\ UNCHANGED <<up, has, op, newCluster, changes, crashes, acked, refused>>

-----------------------------------------------------------------------------
(***************************************************************************)
(* Node.Mutate and Node.Initialize.                                        *)
(***************************************************************************)

\* The seed node listens for requests only after Initialize.
Listening(n) == n = Seed => ~newCluster

Begin_NoBarrier(n) ==
    /\ op[n] = Idle /\ Leads(n) /\ Listening(n)
    /\ \E c \in Wanted \ changes :
          /\ op' = [op EXCEPT ![n] = [pc |-> "staging", change |-> c, term |-> term]]
          /\ changes' = changes \cup {c}
    /\ UNCHANGED raftVars
    /\ UNCHANGED nodeVars
    /\ UNCHANGED <<up, has, newCluster, crashes, acked>>
\* requireControlAuthority sends a control request to the leader.  Mutate
\* takes mutateMu, and Raft's Barrier returns when everything committed so far
\* is in this node's FSM.
Begin(n) ==
    /\ op[n] = Idle /\ Leads(n) /\ Listening(n)
    /\ applied[n] = Len(log) /\ inflight = None
    /\ \E c \in Wanted \ changes :
          /\ op' = [op EXCEPT ![n] = [pc |-> "staging", change |-> c, term |-> term]]
          /\ changes' = changes \cup {c}
    /\ UNCHANGED raftVars
    /\ UNCHANGED nodeVars
    /\ UNCHANGED <<up, has, newCluster, crashes, acked>>

\* What the mutation makes of the rows.
Mutated(rows, c) == IF c.op = "add" THEN rows \cup {c.row} ELSE rows \ {c.row}

\* The live database is copied, the mutation runs on the copy and the copy is
\* exported.  A mutation fails if its row does: the notification is unknown.
Stage(n) ==
    /\ up[n] /\ op[n].pc = "staging"
    /\ LET c == op[n].change
           rows == Export(Mutated(live[n], c))
       IN  op' = [op EXCEPT ![n] =
             IF c.row \in Marks /\ ~has[n] THEN Idle
             ELSE [pc |-> "staged", rows |-> rows, term |-> op[n].term, base |-> at[n], seed |-> FALSE]]
    /\ UNCHANGED raftVars
    /\ UNCHANGED nodeVars
    /\ UNCHANGED <<up, has, newCluster, changes, crashes, acked>>

\* Initialize takes neither the mutex nor the barrier: it runs before the
\* server listens.
ExportSeed(n) ==
    /\ n = Seed /\ newCluster /\ Leads(n) /\ op[n] = Idle
    /\ op' = [op EXCEPT ![n] = [pc |-> "staged", rows |-> Export(live[n]), term |-> term,
                                base |-> at[n], seed |-> TRUE]]
    /\ UNCHANGED raftVars
    /\ UNCHANGED nodeVars
    /\ UNCHANGED <<up, has, newCluster, changes, crashes, acked>>

\* ApplySnapshot: IsLeader, VerifyLeader, then raft.Apply.
Submit(n) ==
    /\ op[n].pc = "staged" /\ Leads(n)
    /\ inflight = None
    /\ inflight' = [rows |-> op[n].rows, by |-> n, term |-> term, from |-> op[n].term,
                    base |-> op[n].base, seed |-> op[n].seed]
    /\ op' = [op EXCEPT ![n] = [pc |-> "wait", index |-> Len(log) + 1, entry |-> inflight']]
    /\ UNCHANGED <<log, term, bel, voters, up, has, newCluster, changes, crashes, acked>>
    /\ UNCHANGED nodeVars

Answered_AnyTerm(n) ==
    /\ up[n] /\ op[n].pc = "wait" /\ applied[n] >= op[n].index
    /\ LET ok == <<n, op[n].index>> \notin refused
       IN  /\ acked' = IF ok THEN acked \cup {[index |-> op[n].index, entry |-> op[n].entry]} ELSE acked
           /\ newCluster' = (newCluster /\ ~(ok /\ op[n].entry.seed))
    /\ op' = [op EXCEPT ![n] = Idle]
    /\ UNCHANGED raftVars
    /\ UNCHANGED nodeVars
    /\ UNCHANGED <<up, has, changes, crashes>>
\* future.Error() is nil once the entry is committed and this node's FSM has
\* seen it; AppliedError is the FSM's result.
Answered(n) ==
    /\ up[n] /\ op[n].pc = "wait" /\ bel[n] = op[n].entry.term
    /\ applied[n] >= op[n].index
    /\ LET ok == <<n, op[n].index>> \notin refused
       IN  /\ acked' = IF ok THEN acked \cup {[index |-> op[n].index, entry |-> op[n].entry]} ELSE acked
           /\ newCluster' = (newCluster /\ ~(ok /\ op[n].entry.seed))
    /\ op' = [op EXCEPT ![n] = Idle]
    /\ UNCHANGED raftVars
    /\ UNCHANGED nodeVars
    /\ UNCHANGED <<up, has, changes, crashes>>

\* ErrNotLeader from IsLeader, VerifyLeader or Apply, or ErrLeadershipLost
\* from Apply, after which the entry may still be committed.
Deposed(n) ==
    \/ op[n].pc \in {"staging", "staged"} /\ bel[n] # term
    \/ op[n].pc = "wait" /\ bel[n] # op[n].entry.term

Seeding(n) ==
    \/ op[n].pc = "staged" /\ op[n].seed
    \/ op[n].pc = "wait" /\ op[n].entry.seed

MutateFails(n) ==
    /\ up[n] /\ Deposed(n) /\ ~Seeding(n)
    /\ op' = [op EXCEPT ![n] = Idle]
    /\ UNCHANGED raftVars
    /\ UNCHANGED nodeVars
    /\ UNCHANGED <<up, has, newCluster, changes, crashes, acked>>

-----------------------------------------------------------------------------
(***************************************************************************)
(* Processes, and the notification that reaches the nodes by replication.  *)
(***************************************************************************)

\* An entry in flight on a stopped leader is finished or dropped by Elect.
Stop(n) ==
    /\ up' = [up EXCEPT ![n] = FALSE]
    /\ bel' = [bel EXCEPT ![n] = 0]
    /\ latest' = [latest EXCEPT ![n] = None]
    /\ op' = [op EXCEPT ![n] = Idle]
    /\ UNCHANGED <<log, inflight, term, voters, live, has, applied, snaps,
                   newCluster, changes, at, acked, refused, own>>

Crash(n) ==
    /\ up[n] /\ crashes < MaxCrashes
    /\ crashes' = crashes + 1
    /\ Stop(n)

\* main returns the error of Initialize and the process ends.
InitializeFails(n) ==
    /\ up[n] /\ Deposed(n) /\ Seeding(n)
    /\ Stop(n)
    /\ UNCHANGED crashes

\* Open: Raft restores the newest snapshot the FSM accepts and will hand over
\* the entries after it again.  Without a snapshot it starts from the first
\* entry.  A node that cannot restore any of its snapshots does not start.
\* newCluster is false once there is Raft state.
Restart(n) ==
    /\ ~up[n]
    /\ up' = [up EXCEPT ![n] = TRUE]
    /\ newCluster' = (newCluster /\ n # Seed)
    /\ \/ /\ snaps[n] = {}
          /\ applied' = [applied EXCEPT ![n] = 0]
          /\ UNCHANGED <<live, latest, at, own>>
       \/ \E s \in snaps[n] :
             /\ \A t \in snaps[n] : t.index > s.index => ~Accepts(n, t.rows)
             /\ FSMRestore(n, s)
    /\ UNCHANGED raftVars
    /\ UNCHANGED <<has, snaps, op, changes, crashes, acked, refused>>

\* The notification arrives: applyReplicationEffect inserts the channel and the
\* webhook it names where they are missing.
Replicate(n) ==
    /\ up[n] /\ ~has[n]
    /\ has' = [has EXCEPT ![n] = TRUE]
    /\ live' = [live EXCEPT ![n] = @ \cup Named]
    /\ UNCHANGED raftVars
    /\ UNCHANGED <<applied, latest, snaps, at, refused, own>>
    /\ UNCHANGED <<up, op, newCluster, changes, crashes, acked>>

\* agentWebhook and the like insert a row in the live database.
InsertDirectly(n) ==
    /\ up[n]
    /\ \E r \in Inserted \ live[n] : live' = [live EXCEPT ![n] = @ \cup {r}]
    /\ UNCHANGED raftVars
    /\ UNCHANGED <<applied, latest, snaps, at, refused, own>>
    /\ UNCHANGED <<up, has, op, newCluster, changes, crashes, acked>>

\* The notification is reopened and loses its marks, or a push service says
\* that a subscription has expired.
DeleteDirectly(n) ==
    /\ up[n]
    /\ \E r \in Deleted \cap live[n] :
          /\ live' = [live EXCEPT ![n] = @ \ {r}]
          /\ own' = [own EXCEPT ![n] = @ \cup {r}]
    /\ UNCHANGED raftVars
    /\ UNCHANGED <<applied, latest, snaps, at, refused>>
    /\ UNCHANGED <<up, has, op, newCluster, changes, crashes, acked>>

Next ==
    \/ Commit
    \/ \E n \in Nodes :
        \/ Elect(n) \/ StepDown(n) \/ AddVoter(n)
        \/ ApplyNext(n) \/ TakeSnapshot(n) \/ Install(n)
        \/ Begin(n) \/ Stage(n) \/ ExportSeed(n) \/ Submit(n) \/ Answered(n)
        \/ MutateFails(n) \/ InitializeFails(n) \/ Crash(n) \/ Restart(n)
        \/ Replicate(n) \/ InsertDirectly(n) \/ DeleteDirectly(n)

Spec == Init /\ [][Next]_vars

-----------------------------------------------------------------------------
Entry == [rows : SUBSET Rows, by : Nodes, term : 1..MaxTerm, from : 1..MaxTerm,
          base : Nat, seed : BOOLEAN]

Installed == [rows : SUBSET Rows, i : Nat, own : SUBSET Deleted]

Snapshot == [index : Nat \ {0}, rows : SUBSET Rows, i : Nat, own : SUBSET Deleted]

Call ==
    {Idle}
    \cup [pc : {"staging"}, change : Wanted, term : 1..MaxTerm]
    \cup [pc : {"staged"}, rows : SUBSET Rows, term : 1..MaxTerm, base : Nat, seed : BOOLEAN]
    \cup [pc : {"wait"}, index : Nat \ {0}, entry : Entry]

\* The types of the variables; indices of entries are within the log.
TypeOK ==
    /\ log \in Seq(Entry)
    /\ inflight \in Entry \cup {None}
    /\ term \in 0..MaxTerm /\ bel \in [Nodes -> 0..MaxTerm]
    /\ voters \subseteq Nodes
    /\ up \in [Nodes -> BOOLEAN] /\ has \in [Nodes -> BOOLEAN]
    /\ live \in [Nodes -> SUBSET Rows]
    /\ applied \in [Nodes -> Nat] /\ at \in [Nodes -> Nat]
    /\ latest \in [Nodes -> Installed \cup {None}]
    /\ snaps \in [Nodes -> SUBSET Snapshot]
    /\ op \in [Nodes -> Call]
    /\ newCluster \in BOOLEAN
    /\ refused \subseteq Nodes \X Nat
    /\ acked \subseteq [index : Nat \ {0}, entry : Entry]
    /\ own \in [Nodes -> SUBSET Deleted]
    /\ \A n \in Nodes :
          /\ applied[n] <= Len(log) /\ at[n] <= Len(log)
          /\ latest[n] # None => latest[n].i <= Len(log)
          /\ \A s \in snaps[n] : s.index <= Len(log) /\ s.i <= Len(log)

\* Entry i was left out by a node that proposed, or on its way to one: some
\* FSM refused it.
Refused(i) == \E n \in Nodes : <<n, i>> \in refused

\* A mutation that starts and ends under one leadership is computed from the
\* entry just before it, so it undoes no other mutation: mutateMu and the
\* barrier of Mutate see to that.  The only entries it may miss are ones that
\* an FSM refused.
BuildsOnPrevious ==
    \A i \in 1..Len(log) :
       ~log[i].seed /\ log[i].from = log[i].term =>
          \A k \in (log[i].base + 1)..(i - 1) : Refused(k)

\* Success of Mutate means that this very entry is committed, whatever
\* elections happened while the call waited for it.
AcknowledgedIsCommitted ==
    \A a \in acked : a.index <= Len(log) /\ log[a.index] = a.entry

\* A node's control tables hold the rows of one committed entry but for those
\* a node has deleted by itself since.  What they hold besides are rows of
\* upserted tables: from earlier entries, from before the cluster, or inserted
\* by a node itself.  In particular a row removed by a committed entry is
\* gone, and of an uncommitted mutation nothing is visible.
LiveIsCommitted ==
    \A n \in Nodes :
       LET base == IF at[n] = 0 THEN live[n] \cap SeedRows ELSE log[at[n]].rows
       IN  /\ base \ live[n] \subseteq own[n]
           /\ live[n] \ base \subseteq
                 Upserted \cap (SeedRows \cup Named \cup Inserted
                               \cup UNION {log[i].rows : i \in 1..Len(log)})

\* A node whose database is behind the entries it was handed is so because an
\* FSM refused each of the entries in between, its own or that of the node
\* whose Raft snapshot it restored.
BehindOnlyByRefusal ==
    \A n \in Nodes : \A k \in (at[n] + 1)..applied[n] : Refused(k)

=============================================================================
