---------------------------- MODULE Replication ----------------------------
(***************************************************************************)
(* Multi-writer replication of notifications between SQLite nodes          *)
(* (internal/store/replication.go, replication_snapshot.go and             *)
(* internal/replicationhttp).  Every node appends an operation to its own  *)
(* origin's log in the transaction that changes a notification, and a      *)
(* Syncer pulls the logs its peers retain.  A replica that meets a pruned  *)
(* range merges a snapshot of the peer instead.                            *)
(*                                                                         *)
(* SQLite runs on one connection, so every transaction is one action; the  *)
(* HTTP requests of a synchronisation are separate actions.  Hybrid-clock  *)
(* stamps, channels and the HTTP encoding are left out: no decision of the *)
(* code reads them.                                                        *)
(***************************************************************************)
EXTENDS Integers, FiniteSets, Sequences

CONSTANTS
    Node,
    Notification,       \* notification identities
    Keyed,              \* those derived from a webhook and an external key
    Content,            \* what a post shows, ordered as the encoded bytes are
    PostState,          \* states a producer posts
    NoRow, NoOrigin,
    Authority,          \* the node that owns users, channels and webhooks
    Provisioned,        \* nodes that hold its control state from the start
    Peers,              \* the peers each Syncer visits
    Skew,               \* clock offset of each node
    Limit,              \* operations per page
    Repost,             \* may a key be posted again where it already exists
    MaxTime, MaxPrunes, \* bounds of the model
    MaxOps              \* and of each node's own operations

Received == "received"
Firing == "firing"
Acknowledged == "acknowledged"
Resolved == "resolved"

State == {Received, Firing, Acknowledged, Resolved}

ASSUME ReplicationAssumptions ==
    /\ Keyed \subseteq Notification
    /\ Content \subseteq Nat
    /\ PostState \subseteq State
    /\ NoOrigin \notin Node
    /\ Authority \in Node
    /\ Provisioned \subseteq Node
    /\ Peers \in [Node -> SUBSET Node]
    /\ Skew \in [Node -> Nat]
    /\ Limit \in Nat \ {0}
    /\ Repost \in BOOLEAN
    /\ MaxTime \in Nat /\ MaxPrunes \in Nat
    /\ MaxOps \in [Node -> Nat]

Row == [state : State, content : Content, created : Int, updated : Int]

ASSUME NoRowAssumption == NoRow \notin Row

Kind == {"created", "updated", "state"}

Operation ==
    [seq : Nat, kind : Kind, id : Notification, state : State,
     content : Content, at : Int]

VARIABLES
    now,
    rows,       \* the notifications table of each node
    kept,       \* replication_operations: retained envelopes, by origin
    cursors,    \* replication_cursors, by origin (0: no row)
    hook,       \* the webhook row: none, placeholder or real
    quarantined,
    sync,       \* the Syncer's pass over one peer
    prunes,
    stable,     \* from now on every request of a Syncer is answered
    issued,     \* every operation an origin ever committed
    reflected   \* sequences whose effect a node's tables contain

db == <<rows, kept, cursors, hook, quarantined>>
history == <<issued, reflected>>
vars == <<now, db, sync, prunes, stable, history>>

\* A pass: the peer and its high-water marks, the origin being pulled, whether
\* a snapshot was merged, and the response that is waiting to be applied.
Idle ==
    [stage |-> "idle", peer |-> NoOrigin, origin |-> NoOrigin,
     high |-> [o \in Node |-> 0], merged |-> FALSE,
     page |-> << >>, rows |-> NoRow, cursors |-> [o \in Node |-> 0],
     reflected |-> [o \in Node |-> {}]]

stateRank(s) ==
    CASE s = Received -> 0 [] s = Firing -> 1
      [] s = Acknowledged -> 2 [] s = Resolved -> 3

\* The later of two lifecycle states.
Later(s, t) == IF stateRank(t) > stateRank(s) THEN t ELSE s

Least(a, b) == IF a < b THEN a ELSE b

Most(a, b) == IF a > b THEN a ELSE b

Seqs(ops) == {op.seq : op \in ops}

\* The largest member of a set of naturals, 0 for the empty set.
High(S) == IF S = {} THEN 0 ELSE CHOOSE s \in S : \A t \in S : t <= s

ReplicationCursor_Retained(n, o) == High(Seqs(kept[n][o]))

\* What a node has of an origin: its cursor row or its newest envelope.
ReplicationCursor(n, o) == Most(cursors[n][o], High(Seqs(kept[n][o])))

Init ==
    /\ now = 1
    /\ rows = [n \in Node |-> [i \in Notification |-> NoRow]]
    /\ kept = [n \in Node |-> [o \in Node |-> {}]]
    /\ cursors = [n \in Node |-> [o \in Node |-> 0]]
    /\ hook = [n \in Node |-> IF n \in Provisioned \cup {Authority}
                              THEN "real" ELSE "none"]
    /\ quarantined = [n \in Node |-> {}]
    /\ sync = [n \in Node |-> Idle]
    /\ prunes = 0
    /\ stable = FALSE
    /\ issued = [o \in Node |-> {}]
    /\ reflected = [n \in Node |-> [o \in Node |-> {}]]

Tick ==
    /\ now < MaxTime
    /\ now' = now + 1
    /\ UNCHANGED <<db, sync, prunes, stable, history>>

-----------------------------------------------------------------------------
(* Local writes *)

\* The insert, and what it adds to the history.
Numbered(n, kind, i, s, c, t, q) ==
    LET op == [seq |-> q, kind |-> kind, id |-> i, state |-> s, content |-> c,
               at |-> t]
    IN  /\ Cardinality(issued[n]) < MaxOps[n]
        /\ kept' = [kept EXCEPT ![n][n] = @ \cup {op}]
        /\ issued' = [issued EXCEPT ![n] = @ \cup {op}]
        /\ reflected' = [reflected EXCEPT ![n][n] = @ \cup {op.seq}]

\* The node's own operation, numbered after everything it knows of its log.
appendReplicationOperation(n, kind, i, s, c, t) ==
    Numbered(n, kind, i, s, c, t,
                                        ReplicationCursor(n, n) + 1)

\* A producer's post: a new row, or the update of the row with its key.  A
\* resolved row is reopened by "firing", otherwise the later state wins.
CreateFromWebhook(n, i, s, c) ==
    LET old == rows[n][i]
        t == now + Skew[n]
    IN  /\ hook[n] = "real"
        /\ \/ /\ old = NoRow
              /\ i \in Keyed \/ \A o \in Node : \A op \in issued[o] : op.id # i
              /\ rows' = [rows EXCEPT ![n][i] =
                    [state |-> s, content |-> c, created |-> t, updated |-> t]]
              /\ appendReplicationOperation(n, "created", i, s, c, t)
           \/ /\ old # NoRow
              /\ i \in Keyed
              /\ Repost
              /\ LET u == Most(t, old.created + 1)
                     st == IF old.state = Resolved /\ s = Firing
                           THEN s ELSE Later(s, old.state)
                 IN  /\ rows' = [rows EXCEPT ![n][i] =
                            [state |-> st, content |-> c,
                             created |-> old.created, updated |-> u]]
                     /\ appendReplicationOperation(n, "updated", i, st, c, u)
        /\ UNCHANGED <<now, cursors, hook, quarantined, sync, prunes, stable>>

\* An operator acknowledges or resolves a notification.
SetNotificationState(n, i, s) ==
    LET old == rows[n][i]
        t == Most(now + Skew[n], old.updated + 1)
    IN  /\ old # NoRow
        /\ \/ old.state \in {Received, Firing}
           \/ old.state = Acknowledged /\ s = Resolved
        /\ rows' = [rows EXCEPT ![n][i] =
                [state |-> s, content |-> old.content,
                 created |-> old.created, updated |-> t]]
        /\ appendReplicationOperation(n, "state", i, s, old.content, t)
        /\ UNCHANGED <<now, cursors, hook, quarantined, sync, prunes, stable>>

PruneReplicationOperations_NoCursor(n, o, through) ==
    /\ prunes < MaxPrunes
    /\ through \in 1 .. High(Seqs(kept[n][o]))
    /\ kept' = [kept EXCEPT ![n][o] = {op \in @ : op.seq > through}]
    /\ prunes' = prunes + 1
    /\ UNCHANGED <<now, rows, cursors, hook, quarantined, sync, stable, history>>

\* Envelopes up to `through' are dropped, after the cursor covers them.
PruneReplicationOperations(n, o, through) ==
    /\ prunes < MaxPrunes
    /\ through \in 1 .. High(Seqs(kept[n][o]))
    /\ cursors' = [cursors EXCEPT ![n][o] = Most(@, through)]
    /\ kept' = [kept EXCEPT ![n][o] = {op \in @ : op.seq > through}]
    /\ prunes' = prunes + 1
    /\ UNCHANGED <<now, rows, hook, quarantined, sync, stable, history>>

-----------------------------------------------------------------------------
(* Effects on a replica's tables *)

\* Content of the newer version, bytes deciding a tie.
IncomingWins(in, local) ==
    \/ in.updated > local.updated
    \/ in.updated = local.updated /\ in.content > local.content

Merged_Winner(local, in) ==
    [state   |-> IF IncomingWins(in, local) THEN in.state ELSE local.state,
     content |-> IF IncomingWins(in, local) THEN in.content ELSE local.content,
     created |-> Least(local.created, in.created),
     updated |-> IF IncomingWins(in, local) THEN in.updated ELSE local.updated]

\* Two versions of one notification.
Merged(local, in) ==
    [state   |-> Later(local.state, in.state),
     content |-> IF IncomingWins(in, local) THEN in.content ELSE local.content,
     created |-> Least(local.created, in.created),
     updated |-> IF IncomingWins(in, local) THEN in.updated ELSE local.updated]

\* Does the effect of op succeed on a replica whose row is r?
Applicable(op, r) ==
    IF op.kind = "created" THEN r = NoRow \/ op.id \in Keyed ELSE r # NoRow

\* The row after the effect.  An "updated" operation overwrites the row and
\* keeps only created_at; a "state" operation never lowers the state.
applyReplicationEffect(op, r) ==
    CASE op.kind = "created" /\ r = NoRow ->
            [state |-> op.state, content |-> op.content,
             created |-> op.at, updated |-> op.at]
      [] op.kind = "created" /\ r # NoRow ->
            Merged(r, [state |-> op.state, content |-> op.content,
                       created |-> op.at, updated |-> op.at])
      [] op.kind = "updated" ->
            [state |-> op.state, content |-> op.content,
             created |-> r.created, updated |-> op.at]
      [] op.kind = "state" ->
            IF Later(r.state, op.state) # r.state
            THEN [state |-> op.state, content |-> r.content,
                  created |-> r.created, updated |-> Most(r.updated, op.at)]
            ELSE r

\* The tables after the first k operations of a page; one that cannot be
\* applied changes nothing.
After(tables, page) ==
    LET t[k \in 0 .. Len(page)] ==
            IF k = 0 THEN tables
            ELSE [t[k - 1] EXCEPT ![page[k].id] =
                    IF Applicable(page[k], @)
                    THEN applyReplicationEffect(page[k], @) ELSE @]
    IN  t

-----------------------------------------------------------------------------
(* Synchronisation *)

\* GET /v1/status: the high-water mark of every origin the peer knows.
GetStatus(n, p) ==
    /\ sync[n] = Idle
    /\ p \in Peers[n] \ {n}
    /\ sync' = [sync EXCEPT ![n] = [Idle EXCEPT
            !.stage = "range", !.peer = p,
            !.high = [o \in Node |-> ReplicationCursor(p, o)]]]
    /\ UNCHANGED <<now, db, prunes, stable, history>>

\* Back to the loop, which stays with an origin until it is pulled.
Advance(s, cursor) ==
    [Idle EXCEPT
        !.stage = "range", !.peer = s.peer, !.high = s.high,
        !.merged = s.merged,
        !.origin = IF cursor < s.high[s.origin] THEN s.origin ELSE NoOrigin]

FallBack_GiveUp(s, o) == Idle

\* A gap: fetch a snapshot, unless one was merged in this pass.
FallBack(s, o) ==
    IF s.merged THEN Idle
    ELSE [s EXCEPT !.stage = "gap", !.origin = o, !.page = << >>]

\* The operations after a cursor, oldest first, Limit at most.
Page(ops, after) ==
    LET newer == {op \in ops : op.seq > after}
        rank(op) == Cardinality({q \in newer : q.seq <= op.seq})
    IN  [k \in 1 .. Least(Limit, Cardinality(newer)) |->
            CHOOSE op \in newer : rank(op) = k]

\* Does the page continue where the replica stands?
StartsAfter(page, after) == page # << >> /\ page[1].seq = after + 1

\* GET /v1/operations for the next page of origin o.  Origins that are behind
\* are visited in the random order of a Go map.
GetOperations(n, o) ==
    LET s == sync[n]
        after == ReplicationCursor(n, o)
        page == Page(kept[s.peer][o], after)
    IN  /\ s.stage = "range"
        /\ s.origin \in {NoOrigin, o}
        /\ after < s.high[o]
        /\ sync' = [sync EXCEPT ![n] =
                IF StartsAfter(page, after)
                THEN [s EXCEPT !.stage = "page", !.origin = o, !.page = page]
                ELSE FallBack(s, o)]
        /\ UNCHANGED <<now, db, prunes, stable, history>>

Continues(op, cursor) == op.seq = cursor + 1

\* One transaction applies a page: the first k operations succeed.  Then the
\* page ends, or a gap rolls everything back, or a failing operation is
\* quarantined and the first k are committed.
ApplyReplicationOperations(n) ==
    LET s == sync[n]
        o == s.origin
        page == s.page
        base == cursors[n][o]
        after == After(rows[n], page)
        good(k) == /\ Continues(page[k], base + k - 1)
                   /\ Applicable(page[k], after[k - 1][page[k].id])
        commit(k) ==
            /\ rows' = [rows EXCEPT ![n] = after[k]]
            /\ kept' = [kept EXCEPT ![n][o] = @ \cup {page[j] : j \in 1 .. k}]
            /\ cursors' = [cursors EXCEPT ![n][o] = base + k]
            /\ reflected' =
                  [reflected EXCEPT ![n][o] = @ \cup ((base + 1) .. (base + k))]
            /\ hook' = IF hook[n] = "none"
                          /\ \E j \in 1 .. k : page[j].kind = "created"
                       THEN [hook EXCEPT ![n] = "placeholder"] ELSE hook
    IN  /\ s.stage = "page"
        /\ \E k \in 0 .. Len(page) :
            /\ \A j \in 1 .. k : good(j)
            /\ \/ /\ k = Len(page)
                  /\ commit(k)
                  /\ sync' = [sync EXCEPT ![n] = Advance(s, base + k)]
                  /\ UNCHANGED quarantined
               \/ /\ k < Len(page)
                  /\ ~ Continues(page[k + 1], base + k)
                  /\ sync' = [sync EXCEPT ![n] = FallBack(s, o)]
                  /\ UNCHANGED <<rows, kept, cursors, hook, quarantined,
                                 reflected>>
               \/ /\ k < Len(page)
                  /\ Continues(page[k + 1], base + k)
                  /\ ~ good(k + 1)
                  /\ commit(k)
                  /\ quarantined' = [quarantined EXCEPT ![n] =
                                        @ \cup {<<o, page[k + 1].seq>>}]
                  /\ sync' = [sync EXCEPT ![n] = Idle]
        /\ UNCHANGED <<now, prunes, stable, issued>>

\* GET /v1/replication-snapshot: the peer's rows and cursors in one read.
BuildReplicationSnapshot(n) ==
    LET s == sync[n] IN
    /\ s.stage = "gap"
    /\ sync' = [sync EXCEPT ![n] = [s EXCEPT
            !.stage = "snapshot", !.merged = TRUE,
            !.rows = rows[s.peer],
            !.cursors = [o \in Node |-> ReplicationCursor(s.peer, o)],
            !.reflected = reflected[s.peer]]]
    /\ UNCHANGED <<now, db, prunes, stable, history>>

\* Is the snapshot refused?  A row it adds needs the webhook it came through.
Refused(n, in) ==
    \E i \in Notification :
        /\ in[i] # NoRow
        /\ \/ in[i].updated < in[i].created
           \/ rows[n][i] = NoRow /\ hook[n] = "none"

\* Merge the snapshot's rows and advance the cursors it covers, or fail.
ApplyReplicationSnapshot(n) ==
    LET s == sync[n]
        in == s.rows
        cursor(o) == Most(cursors[n][o], s.cursors[o])
        known(o) == Most(cursor(o), High(Seqs(kept[n][o])))
    IN  /\ s.stage = "snapshot"
        /\ \/ /\ Refused(n, in)
              /\ sync' = [sync EXCEPT ![n] = Idle]
              /\ UNCHANGED <<db, history>>
           \/ /\ ~ Refused(n, in)
              /\ rows' = [rows EXCEPT ![n] = [i \in Notification |->
                    CASE in[i] = NoRow -> rows[n][i]
                      [] in[i] # NoRow /\ rows[n][i] = NoRow -> in[i]
                      [] in[i] # NoRow /\ rows[n][i] # NoRow ->
                            Merged(rows[n][i], in[i])]]
              /\ cursors' = [cursors EXCEPT ![n] = [o \in Node |-> cursor(o)]]
              /\ reflected' = [reflected EXCEPT ![n] =
                    [o \in Node |-> @[o] \cup s.reflected[o]]]
              /\ sync' = [sync EXCEPT ![n] = Advance(s, known(s.origin))]
              /\ UNCHANGED <<kept, hook, quarantined, issued>>
        /\ UNCHANGED <<now, prunes, stable>>

\* The pass is over; the authority's control state is imported last.
FinishPass(n) ==
    /\ sync[n].stage = "range"
    /\ \A o \in Node : ReplicationCursor(n, o) >= sync[n].high[o]
    /\ hook' = IF sync[n].peer = Authority
               THEN [hook EXCEPT ![n] = "real"] ELSE hook
    /\ sync' = [sync EXCEPT ![n] = Idle]
    /\ UNCHANGED <<now, rows, kept, cursors, quarantined, prunes, stable,
                   history>>

\* A request fails or the process restarts: the pass is abandoned.
AbandonPass(n) ==
    /\ ~ stable
    /\ sync[n] # Idle
    /\ sync' = [sync EXCEPT ![n] = Idle]
    /\ UNCHANGED <<now, db, prunes, stable, history>>

Stabilise ==
    /\ ~ stable
    /\ stable' = TRUE
    /\ UNCHANGED <<now, db, sync, prunes, history>>

Post(n) ==
    \E i \in Notification, s \in PostState, c \in Content :
        CreateFromWebhook(n, i, s, c)

Operate(n) ==
    \E i \in Notification, s \in {Acknowledged, Resolved} :
        SetNotificationState(n, i, s)

Prune(n) ==
    \E o \in Node : \E t \in 1 .. MaxOps[o] : PruneReplicationOperations(n, o, t)

\* One step of the Syncer of n.
SyncStep(n) ==
    \/ \E p \in Node : GetStatus(n, p)
    \/ \E o \in Node : GetOperations(n, o)
    \/ ApplyReplicationOperations(n)
    \/ BuildReplicationSnapshot(n)
    \/ ApplyReplicationSnapshot(n)
    \/ FinishPass(n)

Next ==
    \/ Tick
    \/ Stabilise
    \/ \E n \in Node :
        Post(n) \/ Operate(n) \/ Prune(n) \/ SyncStep(n) \/ AbandonPass(n)

Spec == Init /\ [][Next]_vars

\* Run keeps every node's Syncer going, and the network is stable at last.
LiveSpec ==
    Spec /\ WF_vars(Stabilise) /\ \A n \in Node : WF_vars(SyncStep(n))

-----------------------------------------------------------------------------
(* Properties *)

Tables == [Notification -> Row \cup {NoRow}]

SyncState ==
    [stage : {"idle", "range", "page", "gap", "snapshot"},
     peer : Node \cup {NoOrigin}, origin : Node \cup {NoOrigin},
     high : [Node -> Nat], merged : BOOLEAN, page : Seq(Operation),
     rows : Tables \cup {NoRow}, cursors : [Node -> Nat],
     reflected : [Node -> SUBSET Nat]]

TypeOK ==
    /\ now \in Nat /\ prunes \in Nat /\ stable \in BOOLEAN
    /\ rows \in [Node -> Tables]
    /\ kept \in [Node -> [Node -> SUBSET Operation]]
    /\ cursors \in [Node -> [Node -> Nat]]
    /\ hook \in [Node -> {"none", "placeholder", "real"}]
    /\ quarantined \in [Node -> SUBSET (Node \X Nat)]
    /\ sync \in [Node -> SyncState]
    /\ issued \in [Node -> SUBSET Operation]
    /\ reflected \in [Node -> [Node -> SUBSET Nat]]

\* A cursor covers exactly the operations whose effects are in the tables:
\* pages, gaps, prunes and snapshots never lose or invent one.  The page a
\* Syncer applies starts right after the cursor row it applies to.
CursorsCoverEffects ==
    /\ \A n, o \in Node : reflected[n][o] = 1 .. ReplicationCursor(n, o)
    /\ \A n \in Node : sync[n].stage = "page" =>
          sync[n].page[1].seq = cursors[n][sync[n].origin] + 1

\* No sequence number is used twice, and an envelope is the same wherever it
\* is retained: "replication operation ID collision" cannot be met.
EnvelopesAgree ==
    \A o \in Node :
        /\ \A p, q \in issued[o] : p.seq = q.seq => p = q
        /\ \A n \in Node : kept[n][o] \subseteq issued[o]

\* Operations whose effects a node's tables contain.
Seen(n) == UNION {{op \in issued[o] : op.seq \in reflected[n][o]} : o \in Node}

\* The convergence model: a notification's state is the latest one of the
\* operations applied to it, whatever their order.
StateIsJoin ==
    \A n \in Node, i \in Notification :
        LET ops == {op \in Seen(n) : op.id = i}
        IN  /\ rows[n][i] = NoRow <=> ops = {}
            /\ rows[n][i] # NoRow =>
                /\ \A op \in ops :
                    stateRank(op.state) <= stateRank(rows[n][i].state)
                /\ \E op \in ops : op.state = rows[n][i].state

SameOperations(n, m) == \A o \in Node : reflected[n][o] = reflected[m][o]

\* Nodes that have applied the same operations show the same state.
StatesConverge ==
    \A n, m \in Node : SameOperations(n, m) =>
        \A i \in Notification : rows[n][i] # NoRow =>
            /\ rows[m][i] # NoRow
            /\ rows[n][i].state = rows[m][i].state

\* Two nodes catch up with each other again and again: every operation arrives
\* over pages, retained gaps and snapshots.
EverythingArrives ==
    []<>(\A n, o \in Node : reflected[n][o] = Seqs(issued[o]))

=============================================================================
