-------------------------- MODULE ReplicationProofs --------------------------
(***************************************************************************)
(* Proofs about Replication, for any number of nodes, notifications,       *)
(* operations, prunes and passes.                                          *)
(***************************************************************************)
EXTENDS Replication, FiniteSetTheorems, WellFoundedInduction,
        NaturalsInduction, TLAPS

\* A set of naturals that is empty or has a largest member.
Topped(S) == S # {} => \E s \in S : \A t \in S : t <= s

\* The log of an origin: one operation per sequence number, all of them
\* covered by what the origin knows of its own log.
Log(o) ==
    /\ IsFiniteSet(issued[o])
    /\ \A p, q \in issued[o] : p.seq = q.seq => p = q
    /\ \A op \in issued[o] : op.seq <= ReplicationCursor(o, o)

\* What node n holds of the log of o.  Of a foreign origin the cursor row
\* alone says how far it is.
Copy(n, o) ==
    /\ kept[n][o] \subseteq issued[o]
    /\ Topped(Seqs(kept[n][o]))
    /\ n # o => High(Seqs(kept[n][o])) <= cursors[n][o]
    /\ reflected[n][o] = 1 .. ReplicationCursor(n, o)
    /\ ReplicationCursor(n, o) <= ReplicationCursor(o, o)

\* A pass s of n's Syncer: what it fetched was true of the peer, a page
\* starts after the cursor row, and nobody is told of operations of n that
\* n does not know.
PassOK(n, s) ==
    /\ s.stage # "idle" => s.peer \in Node
    /\ \A o \in Node : s.high[o] <= ReplicationCursor(o, o)
    /\ s.stage \in {"page", "gap", "snapshot"} => s.origin \in Node
    /\ s.stage = "page" =>
        /\ s.origin # n
        /\ s.page # << >>
        /\ s.page[1].seq = cursors[n][s.origin] + 1
        /\ \A j \in 1 .. Len(s.page) : s.page[j] \in issued[s.origin]
    /\ s.stage = "snapshot" =>
        /\ s.rows \in Tables
        /\ \A o \in Node : /\ s.reflected[o] = 1 .. s.cursors[o]
                           /\ s.cursors[o] <= ReplicationCursor(o, o)

Pass(n) == PassOK(n, sync[n])

IInv ==
    /\ TypeOK
    /\ \A o \in Node : Log(o)
    /\ \A n, o \in Node : Copy(n, o)
    /\ \A n \in Node : Pass(n)

\* The operations of the logs whose sequence numbers are reflected.
SeenIn(log, refl) == UNION {{op \in log[o] : op.seq \in refl[o]} : o \in Node}

\* A table shows the latest state of the operations in a set.
Shows(table, ops) ==
    \A i \in Notification :
        LET mine == {op \in ops : op.id = i}
        IN  /\ table[i] = NoRow <=> mine = {}
            /\ table[i] # NoRow =>
                /\ \A op \in mine :
                    stateRank(op.state) <= stateRank(table[i].state)
                /\ \E op \in mine : op.state = table[i].state

\* Without "updated" operations every table, and every snapshot on its way,
\* shows the operations it covers.
Joined ==
    /\ \A o \in Node : \A op \in issued[o] : op.kind # "updated"
    /\ \A n \in Node : Shows(rows[n], SeenIn(issued, reflected[n]))
    /\ \A n \in Node : sync[n].stage = "snapshot" =>
          Shows(sync[n].rows, SeenIn(issued, sync[n].reflected))

-----------------------------------------------------------------------------
(* Naturals, cursors and pages *)

\* A nonempty set of naturals has a least member.
LEMMA LeastNat ==
    ASSUME NEW T, T \subseteq Nat, T # {}
    PROVE  \E x \in T : \A y \in T : x <= y
<1>1. IsWellFoundedOn(OpToRel(<, Nat), Nat)
  BY NatLessThanWellFounded, Zenon
<1>2. \E x \in T : \A y \in T : ~ (<<y, x>> \in OpToRel(<, Nat))
  BY <1>1, WFMin, Zenon
<1>3. \A x, y \in Nat : y < x => <<y, x>> \in OpToRel(<, Nat)
  BY Zenon DEF OpToRel
<1>4. \A x, y \in Nat : ~ (y < x) => x <= y
  OBVIOUS
<1> QED
  BY <1>2, <1>3, <1>4, Zenon

\* High is the largest member of a set that has one.
LEMMA HighFacts ==
    ASSUME NEW S, S \subseteq Nat, Topped(S)
    PROVE  /\ High(S) \in Nat
           /\ \A t \in S : t <= High(S)
           /\ S # {} => High(S) \in S
           /\ S = {} => High(S) = 0
  BY Zenon DEF High, Topped

\* The largest member is unique.
LEMMA HighIs ==
    ASSUME NEW S, S \subseteq Nat, NEW m \in S, \A t \in S : t <= m
    PROVE  Topped(S) /\ High(S) = m
<1>1. Topped(S)
  BY Zenon DEF Topped
<1>2. High(S) \in S /\ m <= High(S)
  BY <1>1, HighFacts, Zenon
<1>3. High(S) <= m /\ High(S) \in Nat /\ m \in Nat
  BY <1>2, Zenon
<1> QED
  BY <1>1, <1>2, <1>3

\* The sequence numbers of operations.
LEMMA SeqsTyped ==
    ASSUME NEW ops, ops \subseteq Operation
    PROVE  /\ Seqs(ops) \subseteq Nat
           /\ \A op \in ops : op.seq \in Seqs(ops) /\ op.seq \in Nat
           /\ \A s \in Seqs(ops) : \E op \in ops : op.seq = s
  BY Zenon DEF Seqs, Operation

\* A cursor covers the cursor row and every retained envelope; of a foreign
\* origin it is the cursor row.
LEMMA CursorFacts ==
    ASSUME TypeOK, NEW n \in Node, NEW o \in Node, Copy(n, o)
    PROVE  /\ ReplicationCursor(n, o) \in Nat
           /\ cursors[n][o] \in Nat
           /\ High(Seqs(kept[n][o])) \in Nat
           /\ ReplicationCursor(n, o) = Most(cursors[n][o], High(Seqs(kept[n][o])))
           /\ cursors[n][o] <= ReplicationCursor(n, o)
           /\ High(Seqs(kept[n][o])) <= ReplicationCursor(n, o)
           /\ \A op \in kept[n][o] : op.seq <= High(Seqs(kept[n][o]))
           /\ n # o => ReplicationCursor(n, o) = cursors[n][o]
<1>1. kept[n][o] \subseteq Operation /\ cursors[n][o] \in Nat
  BY Zenon DEF TypeOK
<1>2. Seqs(kept[n][o]) \subseteq Nat /\ \A op \in kept[n][o] : op.seq \in Seqs(kept[n][o])
  BY <1>1, SeqsTyped, Zenon
<1>3. /\ High(Seqs(kept[n][o])) \in Nat
      /\ \A op \in kept[n][o] : op.seq <= High(Seqs(kept[n][o]))
  BY <1>2, HighFacts, Zenon DEF Copy
<1>4. n # o => High(Seqs(kept[n][o])) <= cursors[n][o]
  BY Zenon DEF Copy
<1> QED
  BY <1>1, <1>3, <1>4 DEF ReplicationCursor, Most

\* The rank of an operation among those after a cursor is one to one, so a
\* page lists operations of the log it was cut from.
LEMMA PageFacts ==
    ASSUME NEW ops, ops \subseteq Operation, IsFiniteSet(ops), NEW after \in Nat,
           \A p, q \in ops : p.seq = q.seq => p = q
    PROVE  Page(ops, after) \in Seq(ops)
<1> DEFINE newer == {op \in ops : op.seq > after}
           below(op) == {q \in newer : q.seq <= op.seq}
           rank(op) == Cardinality(below(op))
           N == Cardinality(newer)
           f == [op \in newer |-> rank(op)]
<1>1. IsFiniteSet(newer) /\ N \in Nat
  BY FS_Subset, FS_CardinalityType, Zenon
<1>2. ASSUME NEW op \in newer
      PROVE  IsFiniteSet(below(op)) /\ rank(op) \in 1 .. N
  <2>1. IsFiniteSet(below(op)) /\ rank(op) <= N /\ rank(op) \in Nat
    BY <1>1, FS_Subset, FS_CardinalityType, Zenon
  <2>2. op.seq <= op.seq
    BY DEF Operation
  <2>3. below(op) # {}
    BY <2>2, Zenon
  <2>4. rank(op) # 0
    BY <2>1, <2>3, FS_EmptySet, Zenon
  <2> QED
    BY <1>1, <2>1, <2>4
<1>3. ASSUME NEW p \in newer, NEW q \in newer, p.seq < q.seq
      PROVE  rank(p) # rank(q)
  <2>1. below(p) \subseteq below(q) /\ q \in below(q) /\ q \notin below(p)
    BY <1>3 DEF Operation
  <2>2. IsFiniteSet(below(q)) /\ below(p) # below(q)
    BY <1>2, <2>1, Zenon
  <2> QED
    BY <2>1, <2>2, FS_Subset, Zenon
<1>4. ASSUME NEW p \in newer, NEW q \in newer, rank(p) = rank(q)
      PROVE  p = q
  <2>1. ~ (p.seq < q.seq) /\ ~ (q.seq < p.seq)
    BY <1>3, <1>4, Zenon
  <2>2. p.seq \in Nat /\ q.seq \in Nat
    BY Zenon DEF Operation
  <2>3. p.seq = q.seq
    BY <2>1, <2>2
  <2> QED
    BY <2>3, Zenon
<1> HIDE DEF rank, N
<1>5. f \in Injection(newer, 1 .. N)
  <2>1. f \in [newer -> 1 .. N]
    BY <1>2, Zenon
  <2>2. \A p, q \in newer : f[p] = f[q] => p = q
    BY <1>4, Zenon
  <2> QED
    BY <2>1, <2>2, Zenon DEF Injection, IsInjective
<1>6. IsFiniteSet(1 .. N) /\ Cardinality(1 .. N) = N
  BY <1>1, FS_Interval
<1>7. f \in Surjection(newer, 1 .. N)
  BY <1>1, <1>5, <1>6, FS_Injection, Zenon DEF N
<1>8. ASSUME NEW k \in 1 .. N
      PROVE  \E op \in newer : rank(op) = k
  BY <1>7, Zenon DEF Surjection
<1>9. ASSUME NEW k \in 1 .. Least(Limit, N)
      PROVE  (CHOOSE op \in newer : rank(op) = k) \in ops
  <2>1. k \in 1 .. N
    BY <1>1, ReplicationAssumptions DEF Least
  <2> QED
    BY <1>8, <2>1, Zenon
<1>10. Least(Limit, N) \in Nat
  BY <1>1, ReplicationAssumptions, Zenon DEF Least
<1>11. Page(ops, after) = [k \in 1 .. Least(Limit, N) |-> CHOOSE op \in newer : rank(op) = k]
  BY Zenon DEF Page, rank, N
<1>12. Page(ops, after) \in [1 .. Least(Limit, N) -> ops]
  BY <1>9, <1>11, ZenonT(30)
<1> QED
  BY <1>10, <1>12

-----------------------------------------------------------------------------
(* What a step of one node leaves alone *)

\* Logs only grow, and so does what an origin knows of its own log.
Grows ==
    \A o \in Node : /\ issued[o] \subseteq issued'[o]
                    /\ ReplicationCursor(o, o)' \in Nat
                    /\ ReplicationCursor(o, o) <= ReplicationCursor(o, o)'

\* The tables and the pass of every node but n are as they were.
OnlyNode(n) ==
    \A m \in Node \ {n} : /\ kept'[m] = kept[m]
                          /\ cursors'[m] = cursors[m]
                          /\ reflected'[m] = reflected[m]
                          /\ sync'[m] = sync[m]

\* The facts of a copy that no step touches.
LEMMA CopyKept ==
    ASSUME IInv, Grows, NEW n \in Node, NEW o \in Node,
           kept'[n][o] = kept[n][o], cursors'[n][o] = cursors[n][o],
           reflected'[n][o] = reflected[n][o]
    PROVE  Copy(n, o)' /\ ReplicationCursor(n, o)' = ReplicationCursor(n, o)
<1>1. ReplicationCursor(n, o)' = ReplicationCursor(n, o)
  BY Zenon DEF ReplicationCursor
<1>2. /\ Copy(n, o)
      /\ issued[o] \subseteq issued'[o]
      /\ ReplicationCursor(o, o) <= ReplicationCursor(o, o)'
      /\ ReplicationCursor(o, o)' \in Nat
  BY Zenon DEF IInv, Grows
<1>3. ReplicationCursor(o, o) \in Nat /\ ReplicationCursor(n, o) \in Nat
  BY CursorFacts, Zenon DEF IInv
<1>4. ReplicationCursor(n, o)' <= ReplicationCursor(o, o)'
  BY <1>1, <1>2, <1>3 DEF Copy
<1> QED
  BY <1>1, <1>2, <1>4, Zenon DEF Copy

\* A pass stays sound while the logs grow and its cursor row is untouched.
LEMMA PassKept ==
    ASSUME IInv, Grows, NEW n \in Node, NEW s \in SyncState, PassOK(n, s),
           s.stage = "page" => cursors'[n][s.origin] = cursors[n][s.origin]
    PROVE  PassOK(n, s)'
<1>1. \A o \in Node : /\ ReplicationCursor(o, o) \in Nat
                      /\ s.high[o] \in Nat /\ s.cursors[o] \in Nat
  BY CursorFacts, Zenon DEF IInv, SyncState
<1>2. \A o \in Node : /\ s.high[o] <= ReplicationCursor(o, o)'
                      /\ s.cursors[o] <= ReplicationCursor(o, o) =>
                            s.cursors[o] <= ReplicationCursor(o, o)'
  BY <1>1 DEF PassOK, Grows
<1>3. s.stage = "page" => \A j \in 1 .. Len(s.page) : s.page[j] \in issued'[s.origin]
  BY Zenon DEF PassOK, Grows
<1> QED
  BY <1>2, <1>3, Zenon DEF PassOK

\* A step of node n is sound if it is so for its own log, copies and pass.
LEMMA NodeStep ==
    ASSUME IInv, TypeOK', Grows, NEW n \in Node, OnlyNode(n),
           \A o \in Node : Log(o)', \A o \in Node : Copy(n, o)', Pass(n)'
    PROVE  IInv'
<1>1. ASSUME NEW m \in Node \ {n}, NEW o \in Node
      PROVE  Copy(m, o)'
  BY CopyKept, Zenon DEF OnlyNode
<1>2. ASSUME NEW m \in Node \ {n}
      PROVE  Pass(m)'
  <2>1. sync[m] \in SyncState /\ PassOK(m, sync[m]) /\ sync'[m] = sync[m]
        /\ cursors'[m] = cursors[m]
    BY Zenon DEF IInv, TypeOK, Pass, OnlyNode
  <2>2. PICK s \in SyncState : s = sync[m]
    BY <2>1, Zenon
  <2>3. PassOK(m, s)'
    BY <2>1, <2>2, PassKept, Zenon
  <2> QED
    BY <2>1, <2>2, <2>3, Zenon DEF Pass
<1> QED
  BY <1>1, <1>2, Zenon DEF IInv

\* The log of an origin is kept when nothing is appended to it.
LEMMA LogKept ==
    ASSUME IInv, TypeOK', Grows, NEW o \in Node, issued'[o] = issued[o]
    PROVE  Log(o)'
<1>1. \A op \in issued[o] : op.seq \in Nat
  BY DEF IInv, TypeOK, Operation
<1>2. ReplicationCursor(o, o) \in Nat
  BY CursorFacts, Zenon DEF IInv
<1>3. \A op \in issued[o] : op.seq <= ReplicationCursor(o, o)'
  BY <1>1, <1>2 DEF IInv, Log, Grows
<1> QED
  BY <1>3, Zenon DEF IInv, Log

\* A step that moves only the pass of a node.
LEMMA SyncOnly ==
    ASSUME IInv, TypeOK', NEW n \in Node, NEW s \in SyncState,
           sync' = [sync EXCEPT ![n] = s], PassOK(n, s),
           UNCHANGED <<kept, cursors, issued, reflected>>
    PROVE  IInv'
<1>1. \A m, o \in Node : ReplicationCursor(m, o)' = ReplicationCursor(m, o)
  BY Zenon DEF ReplicationCursor
<1>2. Grows
  BY <1>1, CursorFacts DEF Grows, IInv
<1>3. sync'[n] = s /\ OnlyNode(n)
  BY Zenon DEF OnlyNode, IInv, TypeOK
<1>4. \A o \in Node : Log(o)' /\ Copy(n, o)'
  BY <1>2, LogKept, CopyKept, Zenon
<1>5. PassOK(n, s)'
  BY <1>2, PassKept, Zenon
<1>6. Pass(n)'
  BY <1>3, <1>5, Zenon DEF Pass
<1> QED
  BY <1>2, <1>3, <1>4, <1>6, NodeStep, Zenon

-----------------------------------------------------------------------------
(* Passes *)

\* The state of a node without a pass is typed, and has heard of nothing.
LEMMA IdleTyped ==
    Idle \in SyncState /\ Idle.stage = "idle" /\ \A o \in Node : Idle.high[o] = 0
  BY DEF Idle, SyncState

\* No number is less than itself.
LEMMA NoLess == \A a \in Nat : a <= a
OBVIOUS

\* The range of the first none is empty.
LEMMA NoneYet == 1 .. 0 = {} /\ 0 <= 0
OBVIOUS

\* What is below b is below all that b is below.
LEMMA Below ==
    ASSUME NEW a \in Nat, NEW b \in Nat, NEW c \in Nat, a <= b, b <= c
    PROVE  a <= c
OBVIOUS

\* Two ranges that meet.
LEMMA RangesMeet ==
    ASSUME NEW a \in Nat, NEW b \in Nat
    PROVE  (1 .. a) \cup ((a + 1) .. (a + b)) = 1 .. (a + b)
OBVIOUS

\* The largest of a number and a smaller one.
LEMMA MostLeft ==
    ASSUME NEW a \in Nat, NEW b \in Nat, b <= a
    PROVE  Most(a, b) = a
BY DEF Most

\* A table of tables keeps its type when one of its entries changes.
LEMMA EntryTyped ==
    ASSUME NEW T, NEW f \in [Node -> [Node -> T]], NEW n \in Node, NEW o \in Node, NEW v \in T
    PROVE  [f EXCEPT ![n][o] = v] \in [Node -> [Node -> T]]
OBVIOUS

\* A node at rest.
LEMMA IdleOK ==
    ASSUME IInv, NEW n \in Node
    PROVE  Idle \in SyncState /\ PassOK(n, Idle) /\ Idle.stage = "idle"
<1>1. Idle \in SyncState
  BY IdleTyped, Zenon
<1>2. \A o \in Node : Idle.high[o] <= ReplicationCursor(o, o)
  BY CursorFacts DEF IInv, Idle
<1> QED
  BY <1>1, <1>2, Zenon DEF PassOK, Idle

\* Back in the loop with the same peer and high-water marks.
LEMMA AdvanceOK ==
    ASSUME IInv, NEW n \in Node, NEW s \in SyncState, PassOK(n, s), s.stage # "idle",
           NEW c
    PROVE  /\ Advance(s, c) \in SyncState
           /\ PassOK(n, Advance(s, c))
           /\ Advance(s, c).stage = "range"
<1>1. Idle \in SyncState
  BY IdleOK, Zenon
<1>2. s.peer \in Node /\ s.high \in [Node -> Nat] /\ s.merged \in BOOLEAN
      /\ s.origin \in Node \cup {NoOrigin}
  BY Zenon DEF PassOK, SyncState
<1>3. PICK og \in Node \cup {NoOrigin} :
        og = IF c < s.high[s.origin] THEN s.origin ELSE NoOrigin
  BY <1>2, Zenon
<1>4. Advance(s, c) = [Idle EXCEPT !.stage = "range", !.peer = s.peer, !.high = s.high,
                                   !.merged = s.merged, !.origin = og]
  BY <1>3, Zenon DEF Advance
<1>5. /\ Advance(s, c) \in SyncState
      /\ Advance(s, c).stage = "range"
      /\ Advance(s, c).peer = s.peer
      /\ Advance(s, c).high = s.high
  BY <1>1, <1>2, <1>3, <1>4, Zenon DEF SyncState
<1> QED
  BY <1>5, Zenon DEF PassOK

\* A gap is followed by a snapshot, or ends the pass.
LEMMA FallBackOK ==
    ASSUME IInv, NEW n \in Node, NEW s \in SyncState, PassOK(n, s), s.stage # "idle",
           NEW o \in Node
    PROVE  FallBack(s, o) \in SyncState /\ PassOK(n, FallBack(s, o))
           /\ FallBack(s, o).stage \in {"idle", "gap"}
<1>1. CASE s.merged
  BY <1>1, IdleOK, Zenon DEF FallBack
<1>2. CASE ~ s.merged
  <2>1. FallBack(s, o) = [s EXCEPT !.stage = "gap", !.origin = o, !.page = << >>]
    BY <1>2, Zenon DEF FallBack
  <2>2. << >> \in Seq(Operation)
    OBVIOUS
  <2>3. /\ FallBack(s, o) \in SyncState
        /\ FallBack(s, o).stage = "gap"
        /\ FallBack(s, o).origin = o
        /\ FallBack(s, o).peer = s.peer
        /\ FallBack(s, o).high = s.high
    BY <2>1, <2>2, Zenon DEF SyncState
  <2> QED
    BY <2>3, Zenon DEF PassOK
<1> QED
  BY <1>1, <1>2, Zenon

\* A replica is asked for no page of its own log, and the page it is given
\* lists operations of the origin's log.
LEMMA GetOperationsOK ==
    ASSUME IInv, NEW n \in Node, NEW o \in Node, GetOperations(n, o)
    PROVE  \E s \in SyncState : /\ PassOK(n, s) /\ s.stage # "snapshot"
                              /\ sync' = [sync EXCEPT ![n] = s]
<1>1. PICK s \in SyncState : s = sync[n]
  BY Zenon DEF IInv, TypeOK
<1>2. PassOK(n, s) /\ s.stage = "range" /\ s.peer \in Node
  BY <1>1, Zenon DEF IInv, Pass, PassOK, GetOperations
<1>3. PICK after \in Nat : after = ReplicationCursor(n, o)
  BY CursorFacts, Zenon DEF IInv
<1>4. /\ after < s.high[o]
      /\ sync' = [sync EXCEPT ![n] =
            IF StartsAfter(Page(kept[s.peer][o], after), after)
            THEN [s EXCEPT !.stage = "page", !.origin = o,
                           !.page = Page(kept[s.peer][o], after)]
            ELSE FallBack(s, o)]
  BY <1>1, <1>3, Zenon DEF GetOperations
<1>5. CASE ~ StartsAfter(Page(kept[s.peer][o], after), after)
  BY <1>2, <1>4, <1>5, FallBackOK, Zenon
<1>6. CASE StartsAfter(Page(kept[s.peer][o], after), after)
  <2>1. kept[s.peer][o] \subseteq issued[o] /\ issued[o] \subseteq Operation
    BY <1>2, Zenon DEF IInv, Copy, TypeOK
  <2>2. IsFiniteSet(issued[o]) /\ \A p, q \in issued[o] : p.seq = q.seq => p = q
    BY Zenon DEF IInv, Log
  <2>3. IsFiniteSet(kept[s.peer][o])
    BY <2>1, <2>2, FS_Subset, Zenon
  <2>4. Page(kept[s.peer][o], after) \in Seq(kept[s.peer][o])
    BY <2>1, <2>2, <2>3, PageFacts, Zenon
  <2>5. PICK pg \in Seq(Operation) : pg = Page(kept[s.peer][o], after)
    BY <2>1, <2>4
  <2>6. \A j \in 1 .. Len(pg) : pg[j] \in issued[o]
    BY <2>1, <2>4, <2>5
  <2>7. pg # << >> /\ pg[1].seq = after + 1
    BY <1>6, <2>5, Zenon DEF StartsAfter
  <2>8. o # n
    <3>1. s.high[o] \in Nat /\ s.high[o] <= ReplicationCursor(o, o)
      BY <1>2, Zenon DEF PassOK, SyncState
    <3>2. ReplicationCursor(o, o) \in Nat
      BY CursorFacts, Zenon DEF IInv
    <3> QED
      BY <1>3, <1>4, <3>1, <3>2
  <2>9. after = cursors[n][o]
    BY <1>3, <2>8, CursorFacts, Zenon DEF IInv
  <2> DEFINE z == [s EXCEPT !.stage = "page", !.origin = o, !.page = pg]
  <2>10. /\ z \in SyncState /\ z.stage = "page" /\ z.origin = o /\ z.page = pg
         /\ z.peer = s.peer /\ z.high = s.high
    BY Zenon DEF SyncState
  <2>11. sync' = [sync EXCEPT ![n] = z]
    BY <1>4, <1>6, <2>5, Zenon
  <2> HIDE DEF z
  <2>12. PassOK(n, z)
    BY <1>2, <2>6, <2>7, <2>8, <2>9, <2>10, Zenon DEF PassOK
  <2> QED
    BY <2>10, <2>11, <2>12, Zenon
<1> QED
  BY <1>5, <1>6, Zenon

\* The status of a peer claims nothing an origin does not know.
LEMMA GetStatusOK ==
    ASSUME IInv, NEW n \in Node, NEW p \in Node, GetStatus(n, p)
    PROVE  \E s \in SyncState : /\ PassOK(n, s) /\ s.stage # "snapshot"
                              /\ sync' = [sync EXCEPT ![n] = s]
<1>1. Idle \in SyncState
  BY IdleOK, Zenon
<1>2. PICK h \in [Node -> Nat] : h = [o \in Node |-> ReplicationCursor(p, o)]
  BY CursorFacts, Zenon DEF IInv
<1>3. \A o \in Node : h[o] <= ReplicationCursor(o, o)
  BY <1>2, Zenon DEF IInv, Copy
<1> DEFINE z == [Idle EXCEPT !.stage = "range", !.peer = p, !.high = h]
<1>4. z \in SyncState /\ z.stage = "range" /\ z.peer = p /\ z.high = h
  BY <1>1, Zenon DEF SyncState
<1>5. sync' = [sync EXCEPT ![n] = z]
  BY <1>2, Zenon DEF GetStatus
<1> HIDE DEF z
<1>6. PassOK(n, z)
  BY <1>3, <1>4, Zenon DEF PassOK
<1> QED
  BY <1>4, <1>5, <1>6, Zenon

\* A snapshot is a true picture of the peer.
LEMMA BuildSnapshotOK ==
    ASSUME IInv, NEW n \in Node, BuildReplicationSnapshot(n)
    PROVE  \E s \in SyncState :
              /\ PassOK(n, s)
              /\ sync' = [sync EXCEPT ![n] = s]
              /\ s.stage = "snapshot"
              /\ \E p \in Node : s.rows = rows[p] /\ s.reflected = reflected[p]
<1>1. PICK s \in SyncState : s = sync[n]
  BY Zenon DEF IInv, TypeOK
<1>2. PassOK(n, s) /\ s.stage = "gap" /\ s.peer \in Node /\ s.origin \in Node
  BY <1>1, Zenon DEF IInv, Pass, PassOK, BuildReplicationSnapshot
<1>3. PICK p \in Node : p = s.peer
  BY <1>2, Zenon
<1>4. PICK c \in [Node -> Nat] : c = [o \in Node |-> ReplicationCursor(p, o)]
  BY CursorFacts, Zenon DEF IInv
<1>5. PICK t \in Tables : t = rows[p]
  BY Zenon DEF IInv, TypeOK
<1>6. PICK f \in [Node -> SUBSET Nat] : f = reflected[p]
  BY Zenon DEF IInv, TypeOK
<1>7. \A o \in Node : f[o] = 1 .. c[o] /\ c[o] <= ReplicationCursor(o, o)
  BY <1>4, <1>6, Zenon DEF IInv, Copy
<1> DEFINE z == [s EXCEPT !.stage = "snapshot", !.merged = TRUE, !.rows = t,
                          !.cursors = c, !.reflected = f]
<1>8. /\ z \in SyncState /\ z.stage = "snapshot" /\ z.rows = t /\ z.cursors = c
      /\ z.reflected = f /\ z.peer = s.peer /\ z.high = s.high /\ z.origin = s.origin
  BY Zenon DEF SyncState
<1>9. sync' = [sync EXCEPT ![n] = z]
  BY <1>1, <1>3, <1>4, <1>5, <1>6, Zenon DEF BuildReplicationSnapshot
<1> HIDE DEF z
<1>10. PassOK(n, z)
  BY <1>2, <1>7, <1>8, Zenon DEF PassOK
<1> QED
  BY <1>3, <1>5, <1>6, <1>8, <1>9, <1>10, Zenon

-----------------------------------------------------------------------------
(* Rows and the tables along a page *)

\* Ranks are naturals that tell the states apart.
LEMMA Ranks ==
    /\ \A s \in State : stateRank(s) \in Nat
    /\ \A s, t \in State : stateRank(s) = stateRank(t) => s = t
    /\ \A s, t \in State :
        /\ Later(s, t) \in {s, t}
        /\ Later(s, t) \in State
        /\ stateRank(s) <= stateRank(Later(s, t))
        /\ stateRank(t) <= stateRank(Later(s, t))
<1>1. \A s \in State : stateRank(s) \in Nat
  BY Zenon DEF State, stateRank, Received, Firing, Acknowledged, Resolved
<1>2. \A s, t \in State : stateRank(s) = stateRank(t) => s = t
  BY DEF State, stateRank, Received, Firing, Acknowledged, Resolved
<1>3. ASSUME NEW s \in State, NEW t \in State
      PROVE  /\ Later(s, t) \in {s, t}
             /\ Later(s, t) \in State
             /\ stateRank(s) <= stateRank(Later(s, t))
             /\ stateRank(t) <= stateRank(Later(s, t))
  <2>1. stateRank(s) \in Nat /\ stateRank(t) \in Nat
    BY <1>1, Zenon
  <2>2. CASE stateRank(t) > stateRank(s)
    BY <2>1, <2>2 DEF Later
  <2>3. CASE ~ (stateRank(t) > stateRank(s))
    BY <2>1, <2>3 DEF Later
  <2> QED
    BY <2>2, <2>3, Zenon
<1> QED
  BY <1>1, <1>2, <1>3, Zenon

\* Two versions of a row merge into a row, in the later state.
LEMMA MergedRow ==
    ASSUME NEW r \in Row, NEW in \in Row
    PROVE  Merged(r, in) \in Row /\ Merged(r, in).state = Later(r.state, in.state)
<1>1. Later(r.state, in.state) \in State
  BY Ranks, Zenon DEF Row
<1> QED
  BY <1>1, Zenon DEF Merged, Row, Least

\* An operation that applies leaves a row, whose state is the later one
\* unless the operation is an "updated".
LEMMA EffectRow ==
    ASSUME NEW op \in Operation, NEW r \in Row \cup {NoRow}, Applicable(op, r)
    PROVE  /\ applyReplicationEffect(op, r) \in Row
           /\ r = NoRow => applyReplicationEffect(op, r).state = op.state
           /\ r # NoRow /\ op.kind # "updated" =>
                applyReplicationEffect(op, r).state = Later(r.state, op.state)
<1> DEFINE new == [state |-> op.state, content |-> op.content,
                   created |-> op.at, updated |-> op.at]
<1>1. new \in Row /\ new.state = op.state
  BY Zenon DEF Row, Operation
<1>2. op.kind \in Kind /\ op.state \in State /\ op.content \in Content /\ op.at \in Int
  BY Zenon DEF Operation
<1>3. CASE op.kind = "created" /\ r = NoRow
  <2>1. applyReplicationEffect(op, r) = new
    BY <1>3, Zenon DEF applyReplicationEffect
  <2> QED
    BY <1>1, <1>3, <2>1, Zenon
<1>4. CASE op.kind = "created" /\ r # NoRow
  <2>1. applyReplicationEffect(op, r) = Merged(r, new)
    BY <1>4, Zenon DEF applyReplicationEffect
  <2> HIDE DEF new
  <2>2. r \in Row
    BY <1>4, Zenon
  <2> QED
    BY <1>1, <1>4, <2>1, <2>2, MergedRow, Zenon
<1>5. CASE op.kind = "updated"
  <2>1. r \in Row
    BY <1>5, Zenon DEF Applicable
  <2>2. r # NoRow
    BY <1>5, Zenon DEF Applicable
  <2>3. applyReplicationEffect(op, r) =
            [state |-> op.state, content |-> op.content, created |-> r.created,
             updated |-> op.at]
    BY <1>5, Zenon DEF applyReplicationEffect
  <2> QED
    BY <1>2, <1>5, <2>1, <2>2, <2>3 DEF Row
<1>6. CASE op.kind = "state"
  <2>1. r \in Row /\ r # NoRow
    BY <1>6, Zenon DEF Applicable
  <2>2. Most(r.updated, op.at) \in Int
    BY <1>2, <2>1, Zenon DEF Most, Row
  <2>3. Later(r.state, op.state) \in {r.state, op.state}
    BY <1>2, <2>1, Ranks, Zenon DEF Row
  <2>4. applyReplicationEffect(op, r) =
            IF Later(r.state, op.state) # r.state
            THEN [state |-> op.state, content |-> r.content,
                  created |-> r.created, updated |-> Most(r.updated, op.at)]
            ELSE r
    BY <1>6, Zenon DEF applyReplicationEffect
  <2>5. CASE Later(r.state, op.state) # r.state
    BY <1>2, <2>1, <2>2, <2>3, <2>4, <2>5, SMTT(30) DEF Row
  <2>6. CASE Later(r.state, op.state) = r.state
    BY <2>1, <2>4, <2>6, Zenon
  <2> QED
    BY <2>5, <2>6, Zenon
<1> QED
  BY <1>2, <1>3, <1>4, <1>5, <1>6, Zenon DEF Kind

\* The tables after one more operation.
Applied(table, op) ==
    [table EXCEPT ![op.id] =
        IF Applicable(op, @) THEN applyReplicationEffect(op, @) ELSE @]

\* The recursion that defines After, unfolded.
LEMMA AfterUnfolds ==
    ASSUME NEW tables, NEW page, Len(page) \in Nat
    PROVE  After(tables, page) =
             [k \in 0 .. Len(page) |->
                IF k = 0 THEN tables ELSE Applied(After(tables, page)[k - 1], page[k])]
<1> DEFINE F(m, g) == [k \in 0 .. m |->
                          IF k = 0 THEN tables ELSE Applied(g[k - 1], page[k])]
           T == {m \in Nat : ~ \E g : g = F(m, g)}
<1>1. T = {}
  <2> SUFFICES ASSUME T # {} PROVE FALSE
    BY Zenon
  <2>1. PICK m \in T : \A y \in T : m <= y
    BY LeastNat, Zenon
  <2>2. m # 0
    <3> DEFINE g == [k \in 0 .. 0 |-> tables]
    <3>1. g = F(0, g)
      OBVIOUS
    <3> QED
      BY <3>1, Zenon
  <2>3. PICK g : g = F(m - 1, g)
    <3>1. m - 1 \in Nat /\ m - 1 \notin T
      <4>1. T \subseteq Nat
        BY Zenon
      <4> HIDE DEF T
      <4> QED
        BY <2>1, <2>2, <4>1
    <3> QED
      BY <3>1, Zenon
  <2> DEFINE h == [k \in 0 .. m |-> IF k = m THEN Applied(g[m - 1], page[m]) ELSE g[k]]
  <2>4. ASSUME NEW k \in 0 .. m
        PROVE  h[k] = IF k = 0 THEN tables ELSE Applied(h[k - 1], page[k])
    <3>1. CASE k = m
      BY <2>2, <3>1
    <3>2. CASE k # m
      <4>1. k \in 0 .. (m - 1) /\ h[k] = g[k] /\ (k # 0 => h[k - 1] = g[k - 1])
        BY <3>2
      <4>2. g[k] = IF k = 0 THEN tables ELSE Applied(g[k - 1], page[k])
        BY <2>3, <4>1, Zenon
      <4> QED
        BY <4>1, <4>2, Zenon
    <3> QED
      BY <3>1, <3>2, Zenon
  <2>5. h = F(m, h)
    BY <2>4, Zenon
  <2> QED
    BY <2>1, <2>5, Zenon
<1>2. \E g : g = F(Len(page), g)
  BY <1>1, Zenon
<1>3. After(tables, page) = CHOOSE g : g = F(Len(page), g)
  BY Zenon DEF After, Applied
<1> HIDE DEF F
<1>4. After(tables, page) = F(Len(page), After(tables, page))
  BY <1>2, <1>3, Zenon
<1> QED
  BY <1>4, Zenon DEF F

\* Tables stay tables along a page.
LEMMA AfterTables ==
    ASSUME NEW tables \in Tables, NEW page \in Seq(Operation), NEW k \in 0 .. Len(page)
    PROVE  After(tables, page)[k] \in Tables
<1> DEFINE A == After(tables, page)
           T == {m \in 0 .. Len(page) : A[m] \notin Tables}
<1>1. /\ Len(page) \in Nat
      /\ A[0] = tables
      /\ \A m \in 1 .. Len(page) : A[m] = Applied(A[m - 1], page[m])
  BY AfterUnfolds
<1> HIDE DEF A
<1> SUFFICES ASSUME T # {} PROVE FALSE
  BY Zenon DEF A
<1>2. PICK m \in T : \A y \in T : m <= y
  <2>1. T \subseteq Nat
    BY <1>1
  <2> HIDE DEF T
  <2> QED
    BY <2>1, LeastNat, Zenon
<1>3. m # 0 /\ m \in 1 .. Len(page)
  BY <1>1, <1>2
<1>4. m - 1 \in 0 .. Len(page) /\ m - 1 \notin T
  BY <1>1, <1>2, <1>3
<1>5. PICK t \in Tables : t = A[m - 1]
  BY <1>4, Zenon
<1>6. PICK op \in Operation : op = page[m]
  BY <1>3
<1>7. op.id \in Notification /\ t[op.id] \in Row \cup {NoRow}
  BY <1>5, <1>6, Zenon DEF Operation, Tables
<1>8. (IF Applicable(op, t[op.id]) THEN applyReplicationEffect(op, t[op.id]) ELSE t[op.id])
        \in Row \cup {NoRow}
  BY <1>7, EffectRow, Zenon
<1>9. Applied(t, op) \in Tables
  BY <1>7, <1>8, Zenon DEF Applied, Tables
<1> QED
  BY <1>1, <1>2, <1>3, <1>5, <1>6, <1>9, Zenon

-----------------------------------------------------------------------------
(* Local writes and prunes *)

\* Node n has numbered op after everything it knows of its log.
Appended(n, op) ==
    /\ op \in Operation
    /\ op.seq = ReplicationCursor(n, n) + 1
    /\ kept' = [kept EXCEPT ![n][n] = @ \cup {op}]
    /\ issued' = [issued EXCEPT ![n] = @ \cup {op}]
    /\ reflected' = [reflected EXCEPT ![n][n] = @ \cup {op.seq}]
    /\ UNCHANGED <<cursors, sync>>

\* The new operation is the last of the log.
LEMMA AppendedCursor ==
    ASSUME IInv, NEW n \in Node, NEW op, Appended(n, op)
    PROVE  /\ Topped(Seqs(kept'[n][n]))
           /\ ReplicationCursor(n, n)' = op.seq
<1>1. kept[n][n] \subseteq Operation /\ kept'[n][n] = kept[n][n] \cup {op}
  BY ZenonT(30) DEF IInv, TypeOK, Appended
<1>2. /\ ReplicationCursor(n, n) \in Nat
      /\ cursors[n][n] \in Nat /\ cursors[n][n] <= ReplicationCursor(n, n)
      /\ High(Seqs(kept[n][n])) <= ReplicationCursor(n, n)
      /\ High(Seqs(kept[n][n])) \in Nat
      /\ \A p \in kept[n][n] : p.seq <= High(Seqs(kept[n][n]))
  BY CursorFacts, Zenon DEF IInv
<1>3. op \in Operation /\ op.seq \in Nat /\ op.seq = ReplicationCursor(n, n) + 1
  BY Zenon DEF Appended, Operation
<1>4. \A p \in kept[n][n] : p.seq \in Nat
  BY <1>1, Zenon DEF Operation
<1>5. \A p \in kept'[n][n] : p.seq <= op.seq
  BY <1>1, <1>2, <1>3, <1>4
<1>6. /\ Seqs(kept'[n][n]) \subseteq Nat /\ op.seq \in Seqs(kept'[n][n])
      /\ \A t \in Seqs(kept'[n][n]) : \E p \in kept'[n][n] : p.seq = t
  <2>1. kept'[n][n] \subseteq Operation
    BY <1>1, <1>3, Zenon
  <2> QED
    BY <1>1, <2>1, SeqsTyped, Zenon
<1>7. \A t \in Seqs(kept'[n][n]) : t <= op.seq
  BY <1>5, <1>6, Zenon
<1>8. Topped(Seqs(kept'[n][n])) /\ High(Seqs(kept'[n][n])) = op.seq
  BY <1>6, <1>7, HighIs, Zenon
<1>9. ReplicationCursor(n, n)' = Most(cursors[n][n], op.seq)
  BY <1>8, Zenon DEF ReplicationCursor, Appended
<1> QED
  BY <1>2, <1>3, <1>8, <1>9 DEF Most

\* An own operation keeps the invariant.
LEMMA AppendedOK ==
    ASSUME IInv, TypeOK', NEW n \in Node, NEW op, Appended(n, op)
    PROVE  IInv'
<1>1. /\ kept'[n][n] = kept[n][n] \cup {op}
      /\ issued'[n] = issued[n] \cup {op}
      /\ reflected'[n][n] = reflected[n][n] \cup {op.seq}
      /\ \A o \in Node \ {n} : /\ kept'[n][o] = kept[n][o]
                               /\ issued'[o] = issued[o]
                               /\ reflected'[n][o] = reflected[n][o]
      /\ OnlyNode(n)
  BY DEF IInv, TypeOK, Appended, OnlyNode
<1>2. /\ op \in Operation /\ op.seq \in Nat
      /\ op.seq = ReplicationCursor(n, n) + 1
      /\ ReplicationCursor(n, n) \in Nat
  BY CursorFacts, Zenon DEF IInv, Appended, Operation
<1>3. /\ Topped(Seqs(kept'[n][n]))
      /\ ReplicationCursor(n, n)' = op.seq
  BY AppendedCursor, Zenon
<1>4. \A o \in Node \ {n} : ReplicationCursor(o, o)' = ReplicationCursor(o, o)
  BY <1>1, Zenon DEF ReplicationCursor, OnlyNode
<1>5. Grows
  <2>1. \A o \in Node : issued[o] \subseteq issued'[o]
    BY <1>1, Zenon
  <2>2. \A o \in Node : ReplicationCursor(o, o) \in Nat
    BY CursorFacts, Zenon DEF IInv
  <2>3. \A o \in Node : /\ ReplicationCursor(o, o)' \in Nat
                        /\ ReplicationCursor(o, o) <= ReplicationCursor(o, o)'
    BY <1>2, <1>3, <1>4, <2>2
  <2> QED
    BY <2>1, <2>3, Zenon DEF Grows
<1>6. Log(n)'
  <2>1. \A p \in issued[n] : p.seq \in Nat /\ p.seq <= ReplicationCursor(n, n)
    BY DEF IInv, TypeOK, Operation, Log
  <2>2. \A p \in issued[n] : p.seq <= op.seq /\ p.seq # op.seq
    BY <1>2, <2>1, SMTT(30)
  <2>3. IsFiniteSet(issued'[n])
    <3>1. IsFiniteSet(issued[n])
      BY Zenon DEF IInv, Log
    <3> QED
      BY <1>1, <3>1, FS_AddElement, SMTT(30)
  <2>4. \A p, q \in issued'[n] : p.seq = q.seq => p = q
    BY <1>1, <2>2, Zenon DEF IInv, Log
  <2>5. \A p \in issued'[n] : p.seq <= ReplicationCursor(n, n)'
    BY <1>1, <1>2, <1>3, <2>2, SMTT(30)
  <2> QED
    BY <2>3, <2>4, <2>5, Zenon DEF Log
<1>7. Copy(n, n)'
  <2>1. kept'[n][n] \subseteq issued'[n]
    BY <1>1, Zenon DEF IInv, Copy
  <2>2. reflected'[n][n] = 1 .. op.seq
    BY <1>1, <1>2 DEF IInv, Copy
  <2> QED
    BY <1>2, <1>3, <2>1, <2>2 DEF Copy
<1>8. \A o \in Node : Log(o)' /\ Copy(n, o)'
  BY <1>1, <1>5, <1>6, <1>7, LogKept, CopyKept, Zenon DEF Appended
<1>9. PICK s \in SyncState : s = sync[n]
  BY Zenon DEF IInv, TypeOK
<1>10. PassOK(n, s)'
  BY <1>5, <1>9, PassKept, Zenon DEF IInv, Pass, Appended
<1>11. Pass(n)'
  BY <1>9, <1>10, Zenon DEF Pass, Appended
<1> QED
  BY <1>1, <1>5, <1>8, <1>11, NodeStep, Zenon

\* A prune moves the cursor row under the envelopes it drops: what the node
\* has of the origin is the same.
LEMMA PruneOK ==
    ASSUME IInv, TypeOK', NEW n \in Node, NEW o \in Node, NEW through \in Nat,
           PruneReplicationOperations(n, o, through)
    PROVE  IInv'
<1> DEFINE K == kept[n][o]
           KK == {op \in kept[n][o] : op.seq > through}
<1>1. /\ kept'[n][o] = KK
      /\ cursors'[n][o] = Most(cursors[n][o], through)
      /\ \A p \in Node \ {o} : kept'[n][p] = kept[n][p] /\ cursors'[n][p] = cursors[n][p]
      /\ issued' = issued /\ reflected' = reflected /\ sync' = sync
      /\ OnlyNode(n)
  BY DEF IInv, TypeOK, PruneReplicationOperations, OnlyNode, history
<1>2. /\ ReplicationCursor(n, o) \in Nat /\ cursors[n][o] \in Nat /\ High(Seqs(K)) \in Nat
      /\ ReplicationCursor(n, o) = Most(cursors[n][o], High(Seqs(K)))
      /\ \A op \in K : op.seq <= High(Seqs(K))
      /\ n # o => ReplicationCursor(n, o) = cursors[n][o]
      /\ High(Seqs(K)) <= ReplicationCursor(n, o)
  BY CursorFacts, Zenon DEF IInv
<1>3. through <= High(Seqs(K)) /\ 1 <= through
  BY <1>2 DEF PruneReplicationOperations
<1>4. K \subseteq Operation /\ Topped(Seqs(K)) /\ K \subseteq issued[o] /\ KK \subseteq K
  BY Zenon DEF IInv, TypeOK, Copy
<1>5. /\ Topped(Seqs(KK))
      /\ High(Seqs(KK)) \in Nat
      /\ High(Seqs(KK)) <= High(Seqs(K))
      /\ Most(through, High(Seqs(KK))) = High(Seqs(K))
  <2>1. Seqs(K) \subseteq Nat /\ Seqs(KK) \subseteq Nat
    BY <1>4, SeqsTyped, Zenon
  <2>2. CASE High(Seqs(K)) = through
    <3>1. KK = {}
      BY <1>2, <1>4, <2>2 DEF Operation
    <3>2. Seqs(KK) = {}
      BY <3>1, Zenon DEF Seqs
    <3>3. Topped(Seqs(KK)) /\ High(Seqs(KK)) = 0
      BY <3>2, Zenon DEF Topped, High
    <3> QED
      BY <1>2, <2>2, <3>3, SMTT(30) DEF Most
  <2>3. CASE High(Seqs(K)) # through
    <3>1. High(Seqs(K)) > through
      BY <1>2, <1>3, <2>3
    <3>2. High(Seqs(K)) \in Seqs(K)
      <4>1. Seqs(K) # {}
        BY <1>2, <1>3, <2>1, <1>4, HighFacts
      <4> QED
        BY <1>4, <2>1, <4>1, HighFacts, Zenon
    <3>3. PICK op \in K : op.seq = High(Seqs(K))
      BY <3>2, Zenon DEF Seqs
    <3>4. op \in KK
      BY <3>1, <3>3, Zenon
    <3>5. High(Seqs(K)) \in Seqs(KK)
      BY <3>3, <3>4, Zenon DEF Seqs
    <3>6. \A t \in Seqs(KK) : t <= High(Seqs(K))
      BY <1>2, <1>4, Zenon DEF Seqs
    <3>7. Topped(Seqs(KK)) /\ High(Seqs(KK)) = High(Seqs(K))
      BY <2>1, <3>5, <3>6, HighIs, Zenon
    <3> QED
      BY <1>2, <3>1, <3>7 DEF Most
  <2> QED
    BY <2>2, <2>3, Zenon
<1>6. ReplicationCursor(n, o)' = Most(Most(cursors[n][o], through), High(Seqs(KK)))
  BY <1>1, Zenon DEF ReplicationCursor
<1> HIDE DEF K, KK
<1>7. ReplicationCursor(n, o)' = ReplicationCursor(n, o)
  BY <1>2, <1>3, <1>5, <1>6 DEF Most
<1>8. \A m, p \in Node : ReplicationCursor(m, p)' = ReplicationCursor(m, p)
  BY <1>1, <1>7, Zenon DEF ReplicationCursor, OnlyNode
<1>9. Grows
  BY <1>1, <1>8, CursorFacts, SMTT(30) DEF Grows, IInv
<1>10. n # o => cursors'[n][o] = cursors[n][o] /\ High(Seqs(KK)) <= cursors[n][o]
  BY <1>1, <1>2, <1>3, <1>5 DEF Most
<1>11. Copy(n, o)'
  BY <1>1, <1>4, <1>5, <1>8, <1>10, ZenonT(30) DEF Copy, IInv, K, KK
<1>12. \A p \in Node : Log(p)' /\ Copy(n, p)'
  BY <1>1, <1>9, <1>11, LogKept, CopyKept, Zenon
<1>13. PICK s \in SyncState : s = sync[n]
  BY Zenon DEF IInv, TypeOK
<1>14. PassOK(n, s) /\ (s.stage = "page" => s.origin \in Node /\ s.origin # n)
  BY <1>13, Zenon DEF IInv, Pass, PassOK
<1>15. PassOK(n, s)'
  BY <1>1, <1>9, <1>10, <1>14, PassKept, Zenon
<1>16. Pass(n)'
  BY <1>1, <1>13, <1>15, Zenon DEF Pass
<1> QED
  BY <1>1, <1>9, <1>12, <1>16, NodeStep, Zenon

-----------------------------------------------------------------------------
(* Pages and snapshots *)

\* The first k operations of the page are committed.
Committed(n, o, page, base, k) ==
    /\ k \in 0 .. Len(page)
    /\ \A j \in 1 .. k :
        /\ page[j].seq = base + j
        /\ Applicable(page[j], After(rows[n], page)[j - 1][page[j].id])
    /\ rows' = [rows EXCEPT ![n] = After(rows[n], page)[k]]
    /\ kept' = [kept EXCEPT ![n][o] = @ \cup {page[j] : j \in 1 .. k}]
    /\ cursors' = [cursors EXCEPT ![n][o] = base + k]
    /\ reflected' = [reflected EXCEPT ![n][o] = @ \cup ((base + 1) .. (base + k))]

\* What is known of the page that is applied.
PageAt(n, o, page, base) ==
    /\ o \in Node \ {n}
    /\ page \in Seq(Operation)
    /\ \A j \in 1 .. Len(page) : page[j] \in issued[o]
    /\ base \in Nat
    /\ base = cursors[n][o]

\* A page is applied up to an operation that fails, or not at all.
LEMMA ApplyCases ==
    ASSUME IInv, NEW n \in Node, ApplyReplicationOperations(n)
    PROVE  /\ UNCHANGED <<now, prunes, stable, issued>>
           /\ quarantined' \in [Node -> SUBSET (Node \X Nat)]
           /\ hook' \in [Node -> {"none", "placeholder", "real"}]
           /\ \E z \in SyncState :
                /\ PassOK(n, z) /\ z.stage \notin {"page", "snapshot"}
                /\ sync' = [sync EXCEPT ![n] = z]
           /\ \/ UNCHANGED <<rows, kept, cursors, reflected>>
              \/ \E o \in Node, page \in Seq(Operation), base, k \in Nat :
                    PageAt(n, o, page, base) /\ Committed(n, o, page, base, k)
<1> DEFINE s == sync[n]
           o == s.origin
           page == s.page
           base == cursors[n][o]
<1>1. s \in SyncState
  BY Zenon DEF IInv, TypeOK
<1>2. PassOK(n, s) /\ s.stage = "page"
  BY Zenon DEF IInv, Pass, ApplyReplicationOperations
<1>3. o \in Node \ {n}
  BY <1>2, Zenon DEF PassOK
<1>4. page \in Seq(Operation)
  BY <1>1, Zenon DEF SyncState
<1>5. base \in Nat
  BY <1>3 DEF IInv, TypeOK
<1>6. PageAt(n, o, page, base)
  BY <1>2, <1>3, <1>4, <1>5, Zenon DEF PageAt, PassOK
<1> DEFINE A == After(rows[n], page)
           good(k) == /\ Continues(page[k], base + k - 1)
                      /\ Applicable(page[k], A[k - 1][page[k].id])
           commit(k) ==
              /\ rows' = [rows EXCEPT ![n] = A[k]]
              /\ kept' = [kept EXCEPT ![n][o] = @ \cup {page[j] : j \in 1 .. k}]
              /\ cursors' = [cursors EXCEPT ![n][o] = base + k]
              /\ reflected' =
                    [reflected EXCEPT ![n][o] = @ \cup ((base + 1) .. (base + k))]
              /\ hook' = IF hook[n] = "none"
                            /\ \E j \in 1 .. k : page[j].kind = "created"
                         THEN [hook EXCEPT ![n] = "placeholder"] ELSE hook
<1>7. /\ UNCHANGED <<now, prunes, stable, issued>>
      /\ \E k \in 0 .. Len(page) :
            /\ \A j \in 1 .. k : good(j)
            /\ \/ /\ k = Len(page)
                  /\ commit(k)
                  /\ sync' = [sync EXCEPT ![n] = Advance(s, base + k)]
                  /\ UNCHANGED quarantined
               \/ /\ k < Len(page)
                  /\ sync' = [sync EXCEPT ![n] = FallBack(s, o)]
                  /\ UNCHANGED <<rows, kept, cursors, hook, quarantined, reflected>>
               \/ /\ k < Len(page)
                  /\ commit(k)
                  /\ quarantined' = [quarantined EXCEPT ![n] =
                                        @ \cup {<<o, page[k + 1].seq>>}]
                  /\ sync' = [sync EXCEPT ![n] = Idle]
  BY Zenon DEF ApplyReplicationOperations
<1> HIDE DEF good, commit, s, o, page, base
<1>8. PICK k \in 0 .. Len(page) :
            /\ \A j \in 1 .. k : good(j)
            /\ \/ /\ k = Len(page)
                  /\ commit(k)
                  /\ sync' = [sync EXCEPT ![n] = Advance(s, base + k)]
                  /\ UNCHANGED quarantined
               \/ /\ k < Len(page)
                  /\ sync' = [sync EXCEPT ![n] = FallBack(s, o)]
                  /\ UNCHANGED <<rows, kept, cursors, hook, quarantined, reflected>>
               \/ /\ k < Len(page)
                  /\ commit(k)
                  /\ quarantined' = [quarantined EXCEPT ![n] =
                                        @ \cup {<<o, page[k + 1].seq>>}]
                  /\ sync' = [sync EXCEPT ![n] = Idle]
  BY <1>7, Zenon
<1>9. \E z \in SyncState : /\ PassOK(n, z) /\ z.stage \notin {"page", "snapshot"}
                           /\ sync' = [sync EXCEPT ![n] = z]
  BY <1>1, <1>2, <1>3, <1>8, AdvanceOK, FallBackOK, IdleOK, ZenonT(30)
<1>10. quarantined' \in [Node -> SUBSET (Node \X Nat)]
  <2>1. quarantined \in [Node -> SUBSET (Node \X Nat)]
    BY Zenon DEF IInv, TypeOK
  <2>2. k < Len(page) => page[k + 1] \in Operation
    BY <1>4
  <2>3. k < Len(page) => <<o, page[k + 1].seq>> \in Node \X Nat
    BY <1>3, <2>2, Zenon DEF Operation
  <2> QED
    BY <1>8, <2>1, <2>3
<1>11. hook' \in [Node -> {"none", "placeholder", "real"}]
  <2>1. hook \in [Node -> {"none", "placeholder", "real"}]
    BY Zenon DEF IInv, TypeOK
  <2> QED
    BY <1>8, <2>1, Zenon DEF commit
<1>12. k \in Nat
  BY <1>4
<1>13. ASSUME commit(k)
       PROVE  Committed(n, o, page, base, k)
  <2>1. ASSUME NEW j \in 1 .. k
        PROVE  /\ page[j].seq = base + j
               /\ Applicable(page[j], After(rows[n], page)[j - 1][page[j].id])
    <3>1. good(j)
      BY <1>8, Zenon
    <3> QED
      BY <1>4, <1>5, <3>1 DEF good, Continues
  <2> QED
    BY <1>13, <2>1, Zenon DEF Committed, commit
<1>14. CASE commit(k)
  <2>1. \E oo \in Node, pg \in Seq(Operation), b, kk \in Nat :
            PageAt(n, oo, pg, b) /\ Committed(n, oo, pg, b, kk)
    BY <1>3, <1>4, <1>5, <1>6, <1>12, <1>13, <1>14, ZenonT(30)
  <2> QED
    BY <1>7, <1>9, <1>10, <1>11, <2>1, Zenon
<1>15. CASE UNCHANGED <<rows, kept, cursors, hook, quarantined, reflected>>
  BY <1>7, <1>9, <1>10, <1>11, <1>15, Zenon
<1> QED
  BY <1>8, <1>14, <1>15, Zenon

\* A committed page moves the cursor row by as many operations.
LEMMA CommittedOK ==
    ASSUME IInv, TypeOK', NEW n \in Node, NEW o \in Node, NEW page \in Seq(Operation),
           NEW base \in Nat, NEW k \in Nat,
           PageAt(n, o, page, base), Committed(n, o, page, base, k),
           issued' = issued,
           \E z \in SyncState : /\ PassOK(n, z) /\ z.stage \notin {"page", "snapshot"}
                                /\ sync' = [sync EXCEPT ![n] = z]
    PROVE  IInv'
<1> DEFINE new == {page[j] : j \in 1 .. k}
<1>1. /\ kept'[n][o] = kept[n][o] \cup new
      /\ cursors'[n][o] = base + k
      /\ reflected'[n][o] = reflected[n][o] \cup ((base + 1) .. (base + k))
      /\ \A p \in Node \ {o} : /\ kept'[n][p] = kept[n][p]
                               /\ cursors'[n][p] = cursors[n][p]
                               /\ reflected'[n][p] = reflected[n][p]
      /\ OnlyNode(n)
      /\ n # o
  <2>1. /\ kept \in [Node -> [Node -> SUBSET Operation]]
        /\ cursors \in [Node -> [Node -> Nat]]
        /\ reflected \in [Node -> [Node -> SUBSET Nat]]
        /\ sync \in [Node -> SyncState]
    BY Zenon DEF IInv, TypeOK
  <2>2. /\ kept' = [kept EXCEPT ![n][o] = kept[n][o] \cup new]
        /\ cursors' = [cursors EXCEPT ![n][o] = base + k]
        /\ reflected' = [reflected EXCEPT ![n][o] =
                            reflected[n][o] \cup ((base + 1) .. (base + k))]
    BY Zenon DEF Committed
  <2> HIDE DEF new
  <2>3. /\ kept'[n][o] = kept[n][o] \cup new
        /\ \A p \in Node \ {o} : kept'[n][p] = kept[n][p]
        /\ \A m \in Node \ {n} : kept'[m] = kept[m]
    BY <2>1, <2>2, Zenon
  <2>4. /\ cursors'[n][o] = base + k
        /\ \A p \in Node \ {o} : cursors'[n][p] = cursors[n][p]
        /\ \A m \in Node \ {n} : cursors'[m] = cursors[m]
    BY <2>1, <2>2, Zenon
  <2>5. /\ reflected'[n][o] = reflected[n][o] \cup ((base + 1) .. (base + k))
        /\ \A p \in Node \ {o} : reflected'[n][p] = reflected[n][p]
        /\ \A m \in Node \ {n} : reflected'[m] = reflected[m]
    BY <2>1, <2>2, Zenon
  <2>6. \A m \in Node \ {n} : sync'[m] = sync[m]
    BY <2>1, Zenon
  <2>7. n # o
    BY Zenon DEF PageAt
  <2> QED BY <2>3, <2>4, <2>5, <2>6, <2>7, Zenon DEF OnlyNode
<1>2. /\ ReplicationCursor(n, o) = base /\ ReplicationCursor(n, o) \in Nat
      /\ High(Seqs(kept[n][o])) <= base /\ High(Seqs(kept[n][o])) \in Nat
      /\ \A p \in kept[n][o] : p.seq <= High(Seqs(kept[n][o]))
      /\ ReplicationCursor(o, o) \in Nat
      /\ base <= ReplicationCursor(o, o)
  <2>1. TypeOK /\ Copy(n, o) /\ Copy(o, o)
    BY Zenon DEF IInv
  <2>2. base = cursors[n][o]
    BY Zenon DEF PageAt
  <2>3. /\ ReplicationCursor(n, o) = base /\ High(Seqs(kept[n][o])) <= base
        /\ base <= ReplicationCursor(o, o)
    BY <1>1, <2>1, <2>2, CursorFacts, ZenonT(30) DEF Copy
  <2> QED BY <2>1, <2>3, CursorFacts, ZenonT(30)
<1>3. /\ \A j \in 1 .. k : page[j] \in Operation /\ page[j].seq = base + j
                           /\ page[j] \in issued[o]
      /\ k \in 0 .. Len(page)
  BY DEF Committed, PageAt
<1>4. kept[n][o] \subseteq Operation /\ kept[n][o] \subseteq issued[o]
      /\ issued[o] \subseteq Operation /\ Topped(Seqs(kept[n][o]))
  BY Zenon DEF IInv, TypeOK, Copy
<1>5. new \subseteq issued[o] /\ new \subseteq Operation
  BY <1>3, ZenonT(30)
<1>6. Topped(Seqs(kept'[n][o])) /\ High(Seqs(kept'[n][o])) <= base + k
      /\ High(Seqs(kept'[n][o])) \in Nat
  <2>1. CASE k = 0
    <3>1. kept'[n][o] = kept[n][o]
      BY <1>1, <2>1
    <3> QED
      BY <1>2, <1>4, <2>1, <3>1, SMTT(30)
  <2>2. CASE k # 0
    <3>1. page[k] \in new /\ page[k].seq = base + k
      BY <1>3, <2>2
    <3>2. \A p \in kept'[n][o] : p.seq <= base + k
      <4>1. \A p \in kept[n][o] : p.seq \in Nat
        BY <1>4, Zenon DEF Operation
      <4>2. \A p \in kept[n][o] : p.seq <= base + k
        BY <1>2, <4>1
      <4>3. \A p \in new : p.seq <= base + k
        BY <1>3
      <4> QED
        BY <1>1, <4>2, <4>3, Zenon
    <3>3. kept'[n][o] \subseteq Operation
      BY <1>1, <1>4, <1>5, ZenonT(30)
    <3>4. /\ Seqs(kept'[n][o]) \subseteq Nat /\ base + k \in Seqs(kept'[n][o])
          /\ \A t \in Seqs(kept'[n][o]) : \E p \in kept'[n][o] : p.seq = t
      BY <1>1, <3>1, <3>3, SeqsTyped
    <3>5. \A t \in Seqs(kept'[n][o]) : t <= base + k
      BY <3>2, <3>4, Zenon
    <3>6. Topped(Seqs(kept'[n][o])) /\ High(Seqs(kept'[n][o])) = base + k
      BY <3>4, <3>5, HighIs, ZenonT(30)
    <3> QED
      BY <3>6
  <2> QED
    BY <2>1, <2>2, Zenon
<1> HIDE DEF new
<1>7. ReplicationCursor(n, o)' = base + k
  <2>1. ReplicationCursor(n, o)' = Most(base + k, High(Seqs(kept'[n][o])))
    BY <1>1, Zenon DEF ReplicationCursor
  <2>2. base + k \in Nat
    OBVIOUS
  <2> QED BY <1>6, <2>1, <2>2, MostLeft, Zenon
<1>8. \A m \in Node : ReplicationCursor(m, m)' = ReplicationCursor(m, m)
  BY <1>1, ZenonT(30) DEF ReplicationCursor, OnlyNode
<1>9. Grows
  BY <1>8, CursorFacts DEF Grows, IInv
<1>10. base + k <= ReplicationCursor(o, o)
  <2>1. CASE k = 0
    BY <1>2, <2>1
  <2>2. CASE k # 0
    <3>1. k \in 1 .. k
      BY <2>2
    <3>2. page[k] \in issued[o] /\ page[k].seq = base + k
      BY <1>3, <3>1, Zenon
    <3>3. Log(o)
      BY Zenon DEF IInv
    <3> QED BY <3>2, <3>3, Zenon DEF Log
  <2> QED
    BY <2>1, <2>2, Zenon
<1>11. reflected'[n][o] = 1 .. (base + k)
  <2>1. reflected[n][o] = 1 .. base
    BY <1>2, Zenon DEF IInv, Copy
  <2> QED
    BY <1>1, <2>1, RangesMeet, Zenon
<1>12. kept'[n][o] \subseteq issued'[o]
  BY <1>1, <1>4, <1>5, Zenon
<1>13. Copy(n, o)'
  BY <1>1, <1>6, <1>7, <1>8, <1>10, <1>11, <1>12, Zenon DEF Copy
<1>14. \A p \in Node : Log(p)' /\ Copy(n, p)'
  BY <1>1, <1>9, <1>13, LogKept, CopyKept, Zenon
<1>15. PICK z \in SyncState : /\ PassOK(n, z) /\ z.stage \notin {"page", "snapshot"}
                              /\ sync' = [sync EXCEPT ![n] = z]
  BY Zenon
<1>16. PassOK(n, z)' /\ sync'[n] = z
  BY <1>9, <1>15, PassKept, Zenon DEF IInv, TypeOK
<1>17. Pass(n)'
  BY <1>16, Zenon DEF Pass
<1>18. OnlyNode(n)
  BY <1>1, Zenon
<1> QED
  BY <1>9, <1>14, <1>17, <1>18, NodeStep, ZenonT(30)

\* The tables of a replica after the rows of a snapshot are merged into them.
MergedTables(t, in) ==
    [i \in Notification |->
        CASE in[i] = NoRow -> t[i]
          [] in[i] # NoRow /\ t[i] = NoRow -> in[i]
          [] in[i] # NoRow /\ t[i] # NoRow -> Merged(t[i], in[i])]

\* The snapshot s is merged into node n.
SnapshotMerged(n, s) ==
    /\ rows' = [rows EXCEPT ![n] = MergedTables(rows[n], s.rows)]
    /\ cursors' = [cursors EXCEPT ![n] =
            [o \in Node |-> Most(cursors[n][o], s.cursors[o])]]
    /\ reflected' = [reflected EXCEPT ![n] =
            [o \in Node |-> reflected[n][o] \cup s.reflected[o]]]
    /\ UNCHANGED <<kept, issued>>

\* A snapshot is merged as a whole or refused.
LEMMA SnapshotCases ==
    ASSUME IInv, NEW n \in Node, ApplyReplicationSnapshot(n)
    PROVE  /\ UNCHANGED <<now, prunes, stable, hook, quarantined, kept, issued>>
           /\ \E z \in SyncState :
                /\ PassOK(n, z) /\ z.stage \notin {"page", "snapshot"}
                /\ sync' = [sync EXCEPT ![n] = z]
           /\ \/ UNCHANGED <<rows, cursors, reflected>>
              \/ \E s \in SyncState : /\ PassOK(n, s) /\ s.stage = "snapshot"
                                      /\ s = sync[n]
                                      /\ SnapshotMerged(n, s)
<1> DEFINE s == sync[n]
<1>1. s \in SyncState /\ PassOK(n, s) /\ s.stage = "snapshot"
  BY Zenon DEF IInv, TypeOK, Pass, ApplyReplicationSnapshot
<1>2. UNCHANGED <<now, prunes, stable>>
  BY Zenon DEF ApplyReplicationSnapshot
<1>3. CASE Refused(n, s.rows)
  <2>1. /\ sync' = [sync EXCEPT ![n] = Idle]
        /\ UNCHANGED <<rows, cursors, reflected, hook, quarantined, kept, issued>>
    BY <1>3, Zenon DEF ApplyReplicationSnapshot, db, history
  <2> QED
    BY <1>2, <2>1, IdleOK, Zenon
<1>4. CASE ~ Refused(n, s.rows)
  <2>1. /\ SnapshotMerged(n, s)
        /\ \E c : sync' = [sync EXCEPT ![n] = Advance(s, c)]
        /\ UNCHANGED <<hook, quarantined, kept, issued>>
    <3>1. /\ rows' = [rows EXCEPT ![n] = [i \in Notification |->
                CASE s.rows[i] = NoRow -> rows[n][i]
                  [] s.rows[i] # NoRow /\ rows[n][i] = NoRow -> s.rows[i]
                  [] s.rows[i] # NoRow /\ rows[n][i] # NoRow ->
                        Merged(rows[n][i], s.rows[i])]]
          /\ UNCHANGED <<kept, hook, quarantined, issued>>
      BY <1>4, Zenon DEF ApplyReplicationSnapshot
    <3>2. cursors' = [cursors EXCEPT ![n] =
                [o \in Node |-> Most(cursors[n][o], s.cursors[o])]]
      BY <1>4, Zenon DEF ApplyReplicationSnapshot
    <3>3. reflected' = [reflected EXCEPT ![n] =
                [o \in Node |-> reflected[n][o] \cup s.reflected[o]]]
      BY <1>4, Zenon DEF ApplyReplicationSnapshot, IInv, TypeOK
    <3>4. \E c : sync' = [sync EXCEPT ![n] = Advance(s, c)]
      BY <1>4, Zenon DEF ApplyReplicationSnapshot
    <3>5. rows' = [rows EXCEPT ![n] = MergedTables(rows[n], s.rows)]
      BY <3>1, Zenon DEF MergedTables
    <3> QED
      BY <3>1, <3>2, <3>3, <3>4, <3>5, Zenon DEF SnapshotMerged
  <2> HIDE DEF s
  <2>2. PICK c : sync' = [sync EXCEPT ![n] = Advance(s, c)]
    BY <2>1, Zenon
  <2>3. /\ Advance(s, c) \in SyncState
        /\ PassOK(n, Advance(s, c))
        /\ Advance(s, c).stage = "range"
    BY <1>1, AdvanceOK, Zenon
  <2>4. s = sync[n]
    BY Zenon DEF s
  <2> QED
    BY <1>1, <1>2, <2>1, <2>2, <2>3, <2>4, Zenon
<1> QED
  BY <1>3, <1>4, Zenon

\* Tables merge into tables.
LEMMA MergedTablesTyped ==
    ASSUME NEW t \in Tables, NEW in \in Tables
    PROVE  MergedTables(t, in) \in Tables
<1>1. ASSUME NEW i \in Notification
      PROVE  MergedTables(t, in)[i] \in Row \cup {NoRow}
  <2>1. t[i] \in Row \cup {NoRow} /\ in[i] \in Row \cup {NoRow}
    BY Zenon DEF Tables
  <2>2. CASE in[i] = NoRow
    BY <2>1, <2>2, Zenon DEF MergedTables
  <2>3. CASE in[i] # NoRow /\ t[i] = NoRow
    BY <2>1, <2>3, Zenon DEF MergedTables
  <2>4. CASE in[i] # NoRow /\ t[i] # NoRow
    <3>1. MergedTables(t, in)[i] = Merged(t[i], in[i])
      BY <2>4, Zenon DEF MergedTables
    <3> QED
      BY <2>1, <2>4, <3>1, MergedRow, Zenon
  <2> QED
    BY <2>2, <2>3, <2>4, Zenon
<1> QED
  BY <1>1, Zenon DEF Tables, MergedTables

\* The largest of two naturals covers both ranges.
LEMMA MostFacts ==
    ASSUME NEW a \in Nat, NEW b \in Nat
    PROVE  /\ Most(a, b) \in Nat /\ a <= Most(a, b) /\ b <= Most(a, b)
           /\ Most(a, b) \in {a, b}
           /\ (1 .. a) \cup (1 .. b) = 1 .. Most(a, b)
  BY DEF Most

\* A merged snapshot covers what either side covered.
LEMMA SnapshotOK ==
    ASSUME IInv, TypeOK', NEW n \in Node, NEW s \in SyncState,
           PassOK(n, s), s.stage = "snapshot", SnapshotMerged(n, s),
           \E z \in SyncState : /\ PassOK(n, z) /\ z.stage \notin {"page", "snapshot"}
                                /\ sync' = [sync EXCEPT ![n] = z]
    PROVE  IInv'
<1>1. /\ kept' = kept /\ issued' = issued
      /\ \A o \in Node : /\ cursors'[n][o] = Most(cursors[n][o], s.cursors[o])
                         /\ reflected'[n][o] = reflected[n][o] \cup s.reflected[o]
      /\ OnlyNode(n)
  BY DEF IInv, TypeOK, SnapshotMerged, OnlyNode
<1>2. \A o \in Node :
        /\ ReplicationCursor(n, o) \in Nat /\ cursors[n][o] \in Nat
        /\ High(Seqs(kept[n][o])) \in Nat
        /\ ReplicationCursor(n, o) = Most(cursors[n][o], High(Seqs(kept[n][o])))
        /\ ReplicationCursor(o, o) \in Nat
        /\ ReplicationCursor(n, o) <= ReplicationCursor(o, o)
  BY CursorFacts, ZenonT(30) DEF IInv, Copy
<1>3. \A o \in Node : /\ s.cursors[o] \in Nat
                      /\ s.reflected[o] = 1 .. s.cursors[o]
                      /\ s.cursors[o] <= ReplicationCursor(o, o)
  BY Zenon DEF PassOK, SyncState
<1>4. ASSUME NEW o \in Node
      PROVE  ReplicationCursor(n, o)' = Most(ReplicationCursor(n, o), s.cursors[o])
  <2>1. ReplicationCursor(n, o)' =
            Most(Most(cursors[n][o], s.cursors[o]), High(Seqs(kept[n][o])))
    BY <1>1, Zenon DEF ReplicationCursor
  <2> QED
    BY <1>2, <1>3, <2>1 DEF Most
<1>5. ReplicationCursor(n, n)' = ReplicationCursor(n, n)
  BY <1>2, <1>3, <1>4 DEF Most
<1>6. \A m \in Node : ReplicationCursor(m, m)' = ReplicationCursor(m, m)
  BY <1>1, <1>5, Zenon DEF ReplicationCursor, OnlyNode
<1>7. Grows
  BY <1>1, <1>2, <1>6 DEF Grows
<1>8. ASSUME NEW o \in Node
      PROVE  Copy(n, o)'
  <2>1. Copy(n, o)
    BY Zenon DEF IInv
  <2>2. reflected'[n][o] = 1 .. ReplicationCursor(n, o)'
    <3>1. reflected'[n][o] = (1 .. ReplicationCursor(n, o)) \cup (1 .. s.cursors[o])
      BY <1>1, <1>3, <2>1, Zenon DEF Copy
    <3>2. ReplicationCursor(n, o) \in Nat /\ s.cursors[o] \in Nat
      BY <1>2, <1>3, Zenon
    <3>3. (1 .. ReplicationCursor(n, o)) \cup (1 .. s.cursors[o]) =
            1 .. Most(ReplicationCursor(n, o), s.cursors[o])
      BY <3>2, MostFacts, Zenon
    <3> QED
      BY <1>4, <3>1, <3>3, Zenon
  <2>3. ReplicationCursor(n, o)' <= ReplicationCursor(o, o)'
    BY <1>2, <1>3, <1>4, <1>6, ZenonT(30) DEF Most
  <2>4. n # o => High(Seqs(kept'[n][o])) <= cursors'[n][o]
    <3>1. /\ cursors'[n][o] = Most(cursors[n][o], s.cursors[o])
          /\ kept'[n][o] = kept[n][o]
      BY <1>1, Zenon
    <3>2. /\ cursors[n][o] \in Nat /\ s.cursors[o] \in Nat
          /\ High(Seqs(kept[n][o])) \in Nat
      BY <1>2, <1>3, Zenon
    <3>3. Most(cursors[n][o], s.cursors[o]) \in Nat
          /\ cursors[n][o] <= Most(cursors[n][o], s.cursors[o])
      BY <3>2, MostFacts, Zenon
    <3>4. n # o => High(Seqs(kept[n][o])) <= cursors[n][o]
      BY <2>1, Zenon DEF Copy
    <3> QED BY <3>1, <3>2, <3>3, <3>4, Below, Zenon
  <2> QED
    BY <1>1, <2>1, <2>2, <2>3, <2>4, Zenon DEF Copy
<1>9. \A o \in Node : Log(o)'
  BY <1>1, <1>7, LogKept, Zenon
<1>10. PICK z \in SyncState : /\ PassOK(n, z) /\ z.stage \notin {"page", "snapshot"}
                              /\ sync' = [sync EXCEPT ![n] = z]
  BY Zenon
<1>11. PassOK(n, z)' /\ sync'[n] = z
  BY <1>7, <1>10, PassKept, ZenonT(30) DEF IInv, TypeOK
<1>12. Pass(n)'
  BY <1>11, Zenon DEF Pass
<1> QED
  BY <1>1, <1>7, <1>8, <1>9, <1>12, NodeStep, ZenonT(30)

-----------------------------------------------------------------------------
(* The inductive invariant *)

\* A local write: a row and the operation that announces it.
Written(n, op, row) ==
    /\ Appended(n, op)
    /\ row \in Row /\ row.state = op.state
    /\ rows' = [rows EXCEPT ![n][op.id] = row]
    /\ \/ op.kind = "created" /\ rows[n][op.id] = NoRow
       \/ op.kind = "updated" /\ Repost
       \/ /\ op.kind = "state" /\ rows[n][op.id] # NoRow
          /\ stateRank(rows[n][op.id].state) <= stateRank(op.state)
    /\ UNCHANGED <<now, hook, quarantined, prunes, stable>>

\* The record a write appends.
LEMMA NumberedIs ==
    ASSUME IInv, NEW n \in Node, NEW kind \in Kind, NEW i \in Notification,
           NEW s \in State, NEW c \in Content, NEW t \in Int,
           appendReplicationOperation(n, kind, i, s, c, t),
           UNCHANGED <<cursors, sync>>
    PROVE  \E op \in Operation : /\ Appended(n, op)
                                 /\ op.kind = kind /\ op.id = i /\ op.state = s
<1>1. PICK q \in Nat : q = ReplicationCursor(n, n) + 1
  BY CursorFacts DEF IInv
<1> DEFINE op == [seq |-> q, kind |-> kind, id |-> i, state |-> s, content |-> c,
                  at |-> t]
<1>2. /\ op \in Operation /\ op.seq = q /\ op.kind = kind /\ op.id = i /\ op.state = s
  BY Zenon DEF Operation
<1>3. /\ kept' = [kept EXCEPT ![n][n] = @ \cup {op}]
      /\ issued' = [issued EXCEPT ![n] = @ \cup {op}]
      /\ reflected' = [reflected EXCEPT ![n][n] = @ \cup {op.seq}]
  BY <1>1, Zenon DEF appendReplicationOperation, Numbered
<1> HIDE DEF op
<1> QED
  BY <1>1, <1>2, <1>3, Zenon DEF Appended

\* A producer's post writes a row and its operation.
LEMMA PostWrites ==
    ASSUME IInv, NEW n \in Node, NEW i \in Notification, NEW s \in PostState,
           NEW c \in Content, CreateFromWebhook(n, i, s, c)
    PROVE  \E op \in Operation, row \in Row : Written(n, op, row)
<1>1. UNCHANGED <<now, cursors, hook, quarantined, sync, prunes, stable>>
  BY Zenon DEF CreateFromWebhook
<1>2. s \in State
  BY ReplicationAssumptions, Zenon
<1>3. PICK t \in Int : t = now + Skew[n]
  BY ReplicationAssumptions DEF IInv, TypeOK
<1>4. rows[n][i] \in Row \cup {NoRow}
  BY ZenonT(30) DEF IInv, TypeOK, Tables
<1>5. CASE rows[n][i] = NoRow
  <2> DEFINE row == [state |-> s, content |-> c, created |-> t, updated |-> t]
  <2>1. /\ rows' = [rows EXCEPT ![n][i] = row]
        /\ appendReplicationOperation(n, "created", i, s, c, t)
    BY <1>3, <1>5, Zenon DEF CreateFromWebhook
  <2>2. row \in Row /\ row.state = s
    BY <1>2, Zenon DEF Row
  <2> HIDE DEF row
  <2>3. PICK op \in Operation : /\ Appended(n, op)
                                /\ op.kind = "created" /\ op.id = i /\ op.state = s
    BY <1>1, <1>2, <2>1, NumberedIs DEF Kind
  <2>4. Written(n, op, row)
    BY <1>1, <1>5, <2>1, <2>2, <2>3, Zenon DEF Written
  <2> QED
    BY <2>2, <2>4, Zenon
<1>6. CASE rows[n][i] # NoRow
  <2>1. PICK old \in Row : old = rows[n][i]
    BY <1>4, <1>6, Zenon
  <2>2. PICK u \in Int : u = Most(t, old.created + 1)
    BY DEF Most, Row
  <2>3. PICK st \in State : st = IF old.state = Resolved /\ s = Firing
                                 THEN s ELSE Later(s, old.state)
    BY <1>2, Ranks, Zenon DEF Row
  <2> DEFINE row == [state |-> st, content |-> c, created |-> old.created, updated |-> u]
  <2>4. /\ rows' = [rows EXCEPT ![n][i] = row]
        /\ appendReplicationOperation(n, "updated", i, st, c, u)
        /\ Repost
    BY <1>3, <1>6, <2>1, <2>2, <2>3, Zenon DEF CreateFromWebhook
  <2>5. row \in Row /\ row.state = st
    BY Zenon DEF Row
  <2> HIDE DEF row
  <2>6. PICK op \in Operation : /\ Appended(n, op)
                                /\ op.kind = "updated" /\ op.id = i /\ op.state = st
    BY <1>1, <2>4, NumberedIs DEF Kind
  <2>7. Written(n, op, row)
    BY <1>1, <2>4, <2>5, <2>6, Zenon DEF Written
  <2> QED
    BY <2>5, <2>7, Zenon
<1> QED
  BY <1>5, <1>6, Zenon

\* An operator's change writes a row in a later state and its operation.
LEMMA OperateWrites ==
    ASSUME IInv, NEW n \in Node, NEW i \in Notification,
           NEW s \in {Acknowledged, Resolved}, SetNotificationState(n, i, s)
    PROVE  \E op \in Operation, row \in Row : Written(n, op, row)
<1>1. UNCHANGED <<now, cursors, hook, quarantined, sync, prunes, stable>>
  BY Zenon DEF SetNotificationState
<1>2. s \in State
  BY Zenon DEF State
<1>3. PICK old \in Row : old = rows[n][i] /\ old # NoRow
  BY DEF IInv, TypeOK, Tables, SetNotificationState
<1>4. PICK t \in Int : t = Most(now + Skew[n], old.updated + 1)
  BY ReplicationAssumptions DEF IInv, TypeOK, Row, Most
<1>5. stateRank(old.state) <= stateRank(s)
  <2>1. \/ old.state \in {Received, Firing}
        \/ old.state = Acknowledged /\ s = Resolved
    BY <1>3, Zenon DEF SetNotificationState
  <2> QED
    BY <2>1 DEF stateRank, Received, Firing, Acknowledged, Resolved
<1> DEFINE row == [state |-> s, content |-> old.content, created |-> old.created,
                   updated |-> t]
<1>6. /\ rows' = [rows EXCEPT ![n][i] = row]
      /\ appendReplicationOperation(n, "state", i, s, old.content, t)
  BY <1>3, <1>4, Zenon DEF SetNotificationState
<1>7. row \in Row /\ row.state = s /\ old.content \in Content
  BY <1>2, Zenon DEF Row
<1> HIDE DEF row
<1>8. PICK op \in Operation : /\ Appended(n, op)
                              /\ op.kind = "state" /\ op.id = i /\ op.state = s
  BY <1>1, <1>2, <1>6, <1>7, NumberedIs DEF Kind
<1>9. Written(n, op, row)
  BY <1>1, <1>3, <1>5, <1>6, <1>7, <1>8, Zenon DEF Written
<1> QED
  BY <1>7, <1>9, Zenon

\* A local write keeps the types.
LEMMA WrittenTyped ==
    ASSUME IInv, NEW n \in Node, NEW op \in Operation, NEW row \in Row,
           Written(n, op, row)
    PROVE  TypeOK'
<1>1. op.id \in Notification /\ op.seq \in Nat
  BY Zenon DEF Operation
<1>2. rows' \in [Node -> Tables]
  BY <1>1, ZenonT(30) DEF IInv, TypeOK, Tables, Written
<1>3. /\ kept' \in [Node -> [Node -> SUBSET Operation]]
      /\ issued' \in [Node -> SUBSET Operation]
      /\ reflected' \in [Node -> [Node -> SUBSET Nat]]
  <2>1. /\ kept \in [Node -> [Node -> SUBSET Operation]]
        /\ issued \in [Node -> SUBSET Operation]
        /\ reflected \in [Node -> [Node -> SUBSET Nat]]
    BY Zenon DEF IInv, TypeOK
  <2>2. /\ kept' = [kept EXCEPT ![n][n] = kept[n][n] \cup {op}]
        /\ issued' = [issued EXCEPT ![n] = issued[n] \cup {op}]
        /\ reflected' = [reflected EXCEPT ![n][n] = reflected[n][n] \cup {op.seq}]
    BY Zenon DEF Written, Appended
  <2>3. /\ kept[n][n] \cup {op} \in SUBSET Operation
        /\ issued[n] \cup {op} \in SUBSET Operation
        /\ reflected[n][n] \cup {op.seq} \in SUBSET Nat
    BY <1>1, <2>1, ZenonT(30)
  <2> QED BY <2>1, <2>2, <2>3, EntryTyped, Zenon
<1> QED
  BY <1>2, <1>3, Zenon DEF IInv, TypeOK, Written, Appended

\* So does a page, as far as it is committed.
LEMMA CommittedTyped ==
    ASSUME IInv, NEW n \in Node, NEW o \in Node, NEW page \in Seq(Operation),
           NEW base \in Nat, NEW k \in Nat, Committed(n, o, page, base, k)
    PROVE  /\ rows' \in [Node -> Tables]
           /\ kept' \in [Node -> [Node -> SUBSET Operation]]
           /\ cursors' \in [Node -> [Node -> Nat]]
           /\ reflected' \in [Node -> [Node -> SUBSET Nat]]
<1>1. k \in 0 .. Len(page)
  BY Zenon DEF Committed
<1>2. rows[n] \in Tables
  BY Zenon DEF IInv, TypeOK
<1>3. After(rows[n], page)[k] \in Tables
  BY <1>1, <1>2, AfterTables, Zenon
<1>4. {page[j] : j \in 1 .. k} \subseteq Operation /\ base + k \in Nat
      /\ ((base + 1) .. (base + k)) \subseteq Nat
  BY <1>1
<1> DEFINE t == After(rows[n], page)[k]
           new == {page[j] : j \in 1 .. k}
<1>5. /\ rows' = [rows EXCEPT ![n] = t]
      /\ kept' = [kept EXCEPT ![n][o] = @ \cup new]
      /\ cursors' = [cursors EXCEPT ![n][o] = base + k]
      /\ reflected' = [reflected EXCEPT ![n][o] = @ \cup ((base + 1) .. (base + k))]
  BY Zenon DEF Committed
<1> HIDE DEF t, new
<1> QED
  BY <1>3, <1>4, <1>5, ZenonT(30) DEF IInv, TypeOK, t, new

\* And a merged snapshot.
LEMMA SnapshotTyped ==
    ASSUME IInv, NEW n \in Node, NEW s \in SyncState, PassOK(n, s),
           s.stage = "snapshot", SnapshotMerged(n, s)
    PROVE  /\ rows' \in [Node -> Tables]
           /\ cursors' \in [Node -> [Node -> Nat]]
           /\ reflected' \in [Node -> [Node -> SUBSET Nat]]
<1>1. s.rows \in Tables /\ rows[n] \in Tables
  BY Zenon DEF PassOK, IInv, TypeOK
<1>2. MergedTables(rows[n], s.rows) \in Tables
  BY <1>1, MergedTablesTyped, Zenon
<1>3. PICK c \in [Node -> Nat] : c = [o \in Node |-> Most(cursors[n][o], s.cursors[o])]
  <2>1. \A o \in Node : cursors[n][o] \in Nat /\ s.cursors[o] \in Nat
    BY DEF IInv, TypeOK, SyncState
  <2>2. \A o \in Node : Most(cursors[n][o], s.cursors[o]) \in Nat
    BY <2>1, Zenon DEF Most
  <2> QED
    BY <2>2, Zenon
<1>4. PICK f \in [Node -> SUBSET Nat] :
        f = [o \in Node |-> reflected[n][o] \cup s.reflected[o]]
  <2>1. \A o \in Node : reflected[n][o] \subseteq Nat /\ s.reflected[o] \subseteq Nat
    <3>1. s.reflected \in [Node -> SUBSET Nat]
      BY Zenon DEF SyncState
    <3>2. reflected[n] \in [Node -> SUBSET Nat]
      BY Zenon DEF IInv, TypeOK
    <3> QED
      BY <3>1, <3>2, Zenon
  <2> DEFINE g == [o \in Node |-> reflected[n][o] \cup s.reflected[o]]
  <2>2. g \in [Node -> SUBSET Nat]
    BY <2>1, Zenon
  <2> HIDE DEF g
  <2>3. \E f \in [Node -> SUBSET Nat] : f = g
    BY <2>2, Zenon
  <2> QED
    BY <2>3, Zenon DEF g
<1>5. /\ rows' = [rows EXCEPT ![n] = MergedTables(rows[n], s.rows)]
      /\ cursors' = [cursors EXCEPT ![n] = c]
      /\ reflected' = [reflected EXCEPT ![n] = f]
  BY <1>3, <1>4, Zenon DEF SnapshotMerged
<1> QED
  BY <1>2, <1>5, Zenon DEF IInv, TypeOK

\* The initial state satisfies the invariant.
LEMMA InitInv == Init => IInv
<1> SUFFICES ASSUME Init PROVE IInv
  BY ZenonT(30)
<1>1. Idle \in SyncState /\ Idle.stage = "idle" /\ \A o \in Node : Idle.high[o] = 0
  BY IdleTyped, Zenon
<1>2. TypeOK
  BY <1>1, Zenon DEF Init, TypeOK, Tables
<1>3. \A n, o \in Node : kept[n][o] = {} /\ cursors[n][o] = 0 /\ reflected[n][o] = {}
                         /\ issued[o] = {} /\ sync[n] = Idle
  BY Zenon DEF Init
<1>4. Seqs({}) = {} /\ High({}) = 0 /\ Topped({})
  BY Zenon DEF Seqs, High, Topped
<1>5. \A n, o \in Node : ReplicationCursor(n, o) = 0
  BY <1>3, <1>4, Zenon DEF ReplicationCursor, Most
<1>6. \A o \in Node : Log(o)
  BY <1>3, FS_EmptySet, ZenonT(30) DEF Log
<1>7. ASSUME NEW n \in Node, NEW o \in Node
      PROVE  Copy(n, o)
  <2>1. Seqs(kept[n][o]) = {} /\ kept[n][o] = {} /\ reflected[n][o] = {}
    BY <1>3, <1>4, Zenon
  <2>2. {} = 1 .. 0 /\ 0 <= 0
    BY NoneYet, Zenon
  <2>3. ReplicationCursor(n, o) = 0 /\ ReplicationCursor(o, o) = 0 /\ cursors[n][o] = 0
    BY <1>3, <1>5, Zenon
  <2> QED
    BY <1>4, <2>1, <2>2, <2>3, Zenon DEF Copy
<1>8. \A n \in Node : Pass(n)
  <2>1. \A o \in Node : Idle.high[o] <= ReplicationCursor(o, o)
    BY <1>1, <1>5, NoneYet, Zenon
  <2> QED BY <1>1, <1>3, <2>1, ZenonT(30) DEF Pass, PassOK
<1> QED
  BY <1>2, <1>6, <1>7, <1>8, Zenon DEF IInv

\* A step that leaves the logs, the cursors and the passes alone.
LEMMA QuietStep ==
    ASSUME IInv, TypeOK', UNCHANGED <<kept, cursors, issued, reflected, sync>>
    PROVE  IInv'
<1>1. \A n, o \in Node : ReplicationCursor(n, o)' = ReplicationCursor(n, o)
  BY Zenon DEF ReplicationCursor
<1>2. ASSUME NEW o \in Node
      PROVE  Log(o)'
  <2>1. Log(o) /\ issued'[o] = issued[o] /\ ReplicationCursor(o, o)' = ReplicationCursor(o, o)
    BY <1>1, Zenon DEF IInv
  <2>2. /\ IsFiniteSet(issued'[o])
        /\ \A p, q \in issued'[o] : p.seq = q.seq => p = q
        /\ \A op \in issued'[o] : op.seq <= ReplicationCursor(o, o)'
    BY <2>1, Zenon DEF Log
  <2> QED BY <2>2, Zenon DEF Log
<1>3. \A n, o \in Node : Copy(n, o)'
  BY <1>1, ZenonT(30) DEF IInv, Copy
<1>4. ASSUME NEW n \in Node
      PROVE  Pass(n)'
  <2>1. Grows
    <3>1. \A o \in Node : TypeOK /\ Copy(o, o)
      BY Zenon DEF IInv
    <3>2. \A o \in Node : /\ ReplicationCursor(o, o) \in Nat
                          /\ ReplicationCursor(o, o) <= ReplicationCursor(o, o)
      BY <3>1, CursorFacts, NoLess, Zenon
    <3> QED BY <1>1, <3>2, Zenon DEF Grows
  <2>2. sync[n] \in SyncState /\ PassOK(n, sync[n]) /\ cursors' = cursors /\ sync'[n] = sync[n]
    BY Zenon DEF IInv, TypeOK, Pass
  <2>3. PICK z \in SyncState : z = sync[n]
    BY <2>2, Zenon
  <2>4. PassOK(n, z)'
    BY <2>1, <2>2, <2>3, PassKept, Zenon
  <2> QED BY <2>2, <2>3, <2>4, Zenon DEF Pass
<1> QED
  BY <1>2, <1>3, <1>4, Zenon DEF IInv

\* A step that replaces the pass of one node keeps the types of the rest.
LEMMA SyncTyped ==
    ASSUME IInv, NEW n \in Node,
           \E s \in SyncState : sync' = [sync EXCEPT ![n] = s]
    PROVE  sync' \in [Node -> SyncState]
  BY Zenon DEF IInv, TypeOK

\* A step of the Syncer keeps the invariant.
LEMMA SyncStepInv ==
    ASSUME IInv, NEW n \in Node, SyncStep(n) \/ AbandonPass(n)
    PROVE  IInv'
<1>1. ASSUME NEW z \in SyncState, PassOK(n, z), sync' = [sync EXCEPT ![n] = z],
             UNCHANGED <<now, rows, kept, cursors, quarantined, prunes, stable, issued,
                         reflected>>,
             hook' \in [Node -> {"none", "placeholder", "real"}]
      PROVE  IInv'
  <2>1. sync' \in [Node -> SyncState]
    BY <1>1, SyncTyped, Zenon
  <2>2. TypeOK'
    BY <1>1, <2>1, Zenon DEF IInv, TypeOK
  <2> QED
    BY <1>1, <2>2, SyncOnly, Zenon
<1>2. hook \in [Node -> {"none", "placeholder", "real"}]
  BY Zenon DEF IInv, TypeOK
<1>3. CASE \E p \in Node : GetStatus(n, p)
  <2>1. PICK p \in Node : GetStatus(n, p)
    BY <1>3, Zenon
  <2>2. UNCHANGED <<now, rows, kept, cursors, hook, quarantined, prunes, stable, issued,
                    reflected>>
    BY <2>1, Zenon DEF GetStatus, db, history
  <2> QED
    BY <1>1, <1>2, <2>1, <2>2, GetStatusOK, Zenon
<1>4. CASE \E o \in Node : GetOperations(n, o)
  <2>1. PICK o \in Node : GetOperations(n, o)
    BY <1>4, Zenon
  <2>2. UNCHANGED <<now, rows, kept, cursors, hook, quarantined, prunes, stable, issued,
                    reflected>>
    BY <2>1, Zenon DEF GetOperations, db, history
  <2> QED
    BY <1>1, <1>2, <2>1, <2>2, GetOperationsOK, Zenon
<1>5. CASE BuildReplicationSnapshot(n)
  <2>1. UNCHANGED <<now, rows, kept, cursors, hook, quarantined, prunes, stable, issued,
                    reflected>>
    BY <1>5, Zenon DEF BuildReplicationSnapshot, db, history
  <2> QED
    BY <1>1, <1>2, <1>5, <2>1, BuildSnapshotOK, Zenon
<1>6. CASE FinishPass(n)
  <2>1. /\ sync' = [sync EXCEPT ![n] = Idle]
        /\ hook' \in [Node -> {"none", "placeholder", "real"}]
        /\ UNCHANGED <<now, rows, kept, cursors, quarantined, prunes, stable, issued,
                       reflected>>
    BY <1>2, <1>6, Zenon DEF FinishPass, history
  <2> QED
    BY <1>1, <2>1, IdleOK, Zenon
<1>7. CASE AbandonPass(n)
  <2>1. /\ sync' = [sync EXCEPT ![n] = Idle]
        /\ UNCHANGED <<now, rows, kept, cursors, hook, quarantined, prunes, stable,
                       issued, reflected>>
    BY <1>7, Zenon DEF AbandonPass, db, history
  <2> QED
    BY <1>1, <1>2, <2>1, IdleOK, Zenon
<1>8. CASE ApplyReplicationOperations(n)
  <2>1. /\ UNCHANGED <<now, prunes, stable, issued>>
        /\ quarantined' \in [Node -> SUBSET (Node \X Nat)]
        /\ hook' \in [Node -> {"none", "placeholder", "real"}]
        /\ \E z \in SyncState : /\ PassOK(n, z) /\ z.stage \notin {"page", "snapshot"}
                                /\ sync' = [sync EXCEPT ![n] = z]
        /\ \/ UNCHANGED <<rows, kept, cursors, reflected>>
           \/ \E o \in Node, page \in Seq(Operation), base, k \in Nat :
                 PageAt(n, o, page, base) /\ Committed(n, o, page, base, k)
    BY <1>8, ApplyCases, Zenon
  <2>2. sync' \in [Node -> SyncState]
    BY <2>1, SyncTyped, Zenon
  <2>3. CASE UNCHANGED <<rows, kept, cursors, reflected>>
    <3>1. TypeOK'
      BY <2>1, <2>2, <2>3, Zenon DEF IInv, TypeOK
    <3> QED
      BY <2>1, <2>3, <3>1, SyncOnly, Zenon
  <2>4. CASE \E o \in Node, page \in Seq(Operation), base, k \in Nat :
                PageAt(n, o, page, base) /\ Committed(n, o, page, base, k)
    <3>1. PICK o \in Node, page \in Seq(Operation), base \in Nat, k \in Nat :
                PageAt(n, o, page, base) /\ Committed(n, o, page, base, k)
      BY <2>4, Zenon
    <3>2. TypeOK'
      BY <2>1, <2>2, <3>1, CommittedTyped, Zenon DEF IInv, TypeOK
    <3> QED
      BY <2>1, <3>1, <3>2, CommittedOK, Zenon
  <2> QED
    BY <2>1, <2>3, <2>4, Zenon
<1>9. CASE ApplyReplicationSnapshot(n)
  <2>1. /\ UNCHANGED <<now, prunes, stable, hook, quarantined, kept, issued>>
        /\ \E z \in SyncState : /\ PassOK(n, z) /\ z.stage \notin {"page", "snapshot"}
                                /\ sync' = [sync EXCEPT ![n] = z]
        /\ \/ UNCHANGED <<rows, cursors, reflected>>
           \/ \E s \in SyncState : /\ PassOK(n, s) /\ s.stage = "snapshot"
                                   /\ SnapshotMerged(n, s)
    BY <1>9, SnapshotCases, Zenon
  <2>2. sync' \in [Node -> SyncState]
    BY <2>1, SyncTyped, Zenon
  <2>3. CASE UNCHANGED <<rows, cursors, reflected>>
    BY <1>1, <1>2, <2>1, <2>3, Zenon
  <2>4. CASE \E s \in SyncState : /\ PassOK(n, s) /\ s.stage = "snapshot"
                                  /\ SnapshotMerged(n, s)
    <3>1. PICK s \in SyncState : /\ PassOK(n, s) /\ s.stage = "snapshot"
                                 /\ SnapshotMerged(n, s)
      BY <2>4, Zenon
    <3>2. TypeOK'
      BY <2>1, <2>2, <3>1, SnapshotTyped, Zenon DEF IInv, TypeOK
    <3> QED
      BY <2>1, <3>1, <3>2, SnapshotOK, Zenon
  <2> QED
    BY <2>1, <2>3, <2>4, Zenon
<1> QED
  BY <1>3, <1>4, <1>5, <1>6, <1>7, <1>8, <1>9, Zenon DEF SyncStep

\* Every step keeps the invariant.
LEMMA StepInv == IInv /\ [Next]_vars => IInv'
<1> SUFFICES ASSUME IInv, [Next]_vars PROVE IInv'
  BY Zenon
<1>1. CASE Tick \/ Stabilise \/ UNCHANGED vars
  <2>1. UNCHANGED <<rows, kept, cursors, hook, quarantined, sync, prunes, issued,
                    reflected>>
    BY <1>1, Zenon DEF Tick, Stabilise, vars, db, history
  <2>2. now' \in {now, now + 1} /\ stable' \in {stable, TRUE}
    BY <1>1, Zenon DEF Tick, Stabilise, vars
  <2>3. now' \in Nat
    BY <2>2 DEF IInv, TypeOK
  <2>4. stable' \in BOOLEAN
    BY <2>2, Zenon DEF IInv, TypeOK
  <2>5. TypeOK'
    BY <2>1, <2>3, <2>4, Zenon DEF IInv, TypeOK
  <2> QED
    BY <2>1, <2>5, QuietStep, Zenon
<1>2. ASSUME NEW n \in Node, Post(n)
      PROVE  IInv'
  BY <1>2, PostWrites, WrittenTyped, AppendedOK, Zenon DEF Post, Written
<1>3. ASSUME NEW n \in Node, Operate(n)
      PROVE  IInv'
  BY <1>3, OperateWrites, WrittenTyped, AppendedOK, ZenonT(30) DEF Operate, Written
<1>4. ASSUME NEW n \in Node, Prune(n)
      PROVE  IInv'
  <2>1. PICK o \in Node, t \in Nat : PruneReplicationOperations(n, o, t)
    BY <1>4, ReplicationAssumptions, SMTT(30) DEF Prune
  <2>2. /\ kept' \in [Node -> [Node -> SUBSET Operation]]
        /\ prunes' \in Nat
        /\ UNCHANGED <<now, rows, hook, quarantined, sync, stable, issued, reflected>>
    BY <2>1 DEF PruneReplicationOperations, IInv, TypeOK, history
  <2>3. cursors' \in [Node -> [Node -> Nat]]
    <3>1. cursors' = [cursors EXCEPT ![n][o] = Most(cursors[n][o], t)]
      BY <2>1, Zenon DEF PruneReplicationOperations
    <3>2. Most(cursors[n][o], t) \in Nat
      BY ZenonT(30) DEF Most, IInv, TypeOK
    <3> QED
      BY <3>1, <3>2, Zenon DEF IInv, TypeOK
  <2>4. TypeOK'
    BY <2>2, <2>3, Zenon DEF IInv, TypeOK
  <2> QED
    BY <2>1, <2>4, PruneOK, Zenon
<1> QED
  BY <1>1, <1>2, <1>3, <1>4, SyncStepInv, Zenon DEF Next

\* The invariant always holds.
THEOREM Inductive == Spec => []IInv
  BY InitInv, StepInv, PTL DEF Spec

\* A cursor covers exactly the operations whose effects are in the tables,
\* and a page starts right after its cursor row, whatever is pruned, lost or
\* abandoned on the way: internal/store/replication.go and
\* replication_snapshot.go.
THEOREM CursorsAreExact == Spec => []CursorsCoverEffects
<1>1. IInv => CursorsCoverEffects
  BY Zenon DEF IInv, Copy, Pass, PassOK, CursorsCoverEffects
<1> QED
  BY <1>1, Inductive, PTL

\* No sequence number is used twice and every retained envelope is the one its
\* origin issued, so ApplyReplicationOperations meets no collision.
THEOREM EnvelopesAlwaysAgree == Spec => []EnvelopesAgree
<1>1. IInv => EnvelopesAgree
  BY Zenon DEF IInv, Log, Copy, EnvelopesAgree
<1> QED
  BY <1>1, Inductive, PTL

-----------------------------------------------------------------------------
(* The state of a notification is the join of the operations applied *)

\* One more operation, and a row whose state is the later one.
LEMMA ShowsMore ==
    ASSUME NEW table \in Tables, NEW ops, ops \subseteq Operation, Shows(table, ops),
           NEW op \in Operation, NEW row \in Row,
           table[op.id] = NoRow => row.state = op.state,
           table[op.id] # NoRow =>
              /\ row.state \in {table[op.id].state, op.state}
              /\ stateRank(table[op.id].state) <= stateRank(row.state)
              /\ stateRank(op.state) <= stateRank(row.state)
    PROVE  Shows([table EXCEPT ![op.id] = row], ops \cup {op})
<1> DEFINE new == [table EXCEPT ![op.id] = row]
           mine(i) == {p \in ops : p.id = i}
           more(i) == {p \in ops \cup {op} : p.id = i}
<1>1. op.id \in Notification /\ op.state \in State /\ row.state \in State
  BY Zenon DEF Operation, Row
<1>2. \A i \in Notification : new[i] = IF i = op.id THEN row ELSE table[i]
  BY Zenon DEF Tables
<1>3. ASSUME NEW i \in Notification
      PROVE  /\ new[i] = NoRow <=> more(i) = {}
             /\ new[i] # NoRow =>
                  /\ \A p \in more(i) : stateRank(p.state) <= stateRank(new[i].state)
                  /\ \E p \in more(i) : p.state = new[i].state
  <2>1. /\ table[i] = NoRow <=> mine(i) = {}
        /\ table[i] # NoRow =>
             /\ \A p \in mine(i) : stateRank(p.state) <= stateRank(table[i].state)
             /\ \E p \in mine(i) : p.state = table[i].state
    BY Zenon DEF Shows
  <2>2. CASE i # op.id
    <3>1. more(i) = mine(i) /\ new[i] = table[i]
      BY <1>2, <2>2, Zenon
    <3> QED
      BY <2>1, <3>1, Zenon
  <2>3. CASE i = op.id
    <3>1. more(i) = mine(i) \cup {op} /\ new[i] = row /\ row # NoRow
      BY <1>2, <2>3, NoRowAssumption, Zenon
    <3>2. \A p \in mine(i) : p.state \in State
      BY Zenon DEF Operation
    <3>3. stateRank(op.state) \in Nat /\ stateRank(row.state) \in Nat
      BY <1>1, Ranks, Zenon
    <3>4. CASE table[i] = NoRow
      <4>1. mine(i) = {} /\ row.state = op.state
        BY <2>1, <2>3, <3>4, Zenon
      <4> QED
        BY <3>1, <3>3, <4>1
    <3>5. CASE table[i] # NoRow
      <4>1. table[i].state \in State
        BY <3>5, Zenon DEF Tables, Row
      <4>2. /\ row.state \in {table[i].state, op.state}
            /\ stateRank(table[i].state) <= stateRank(row.state)
            /\ stateRank(op.state) <= stateRank(row.state)
        BY <2>3, <3>5, Zenon
      <4>3. \A p \in mine(i) : stateRank(p.state) <= stateRank(row.state)
        <5>1. \A p \in mine(i) : stateRank(p.state) \in Nat
          BY <3>2, Ranks, Zenon
        <5>2. stateRank(table[i].state) \in Nat
          BY <4>1, Ranks, Zenon
        <5> QED
          BY <2>1, <3>3, <3>5, <4>2, <5>1, <5>2, SMTT(30)
      <4>4. \E p \in mine(i) \cup {op} : p.state = row.state
        BY <2>1, <3>5, <4>2, Zenon
      <4> QED
        BY <3>1, <4>2, <4>3, <4>4, Zenon
    <3> QED
      BY <3>4, <3>5, Zenon
  <2> QED
    BY <2>2, <2>3, Zenon
<1> QED
  BY <1>3, Zenon DEF Shows

\* Tables that show two sets of operations merge into one that shows both.
LEMMA ShowsMerged ==
    ASSUME NEW t \in Tables, NEW in \in Tables, NEW S, NEW R,
           S \subseteq Operation, R \subseteq Operation, Shows(t, S), Shows(in, R)
    PROVE  Shows(MergedTables(t, in), S \cup R)
<1> DEFINE new == MergedTables(t, in)
           mine(i) == {p \in S : p.id = i}
           his(i) == {p \in R : p.id = i}
           both(i) == {p \in S \cup R : p.id = i}
<1>1. ASSUME NEW i \in Notification
      PROVE  /\ new[i] = NoRow <=> both(i) = {}
             /\ new[i] # NoRow =>
                  /\ \A p \in both(i) : stateRank(p.state) <= stateRank(new[i].state)
                  /\ \E p \in both(i) : p.state = new[i].state
  <2>1. both(i) = mine(i) \cup his(i)
    BY Zenon
  <2>2. /\ t[i] = NoRow <=> mine(i) = {}
        /\ t[i] # NoRow =>
             /\ \A p \in mine(i) : stateRank(p.state) <= stateRank(t[i].state)
             /\ \E p \in mine(i) : p.state = t[i].state
    BY Zenon DEF Shows
  <2>3. /\ in[i] = NoRow <=> his(i) = {}
        /\ in[i] # NoRow =>
             /\ \A p \in his(i) : stateRank(p.state) <= stateRank(in[i].state)
             /\ \E p \in his(i) : p.state = in[i].state
    BY Zenon DEF Shows
  <2>4. \A p \in mine(i) \cup his(i) : stateRank(p.state) \in Nat
    BY Ranks, Zenon DEF Operation
  <2> HIDE DEF mine, his, both
  <2>5. CASE in[i] = NoRow
    <3>1. new[i] = t[i]
      BY <2>5, Zenon DEF MergedTables
    <3> QED
      BY <2>1, <2>2, <2>3, <2>5, <3>1, Zenon
  <2>6. CASE in[i] # NoRow /\ t[i] = NoRow
    <3>1. new[i] = in[i]
      BY <2>6, Zenon DEF MergedTables
    <3> QED
      BY <2>1, <2>2, <2>3, <2>6, <3>1, Zenon
  <2>7. CASE in[i] # NoRow /\ t[i] # NoRow
    <3>1. new[i] = Merged(t[i], in[i])
      BY <2>7, Zenon DEF MergedTables
    <3>2. t[i] \in Row /\ in[i] \in Row
      BY <2>7, Zenon DEF Tables
    <3>3. new[i] \in Row /\ new[i].state = Later(t[i].state, in[i].state)
      BY <3>1, <3>2, MergedRow, Zenon
    <3>4. t[i].state \in State /\ in[i].state \in State
      BY <3>2, Zenon DEF Row
    <3> DEFINE z == new[i].state
    <3>5. /\ z \in {t[i].state, in[i].state}
          /\ stateRank(t[i].state) <= stateRank(z)
          /\ stateRank(in[i].state) <= stateRank(z)
          /\ stateRank(z) \in Nat
          /\ stateRank(t[i].state) \in Nat /\ stateRank(in[i].state) \in Nat
      BY <3>3, <3>4, Ranks, Zenon
    <3>6. new[i] # NoRow
      BY <3>3, NoRowAssumption, ZenonT(30)
    <3> HIDE DEF new
    <3>7. \A p \in both(i) : stateRank(p.state) <= stateRank(z)
      <4> SUFFICES ASSUME NEW p \in mine(i) \cup his(i)
                   PROVE  stateRank(p.state) <= stateRank(z)
        BY <2>1, Zenon
      <4>1. \/ stateRank(p.state) <= stateRank(t[i].state)
            \/ stateRank(p.state) <= stateRank(in[i].state)
        BY <2>2, <2>3, <2>7, Zenon
      <4> QED BY <2>4, <3>5, <4>1, Below, Zenon
    <3>8. \E p \in both(i) : p.state = z
      BY <2>1, <2>2, <2>3, <2>7, <3>5, Zenon
    <3>9. both(i) # {}
      BY <3>8, Zenon
    <3> QED
      BY <3>6, <3>7, <3>8, <3>9, Zenon
  <2> QED
    BY <2>5, <2>6, <2>7, Zenon
<1> QED
  BY <1>1, Zenon DEF Shows

\* The first k operations of a page.
FirstOf(page, k) == {page[j] : j \in 1 .. k}

\* Applying a page operation by operation, none of them an "updated".
LEMMA ShowsPage ==
    ASSUME NEW tables \in Tables, NEW S, S \subseteq Operation, Shows(tables, S),
           NEW page \in Seq(Operation), NEW k \in 0 .. Len(page),
           \A j \in 1 .. k : /\ page[j].kind # "updated"
                             /\ Applicable(page[j],
                                           After(tables, page)[j - 1][page[j].id])
    PROVE  Shows(After(tables, page)[k], S \cup FirstOf(page, k))
<1> DEFINE A == After(tables, page)
           upTo(m) == S \cup FirstOf(page, m)
           T == {m \in 0 .. k : ~ Shows(A[m], upTo(m))}
<1>1. /\ Len(page) \in Nat
      /\ A[0] = tables
      /\ \A m \in 1 .. Len(page) : A[m] = Applied(A[m - 1], page[m])
      /\ \A m \in 0 .. Len(page) : A[m] \in Tables
  <2>1. Len(page) \in Nat
    BY SMTT(30)
  <2>2. A = [m \in 0 .. Len(page) |-> IF m = 0 THEN tables ELSE Applied(A[m - 1], page[m])]
    BY ONLY <2>1, AfterUnfolds, SMTT(30)
  <2>3. \A m \in 0 .. Len(page) : A[m] \in Tables
    BY AfterTables, Zenon
  <2> HIDE DEF A
  <2>4. A[0] = tables
    BY <2>1, <2>2, SMTT(30)
  <2>5. \A m \in 1 .. Len(page) : A[m] = Applied(A[m - 1], page[m])
    BY <2>1, <2>2, SMTT(30)
  <2> QED
    BY <2>1, <2>3, <2>4, <2>5, ZenonT(30)
<1>2. k \in Nat /\ k <= Len(page)
  BY <1>1
<1>3. \A j \in 1 .. k : page[j].kind # "updated" /\ Applicable(page[j], A[j - 1][page[j].id])
  BY Zenon
<1> HIDE DEF A
<1> SUFFICES ASSUME T # {} PROVE FALSE
  <2>1. k \in 0 .. k
    BY <1>2
  <2>2. T = {} => Shows(A[k], upTo(k))
    BY <2>1, Zenon
  <2> QED
    BY <2>2, Zenon DEF A
<1>4. PICK m \in T : \A y \in T : m <= y
  <2>1. T \subseteq Nat
    BY <1>2
  <2> HIDE DEF T
  <2> QED
    BY <2>1, LeastNat, Zenon
<1>5. m # 0
  <2>1. upTo(0) = S
    BY SMTT(30) DEF FirstOf
  <2> QED
    BY <1>1, <1>4, <2>1, ZenonT(30)
<1>6. m \in 1 .. k /\ m \in 1 .. Len(page) /\ m - 1 \in 0 .. k /\ m - 1 \in 0 .. Len(page)
  BY <1>2, <1>4, <1>5
<1>7. Shows(A[m - 1], upTo(m - 1))
  <2>1. m \in Nat /\ ~ (m <= m - 1)
    BY <1>2, <1>4
  <2>2. m - 1 \notin T
    BY <1>4, <2>1, Zenon
  <2> QED
    BY <1>6, <2>2, Zenon
<1>8. PICK t \in Tables : t = A[m - 1]
  BY <1>1, <1>6, Zenon
<1>9. PICK op \in Operation : op = page[m]
  BY <1>6
<1>10. op.kind # "updated" /\ Applicable(op, t[op.id]) /\ t[op.id] \in Row \cup {NoRow}
       /\ op.state \in State
  BY <1>3, <1>6, <1>8, <1>9, ZenonT(30) DEF Tables, Operation
<1>11. PICK row \in Row : row = applyReplicationEffect(op, t[op.id])
  BY <1>10, EffectRow, Zenon
<1>12. A[m] = [t EXCEPT ![op.id] = row]
  BY <1>1, <1>6, <1>8, <1>9, <1>10, <1>11, Zenon DEF Applied
<1>13. upTo(m) = upTo(m - 1) \cup {op}
  <2>1. 1 .. m = (1 .. (m - 1)) \cup {m}
    BY <1>2, <1>6, SMTT(30)
  <2> QED
    BY <1>9, <2>1, Zenon DEF FirstOf
<1>14. upTo(m - 1) \subseteq Operation
  BY <1>2, <1>6 DEF FirstOf
<1>15. t[op.id] = NoRow => row.state = op.state
  BY <1>10, <1>11, EffectRow, Zenon
<1>16. t[op.id] # NoRow =>
          /\ row.state \in {t[op.id].state, op.state}
          /\ stateRank(t[op.id].state) <= stateRank(row.state)
          /\ stateRank(op.state) <= stateRank(row.state)
  <2>1. SUFFICES ASSUME t[op.id] # NoRow
                 PROVE  /\ row.state \in {t[op.id].state, op.state}
                        /\ stateRank(t[op.id].state) <= stateRank(row.state)
                        /\ stateRank(op.state) <= stateRank(row.state)
    BY Zenon
  <2>2. row.state = Later(t[op.id].state, op.state)
    BY <1>10, <1>11, <2>1, EffectRow, Zenon
  <2>3. t[op.id].state \in State
    BY <1>10, <2>1, Zenon DEF Row
  <2> QED
    BY <1>10, <2>2, <2>3, Ranks, Zenon
<1>17. Shows(t, upTo(m - 1))
  BY <1>7, <1>8, Zenon
<1> HIDE DEF upTo
<1>18. Shows([t EXCEPT ![op.id] = row], upTo(m - 1) \cup {op})
  BY <1>14, <1>15, <1>16, <1>17, ShowsMore, Zenon
<1>19. Shows(A[m], upTo(m))
  BY <1>12, <1>13, <1>18, Zenon
<1> QED
  BY <1>4, <1>19, Zenon

\* Reflected sequences that no origin has gone beyond.
Bounded(refl) ==
    \A o \in Node : \E c \in Nat : refl[o] = 1 .. c /\ c <= ReplicationCursor(o, o)

\* The sequences reflected on a node or in a snapshot are so bounded.
LEMMA ReflectedBounded ==
    ASSUME IInv, NEW n \in Node
    PROVE  /\ Bounded(reflected[n])
           /\ sync[n].stage = "snapshot" => Bounded(sync[n].reflected)
<1>1. \A o \in Node : ReplicationCursor(n, o) \in Nat
  BY CursorFacts, Zenon DEF IInv
<1>2. Bounded(reflected[n])
  BY <1>1, ZenonT(30) DEF Bounded, IInv, Copy
<1>3. sync[n].stage = "snapshot" => Bounded(sync[n].reflected)
  BY SMTT(30) DEF Bounded, IInv, TypeOK, SyncState, Pass, PassOK
<1> QED
  BY <1>2, <1>3, Zenon

\* A new operation is seen by nobody else.
LEMMA SeenElsewhere ==
    ASSUME IInv, NEW n \in Node, NEW op, Appended(n, op), NEW refl, Bounded(refl)
    PROVE  SeenIn(issued', refl) = SeenIn(issued, refl)
<1>1. ReplicationCursor(n, n) \in Nat /\ op.seq = ReplicationCursor(n, n) + 1
  BY CursorFacts, Zenon DEF IInv, Appended
<1>2. op.seq \notin refl[n]
  BY <1>1 DEF Bounded
<1>3. \A o \in Node : {p \in issued'[o] : p.seq \in refl[o]} = {p \in issued[o] : p.seq \in refl[o]}
  BY <1>2, ZenonT(30) DEF IInv, TypeOK, Appended
<1> QED
  BY <1>3, Zenon DEF SeenIn

\* On its own node it is seen at once.
LEMMA SeenOwn ==
    ASSUME IInv, NEW n \in Node, NEW op, Appended(n, op)
    PROVE  SeenIn(issued', reflected'[n]) = SeenIn(issued, reflected[n]) \cup {op}
<1>1. /\ issued'[n] = issued[n] \cup {op}
      /\ reflected'[n][n] = reflected[n][n] \cup {op.seq}
      /\ \A o \in Node \ {n} : issued'[o] = issued[o] /\ reflected'[n][o] = reflected[n][o]
  BY Zenon DEF IInv, TypeOK, Appended
<1>2. \A p \in issued[n] : p.seq # op.seq
  <2>1. ReplicationCursor(n, n) \in Nat /\ op.seq = ReplicationCursor(n, n) + 1
    BY CursorFacts, Zenon DEF IInv, Appended
  <2>2. \A p \in issued[n] : p.seq \in Nat /\ p.seq <= ReplicationCursor(n, n)
    BY DEF IInv, TypeOK, Operation, Log
  <2> QED
    BY <2>1, <2>2
<1>3. {p \in issued'[n] : p.seq \in reflected'[n][n]} =
        {p \in issued[n] : p.seq \in reflected[n][n]} \cup {op}
  BY <1>1, <1>2, Zenon
<1>4. \A o \in Node \ {n} : {p \in issued'[o] : p.seq \in reflected'[n][o]} =
                              {p \in issued[o] : p.seq \in reflected[n][o]}
  BY <1>1, Zenon
<1> QED
  BY <1>3, <1>4 DEF SeenIn

\* A committed page adds its operations to what the node has seen.
LEMMA SeenPage ==
    ASSUME IInv, NEW n \in Node, NEW o \in Node, NEW page \in Seq(Operation),
           NEW base \in Nat, NEW k \in Nat, PageAt(n, o, page, base),
           Committed(n, o, page, base, k)
    PROVE  SeenIn(issued, reflected'[n]) =
             SeenIn(issued, reflected[n]) \cup FirstOf(page, k)
<1> DEFINE new == {page[j] : j \in 1 .. k}
<1>1. /\ reflected'[n][o] = reflected[n][o] \cup ((base + 1) .. (base + k))
      /\ \A p \in Node \ {o} : reflected'[n][p] = reflected[n][p]
  BY Zenon DEF IInv, TypeOK, Committed
<1>2. \A j \in 1 .. k : page[j].seq = base + j /\ page[j] \in issued[o]
  BY DEF Committed, PageAt
<1>3. {p \in issued[o] : p.seq \in (base + 1) .. (base + k)} = new
  <2>1. ASSUME NEW p \in issued[o], p.seq \in (base + 1) .. (base + k)
        PROVE  p \in new
    <3>1. PICK j \in 1 .. k : p.seq = base + j
      <4>1. p.seq - base \in 1 .. k /\ p.seq = base + (p.seq - base)
        BY <2>1
      <4> QED
        BY <4>1, ZenonT(30)
    <3>2. page[j] = p
      BY <1>2, <3>1, Zenon DEF IInv, Log
    <3> QED
      BY <3>2, Zenon
  <2>2. ASSUME NEW j \in 1 .. k
        PROVE  page[j] \in issued[o] /\ page[j].seq \in (base + 1) .. (base + k)
    BY <1>2
  <2> QED
    BY <2>1, <2>2, Zenon
<1> HIDE DEF new
<1>4. {p \in issued[o] : p.seq \in reflected'[n][o]} =
        {p \in issued[o] : p.seq \in reflected[n][o]} \cup new
  BY <1>1, <1>3, Zenon
<1>5. \A q \in Node \ {o} : {p \in issued[q] : p.seq \in reflected'[n][q]} =
                              {p \in issued[q] : p.seq \in reflected[n][q]}
  BY <1>1, Zenon
<1>6. SeenIn(issued, reflected'[n]) = SeenIn(issued, reflected[n]) \cup new
  BY <1>4, <1>5, SMTT(30) DEF SeenIn
<1> QED
  BY <1>6, Zenon DEF new, FirstOf

\* What is seen is a set of operations.
LEMMA SeenTyped ==
    ASSUME IInv, NEW refl
    PROVE  SeenIn(issued, refl) \subseteq Operation
  BY Zenon DEF SeenIn, IInv, TypeOK

\* A local write keeps every table the join of its operations.
LEMMA WrittenJoins ==
    ASSUME IInv, Joined, ~ Repost, NEW n \in Node, NEW op \in Operation,
           NEW row \in Row, Written(n, op, row)
    PROVE  Joined'
<1>1. Appended(n, op) /\ sync' = sync
  BY Zenon DEF Written, Appended
<1>2. op.kind # "updated"
  BY Zenon DEF Written
<1>3. \A o \in Node : \A p \in issued'[o] : p.kind # "updated"
  BY <1>1, <1>2, ZenonT(30) DEF Joined, Appended, IInv, TypeOK
<1>4. \A m \in Node \ {n} : rows'[m] = rows[m] /\ reflected'[m] = reflected[m]
  BY <1>1, ZenonT(30) DEF Written, Appended, IInv, TypeOK
<1>5. \A m \in Node \ {n} : Shows(rows'[m], SeenIn(issued', reflected'[m]))
  BY <1>1, <1>4, ReflectedBounded, SeenElsewhere, Zenon DEF Joined
<1>6. \A m \in Node : sync[m].stage = "snapshot" =>
        Shows(sync[m].rows, SeenIn(issued', sync[m].reflected))
  BY <1>1, ReflectedBounded, SeenElsewhere, Zenon DEF Joined
<1>7. PICK t \in Tables : t = rows[n]
  BY Zenon DEF IInv, TypeOK
<1>8. rows'[n] = [t EXCEPT ![op.id] = row]
  BY <1>7, Zenon DEF Written, IInv, TypeOK
<1>9. PICK S : S = SeenIn(issued, reflected[n])
  BY Zenon
<1>10. S \subseteq Operation /\ Shows(t, S)
  BY <1>7, <1>9, SeenTyped, Zenon DEF Joined
<1>11. t[op.id] = NoRow => row.state = op.state
  BY ZenonT(30) DEF Written
<1>12. t[op.id] # NoRow =>
          /\ row.state \in {t[op.id].state, op.state}
          /\ stateRank(t[op.id].state) <= stateRank(row.state)
          /\ stateRank(op.state) <= stateRank(row.state)
  <2>1. stateRank(op.state) \in Nat
    BY Ranks, Zenon DEF Operation
  <2> QED
    BY <1>7, <2>1, SMTT(30) DEF Written
<1>13. Shows([t EXCEPT ![op.id] = row], S \cup {op})
  BY <1>10, <1>11, <1>12, ShowsMore, ZenonT(30)
<1>14. Shows(rows'[n], SeenIn(issued', reflected'[n]))
  BY <1>1, <1>8, <1>9, <1>13, SeenOwn, Zenon
<1> QED
  BY <1>1, <1>3, <1>5, <1>6, <1>14, ZenonT(30) DEF Joined

\* Only node n moved: its table still shows what it has seen, and no snapshot
\* is on its way to it.
LEMMA NodeJoins ==
    ASSUME IInv, Joined, NEW n \in Node, issued' = issued,
           \A m \in Node \ {n} : /\ rows'[m] = rows[m]
                                 /\ reflected'[m] = reflected[m]
                                 /\ sync'[m] = sync[m],
           Shows(rows'[n], SeenIn(issued, reflected'[n])),
           sync'[n].stage = "snapshot" =>
              Shows(sync'[n].rows, SeenIn(issued, sync'[n].reflected))
    PROVE  Joined'
<1>1. \A m \in Node : Shows(rows'[m], SeenIn(issued', reflected'[m]))
  BY Zenon DEF Joined
<1>2. \A m \in Node : sync'[m].stage = "snapshot" =>
        Shows(sync'[m].rows, SeenIn(issued', sync'[m].reflected))
  BY Zenon DEF Joined
<1> QED
  BY <1>1, <1>2, Zenon DEF Joined

\* So does a committed page.
LEMMA CommittedJoins ==
    ASSUME IInv, Joined, NEW n \in Node, NEW o \in Node, NEW page \in Seq(Operation),
           NEW base \in Nat, NEW k \in Nat,
           PageAt(n, o, page, base), Committed(n, o, page, base, k),
           issued' = issued,
           \E z \in SyncState : /\ z.stage \notin {"page", "snapshot"}
                                /\ sync' = [sync EXCEPT ![n] = z]
    PROVE  Joined'
<1>1. PICK t \in Tables : t = rows[n]
  BY Zenon DEF IInv, TypeOK
<1>2. PICK S : S = SeenIn(issued, reflected[n])
  BY Zenon
<1>3. S \subseteq Operation /\ Shows(t, S)
  BY <1>1, <1>2, SeenTyped, Zenon DEF Joined
<1>4. k \in 0 .. Len(page)
  BY ZenonT(30) DEF Committed
<1>5. \A j \in 1 .. k : page[j].kind # "updated"
  BY <1>4 DEF PageAt, Joined
<1>6. \A j \in 1 .. k : Applicable(page[j], After(t, page)[j - 1][page[j].id])
  BY <1>1, Zenon DEF Committed
<1>7. Shows(After(t, page)[k], S \cup FirstOf(page, k))
  BY <1>3, <1>4, <1>5, <1>6, ShowsPage, ZenonT(30)
<1>8. /\ rows'[n] = After(t, page)[k]
      /\ \A m \in Node \ {n} : rows'[m] = rows[m] /\ reflected'[m] = reflected[m]
  BY <1>1, Zenon DEF Committed, IInv, TypeOK
<1>9. Shows(rows'[n], SeenIn(issued, reflected'[n]))
  <2>1. SeenIn(issued, reflected'[n]) =
          SeenIn(issued, reflected[n]) \cup FirstOf(page, k)
    BY SeenPage, ZenonT(30)
  <2> QED
    BY <1>2, <1>7, <1>8, <2>1, Zenon
<1>10. /\ sync'[n].stage # "snapshot"
       /\ \A m \in Node \ {n} : sync'[m] = sync[m]
  BY Zenon DEF IInv, TypeOK
<1> QED
  BY <1>8, <1>9, <1>10, NodeJoins, Zenon

\* And a merged snapshot.
LEMMA SnapshotJoins ==
    ASSUME IInv, Joined, NEW n \in Node, NEW s \in SyncState, PassOK(n, s),
           s.stage = "snapshot", s = sync[n], SnapshotMerged(n, s),
           \E z \in SyncState : /\ z.stage \notin {"page", "snapshot"}
                                /\ sync' = [sync EXCEPT ![n] = z]
    PROVE  Joined'
<1>1. PICK t \in Tables : t = rows[n]
  BY Zenon DEF IInv, TypeOK
<1>2. PICK in \in Tables : in = s.rows
  BY Zenon DEF PassOK
<1>3. PICK S : S = SeenIn(issued, reflected[n])
  BY Zenon
<1>4. PICK R : R = SeenIn(issued, s.reflected)
  BY Zenon
<1>5. S \subseteq Operation /\ R \subseteq Operation /\ Shows(t, S) /\ Shows(in, R)
  BY <1>1, <1>2, <1>3, <1>4, SeenTyped, Zenon DEF Joined
<1>6. Shows(MergedTables(t, in), S \cup R)
  BY <1>5, ShowsMerged, Zenon
<1>7. /\ rows'[n] = MergedTables(t, in)
      /\ \A o \in Node : reflected'[n][o] = reflected[n][o] \cup s.reflected[o]
      /\ \A m \in Node \ {n} : rows'[m] = rows[m] /\ reflected'[m] = reflected[m]
      /\ issued' = issued
  BY <1>1, <1>2, Zenon DEF SnapshotMerged, IInv, TypeOK
<1>8. SeenIn(issued, reflected'[n]) = S \cup R
  <2>1. \A o \in Node : {p \in issued[o] : p.seq \in reflected'[n][o]} =
            {p \in issued[o] : p.seq \in reflected[n][o]}
              \cup {p \in issued[o] : p.seq \in s.reflected[o]}
    BY <1>7, Zenon
  <2> QED
    BY <1>3, <1>4, <2>1 DEF SeenIn
<1>9. /\ sync'[n].stage # "snapshot"
      /\ \A m \in Node \ {n} : sync'[m] = sync[m]
  BY Zenon DEF IInv, TypeOK
<1> QED
  BY <1>6, <1>7, <1>8, <1>9, NodeJoins, Zenon

\* A step that moves only the pass of n, to no snapshot.
LEMMA SyncJoins ==
    ASSUME IInv, Joined, NEW n \in Node, UNCHANGED <<rows, issued, reflected>>,
           \E z \in SyncState : /\ z.stage # "snapshot"
                                /\ sync' = [sync EXCEPT ![n] = z]
    PROVE  Joined'
<1>1. /\ sync'[n].stage # "snapshot"
      /\ \A m \in Node \ {n} : sync'[m] = sync[m]
  BY ZenonT(30) DEF IInv, TypeOK
<1> QED
  BY <1>1, NodeJoins, Zenon DEF Joined

\* A step of the Syncer keeps every table the join of its operations.
LEMMA SyncStepJoins ==
    ASSUME IInv, Joined, NEW n \in Node, SyncStep(n) \/ AbandonPass(n)
    PROVE  Joined'
<1>1. CASE \E p \in Node : GetStatus(n, p)
  <2>1. UNCHANGED <<rows, issued, reflected>>
    BY <1>1, ZenonT(30) DEF GetStatus, db, history
  <2> QED
    BY <1>1, <2>1, GetStatusOK, SyncJoins, Zenon
<1>2. CASE \E o \in Node : GetOperations(n, o)
  <2>1. UNCHANGED <<rows, issued, reflected>>
    BY <1>2, Zenon DEF GetOperations, db, history
  <2> QED
    BY <1>2, <2>1, GetOperationsOK, SyncJoins, Zenon
<1>3. CASE BuildReplicationSnapshot(n)
  <2>1. UNCHANGED <<rows, issued, reflected>>
    BY <1>3, Zenon DEF BuildReplicationSnapshot, db, history
  <2>2. PICK z \in SyncState : /\ sync' = [sync EXCEPT ![n] = z]
                               /\ \E p \in Node : /\ z.rows = rows[p]
                                                  /\ z.reflected = reflected[p]
    BY <1>3, BuildSnapshotOK, Zenon
  <2>3. sync'[n] = z /\ \A m \in Node \ {n} : sync'[m] = sync[m]
    BY <2>2, Zenon DEF IInv, TypeOK
  <2>4. Shows(z.rows, SeenIn(issued, z.reflected))
    BY <2>2, Zenon DEF Joined
  <2> QED
    BY <2>1, <2>3, <2>4, NodeJoins, ZenonT(30) DEF Joined
<1>4. CASE FinishPass(n) \/ AbandonPass(n)
  <2>1. UNCHANGED <<rows, issued, reflected>> /\ sync' = [sync EXCEPT ![n] = Idle]
    BY <1>4, Zenon DEF FinishPass, AbandonPass, db, history
  <2> QED
    BY <2>1, IdleOK, SyncJoins, Zenon
<1>5. CASE ApplyReplicationOperations(n)
  <2>1. /\ issued' = issued
        /\ \E z \in SyncState : /\ z.stage \notin {"page", "snapshot"}
                                /\ sync' = [sync EXCEPT ![n] = z]
        /\ \/ UNCHANGED <<rows, kept, cursors, reflected>>
           \/ \E o \in Node, page \in Seq(Operation), base, k \in Nat :
                 PageAt(n, o, page, base) /\ Committed(n, o, page, base, k)
    BY <1>5, ApplyCases, Zenon
  <2>2. CASE UNCHANGED <<rows, kept, cursors, reflected>>
    BY <2>1, <2>2, SyncJoins, Zenon
  <2>3. CASE \E o \in Node, page \in Seq(Operation), base, k \in Nat :
                PageAt(n, o, page, base) /\ Committed(n, o, page, base, k)
    BY <2>1, <2>3, CommittedJoins, Zenon
  <2> QED
    BY <2>1, <2>2, <2>3, Zenon
<1>6. CASE ApplyReplicationSnapshot(n)
  <2>1. /\ issued' = issued
        /\ \E z \in SyncState : /\ z.stage \notin {"page", "snapshot"}
                                /\ sync' = [sync EXCEPT ![n] = z]
        /\ \/ UNCHANGED <<rows, cursors, reflected>>
           \/ \E s \in SyncState : /\ PassOK(n, s) /\ s.stage = "snapshot"
                                   /\ s = sync[n] /\ SnapshotMerged(n, s)
    BY <1>6, SnapshotCases, Zenon
  <2>2. CASE UNCHANGED <<rows, cursors, reflected>>
    BY <2>1, <2>2, SyncJoins, ZenonT(30)
  <2>3. CASE \E s \in SyncState : /\ PassOK(n, s) /\ s.stage = "snapshot"
                                  /\ s = sync[n] /\ SnapshotMerged(n, s)
    BY <2>1, <2>3, SnapshotJoins, Zenon
  <2> QED
    BY <2>1, <2>2, <2>3, Zenon
<1> QED
  BY <1>1, <1>2, <1>3, <1>4, <1>5, <1>6, Zenon DEF SyncStep

\* Without reposts every step keeps every table the join of its operations.
LEMMA StepJoins == ~ Repost /\ IInv /\ Joined /\ [Next]_vars => Joined'
<1> SUFFICES ASSUME ~ Repost, IInv, Joined, [Next]_vars PROVE Joined'
  BY Zenon
<1>1. CASE UNCHANGED <<rows, issued, reflected, sync>>
  BY <1>1, Zenon DEF Joined
<1>2. CASE Tick \/ Stabilise \/ UNCHANGED vars
  <2>1. UNCHANGED <<rows, issued, reflected, sync>>
    BY <1>2, Zenon DEF Tick, Stabilise, vars, db, history
  <2> QED
    BY <1>1, <2>1, Zenon
<1>3. ASSUME NEW n \in Node, Post(n)
      PROVE  Joined'
  BY <1>3, PostWrites, WrittenJoins, Zenon DEF Post
<1>4. ASSUME NEW n \in Node, Operate(n)
      PROVE  Joined'
  BY <1>4, OperateWrites, WrittenJoins, Zenon DEF Operate
<1>5. ASSUME NEW n \in Node, Prune(n)
      PROVE  Joined'
  <2>1. UNCHANGED <<rows, issued, reflected, sync>>
    BY <1>5, Zenon DEF Prune, PruneReplicationOperations, history
  <2> QED
    BY <1>1, <2>1, Zenon
<1> QED
  BY <1>2, <1>3, <1>4, <1>5, SyncStepJoins, ZenonT(30) DEF Next

\* Empty tables show no operations.
LEMMA InitJoins == Init => Joined
<1> SUFFICES ASSUME Init PROVE Joined
  BY Zenon
<1>1. \A n \in Node : SeenIn(issued, reflected[n]) = {}
  BY Zenon DEF Init, SeenIn
<1>2. \A n \in Node : Shows(rows[n], {})
  BY Zenon DEF Init, Shows
<1> QED
  BY <1>1, <1>2, Zenon DEF Joined, Init, Idle

\* Where no key is posted again, the state of a notification on every node is
\* the latest of the operations applied to it, in whatever order, in whatever
\* pages or snapshots they came (applyReplicationEffect, the merge of
\* ApplyReplicationSnapshot and the writes of SetNotificationState).
THEOREM StateIsAlwaysJoin ==
    ASSUME ~ Repost
    PROVE  Spec => []StateIsJoin
<1>1. Joined => StateIsJoin
  BY Zenon DEF Joined, Shows, StateIsJoin, SeenIn, Seen
<1>2. IInv /\ Joined /\ [Next]_vars => Joined'
  BY StepJoins, Zenon
<1> QED
  BY <1>1, <1>2, InitJoins, Inductive, PTL DEF Spec

=============================================================================
