------------------------- MODULE OperationsTheorems -------------------------
(***************************************************************************)
(* What OperationsProofs shows step by step, as theorems about every       *)
(* behaviour of Operations.                                                *)
(***************************************************************************)
EXTENDS OperationsRowProofs, FiniteSetTheorems

\* The leaves are first-order and Zenon's; one that needs arithmetic names SMT.
USE Zenon

\* A set of requests is finite, and has a size.
LEMMA RequestSizes == Sizes
<1>1. \A S \in SUBSET Request : IsFiniteSet(S)
  BY FS_Subset, ActionAssumptions
<1>2. \A S \in SUBSET Request : Cardinality(S) \in Nat
  BY <1>1, FS_CardinalityType
<1>3. \A S \in SUBSET Request : S # {} => Cardinality(S) # 0
  BY <1>1, FS_EmptySet
<1> QED
  BY <1>2, <1>3 DEF Sizes

-----------------------------------------------------------------------------
(***************************************************************************)
(* Deliveries through a response URL.                                      *)
(***************************************************************************)
IsDelayed(q) == req[q].what # None /\ req[q].what.kind = "delayed"

\* A delivery that the response URL of key k has accepted.
InUse(q, k) == /\ IsDelayed(q) /\ Key0(q) = k
               /\ req[q].pc = "respond" \/ req[q].ans = "ok"

Using(k) == {q \in Request : InUse(q, k)}

OnRecord(p) ==
    /\ p[2] \in Request /\ req[p[2]].pc \in {"respond", "done", "lost"}
    /\ IsDelayed(p[2]) => InUse(p[2], p[1])

\* A delivery that came late is not accepted, and no statement counts apart
\* from the check on SQLite.
OnTime(q) ==
    /\ sqlite => req[q].pc # "count"
    /\ (IsDelayed(q) /\ req[q].late) =>
         /\ slash[Key0(q)] # None /\ slash[Key0(q)].expired = TRUE
         /\ ~ InUse(q, Key0(q)) /\ req[q].pc # "count"

Within(k) ==
    /\ slash[k] = None => Using(k) = {}
    /\ (sqlite /\ slash[k] # None) =>
         slash[k].count <= MaxUses /\ Cardinality(Using(k)) <= slash[k].count

Deliveries ==
    /\ \A p \in response : OnRecord(p)
    /\ \A q \in Request : OnTime(q)
    /\ \A k \in Key : Within(k)

\* Sizes of sets of requests.
LEMMA RequestCounts ==
    /\ Cardinality({}) = 0
    /\ \A S, T \in SUBSET Request : S \subseteq T =>
         Cardinality(S) \in Nat /\ Cardinality(T) \in Nat /\ Cardinality(S) <= Cardinality(T)
    /\ \A S \in SUBSET Request, r \in Request :
         Cardinality(S) \in Nat /\ Cardinality(S \cup {r}) \in {Cardinality(S), Cardinality(S) + 1}
<1>1. \A S \in SUBSET Request : IsFiniteSet(S) /\ Cardinality(S) \in Nat
  BY FS_Subset, FS_CardinalityType, ActionAssumptions
<1>2. ASSUME NEW S \in SUBSET Request, NEW T \in SUBSET Request, S \subseteq T
      PROVE  Cardinality(S) <= Cardinality(T)
  BY <1>1, <1>2, FS_Subset
<1>3. ASSUME NEW S \in SUBSET Request, NEW r \in Request
      PROVE  Cardinality(S \cup {r}) \in {Cardinality(S), Cardinality(S) + 1}
  BY <1>1, FS_AddElement
<1> QED
  BY <1>1, <1>2, <1>3, FS_EmptySet

\* A response URL stays within its limit when no delivery is added, ...
LEMMA WithinKept ==
    ASSUME Base, NEW k \in Key, Within(k), sqlite' = sqlite,
           \A q \in Request : InUse(q, k)' => InUse(q, k),
           slash[k] # None => slash'[k] # None /\ slash'[k].count = slash[k].count,
           (slash[k] = None /\ slash'[k] # None) => slash'[k].count = 0
    PROVE  Within(k)'
<1>1. PICK S \in SUBSET Request : S = Using(k)
  BY DEF Using
<1>2. PICK T \in SUBSET Request : T = Using(k)'
  BY DEF Using
<1>3. T \subseteq S
  BY <1>1, <1>2 DEF Using
<1>4. slash[k] = None => S = {} /\ T = {}
  BY <1>1, <1>3 DEF Within
<1>5. Cardinality(S) \in Nat /\ Cardinality(T) \in Nat /\ Cardinality(T) <= Cardinality(S)
      /\ Cardinality({}) = 0
  BY <1>3, RequestCounts
<1>6. CASE slash[k] # None
  <2>1. /\ slash'[k] # None /\ slash'[k].count = slash[k].count
        /\ sqlite => slash[k].count <= MaxUses /\ Cardinality(S) <= slash[k].count
    BY <1>1, <1>6 DEF Within
  <2>0. slash[k].count \in Nat
    BY <1>6 DEF Base, TypeOK, SlashTypes, SlashRow
  <2>2. sqlite => Cardinality(T) <= slash[k].count
    BY <1>5, <2>0, <2>1, SMT
  <2> QED
    BY <1>2, <2>1, <2>2 DEF Within
<1>7. CASE slash[k] = None
  <2>1. 0 <= MaxUses /\ 0 <= 0
    BY SlashAssumptions, SMT
  <2>2. Cardinality(T) = 0
    BY <1>4, <1>5, <1>7
  <2> QED
    BY <1>2, <1>4, <1>7, <2>1, <2>2 DEF Within
<1> QED
  BY <1>6, <1>7

\* ... and when the use of one is counted.
LEMMA WithinUsed ==
    ASSUME NEW k \in Key, Within(k), sqlite' = sqlite, NEW r \in Request,
           \A q \in Request : InUse(q, k)' => q = r \/ InUse(q, k),
           slash[k] \in SlashRow, slash[k] # None, slash'[k] # None,
           slash'[k].count = slash[k].count + 1, sqlite => slash[k].count < MaxUses
    PROVE  Within(k)'
<1>1. PICK S \in SUBSET Request : S = Using(k)
  BY DEF Using
<1>2. PICK T \in SUBSET Request : T = Using(k)'
  BY DEF Using
<1>3. T \subseteq S \cup {r} /\ S \cup {r} \in SUBSET Request
  BY <1>1, <1>2 DEF Using
<1>4. PICK U \in SUBSET Request : U = S \cup {r}
  BY <1>3
<1>5. /\ Cardinality(S) \in Nat /\ Cardinality(T) \in Nat /\ Cardinality(U) \in Nat
      /\ Cardinality(T) <= Cardinality(U)
      /\ Cardinality(U) = Cardinality(S) \/ Cardinality(U) = Cardinality(S) + 1
  BY <1>3, <1>4, RequestCounts
<1>6. slash[k].count \in Nat /\ (sqlite => Cardinality(S) <= slash[k].count)
  BY <1>1 DEF Within, SlashRow
<1>7. sqlite => slash'[k].count <= MaxUses /\ Cardinality(T) <= slash'[k].count
  BY <1>5, <1>6, SlashAssumptions, SMT
<1> QED
  BY <1>2, <1>7 DEF Within

\* A request that stands still, or is not a delivery.
Idles(q) ==
    \/ req'[q] = req[q]
    \/ /\ ~ IsDelayed(q)' /\ req'[q].pc # "count"
       /\ req[q].pc \in {"respond", "done", "lost"} => req'[q].pc \in {"respond", "done", "lost"}

\* Executions keep their count and their expiry, and a new one starts at zero.
CountsKept ==
    \A k \in Key :
        /\ slash[k] # None =>
             /\ slash'[k] # None /\ slash'[k].count = slash[k].count
             /\ slash[k].expired = TRUE => slash'[k].expired = TRUE
        /\ (slash[k] = None /\ slash'[k] # None) => slash'[k].count = 0

\* Nothing that is on record or counted changes while the deliveries idle.
LEMMA DeliveriesKept ==
    ASSUME Base, Deliveries, sqlite' = sqlite, response' = response, CountsKept,
           \A q \in Request : Idles(q)
    PROVE  Deliveries'
<1>1. \A q \in Request, k \in Key : InUse(q, k)' => InUse(q, k)
  BY DEF Idles, InUse, IsDelayed, Key0
<1>2. \A p \in response : OnRecord(p)'
  BY DEF Deliveries, OnRecord, Idles, InUse, IsDelayed, Key0
<1>3. ASSUME NEW q \in Request
      PROVE  OnTime(q)'
  <2>1. IsDelayed(q) => Key0(q) \in Key
    BY RequestFields, AskedTypes DEF Base, IsDelayed, Key0
  <2> QED
    BY <2>1 DEF Deliveries, OnTime, Idles, InUse, IsDelayed, Key0, CountsKept
<1>4. \A k \in Key : Within(k)'
  BY <1>1, WithinKept DEF Deliveries, CountsKept
<1> QED
  BY <1>2, <1>3, <1>4 DEF Deliveries

\* Steps of clicks and tool calls, losses, time and administration.
LEMMA DeliveriesOutside ==
    ASSUME Base, Sizes, Deliveries,
           \/ \E r \in Request : (ActionStep(r) \/ ToolStep(r)) /\ UNCHANGED slashVars
           \/ Loses /\ UNCHANGED slashVars
           \/ TimePasses
           \/ Manages
    PROVE  Deliveries'
<1>1. ASSUME UNCHANGED slashVars, \A q \in Request : Idles(q)
      PROVE  Deliveries'
  <2>1. sqlite' = sqlite /\ response' = response /\ CountsKept
    BY <1>1 DEF slashVars, CountsKept
  <2> QED
    BY <1>1, <2>1, DeliveriesKept
<1>2. CASE \E r \in Request : (ActionStep(r) \/ ToolStep(r)) /\ UNCHANGED slashVars
  <2>1. PICK r \in Request : (ActionStep(r) \/ ToolStep(r)) /\ UNCHANGED slashVars
    BY <1>2
  <2>2. CASE ActionStep(r)
    <3>1. ActionGoes(r)
      BY <2>2, ActionGo
    <3>2. req'[r].what.kind \in {"click", "tool"} /\ req[r].pc \in ActionPcs \cup {"idle"}
      BY <3>1 DEF ActionGoes
    <3>3. req'[r].pc \in ActionPcs \cup {"returned", "done"} /\ Others(r)
      BY <3>1 DEF ActionGoes, ActionPcs
    <3>4. Idles(r)
      BY <3>2, <3>3 DEF Idles, IsDelayed, ActionPcs
    <3> QED
      BY <1>1, <2>1, <3>3, <3>4 DEF Others, Idles
  <2>3. CASE ToolStep(r)
    <3>1. ToolGoes(r)
      BY <2>3, ToolGo
    <3>2. Idles(r)
      BY <3>1 DEF ToolGoes, Idles, IsDelayed, ToolPcs
    <3> QED
      BY <1>1, <2>1, <3>1, <3>2 DEF ToolGoes, Others, Idles
  <2> QED
    BY <2>1, <2>2, <2>3
<1>3. CASE Loses /\ UNCHANGED slashVars
  <2>1. \A q \in Request : req'[q] = Gone \/ req'[q] = req[q]
    BY <1>3, LossMoves DEF Dropped
  <2>2. \A q \in Request : req'[q] = Gone => Idles(q)
    BY GoneFields DEF Idles, IsDelayed
  <2> QED
    BY <1>1, <1>3, <2>1, <2>2 DEF Idles
<1>4. CASE TimePasses
  <2>1. /\ req' = req /\ response' = response /\ sqlite' = sqlite
        /\ \A k \in Key : slash'[k] = ExpiredRow(slash[k]) /\ (slash'[k] = None <=> slash[k] = None)
    BY <1>4, TimeMoves
  <2>2. slash \in [Key -> SlashRow \cup {None}]
    BY DEF Base, TypeOK, SlashTypes
  <2>3. CountsKept
    BY <2>1, <2>2, OldRows DEF CountsKept
  <2> QED
    BY <2>1, <2>3, DeliveriesKept DEF Idles
<1>5. CASE Manages
  BY <1>5, ManageMoves, DeliveriesKept DEF CountsKept, Idles
<1> QED
  BY <1>2, <1>3, <1>4, <1>5

\* The other requests, when only r moves on and executions stay.
LEMMA OthersOnTime ==
    ASSUME Base, Deliveries, sqlite' = sqlite, NEW r \in Request, Others(r), \A k \in Key : Stays(k),
           NEW q \in Request, q # r
    PROVE  OnTime(q)'
<1>1. IsDelayed(q) => Key0(q) \in Key
  BY RequestFields, AskedTypes DEF Base, IsDelayed, Key0
<1>2. req'[q] = req[q] /\ OnTime(q)
  BY DEF Others, Deliveries
<1> QED
  BY <1>1, <1>2 DEF OnTime, InUse, IsDelayed, Key0, Stays

\* A delivery that has recorded nothing yet moves on.
LEMMA DeliveryMoves ==
    ASSUME Base, Deliveries, sqlite' = sqlite, response' = response, NEW r \in Request,
           Others(r), \A k \in Key : Stays(k), req[r].pc \notin {"respond", "done", "lost"},
           OnTime(r)', \A k \in Key : Within(k)'
    PROVE  Deliveries'
<1>1. ASSUME NEW p \in response
      PROVE  OnRecord(p)'
  <2>1. OnRecord(p) /\ p[2] # r /\ p[2] \in Request
    BY <1>1 DEF Deliveries, OnRecord
  <2>2. req'[p[2]] = req[p[2]]
    BY <2>1 DEF Others
  <2> QED
    BY <2>1, <2>2 DEF OnRecord, InUse, IsDelayed, Key0
<1>2. \A q \in Request : OnTime(q)'
  BY OthersOnTime
<1> QED
  BY <1>1, <1>2 DEF Deliveries

\* A value of a response is recorded.
LEMMA DeliveriesRespond ==
    ASSUME Base, Deliveries, NEW r \in Request, Respond(r)
    PROVE  Deliveries'
<1>1. /\ req[r].pc = "respond" /\ Key0(r) \in Key
      /\ response' = response \cup {<<Key0(r), r, req[r].seen>>}
      /\ sqlite' = sqlite /\ slash' = slash
  BY RespondMoves DEF Respond, Key0
<1>2. /\ Others(r) /\ req'[r].what = req[r].what /\ req'[r].late = req[r].late
      /\ \/ req'[r].pc = "respond"
         \/ req'[r].pc = "done" /\ req'[r].ans = "ok"
  BY RespondMoves DEF AcceptsAs, EndsAs, Moved
<1>3. IsDelayed(r) => InUse(r, Key0(r)) /\ InUse(r, Key0(r))'
  BY <1>1, <1>2 DEF InUse, IsDelayed, Key0
<1>4. \A k \in Key : Stays(k)
  BY <1>1 DEF Stays
<1>5. OnTime(r)'
  <2>1. ~ (IsDelayed(r) /\ req[r].late)
    BY <1>3 DEF Deliveries, OnTime
  <2> QED
    BY <1>2, <2>1 DEF OnTime, IsDelayed
<1>6. \A q \in Request : OnTime(q)'
  BY <1>1, <1>2, <1>4, <1>5, OthersOnTime
<1>7. ASSUME NEW p \in response'
      PROVE  OnRecord(p)'
  <2>1. CASE p \in response
    <3>1. OnRecord(p) /\ p[2] \in Request
      BY <2>1 DEF Deliveries, OnRecord
    <3>2. CASE p[2] = r
      BY <1>2, <3>1, <3>2 DEF OnRecord, InUse, IsDelayed, Key0
    <3>3. CASE p[2] # r
      <4>1. req'[p[2]] = req[p[2]]
        BY <1>2, <3>1, <3>3 DEF Others
      <4> QED
        BY <3>1, <4>1 DEF OnRecord, InUse, IsDelayed, Key0
    <3> QED
      BY <3>2, <3>3
  <2>2. CASE p = <<Key0(r), r, req[r].seen>>
    <3>1. p[1] = Key0(r) /\ p[2] = r
      BY <2>2, SMT
    <3>2. Key0(r)' = Key0(r)
      BY <1>2 DEF Key0
    <3> QED
      BY <1>2, <1>3, <3>1, <3>2 DEF OnRecord, IsDelayed
  <2> QED
    BY <1>1, <1>7, <2>1, <2>2
<1>8. ASSUME NEW k \in Key
      PROVE  Within(k)'
  <2>1. \A q \in Request : InUse(q, k)' => InUse(q, k)
    BY <1>1, <1>2 DEF Others, InUse, IsDelayed, Key0
  <2> QED
    BY <1>1, <1>8, <2>1, WithinKept DEF Deliveries
<1> QED
  BY <1>6, <1>7, <1>8 DEF Deliveries

\* A step of a command that records no value.
LEMMA DeliveriesCommand ==
    ASSUME Base, Deliveries, NEW r \in Request,
           Submit(r) \/ Resolve(r) \/ RecordCommand(r) \/ Replay(r) \/ Dispatch(r)
    PROVE  Deliveries'
<1>0. SlashStep(r)
  BY DEF SlashStep
<1>1. sqlite' = sqlite /\ response' = response /\ Others(r)
  BY <1>0, SlashGo DEF SlashGoes, Submit, Resolve, RecordCommand, Replay, Dispatch, slashVars
<1>2. req'[r].what.kind = "command" /\ req[r].pc \notin {"respond", "done", "lost"}
  <2>1. CASE Submit(r)
    BY <2>1, SubmitMoves DEF Moved, Submit
  <2>2. CASE ~ Submit(r)
    <3>1. req[r].pc \in {"resolve", "record", "known", "dispatch"}
      BY <2>2 DEF Resolve, RecordCommand, Replay, Dispatch
    <3>2. req[r].what.kind = "command" /\ req[r].pc # "idle"
      BY <3>1, AtSlash DEF CommandPcs
    <3> QED
      BY <1>0, <3>1, <3>2, SlashGo DEF SlashGoes
  <2> QED
    BY <2>1, <2>2
<1>3. Idles(r)
  BY <1>0, <1>2, SlashGo DEF SlashGoes, Idles, IsDelayed, CommandPcs
<1>4. CountsKept
  <2>1. CASE slash' = slash
    BY <2>1 DEF CountsKept
  <2>2. CASE \E k \in Key : slash[k] = None /\ SlashRewritten(k, Execution(r)) /\ req[r].pc = "record"
    BY <2>2, ExecutionRowTyped DEF SlashRewritten, CountsKept
  <2>3. RecordCommand(r) => req[r].pc = "record"
    BY DEF RecordCommand
  <2> QED
    BY <2>1, <2>2, <2>3, RecordMoves DEF Submit, Resolve, Replay, Dispatch, slashVars
<1> QED
  BY <1>1, <1>3, <1>4, DeliveriesKept DEF Others, Idles

\* A delivery arrives, is checked and is counted.
LEMMA DeliveriesUse ==
    ASSUME Base, Deliveries, NEW r \in Request, Deliver(r) \/ UseToken(r) \/ CountUse(r)
    PROVE  Deliveries'
<1>0. SlashStep(r)
  BY DEF SlashStep
<1>1. /\ sqlite' = sqlite /\ response' = response /\ Others(r) /\ \A k \in Key : Stays(k)
      /\ req[r].pc \notin {"respond", "done", "lost"}
      /\ slash \in [Key -> SlashRow \cup {None}]
  BY <1>0, SlashGo, SlashStays DEF SlashGoes, Deliver, UseToken, CountUse, slashVars, Base,
     TypeOK, SlashTypes
<1>2. ASSUME slash' = slash, req'[r].pc # "respond", req'[r].ans # "ok", OnTime(r)'
      PROVE  Deliveries'
  <2>1. ASSUME NEW k \in Key
        PROVE  Within(k)'
    <3>1. \A q \in Request : InUse(q, k)' => InUse(q, k)
      BY <1>1, <1>2 DEF Others, InUse, IsDelayed, Key0
    <3> QED
      BY <1>1, <1>2, <2>1, <3>1, WithinKept DEF Deliveries
  <2> QED
    BY <1>1, <1>2, <2>1, DeliveryMoves
<1>3. ASSUME Key0(r) \in Key, slash[Key0(r)] # None, NEW n, AcceptsAs(r, n),
             SlashRewritten(Key0(r), Used(slash[Key0(r)])),
             sqlite => slash[Key0(r)].count < MaxUses, ~ (IsDelayed(r) /\ req[r].late)
      PROVE  Deliveries'
  <2>1. /\ req'[r].what = req[r].what /\ req'[r].late = req[r].late
        /\ req'[r].pc = "respond"
    BY <1>3 DEF AcceptsAs, Moved
  <2>2. OnTime(r)'
    BY <1>3, <2>1 DEF OnTime, IsDelayed
  <2>3. PICK j \in Key : j = Key0(r)
    BY <1>3
  <2>4. slash[j] \in SlashRow /\ slash[j] # None
    BY <1>1, <1>3, <2>3
  <2>5. /\ slash'[j] = Used(slash[j]) /\ \A k \in Key : k # j => slash'[k] = slash[k]
    BY <1>3, <2>3 DEF SlashRewritten
  <2>6. slash'[j] # None /\ slash'[j].count = slash[j].count + 1
    BY <2>4, <2>5, UsedRow
  <2>7. ASSUME NEW k \in Key
        PROVE  Within(k)'
    <3>1. CASE k = j
      <4>1. \A q \in Request : InUse(q, j)' => q = r \/ InUse(q, j)
        BY <1>1 DEF Others, InUse, IsDelayed, Key0
      <4>2. Within(j) /\ (sqlite => slash[j].count < MaxUses)
        BY <1>3, <2>3 DEF Deliveries
      <4>3. Within(j)'
        BY <1>1, <2>4, <2>6, <4>1, <4>2, WithinUsed
      <4> QED
        BY <3>1, <4>3 DEF Within, Using, InUse
    <3>2. CASE k # j
      <4>1. \A q \in Request : InUse(q, k)' => InUse(q, k)
        BY <1>1, <2>1, <2>3, <3>2 DEF Others, InUse, IsDelayed, Key0
      <4>2. Within(k) /\ slash'[k] = slash[k]
        BY <2>5, <2>7, <3>2 DEF Deliveries
      <4> QED
        BY <1>1, <2>7, <4>1, <4>2, WithinKept
    <3> QED
      BY <3>1, <3>2
  <2> QED
    BY <1>1, <2>2, <2>7, DeliveryMoves
<1>4. CASE Deliver(r)
  <2>1. PICK w \in Asked, late \in BOOLEAN :
          /\ w.kind = "delayed" /\ w.key \in Key /\ slash[w.key] # None
          /\ late = slash[w.key].expired
          /\ Moved(r, w, "use", req[r].seen, late, "", "")
    BY <1>4, DeliverMoves
  <2>2. req'[r].what = w /\ req'[r].pc = "use" /\ req'[r].late = late /\ req'[r].ans = ""
    BY <2>1 DEF Moved
  <2>3. slash' = slash
    BY <1>4 DEF Deliver, slashVars
  <2>4. late => slash[w.key].expired = TRUE
    BY <2>1
  <2>5. OnTime(r)'
    BY <2>1, <2>2, <2>3, <2>4 DEF OnTime, InUse, Key0
  <2> QED
    BY <1>2, <2>2, <2>3, <2>5
<1>5. CASE UseToken(r)
  <2>1. Key0(r) \in Key /\ slash[Key0(r)] # None /\ OnTime(r)
    BY <1>5, UseMoves DEF Key0, Deliveries
  <2>2. CASE slash' = slash /\ EndsAs(r, "gone")
    <3>1. /\ req'[r].pc = "done" /\ req'[r].ans = "gone" /\ req'[r].what = req[r].what
          /\ req'[r].late = req[r].late
      BY <2>2 DEF EndsAs, Moved
    <3>2. OnTime(r)'
      BY <2>1, <2>2, <3>1 DEF OnTime, InUse, IsDelayed, Key0
    <3> QED
      BY <1>2, <2>2, <3>1, <3>2
  <2>3. ASSUME Usable(slash[Key0(r)])
        PROVE  slash[Key0(r)].count < MaxUses /\ ~ (IsDelayed(r) /\ req[r].late)
    BY <2>1, <2>3 DEF Usable, OnTime
  <2>4. CASE /\ Usable(slash[Key0(r)])
             /\ SlashRewritten(Key0(r), Used(slash[Key0(r)]))
             /\ \E n \in Nat : AcceptsAs(r, n)
    BY <1>3, <2>1, <2>3, <2>4
  <2>5. CASE Usable(slash[Key0(r)]) /\ ~ sqlite /\ slash' = slash /\ SteppedTo(r, "count")
    <3>1. /\ req'[r].pc = "count" /\ req'[r].ans = req[r].ans /\ req'[r].what = req[r].what
          /\ req'[r].late = req[r].late
      BY <2>5 DEF SteppedTo, Moved
    <3>2. OnTime(r)'
      BY <1>1, <2>3, <2>5, <3>1 DEF OnTime, IsDelayed
    <3>3. ASSUME NEW k \in Key
          PROVE  Within(k)'
      <4>1. ~ sqlite' /\ (slash'[k] = None => Using(k) = {})
        BY <1>1, <2>5, <3>3 DEF Deliveries, Within
      <4>2. \A q \in Request : InUse(q, k)' => InUse(q, k)
        BY <1>1, <3>1 DEF Others, InUse, IsDelayed, Key0
      <4>3. slash'[k] = None => Using(k)' = {}
        BY <4>1, <4>2, SMT DEF Using
      <4> QED
        BY <4>1, <4>3 DEF Within
    <3> QED
      BY <1>1, <3>2, <3>3, DeliveryMoves
  <2> QED
    BY <1>5, <2>2, <2>4, <2>5, UseMoves DEF Key0
<1>6. CASE CountUse(r)
  <2>1. /\ Key0(r) \in Key /\ slash[Key0(r)] # None /\ req[r].pc = "count"
        /\ SlashRewritten(Key0(r), Used(slash[Key0(r)]))
        /\ \E n \in Nat : AcceptsAs(r, n)
    BY <1>6, CountMoves DEF Key0, CountUse
  <2>2. ~ sqlite /\ ~ (IsDelayed(r) /\ req[r].late)
    BY <2>1 DEF Deliveries, OnTime
  <2> QED
    BY <1>3, <2>1, <2>2
<1> QED
  BY <1>4, <1>5, <1>6

\* Every step keeps the deliveries within their limit.
LEMMA DeliveriesStep ==
    ASSUME Base, Sizes, Deliveries, [OperationsNext]_<<actionVars, toolVars, slashVars>>
    PROVE  Deliveries'
<1>1. ASSUME NEW r \in Request, ActionStep(r) /\ UNCHANGED <<toolVars, slashVars>>
      PROVE  Deliveries'
  BY <1>1, DeliveriesOutside
<1>2. ASSUME NEW r \in Request, SlashStep(r)
      PROVE  Deliveries'
  BY <1>2, DeliveriesCommand, DeliveriesRespond, DeliveriesUse DEF SlashStep
<1> QED
  BY <1>1, <1>2, DeliveriesOutside, StepKinds

\* At first nothing has been delivered.
LEMMA DeliveriesInit ==
    ASSUME OperationsInit
    PROVE  Deliveries
<1>1. \A r \in Request : req[r].what = None /\ req[r].pc = "idle"
  BY DEF OperationsInit, ActionInit, Idle
<1>2. response = {} /\ \A k \in Key : slash[k] = None
  BY DEF OperationsInit, SlashInit
<1>3. \A q \in Request, k \in Key : ~ InUse(q, k)
  BY <1>1 DEF InUse, IsDelayed
<1>4. \A k \in Key : Using(k) = {}
  BY <1>3, SMT DEF Using
<1> QED
  BY <1>1, <1>2, <1>4 DEF Deliveries, OnTime, Within, IsDelayed

\* Deliveries on record were accepted.
LEMMA AcceptedBounded ==
    ASSUME Base, Deliveries
    PROVE  DeliveriesBounded
<1> SUFFICES ASSUME NEW k \in Key
             PROVE  /\ sqlite => Cardinality(Delivered(k)) <= MaxUses
                    /\ \A r \in Delivered(k) : ~ req[r].late
  BY DEF DeliveriesBounded
<1>1. PICK D \in SUBSET Request : D = Delivered(k)
  BY DEF Delivered
<1>2. PICK S \in SUBSET Request : S = Using(k)
  BY DEF Using
<1>3. ASSUME NEW r \in D
      PROVE  r \in Request /\ InUse(r, k) /\ ~ req[r].late
  <2>1. r \in Request /\ IsDelayed(r) /\ \E p \in response : p[1] = k /\ p[2] = r
    BY <1>1, <1>3 DEF Delivered, IsDelayed
  <2>2. InUse(r, k)
    BY <2>1 DEF Deliveries, OnRecord
  <2> QED
    BY <2>1, <2>2 DEF Deliveries, OnTime, InUse
<1>4. D \subseteq S
  BY <1>2, <1>3 DEF Using
<1>5. /\ Cardinality(S) \in Nat /\ Cardinality(D) \in Nat /\ Cardinality(D) <= Cardinality(S)
      /\ Cardinality({}) = 0
  BY <1>4, RequestCounts
<1>6. sqlite => Cardinality(D) <= MaxUses
  <2>1. CASE slash[k] = None
    <3>1. Cardinality(S) = 0
      BY <1>2, <1>5, <2>1 DEF Deliveries, Within
    <3> QED
      BY <1>5, <3>1, SlashAssumptions, SMT
  <2>2. CASE slash[k] # None
    <3>1. slash[k].count \in Nat
      BY <2>2 DEF Base, TypeOK, SlashTypes, SlashRow
    <3>2. sqlite => slash[k].count <= MaxUses /\ Cardinality(S) <= slash[k].count
      BY <1>2, <2>2 DEF Deliveries, Within
    <3> QED
      BY <1>5, <3>1, <3>2, SlashAssumptions, SMT
  <2> QED
    BY <2>1, <2>2
<1> QED
  BY <1>1, <1>3, <1>6

-----------------------------------------------------------------------------
(***************************************************************************)
(* The effects of a tool call.                                             *)
(***************************************************************************)
\* The tool of the key's call was applied: its row says so, or the call that
\* owns the row is about to.
RowCompleted(k) == tool[k] # None /\ tool[k].status = "completed"

Completing(r, k) == HoldsTool(r) /\ Key0(r) = k /\ req[r].pc = "complete"

AppliedNow(k) == RowCompleted(k) \/ \E r \in Request : Completing(r, k)

\* One effect for each call lost, and one for the call that was not.  Setting
\* the state has an effect only once, whatever becomes of its row.
EffectsAt(w) ==
    IF w.tool = "notifications.set_state"
    THEN IF state = "resolved" THEN Cardinality(EffectsOf(w)) <= 1 ELSE EffectsOf(w) = {}
    ELSE /\ Cardinality(EffectsOf(w)) <= toolLost[w.key] + 1
         /\ ~ AppliedNow(w.key) => Cardinality(EffectsOf(w)) <= toolLost[w.key]

EffectsCounted == \A w \in Calls : EffectsAt(w)

\* A call that was applied stays so, or was lost.
Remains(k) ==
    /\ toolLost[k] <= toolLost'[k]
    /\ AppliedNow(k) => AppliedNow(k)' \/ toolLost[k] < toolLost'[k]

\* Losses are counted with numbers.
LEMMA LossesTyped ==
    ASSUME TypeOK, NEW w \in Calls
    PROVE  w.key \in Key /\ toolLost[w.key] \in Nat
BY ToolAssumptions DEF TypeOK, ToolTypes

\* No effect is added, ...
LEMMA EffectsKept ==
    ASSUME Base, Base', EffectsCounted, NEW w \in Calls, EffectsOf(w)' = EffectsOf(w),
           state' \in {state, "resolved"}, Remains(w.key)
    PROVE  EffectsAt(w)'
<1>1. EffectsAt(w) /\ w.key \in Key
  BY LossesTyped DEF EffectsCounted, Base
<1>2. PICK k \in Key : k = w.key
  BY <1>1
<1>3. PICK n \in Nat : n = Cardinality(EffectsOf(w))
  BY RequestCounts DEF EffectsOf
<1>4. PICK i \in Nat, j \in Nat : i = toolLost[k] /\ j = toolLost'[k]
  <2>1. toolLost[w.key] \in Nat /\ (toolLost[w.key] \in Nat)'
    BY LossesTyped DEF Base, TypeOK, ToolTypes
  <2> QED
    BY <1>2, <2>1
<1>5. n = Cardinality(EffectsOf(w)')
  BY <1>3
<1>6. CASE w.tool = "notifications.set_state"
  <2>1. CASE state = "resolved"
    BY <1>1, <1>6, <2>1 DEF EffectsAt
  <2>2. CASE state # "resolved"
    <3>1. EffectsOf(w) = {} /\ n = 0
      BY <1>1, <1>3, <1>6, <2>2, RequestCounts DEF EffectsAt
    <3>2. n <= 1
      BY <3>1, SMT
    <3> QED
      BY <1>5, <1>6, <3>1, <3>2 DEF EffectsAt
  <2> QED
    BY <2>1, <2>2
<1>7. CASE w.tool # "notifications.set_state"
  <2>1. n <= i + 1 /\ (~ AppliedNow(k) => n <= i)
    BY <1>1, <1>2, <1>3, <1>4, <1>7 DEF EffectsAt
  <2>2. i <= j /\ (AppliedNow(k) => AppliedNow(k)' \/ i < j)
    BY <1>2, <1>4 DEF Remains
  <2>3. n <= j + 1 /\ (~ AppliedNow(k)' => n <= j)
    BY <2>1, <2>2, SMT
  <2> QED
    BY <1>2, <1>4, <1>5, <1>7, <2>3 DEF EffectsAt
<1> QED
  BY <1>6, <1>7

\* A completed row is final.
LEMMA CompletedIsFinal ==
    ASSUME Base, Invocations, NEW r \in Request, ToolStep(r), NEW k \in Key, RowCompleted(k)
    PROVE  RowCompleted(k)'
<1>1. \/ \A j \in Key : tool'[j] = tool[j]
      \/ Key0(r) \in Key /\ (DropsTool(r) \/ InsertsTool(r) \/ StoresTool(r) \/ FreesTool(r))
  BY ToolRows
<1>2. CASE \A j \in Key : tool'[j] = tool[j]
  BY <1>2 DEF RowCompleted
<1>3. ASSUME Key0(r) \in Key, NEW row, ToolRewritten(Key0(r), row), k # Key0(r)
      PROVE  RowCompleted(k)'
  BY <1>3 DEF ToolRewritten, RowCompleted
<1>4. HoldsTool(r) => tool[Key0(r)].status = "running"
  BY DEF Invocations, ToolOwner
<1>5. CASE Key0(r) \in Key /\ DropsTool(r)
  BY <1>3, <1>5 DEF DropsTool, RowCompleted
<1>6. CASE Key0(r) \in Key /\ InsertsTool(r)
  BY <1>3, <1>6 DEF InsertsTool, RowCompleted
<1>7. CASE Key0(r) \in Key /\ StoresTool(r)
  BY <1>3, <1>4, <1>7 DEF StoresTool, RowCompleted
<1>8. CASE Key0(r) \in Key /\ FreesTool(r)
  BY <1>3, <1>4, <1>8 DEF FreesTool, RowCompleted
<1> QED
  BY <1>1, <1>2, <1>5, <1>6, <1>7, <1>8

\* Storing a result is the only step that ends a call after its effect.
LEMMA OnlyComplete ==
    ASSUME Base, NEW r \in Request, ToolStep(r)
    PROVE  Complete(r) \/ (toolLost' = toolLost /\ req[r].pc # "complete")
<1>1. CASE ToolCall(r) \/ ClearStaleTool(r) \/ InsertTool(r) \/ ReadExistingTool(r)
  BY <1>1 DEF ToolCall, ClearStaleTool, InsertTool, ReadExistingTool, toolVars
<1>2. CASE Works(r) \/ Trails(r)
  BY <1>2 DEF Works, WorksOn, ToolWork, Trails
<1>3. CASE InvokeAction(r) \/ InvokeReturns(r) \/ Release(r)
  BY <1>3 DEF InvokeAction, Uses, InvokeReturns, Release, toolVars
<1> QED
  BY <1>1, <1>2, <1>3, ToolCases

\* So a call that was applied stays so, or is counted as lost.
LEMMA ToolRemains ==
    ASSUME Base, Invocations, NEW r \in Request, ToolStep(r), NEW k \in Key
    PROVE  Remains(k)
<1>1. RowCompleted(k) => RowCompleted(k)'
  BY CompletedIsFinal
<1>2. toolLost \in [Key -> Nat]
  BY DEF Base, TypeOK, ToolTypes
<1>3. toolLost[k] <= toolLost[k] /\ toolLost[k] <= toolLost[k] + 1 /\ toolLost[k] < toolLost[k] + 1
  BY <1>2, SMT
<1>4. \A q \in Request : q # r /\ Completing(q, k) => Completing(q, k)'
  BY ToolRows DEF Completing, HoldsTool, IsTool, Key0
<1>5. CASE toolLost' = toolLost /\ req[r].pc # "complete"
  <2>1. \A q \in Request : Completing(q, k) => Completing(q, k)'
    BY <1>4, <1>5 DEF Completing
  <2> QED
    BY <1>1, <1>3, <1>5, <2>1 DEF Remains, AppliedNow
<1>6. CASE Complete(r)
  <2>1. PICK j \in Key : j = Key0(r)
    BY <1>6, CompletedMoves DEF Key0
  <2>2. CASE tool' = tool /\ toolLost' = [toolLost EXCEPT ![j] = @ + 1]
    <3>1. CASE k = j
      <4>1. toolLost'[k] = toolLost[k] + 1
        BY <1>2, <2>2, <3>1
      <4> QED
        BY <1>3, <4>1 DEF Remains
    <3>2. CASE k # j
      <4>1. toolLost'[k] = toolLost[k]
        BY <1>2, <2>2, <3>2
      <4>2. \A q \in Request : Completing(q, k) => Completing(q, k)'
        BY <1>4, <2>1, <3>2 DEF Completing
      <4> QED
        BY <1>1, <1>3, <4>1, <4>2 DEF Remains, AppliedNow
    <3> QED
      BY <3>1, <3>2
  <2>3. CASE ToolRewritten(j, Stored(tool[j], req[r].out)) /\ toolLost' = toolLost
    <3>1. HoldsTool(r)
      BY <1>6, AtTool DEF Complete, ToolPcs, HoldsTool, IsTool
    <3>2. tool[j] # None /\ tool[j] \in InvocationRow \cup {None} /\ req[r].out \in Results
      BY <1>6, <2>1, <3>1, CompletedMoves DEF Invocations, ToolOwner, Base, TypeOK, ToolTypes
    <3>3. PICK row \in InvocationRow \cup {None}, res \in Results : row = tool[j] /\ res = req[r].out
      BY <3>2
    <3>4. tool'[j] # None /\ tool'[j].status = "completed"
      <4>1. tool'[j] = Stored(row, res) /\ row # None
        BY <2>3, <3>2, <3>3 DEF ToolRewritten
      <4>2. Stored(row, res) # None /\ Stored(row, res).status = "completed"
        BY <4>1, StoredRow
      <4> QED
        BY <4>1, <4>2
    <3>5. \A q \in Request : Completing(q, k) => Completing(q, k)' \/ RowCompleted(k)'
      BY <1>4, <2>1, <3>4 DEF Completing, RowCompleted
    <3> QED
      BY <1>1, <1>3, <2>3, <3>5 DEF Remains, AppliedNow
  <2> QED
    BY <1>6, <2>1, <2>2, <2>3, CompletedMoves DEF Key0
<1> QED
  BY <1>5, <1>6, OnlyComplete

\* An effect is added for a call that had none on record.
LEMMA EffectAdded ==
    ASSUME Base, Base', Invocations, EffectsCounted, NEW r \in Request, ToolStep(r), Works(r),
           NEW w \in Calls, w = req[r].what, made' = made \cup {<<w, r>>}, made' # made
    PROVE  EffectsAt(w)'
<1>1. PICK k \in Key : w = req[r].what /\ k = w.key
  BY LossesTyped DEF Base
<1>2. EffectsOf(w)' = EffectsOf(w) \cup {r}
  BY <1>1, SMT DEF EffectsOf
<1>3. PICK S \in SUBSET Request : S = EffectsOf(w)
  BY DEF EffectsOf
<1>4. PICK n \in Nat, m \in Nat : n = Cardinality(S) /\ m = Cardinality(S \cup {r}) /\ m \in {n, n + 1}
  <2>1. Cardinality(S) \in Nat /\ Cardinality(S \cup {r}) \in {Cardinality(S), Cardinality(S) + 1}
    BY RequestCounts
  <2>2. Cardinality(S \cup {r}) \in Nat
    BY <2>1, SMT
  <2> QED
    BY <2>1, <2>2
<1>5. m = Cardinality(EffectsOf(w)')
  BY <1>2, <1>3, <1>4
<1>6. EffectsAt(w)
  BY DEF EffectsCounted
<1>7. CASE /\ w.tool = "notifications.set_state" /\ state = "firing" /\ state' = "resolved"
  <2>1. S = {}
    BY <1>3, <1>6, <1>7 DEF EffectsAt
  <2>2. n = 0
    BY <1>4, <2>1, RequestCounts
  <2>3. m <= 1
    BY <1>4, <2>2, SMT
  <2> QED
    BY <1>1, <1>5, <1>7, <2>3 DEF EffectsAt
<1>8. CASE w.tool # "notifications.set_state" /\ req'[r].pc = "complete"
  <2>1. IsTool(r) /\ req[r].pc \in ToolWork /\ req'[r].what = w /\ toolLost' = toolLost
    BY <1>1, AtTool DEF Works, WorksOn, ToolWork, ToolPcs, IsTool
  <2>2. HoldsTool(r) /\ Key0(r) = k
    BY <1>1, <2>1 DEF HoldsTool, ToolWork, Key0
  <2>3. ~ RowCompleted(k)
    BY <2>2 DEF Invocations, ToolOwner, RowCompleted
  <2>4. \A q \in Request : ~ Completing(q, k)
    BY <2>1, <2>2 DEF Completing, Invocations, ToolOwner, ToolWork
  <2>5. Completing(r, k)'
    BY <1>1, <1>8, <2>1 DEF Completing, HoldsTool, IsTool, Key0
  <2>6. AppliedNow(k)' /\ ~ AppliedNow(k)
    BY <2>3, <2>4, <2>5 DEF AppliedNow
  <2>7. PICK i \in Nat : i = toolLost[k]
    BY DEF Base, TypeOK, ToolTypes
  <2>8. n <= i
    BY <1>1, <1>3, <1>4, <1>6, <1>8, <2>6, <2>7 DEF EffectsAt
  <2>9. m <= i + 1
    BY <1>4, <2>8, SMT
  <2> QED
    BY <1>1, <1>5, <1>8, <2>1, <2>6, <2>7, <2>9 DEF EffectsAt
<1> QED
  BY <1>1, <1>7, <1>8 DEF Works, Affects

\* A step of a tool call.
LEMMA EffectsTool ==
    ASSUME Base, Base', Invocations, EffectsCounted, NEW r \in Request, ToolStep(r)
    PROVE  EffectsCounted'
<1> SUFFICES ASSUME NEW w \in Calls PROVE EffectsAt(w)'
  BY DEF EffectsCounted
<1>1. w.key \in Key /\ Remains(w.key)
  BY ToolRemains, LossesTyped DEF Base
<1>2. CASE made' = made /\ state' \in {state, "resolved"}
  <2>1. EffectsOf(w)' = EffectsOf(w)
    BY <1>2 DEF EffectsOf
  <2> QED
    BY <1>1, <1>2, <2>1, EffectsKept
<1>3. CASE Works(r) /\ made' # made
  <2>1. Affects(r) /\ state' \in {state, "resolved"} /\ made' = made \cup {<<req[r].what, r>>}
    BY <1>3 DEF Works, Affects
  <2>2. CASE w = req[r].what
    BY <1>3, <2>1, <2>2, EffectAdded
  <2>3. CASE w # req[r].what
    <3>1. EffectsOf(w)' = EffectsOf(w)
      BY <2>1, <2>3, SMT DEF EffectsOf
    <3> QED
      BY <1>1, <2>1, <3>1, EffectsKept
  <2> QED
    BY <2>2, <2>3
<1>4. ~ Works(r) => made' = made /\ state' = state
  <2>1. CASE ToolCall(r) \/ ClearStaleTool(r) \/ InsertTool(r) \/ ReadExistingTool(r)
    BY <2>1 DEF ToolCall, ClearStaleTool, InsertTool, ReadExistingTool, toolVars, data
  <2>2. CASE InvokeAction(r) \/ InvokeReturns(r) \/ Complete(r) \/ Release(r) \/ Trails(r)
    BY <2>2 DEF InvokeAction, InvokeReturns, Complete, Release, Trails, toolVars, data
  <2> QED
    BY <2>1, <2>2, ToolCases
<1>5. Works(r) => state' \in {state, "resolved"}
  BY DEF Works, Affects
<1> QED
  BY <1>2, <1>3, <1>4, <1>5

\* Steps that are not of a tool call.
LEMMA EffectsOutside ==
    ASSUME Base, Base', Sizes, EffectsCounted,
           \/ \E r \in Request : ActionStep(r) /\ UNCHANGED <<toolVars, slashVars>>
           \/ \E r \in Request : SlashStep(r) /\ UNCHANGED toolVars
           \/ Loses
           \/ TimePasses
           \/ Manages
    PROVE  EffectsCounted'
<1>1. toolLost \in [Key -> Nat]
  BY DEF Base, TypeOK, ToolTypes
<1>2. \A k \in Key : toolLost[k] <= toolLost[k]
  BY <1>1, SMT
<1>3. ASSUME made' = made, state' = state, \A k \in Key : Remains(k)
      PROVE  EffectsCounted'
  <2> SUFFICES ASSUME NEW w \in Calls PROVE EffectsAt(w)'
    BY DEF EffectsCounted
  <2>1. EffectsOf(w)' = EffectsOf(w) /\ w.key \in Key
    BY <1>3, LossesTyped DEF EffectsOf, Base
  <2> QED
    BY <1>3, <2>1, EffectsKept
<1>4. ASSUME UNCHANGED toolVars, NEW r \in Request, Others(r), req[r].pc # "complete"
      PROVE  EffectsCounted'
  <2>1. made' = made /\ state' = state /\ tool' = tool /\ toolLost' = toolLost
    BY <1>4 DEF toolVars
  <2>2. ASSUME NEW k \in Key
        PROVE  Remains(k)
    <3>1. \A q \in Request : Completing(q, k) => Completing(q, k)'
      BY <1>4 DEF Others, Completing, HoldsTool, IsTool, Key0
    <3> QED
      BY <1>2, <2>1, <3>1 DEF Remains, AppliedNow, RowCompleted
  <2> QED
    BY <1>3, <2>1, <2>2
<1>5. CASE \E r \in Request : ActionStep(r) /\ UNCHANGED <<toolVars, slashVars>>
  <2>1. PICK r \in Request : ActionStep(r) /\ UNCHANGED <<toolVars, slashVars>>
    BY <1>5
  <2>2. Others(r) /\ req[r].pc # "complete"
    BY <2>1, ActionGo DEF ActionGoes, ActionPcs
  <2> QED
    BY <1>4, <2>1, <2>2
<1>6. CASE \E r \in Request : SlashStep(r) /\ UNCHANGED toolVars
  <2>1. PICK r \in Request : SlashStep(r) /\ UNCHANGED toolVars
    BY <1>6
  <2>2. Others(r) /\ req[r].pc # "complete"
    BY <2>1, SlashGo DEF SlashGoes, CommandPcs, DelayedPcs
  <2> QED
    BY <1>4, <2>1, <2>2
<1>7. CASE Loses
  <2>1. /\ made' = made /\ state' = state /\ tool' = tool
        /\ \A q \in Request : Dropped(q) /\ Counted(q)
        /\ \A k \in Key : toolLost[k] <= toolLost'[k]
    BY <1>7, LossMoves DEF data
  <2>2. ASSUME NEW k \in Key
        PROVE  Remains(k)
    <3>1. \A q \in Request : Completing(q, k) =>
            Completing(q, k)' \/ toolLost[k] < toolLost'[k]
      BY <2>1 DEF Dropped, Counted, Completing, HoldsTool, IsTool, Key0
    <3> QED
      BY <2>1, <3>1 DEF Remains, AppliedNow, RowCompleted
  <2> QED
    BY <1>3, <2>1, <2>2
<1>8. CASE TimePasses
  <2>1. /\ made' = made /\ state' = state /\ req' = req /\ toolLost' = toolLost
        /\ \A k \in Key : tool'[k] = OldRow(tool[k]) /\ tool[k] \in InvocationRow \cup {None}
    BY <1>8, TimeMoves DEF data, Base, TypeOK, ToolTypes
  <2>2. ASSUME NEW k \in Key
        PROVE  Remains(k)
    <3>1. RowCompleted(k) => RowCompleted(k)'
      BY <2>1, OldRows DEF RowCompleted
    <3>2. \A q \in Request : Completing(q, k) => Completing(q, k)'
      BY <2>1 DEF Completing, HoldsTool, IsTool, Key0
    <3> QED
      BY <1>2, <2>1, <3>1, <3>2 DEF Remains, AppliedNow
  <2> QED
    BY <1>3, <2>1, <2>2
<1>9. CASE Manages
  <2>1. made' = made /\ state' = state /\ tool' = tool /\ toolLost' = toolLost /\ req' = req
    BY <1>9, ManageMoves
  <2>2. \A k \in Key : Remains(k)
    BY <1>2, <2>1 DEF Remains, AppliedNow, RowCompleted, Completing, HoldsTool, IsTool, Key0
  <2> QED
    BY <1>3, <2>1, <2>2
<1> QED
  BY <1>5, <1>6, <1>7, <1>8, <1>9

\* One effect for each call lost and one more, after every step.
LEMMA EffectsStep ==
    ASSUME Base, Base', Sizes, Invocations, EffectsCounted,
           [OperationsNext]_<<actionVars, toolVars, slashVars>>
    PROVE  EffectsCounted'
BY EffectsTool, EffectsOutside, StepKinds

\* Nothing was made at first.
LEMMA EffectsInit ==
    ASSUME OperationsInit, Base
    PROVE  EffectsCounted
<1> SUFFICES ASSUME NEW w \in Calls PROVE EffectsAt(w)
  BY DEF EffectsCounted
<1>1. made = {} /\ state = "firing"
  BY DEF OperationsInit, ToolInit
<1>2. EffectsOf(w) = {}
  BY <1>1 DEF EffectsOf
<1>3. Cardinality(EffectsOf(w)) = 0 /\ toolLost[w.key] \in Nat
  BY <1>2, LossesTyped, RequestCounts DEF Base
<1>4. Cardinality(EffectsOf(w)) <= toolLost[w.key] + 1 /\ Cardinality(EffectsOf(w)) <= toolLost[w.key]
  BY <1>3, SMT
<1> QED
  BY <1>1, <1>2, <1>4 DEF EffectsAt

-----------------------------------------------------------------------------
(***************************************************************************)
(* Theorems.                                                               *)
(***************************************************************************)
\* Every variable has its type, and every request the shape of its kind, in all
\* interleavings of clicks, tool calls, commands, losses and restarts.
THEOREM TypeCorrect == OperationsSpec => []TypeOK
<1>1. OperationsInit => Base
  BY BaseInit
<1>2. Base /\ [OperationsNext]_<<actionVars, toolVars, slashVars>> => Base'
  BY BaseStep, RequestSizes
<1>3. Base => TypeOK
  BY DEF Base
<1> QED
  BY <1>1, <1>2, <1>3, PTL DEF OperationsSpec

\* At most one request works for a key, on the row it owns.
LEMMA OneHolder ==
    ASSUME Base, Rows
    PROVE  CalledAgainOnlyAfterLoss
<1> SUFFICES ASSUME NEW k \in Key
             PROVE  /\ Cardinality({r \in Request : HoldsKey(r, k)}) <= 1
                    /\ \A r \in Request : HoldsKey(r, k) => exec[k] = Row(r)
                    /\ sent[k] <= 1 + lost[k]
  BY DEF CalledAgainOnlyAfterLoss
<1>1. Cardinality({r \in Request : HoldsKey(r, k)}) <= 1
  <2>1. PICK H : H = {r \in Request : HoldsKey(r, k)}
    OBVIOUS
  <2>2. ASSUME NEW r \in H, NEW q \in H
        PROVE  r = q
    <3>1. r \in Request /\ q \in Request /\ HoldsKey(r, k) /\ HoldsKey(q, k)
      BY <2>1
    <3> QED
      BY <3>1 DEF Rows, Owner, HoldsKey, Key0
  <2>3. ASSUME NEW r \in H
        PROVE  H = {r}
    BY <2>2, <2>3, SMT
  <2>4. Cardinality(H) = 0 \/ Cardinality(H) = 1
    <3>1. H = {} \/ \E r \in H : TRUE
      OBVIOUS
    <3>2. \A r \in H : Cardinality(H) = 1
      BY <2>3, FS_Singleton
    <3> QED
      BY <3>1, <3>2, FS_EmptySet
  <2> QED
    BY <2>1, <2>4, SMT
<1>2. \A r \in Request : HoldsKey(r, k) => exec[k] = Row(r)
  BY DEF Rows, Owner, HoldsKey, Key0
<1>3. sent[k] <= 1 + lost[k]
  <2>1. sent[k] \in Nat /\ lost[k] \in Nat
    BY DEF Base, TypeOK, ActionTypes
  <2>2. sent[k] <= lost[k] + 1 \/ sent[k] <= lost[k]
    BY DEF Rows, CallsCounted, Calls1
  <2> QED
    BY <2>1, <2>2, SMT
<1> QED
  BY <1>1, <1>2, <1>3

\* At most one request at a time works for an Idempotency-Key, on the running
\* row it inserted, and the target is called again with the key only after a
\* request ended without recording what its callback did.
THEOREM CalledAgain == OperationsSpec => []CalledAgainOnlyAfterLoss
<1>1. OperationsInit => Base /\ Rows
  BY BaseInit, RowsInit
<1>2. Base /\ Rows /\ [OperationsNext]_<<actionVars, toolVars, slashVars>> => (Base /\ Rows)'
  BY BaseStep, RowsStep, RequestSizes
<1>3. Base /\ Rows => CalledAgainOnlyAfterLoss
  BY OneHolder
<1> QED
  BY <1>1, <1>2, <1>3, PTL DEF OperationsSpec

\* Calls with a result are answered from one row, or are one call.
LEMMA StoredAgree ==
    ASSUME Base, Invocations
    PROVE  ReplaysAgree
<1> SUFFICES ASSUME NEW r \in Request, NEW q \in Request, IsTool(r), IsTool(q),
                    Key0(r) = Key0(q), req[r].ans \in Results, req[q].ans \in Results,
                    toolLost[Key0(r)] = 0
             PROVE  req[r].what = req[q].what /\ req[r].ans = req[q].ans
  BY DEF ReplaysAgree, Key0
<1>1. ~ (toolLost[Key0(r)] > 0) /\ ~ (toolLost[Key0(q)] > 0)
  BY SMT
<1>2. ASSUME NEW p \in Request, IsTool(p), req[p].ans \in Results, ~ (toolLost[Key0(p)] > 0)
      PROVE  \/ HoldsTool(p) /\ tool[Key0(p)].status = "running"
             \/ /\ ~ HoldsTool(p) /\ tool[Key0(p)].status = "completed"
                /\ tool[Key0(p)].args = req[p].what /\ tool[Key0(p)].result = req[p].ans
  BY <1>2 DEF Invocations, Replayed, ToolOwner
<1>3. CASE HoldsTool(r) \/ HoldsTool(q)
  BY <1>1, <1>2, <1>3 DEF Invocations, ToolOwner
<1>4. CASE ~ HoldsTool(r) /\ ~ HoldsTool(q)
  BY <1>1, <1>2, <1>4
<1> QED
  BY <1>3, <1>4

\* Two calls that get a result under one key get the same one while no row was
\* lost: the result of the first is stored and replayed.
THEOREM ReplaysSame == OperationsSpec => []ReplaysAgree
<1>1. OperationsInit => Base /\ Invocations
  BY BaseInit, InvocationsInit
<1>2. Base /\ Invocations /\ [OperationsNext]_<<actionVars, toolVars, slashVars>>
        => (Base /\ Invocations)'
  BY BaseStep, InvocationsStep, RequestSizes
<1>3. Base /\ Invocations => ReplaysAgree
  BY StoredAgree
<1> QED
  BY <1>1, <1>2, <1>3, PTL DEF OperationsSpec

\* After a revocation only calls that had authenticated before it leave a run
\* open, however the calls and the revocation are interleaved.
THEOREM RevokedEnd == OperationsSpec => []RevokedRunsEnd
<1>1. OperationsInit => Base /\ Revoked
  BY BaseInit, RevokedInit
<1>2. Base /\ Revoked /\ [OperationsNext]_<<actionVars, toolVars, slashVars>>
        => (Base /\ Revoked)'
  BY BaseStep, RevokedStep, RequestSizes
<1>3. Revoked => RevokedRunsEnd
  BY DEF Revoked
<1> QED
  BY <1>1, <1>2, <1>3, PTL DEF OperationsSpec

\* A success that is recorded or answered is one the target gave for the key.
THEOREM SuccessReal == OperationsSpec => []SuccessIsReal
<1>1. OperationsInit => Base /\ Rows /\ Invocations /\ Real
  BY BaseInit, RowsInit, InvocationsInit, RealInit
<1>2. Base /\ Rows /\ Invocations /\ Real /\ [OperationsNext]_<<actionVars, toolVars, slashVars>>
        => (Base /\ Rows /\ Invocations /\ Real)'
  BY BaseStep, RowsStep, InvocationsStep, RealStep, RequestSizes
<1>3. Real => SuccessIsReal
  BY DEF Real, RowReal, AnswerReal, Did, SuccessIsReal
<1> QED
  BY <1>1, <1>2, <1>3, PTL DEF OperationsSpec

\* What the record and the requests hold is what a retry is answered.
LEMMA RetriesAgree ==
    ASSUME Base, Runs
    PROVE  RetryReplays
<1>1. Contested => Cardinality(Defining) > 1
  <2> SUFFICES ASSUME NEW t \in Team, NEW u \in Team, t # u, command[t] # None, command[u] # None
               PROVE  Cardinality(Defining) > 1
    BY DEF Contested
  <2>1. t \in Defining /\ u \in Defining /\ Defining \subseteq Team
    BY DEF Defining
  <2>2. IsFiniteSet(Defining)
    BY <2>1, FS_Subset, SlashAssumptions
  <2>3. Cardinality(Defining) \in Nat
    BY <2>2, FS_CardinalityType
  <2>4. Cardinality(Defining) # 0
    BY <2>1, <2>2, FS_EmptySet
  <2>5. Cardinality(Defining) # 1
    <3>1. ASSUME NEW x, Defining = {x}
          PROVE  FALSE
      BY <2>1, <3>1
    <3> QED
      BY <2>2, <3>1, FS_Singleton
  <2> QED
    BY <2>3, <2>4, <2>5, SMT
<1>2. \A k \in Key : called[k] <= 1
  BY DEF Runs, CalledOnce
<1>3. ASSUME NEW r \in Request, req[r].late, req[r].what.kind = "command", req[r].pc = "done"
      PROVE  \/ req[r].ans = "replayed"
             \/ req[r].ans = "not found" /\ req[r].what.team = None /\ Contested
  <2>1. req[r].what # None
    BY <1>3 DEF Base, Shape
  <2> QED
    BY <1>3, <2>1 DEF Runs, AnsweredAt, IsCommand
<1> QED
  BY <1>1, <1>2, <1>3 DEF RetryReplays

\* A command reaches the integration at most once per key, and one retried
\* after its answer is replayed.
THEOREM RetriesReplayed == OperationsSpec => []RetryReplays
<1>1. OperationsInit => Base /\ Runs
  BY BaseInit, RunsInit
<1>2. Base /\ Runs /\ [OperationsNext]_<<actionVars, toolVars, slashVars>> => (Base /\ Runs)'
  BY BaseStep, RunsStep, RequestSizes
<1>3. Base /\ Runs => RetryReplays
  BY RetriesAgree
<1> QED
  BY <1>1, <1>2, <1>3, PTL DEF OperationsSpec

\* A response URL records nothing after its expiry, and on SQLite no more than
\* MaxUses deliveries, however the handlers of the deliveries overlap.
THEOREM UrlsRunOut == OperationsSpec => []DeliveriesBounded
<1>1. OperationsInit => Base /\ Deliveries
  BY BaseInit, DeliveriesInit
<1>2. Base /\ Deliveries /\ [OperationsNext]_<<actionVars, toolVars, slashVars>>
        => (Base /\ Deliveries)'
  BY BaseStep, DeliveriesStep, RequestSizes
<1>3. Base /\ Deliveries => DeliveriesBounded
  BY AcceptedBounded
<1> QED
  BY <1>1, <1>2, <1>3, PTL DEF OperationsSpec

\* A repeated tool call does not repeat the effect, except once for every call
\* that ended without completing its row.
THEOREM AppliedAgain == OperationsSpec => []AppliedAgainOnlyAfterLoss
<1>1. OperationsInit => Base /\ Invocations /\ EffectsCounted
  BY BaseInit, InvocationsInit, EffectsInit
<1>2. Base /\ Invocations /\ EffectsCounted /\ [OperationsNext]_<<actionVars, toolVars, slashVars>>
        => (Base /\ Invocations /\ EffectsCounted)'
  BY BaseStep, InvocationsStep, EffectsStep, RequestSizes
<1>3. Base /\ EffectsCounted => AppliedAgainOnlyAfterLoss
  <2> SUFFICES ASSUME Base, EffectsCounted, NEW w \in Calls
               PROVE  Cardinality(EffectsOf(w)) <= 1 + toolLost[w.key]
    BY DEF AppliedAgainOnlyAfterLoss
  <2>1. PICK n \in Nat, i \in Nat : n = Cardinality(EffectsOf(w)) /\ i = toolLost[w.key]
    <3>1. Cardinality(EffectsOf(w)) \in Nat
      BY RequestCounts DEF EffectsOf
    <3> QED
      BY <3>1, LossesTyped DEF Base
  <2>2. n = 0 \/ n <= 1 \/ n <= i + 1
    BY <2>1, RequestCounts DEF EffectsCounted, EffectsAt
  <2>3. n <= 1 + i
    BY <2>2, SMT
  <2> QED
    BY <2>1, <2>3
<1> QED
  BY <1>1, <1>2, <1>3, PTL DEF OperationsSpec

=============================================================================
