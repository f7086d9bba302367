------------------------- MODULE OperationsRowProofs ------------------------
(***************************************************************************)
(* The rows of executions and invocations: who owns them, what they store, *)
(* what a revocation reaches and what a success stands for.                *)
(***************************************************************************)
EXTENDS OperationsProofs

\* The leaves are first-order and Zenon's; one that needs arithmetic names SMT.
USE Zenon

-----------------------------------------------------------------------------
(***************************************************************************)
(* One owner per row, and one callback per row.                            *)
(***************************************************************************)
OwnsRow(q) == Holds(q) => exec[Key0(q)] = Row(q)

Apart(q, p) == (Holds(q) /\ Holds(p) /\ Key0(q) = Key0(p)) => q = p

\* What a step of an action does to the rows: nothing; it drops one that nobody
\* may own, it inserts one, it works on its own, or it finishes it.
Quiet(q) == req'[q] = req[q] \/ (~ Holds(q) /\ ~ Holds(q)')

Drops(r) ==
    /\ exec[Key0(r)] # None /\ exec[Key0(r)].old /\ exec[Key0(r)].status = "running"
    /\ Rewritten(Key0(r), None) /\ ~ Holds(r) /\ ~ Holds(r)' /\ sent' = sent

Inserts(r) ==
    /\ exec[Key0(r)] = None /\ Rewritten(Key0(r), Row(r)) /\ ~ Holds(r) /\ sent' = sent
    /\ req'[r].what = req[r].what /\ req'[r].pc = "prepare"

WorksFor(r) ==
    /\ Holds(r) /\ exec' = exec /\ req'[r].what = req[r].what
    /\ \/ req[r].pc = "prepare" /\ req'[r].pc \in {"call", "finish"} /\ sent' = sent
       \/ /\ req[r].pc = "call" /\ req'[r].pc = "finish"
          /\ sent' = [sent EXCEPT ![Key0(r)] = @ + 1]

Finishes(r) ==
    /\ req[r].pc = "finish" /\ ~ Holds(r)' /\ req[r].out \in {"succeeded", "failed"}
    /\ Rewritten(Key0(r), Outcome(exec[Key0(r)], req[r].out)) /\ sent' = sent

\* The effects of an action's step on the rows.
LEMMA ActionRows ==
    ASSUME Base, NEW r \in Request, ActionStep(r)
    PROVE  /\ Others(r) /\ lost' = lost /\ (req[r].pc # "idle" => Key0(r) \in Key)
           /\ \/ (\A k \in Key : exec'[k] = exec[k]) /\ sent' = sent /\ Quiet(r)
              \/ Key0(r) \in Key /\ (Drops(r) \/ Inserts(r) \/ WorksFor(r) \/ Finishes(r))
<1>1. Others(r) /\ lost' = lost /\ (req[r].pc # "idle" => Key0(r) \in Key)
  <2>1. Others(r) /\ req[r].pc \in ActionPcs \cup {"idle"}
    BY ActionGo DEF ActionGoes
  <2>2. lost' = lost
    BY DEF ActionStep, Click, LoadCard, LoadPost, LookForResult, ClearStale, InsertExecution,
       ReadExisting, Prepare, CallTarget, Finish, history
  <2> QED
    BY <2>1, <2>2, AtAction DEF Key0
<1>2. CASE Click(r) \/ LoadCard(r) \/ LoadPost(r) \/ LookForResult(r) \/ ReadExisting(r)
  <2>1. ~ Holds(r) /\ exec' = exec /\ sent' = sent
    BY <1>2 DEF Click, LoadCard, LoadPost, LookForResult, ReadExisting, Holds, history
  <2>2. ~ Holds(r)'
    BY <1>2, ClickMoves, LoadCardMoves, LoadPostMoves, LookMoves, ReadMoves, ZenonT(30)
       DEF AnsweredAs, CarriedTo, SteppedTo, Moved, Holds
  <2> QED
    BY <1>1, <2>1, <2>2 DEF Quiet
<1>3. CASE ClearStale(r)
  <2>1. ~ Holds(r) /\ ~ Holds(r)' /\ sent' = sent
    BY <1>3, ClearMoves DEF ClearStale, SteppedTo, Moved, Holds, history
  <2> QED
    BY <1>1, <1>3, <2>1, ClearMoves DEF Quiet, Drops, Key0, Rewritten
<1>4. CASE InsertExecution(r)
  <2>1. ~ Holds(r) /\ sent' = sent
    BY <1>4 DEF InsertExecution, Holds, history
  <2> QED
    BY <1>1, <1>4, <2>1, InsertMoves DEF Quiet, Inserts, Key0, SteppedTo, Moved, Holds
<1>5. CASE Prepare(r) \/ CallTarget(r)
  <2>1. Holds(r) /\ exec' = exec /\ req[r].pc # "idle"
    BY <1>5 DEF Prepare, CallTarget, Holds
  <2>2. CASE Prepare(r)
    BY <1>1, <2>1, <2>2, PrepareMoves DEF WorksFor, Prepare, SteppedTo, CarriedTo, Moved,
       history
  <2>3. CASE CallTarget(r)
    BY <1>1, <2>1, <2>3, CallMoves DEF WorksFor, CallTarget, CarriedTo, Moved, Key0
  <2> QED
    BY <1>5, <2>2, <2>3
<1>6. CASE Finish(r)
  <2>1. req[r].pc = "finish" /\ sent' = sent
    BY <1>6 DEF Finish, history
  <2>2. ~ Holds(r)'
    BY <1>6, FinishMoves DEF AnsweredAs, Moved, Holds
  <2> QED
    BY <1>1, <1>6, <2>1, <2>2, FinishMoves DEF Finishes, Key0
<1> QED
  BY <1>2, <1>3, <1>4, <1>5, <1>6 DEF ActionStep

Rows == Owner /\ CallsCounted

\* Holders after a step that only loses or ignores requests were holders before.
LEMMA StillHolds ==
    ASSUME Base, NEW q \in Request, req'[q] = req[q]
    PROVE  /\ Holds(q)' <=> Holds(q)
           /\ req'[q].pc = req[q].pc /\ Key0(q)' = Key0(q) /\ Row(q)' = Row(q)
           /\ \A k : HoldsKey(q, k)' <=> HoldsKey(q, k)
           /\ Holds(q) => Key0(q) \in Key /\ Row(q) # None
           /\ Holds(q) => Row(q).status = "running" /\ Row(q).old = FALSE
<1>1. Holds(q) => req[q].pc \in ActionPcs
  BY DEF Holds, ActionPcs
<1> QED
  BY <1>1, AtAction, RowTyped DEF Holds, Key0, Row, HoldsKey

\* A step that is not about rows.
LEMMA QuietRows ==
    ASSUME Base, Rows, \A k \in Key : exec'[k] = exec[k], sent' = sent, lost' = lost,
           \A q \in Request : Quiet(q)
    PROVE  Rows'
<1>1. \A q \in Request : Holds(q)' => /\ Holds(q) /\ Key0(q)' = Key0(q) /\ Key0(q) \in Key
                                      /\ Row(q)' = Row(q) /\ req'[q] = req[q]
  BY StillHolds DEF Quiet
<1>2. \A q \in Request : Holds(q) => /\ Holds(q)' /\ Key0(q)' = Key0(q)
                                     /\ req'[q] = req[q]
  BY StillHolds DEF Quiet
<1>3. Owner'
  BY <1>1 DEF Rows, Owner
<1>4. ASSUME NEW k \in Key PROVE Called(k)' <=> Called(k)
  <2>1. \A q \in Request : HoldsKey(q, k)' <=> HoldsKey(q, k)
    BY <1>1, <1>2 DEF HoldsKey, Key0
  <2> QED
    BY <1>1, <1>2, <1>4, <2>1 DEF Called, HoldsKey
<1>5. CallsCounted'
  BY <1>4 DEF Rows, CallsCounted, Calls1
<1> QED
  BY <1>3, <1>5 DEF Rows

\* A holder that is lost is counted.
LEMMA LostRows ==
    ASSUME Base, Sizes, Rows, Loses
    PROVE  Rows'
<1>1. /\ \A q \in Request : Dropped(q) /\ Counted(q)
      /\ \A k \in Key : lost[k] \in Nat /\ lost'[k] \in Nat /\ lost[k] <= lost'[k]
      /\ exec' = exec /\ sent' = sent
  BY LossMoves
<1>2. \A q \in Request : req'[q] = Gone => ~ Holds(q)'
  BY GoneFields DEF Holds
<1>3. \A q \in Request : Holds(q)' => /\ Holds(q) /\ Key0(q)' = Key0(q) /\ Key0(q) \in Key
                                      /\ Row(q)' = Row(q)
  BY <1>1, <1>2, StillHolds DEF Dropped
<1>4. Owner'
  BY <1>1, <1>3 DEF Rows, Owner
<1>5. ASSUME NEW k \in Key PROVE Calls1(k)'
  <2>1. sent[k] \in Nat
    BY DEF Base, TypeOK, ActionTypes
  <2>2. CASE Called(k)'
    <3>1. Called(k)
      BY <1>1, <1>2, <2>2, StillHolds DEF Called, Dropped, HoldsKey
    <3>2. sent'[k] = sent[k] /\ sent[k] <= lost[k] + 1 /\ lost[k] <= lost'[k]
      BY <1>1, <1>5, <3>1 DEF Rows, CallsCounted, Calls1
    <3>3. sent'[k] <= lost'[k] + 1
      BY <1>1, <1>5, <2>1, <3>2, SMT
    <3> QED
      BY <2>2, <3>3 DEF Calls1
  <2>3. CASE ~ Called(k)' /\ Called(k)
    <3>1. PICK q \in Request : HoldsKey(q, k) /\ req[q].pc = "finish"
      BY <1>1, <2>3 DEF Called
    <3>2. req'[q] = Gone
      BY <1>1, <2>3, <3>1, StillHolds DEF Called, Dropped
    <3>3. lost[k] < lost'[k] /\ sent'[k] = sent[k] /\ sent[k] <= lost[k] + 1
      BY <1>1, <1>5, <2>3, <3>1, <3>2 DEF Counted, HoldsKey, Key0, Rows, CallsCounted, Calls1
    <3>4. sent'[k] <= lost'[k]
      BY <1>1, <1>5, <2>1, <3>3, SMT
    <3> QED
      BY <2>3, <3>4 DEF Calls1
  <2>4. CASE ~ Called(k)' /\ ~ Called(k)
    <3>1. sent'[k] = sent[k] /\ sent[k] <= lost[k] /\ lost[k] <= lost'[k]
      BY <1>1, <1>5, <2>4 DEF Rows, CallsCounted, Calls1
    <3>2. sent'[k] <= lost'[k]
      BY <1>1, <1>5, <2>1, <3>1, SMT
    <3> QED
      BY <2>4, <3>2 DEF Calls1
  <2> QED
    BY <2>2, <2>3, <2>4
<1> QED
  BY <1>4, <1>5 DEF Rows, CallsCounted

\* Time passes only while nobody holds a row.
LEMMA TimeRows ==
    ASSUME Base, Rows, TimePasses
    PROVE  Rows'
<1>1. /\ \A q \in Request : ~ Holds(q) /\ ~ Holds(q)' /\ \A k \in Key : ~ HoldsKey(q, k)
      /\ sent' = sent /\ lost' = lost
  BY TimeMoves, HoldersLive DEF Holds, HoldsKey, history
<1>2. ASSUME NEW k \in Key PROVE Called(k)' <=> Called(k)
  <2>1. exec[k] \in ExecutionRow \cup {None}
    BY <1>2 DEF Base, TypeOK, ActionTypes
  <2>2. exec'[k] = OldRow(exec[k]) /\ (exec'[k] = None <=> exec[k] = None)
    BY <1>2, TimeMoves
  <2>3. exec[k] # None => exec'[k].status = exec[k].status
    BY <2>1, <2>2, OldRows
  <2> QED
    BY <1>1, <1>2, <2>2, <2>3 DEF Called, HoldsKey
<1>3. CallsCounted'
  BY <1>1, <1>2 DEF Rows, CallsCounted, Calls1
<1> QED
  BY <1>1, <1>3 DEF Rows, Owner

\* A step of an action on the row of its key.
LEMMA ActionRowsStay ==
    ASSUME Base, Rows, NEW r \in Request, ActionStep(r)
    PROVE  Rows'
<1>1. /\ \A q \in Request : q # r => req'[q] = req[q]
      /\ lost' = lost
      /\ \A k \in Key : sent[k] \in Nat /\ lost[k] \in Nat
                        /\ exec[k] \in ExecutionRow \cup {None}
  BY ActionRows DEF Others, Base, TypeOK, ActionTypes
<1>2. /\ \A q \in Request : Holds(q) => exec[Key0(q)] = Row(q)
      /\ \A q, p \in Request : (Holds(q) /\ Holds(p) /\ Key0(q) = Key0(p)) => q = p
      /\ \A k \in Key : Calls1(k)
  BY DEF Rows, Owner, CallsCounted
<1>3. \A q \in Request : q # r =>
        /\ Holds(q)' <=> Holds(q)
        /\ Key0(q)' = Key0(q) /\ Row(q)' = Row(q) /\ req'[q].pc = req[q].pc
        /\ \A k : HoldsKey(q, k)' <=> HoldsKey(q, k)
        /\ Holds(q) => Key0(q) \in Key /\ Row(q) # None
        /\ Holds(q) => Row(q).status = "running" /\ Row(q).old = FALSE
  BY <1>1, StillHolds
<1>4. CASE (\A k \in Key : exec'[k] = exec[k]) /\ sent' = sent /\ Quiet(r)
  BY <1>1, <1>4, QuietRows DEF Quiet
<1>5. PICK k : k = Key0(r)
  OBVIOUS
<1>6. ASSUME \A j \in Key : j # k => exec'[j] = exec[j],
             \A q \in Request : Holds(q)' => q # r /\ Holds(q) /\ Key0(q)' # k
      PROVE  Owner'
  <2>1. ASSUME NEW q \in Request, Holds(q)' PROVE exec'[Key0(q)'] = Row(q)'
    <3>1. Key0(q)' = Key0(q) /\ Key0(q) \in Key /\ Row(q)' = Row(q) /\ Key0(q) # k /\ Holds(q)
      BY <1>3, <1>6, <2>1
    <3> QED
      BY <1>2, <1>6, <2>1, <3>1
  <2>2. ASSUME NEW q \in Request, NEW p \in Request, Holds(q)', Holds(p)', Key0(q)' = Key0(p)'
        PROVE  q = p
    BY <1>2, <1>3, <1>6, <2>2
  <2> QED
    BY <2>1, <2>2 DEF Owner
<1>7. CASE k \in Key /\ Drops(r)
  <2>1. \A q \in Request : Holds(q) => Key0(q) # k
    BY <1>1, <1>2, <1>3, <1>5, <1>7 DEF Drops
  <2>2. \A q \in Request : Holds(q)' => q # r /\ Holds(q) /\ Key0(q)' # k
    BY <1>3, <1>7, <2>1 DEF Drops
  <2>3. Owner'
    BY <1>5, <1>6, <1>7, <2>2 DEF Drops, Rewritten
  <2>4. ~ Called(k) /\ ~ Called(k)' /\ sent' = sent
    BY <1>5, <1>7, <2>1, <2>2 DEF Called, HoldsKey, Key0, Drops, Rewritten
  <2>5. \A j \in Key : j # k => (Called(j)' <=> Called(j))
    BY <1>3, <1>5, <1>7, <2>2 DEF Called, Drops, Rewritten, HoldsKey
  <2>6. CallsCounted'
    BY <1>1, <1>2, <2>4, <2>5 DEF CallsCounted, Calls1
  <2> QED
    BY <2>3, <2>6 DEF Rows
<1>8. CASE k \in Key /\ Inserts(r)
  <2>1. \A q \in Request : Holds(q) => Key0(q) # k
    BY <1>2, <1>3, <1>5, <1>8 DEF Inserts
  <2>2. Key0(r)' = k /\ Row(r)' = Row(r) /\ exec'[k] = Row(r) /\ Row(r).status = "running"
    BY <1>5, <1>8 DEF Inserts, Key0, Row, Rewritten
  <2>3. Owner'
    <3>1. ASSUME NEW q \in Request, Holds(q)' PROVE exec'[Key0(q)'] = Row(q)'
      <4>1. CASE q = r
        BY <2>2, <4>1
      <4>2. CASE q # r
        <5>1. Key0(q)' = Key0(q) /\ Key0(q) \in Key /\ Row(q)' = Row(q) /\ Key0(q) # k
              /\ exec[Key0(q)] = Row(q)
          BY <1>2, <1>3, <2>1, <3>1, <4>2
        <5> QED
          BY <1>5, <1>8, <5>1 DEF Inserts, Rewritten
      <4> QED
        BY <4>1, <4>2
    <3>2. ASSUME NEW q \in Request, NEW p \in Request, Holds(q)', Holds(p)', Key0(q)' = Key0(p)'
          PROVE  q = p
      BY <1>2, <1>3, <2>1, <2>2, <3>2
    <3> QED
      BY <3>1, <3>2 DEF Owner
  <2>4. ~ Called(k) /\ ~ Called(k)' /\ sent' = sent
    BY <1>3, <1>5, <1>8, <2>1, <2>2 DEF Called, HoldsKey, Key0, Inserts
  <2>5. \A j \in Key : j # k => (Called(j)' <=> Called(j))
    BY <1>3, <1>5, <1>8, <2>2 DEF Called, Inserts, Rewritten, HoldsKey, Key0
  <2>6. CallsCounted'
    BY <1>1, <1>2, <2>4, <2>5 DEF CallsCounted, Calls1
  <2> QED
    BY <2>3, <2>6 DEF Rows
<1>9. CASE k \in Key /\ WorksFor(r)
  <2>1. Holds(r) /\ Holds(r)' /\ Key0(r)' = k /\ Row(r)' = Row(r) /\ exec' = exec
    BY <1>5, <1>9 DEF WorksFor, Key0, Row, Holds
  <2>2. Owner'
    <3>1. \A q \in Request : /\ Holds(q)' <=> Holds(q)
                              /\ Key0(q)' = Key0(q) /\ Row(q)' = Row(q)
      BY <1>3, <1>5, <2>1
    <3> QED
      BY <1>2, <2>1, <3>1 DEF Owner
  <2>3. \A j \in Key : j # k => (Called(j)' <=> Called(j))
    BY <1>3, <1>5, <2>1 DEF Called, HoldsKey, Key0
  <2>4. exec[k] # None /\ exec[k].status = "running" /\ exec[k] = Row(r)
    <3>1. req[r].pc \in ActionPcs
      BY <2>1 DEF Holds, ActionPcs
    <3> QED
      BY <1>2, <1>5, <2>1, <3>1, RowTyped
  <2>5. ~ Called(k)
    BY <1>2, <1>5, <1>9, <2>1, <2>4 DEF Called, HoldsKey, WorksFor, Key0
  <2>6. CASE sent' = sent
    BY <1>1, <1>2, <1>9, <2>2, <2>3, <2>5, <2>6, SMT DEF CallsCounted, Calls1, Rows
  <2>7. CASE req'[r].pc = "finish" /\ sent' = [sent EXCEPT ![Key0(r)] = @ + 1]
    <3>1. Called(k)'
      BY <2>1, <2>7 DEF Called, HoldsKey, Key0
    <3>2. sent'[k] = sent[k] + 1 /\ \A j \in Key : j # k => sent'[j] = sent[j]
      BY <1>5, <1>9, <2>7 DEF Base, TypeOK, ActionTypes
    <3>3. Calls1(k)'
      BY <1>1, <1>2, <1>9, <2>5, <3>1, <3>2, SMT DEF Calls1
    <3>4. CallsCounted'
      BY <1>1, <1>2, <2>3, <3>2, <3>3 DEF CallsCounted, Calls1
    <3> QED
      BY <2>2, <3>4 DEF Rows
  <2> QED
    BY <1>9, <2>6, <2>7 DEF WorksFor
<1>10. CASE k \in Key /\ Finishes(r)
  <2>1. Holds(r) /\ ~ Holds(r)' /\ sent' = sent
    BY <1>10 DEF Finishes, Holds
  <2>2. \A q \in Request : Holds(q)' => q # r /\ Holds(q) /\ Key0(q)' # k
    BY <1>2, <1>3, <1>5, <2>1
  <2>3. Owner'
    BY <1>5, <1>6, <1>10, <2>2 DEF Finishes, Rewritten
  <2>4. \A j \in Key : j # k => (Called(j)' <=> Called(j))
    BY <1>3, <1>5, <1>10, <2>1, <2>2 DEF Called, HoldsKey, Key0, Finishes, Rewritten
  <2>5. Called(k)
    BY <1>5, <1>10, <2>1 DEF Called, HoldsKey, Key0, Finishes
  <2>6. exec[k] # None
    BY <1>2, <1>5, <2>1, RowTyped DEF Holds, ActionPcs
  <2>7. Called(k)'
    <3>0. exec'[k] = Outcome(exec[k], req[r].out) /\ req[r].out \in {"succeeded", "failed"}
      BY <1>5, <1>10 DEF Finishes, Rewritten
    <3>1. /\ exec'[k] = Outcome(exec[k], req[r].out)
          /\ req[r].out \in {"succeeded", "failed"} /\ req[r].out # "running"
      BY <3>0, SMT
    <3>2. exec'[k] # None /\ exec'[k].status = req[r].out
      <4>1. PICK row \in ExecutionRow \cup {None} : row = exec[k]
        BY <1>1, <1>10
      <4>2. PICK out \in {"succeeded", "failed"} : out = req[r].out
        BY <3>1
      <4>3. Outcome(row, out) # None /\ Outcome(row, out).status = out
        BY <2>6, <4>1, OutcomeRow
      <4> QED
        BY <3>1, <4>1, <4>2, <4>3
    <3> QED
      BY <3>1, <3>2 DEF Called
  <2>8. CallsCounted'
    BY <1>1, <1>2, <2>1, <2>4, <2>5, <2>7 DEF CallsCounted, Calls1
  <2> QED
    BY <2>3, <2>8 DEF Rows
<1> QED
  BY <1>4, <1>5, <1>7, <1>8, <1>9, <1>10, ActionRows

\* A step of a tool or of a command is not about the rows of actions.
LEMMA OutsideActions ==
    ASSUME Base, NEW r \in Request, ToolStep(r) \/ SlashStep(r)
    PROVE  /\ exec' = exec /\ sent' = sent /\ taken' = taken /\ lost' = lost
           /\ \A q \in Request : Quiet(q)
           /\ \A q \in Request : q # r => req'[q] = req[q]
<1>1. exec' = exec /\ sent' = sent /\ taken' = taken /\ lost' = lost
  BY ToolFrame, SlashFrame DEF history
<1>2. Others(r)
  BY ToolGo, SlashGo DEF ToolGoes, SlashGoes
<1>3. CASE ToolStep(r)
  BY <1>1, <1>2, <1>3, ToolGo DEF ToolGoes, ToolPcs, Quiet, Holds, Others
<1>4. CASE SlashStep(r)
  BY <1>1, <1>2, <1>4, SlashGo DEF SlashGoes, CommandPcs, DelayedPcs, Quiet, Holds, Others
<1> QED
  BY <1>3, <1>4

\* One owner per row and one callback per row, after every step.
LEMMA RowsStep ==
    ASSUME Base, Sizes, Rows, [OperationsNext]_<<actionVars, toolVars, slashVars>>
    PROVE  Rows'
<1>1. CASE \E r \in Request : ActionStep(r)
  BY <1>1, ActionRowsStay
<1>2. CASE \E r \in Request : ToolStep(r) \/ SlashStep(r)
  BY <1>2, OutsideActions, QuietRows
<1>3. CASE Manages
  BY <1>3, ManageMoves, QuietRows DEF Quiet
<1> QED
  BY <1>1, <1>2, <1>3, LostRows, TimeRows, StepKinds

\* Nothing is owned at first.
LEMMA RowsInit ==
    ASSUME OperationsInit
    PROVE  Rows
<1>1. /\ \A r \in Request : req[r].pc = "idle"
      /\ \A k \in Key : exec[k] = None /\ sent[k] = 0 /\ lost[k] = 0
  BY DEF OperationsInit, ActionInit, Idle
<1>2. \A r \in Request : ~ Holds(r)
  BY <1>1 DEF Holds
<1>3. \A k \in Key : ~ Called(k)
  BY <1>1, <1>2 DEF Called, HoldsKey
<1>4. CallsCounted
  BY <1>1, <1>3, SMT DEF CallsCounted, Calls1
<1> QED
  BY <1>2, <1>4 DEF Rows, Owner

-----------------------------------------------------------------------------
(***************************************************************************)
(* One owner per invocation, and stored results.                           *)
(***************************************************************************)
\* The row answers the request with this result.
Says(row, w, a) ==
    row # None /\ row.status = "completed" /\ row.args = w /\ row.result = a

QuietTool(q) ==
    /\ HoldsTool(q)' => HoldsTool(q) /\ req'[q].what = req[q].what
    /\ (IsTool(q)' /\ req'[q].ans \in Results /\ ~ HoldsTool(q)') =>
         \/ toolLost'[Key0(q)'] > 0
         \/ /\ IsTool(q) /\ ~ HoldsTool(q)
            /\ req'[q].what = req[q].what /\ req'[q].ans = req[q].ans
         \/ Says(tool[Key0(q)'], req'[q].what, req'[q].ans)

Invocations == ToolOwner /\ \A r \in Request : Replayed(r)

\* A request that stands still is quiet, and its key is a key.
LEMMA StandsStill ==
    ASSUME Base, NEW q \in Request, req'[q] = req[q]
    PROVE  /\ QuietTool(q) /\ Key0(q)' = Key0(q)
           /\ HoldsTool(q)' <=> HoldsTool(q)
           /\ IsTool(q)' <=> IsTool(q)
BY DEF QuietTool, HoldsTool, IsTool, Key0

\* A tool request has a key and is one of the calls.
LEMMA ToolKeys ==
    ASSUME NEW w \in Asked, w.kind = "tool"
    PROVE  w.key \in Key /\ w \in Calls
<1>1. w \in Calls
  BY DEF Asked, Calls
<1> QED
  BY <1>1, ToolAssumptions

\* A step that leaves the rows alone.
LEMMA QuietTools ==
    ASSUME Base, Base', Invocations, \A k \in Key : tool'[k] = tool[k],
           \A k \in Key : toolLost[k] > 0 => toolLost'[k] > 0,
           \A q \in Request : QuietTool(q)
    PROVE  Invocations'
<1>0. /\ \A q \in Request : req[q].what \in Asked \cup {None} /\ req'[q].what \in Asked \cup {None}
  BY DEF Base, TypeOK, ActionTypes, RequestState
<1>1. \A q \in Request : HoldsTool(q)' => /\ HoldsTool(q) /\ Key0(q)' = Key0(q)
                                          /\ Key0(q) \in Key /\ req'[q].what = req[q].what
  BY <1>0, ToolKeys DEF QuietTool, HoldsTool, IsTool, Key0
<1>2. ToolOwner'
  <2>1. ASSUME NEW r \in Request, HoldsTool(r)'
        PROVE  /\ tool'[Key0(r)'] # None /\ tool'[Key0(r)'].args = req'[r].what
               /\ tool'[Key0(r)'].status = "running" /\ ~ tool'[Key0(r)'].old
    <3>1. HoldsTool(r) /\ tool'[Key0(r)'] = tool[Key0(r)] /\ req'[r].what = req[r].what
      BY <1>1, <2>1
    <3>2. PICK row : row = tool[Key0(r)]
      OBVIOUS
    <3>3. row # None /\ row.args = req[r].what /\ row.status = "running" /\ ~ row.old
      BY <3>1, <3>2 DEF Invocations, ToolOwner
    <3> QED
      BY <3>1, <3>2, <3>3
  <2>2. ASSUME NEW r \in Request, NEW q \in Request, HoldsTool(r)', HoldsTool(q)',
               Key0(r)' = Key0(q)'
        PROVE  r = q
    <3>1. HoldsTool(r) /\ HoldsTool(q) /\ Key0(r) = Key0(q)
      BY <1>1, <2>2
    <3> QED
      BY <3>1 DEF Invocations, ToolOwner
  <2>3. ASSUME NEW k \in Key, tool'[k] # None
        PROVE  tool'[k].args.key = k /\ (tool'[k].status = "running" <=> tool'[k].result = "")
    <3>1. tool'[k] = tool[k]
      OBVIOUS
    <3> QED
      BY <2>3, <3>1, ZenonT(40) DEF Invocations, ToolOwner
  <2> QED
    BY <2>1, <2>2, <2>3 DEF ToolOwner
<1>3. ASSUME NEW q \in Request, IsTool(q)', req'[q].ans \in Results, ~ HoldsTool(q)',
             ~ toolLost'[Key0(q)'] > 0
      PROVE  Says(tool'[Key0(q)'], req'[q].what, req'[q].ans)
  <2>1. PICK k \in Key : k = Key0(q)'
    BY <1>0, <1>3, ToolKeys DEF IsTool, Key0
  <2> QED
    BY <1>3, <2>1, SMTT(30) DEF QuietTool, Says, Invocations, Replayed, Key0
<1>4. \A q \in Request : Replayed(q)'
  BY <1>3 DEF Replayed, Says, Key0
<1> QED
  BY <1>2, <1>4 DEF Invocations

\* A step of an action or of a command is not about invocations.
LEMMA OutsideTools ==
    ASSUME Base, NEW r \in Request, ActionStep(r) \/ SlashStep(r)
    PROVE  \A q \in Request : QuietTool(q)
<1>1. CASE ActionStep(r)
  <2>1. Others(r)
    BY <1>1, ActionGo DEF ActionGoes
  <2>2. IsTool(r)' => HoldsTool(r)' /\ HoldsTool(r) /\ req'[r].what = req[r].what
    BY <1>1, ActionGo DEF ActionGoes, ActionPcs, IsTool, HoldsTool
  <2>3. QuietTool(r)
    BY <2>2 DEF QuietTool, HoldsTool
  <2> QED
    BY <2>1, <2>3, StandsStill DEF Others
<1>2. CASE SlashStep(r)
  <2>1. Others(r) /\ ~ IsTool(r)'
    BY <1>2, SlashGo DEF SlashGoes, IsTool
  <2>2. QuietTool(r)
    BY <2>1 DEF QuietTool, HoldsTool
  <2> QED
    BY <2>1, <2>2, StandsStill DEF Others
<1> QED
  BY <1>1, <1>2

\* What a step of a tool call does to the rows otherwise.
DropsTool(r) ==
    /\ tool[Key0(r)] # None /\ tool[Key0(r)].old /\ tool[Key0(r)].status = "running"
    /\ ToolRewritten(Key0(r), None) /\ QuietTool(r) /\ ~ HoldsTool(r)'
    /\ req'[r].what = req[r].what

InsertsTool(r) ==
    /\ tool[Key0(r)] = None /\ ToolRewritten(Key0(r), Reserved(req[r].what))
    /\ HoldsTool(r)' /\ req'[r].what = req[r].what

StoresTool(r) ==
    /\ HoldsTool(r) /\ ~ HoldsTool(r)' /\ req'[r].what = req[r].what
    /\ req'[r].ans = req[r].out /\ req[r].out \in Results
    /\ ToolRewritten(Key0(r), Stored(tool[Key0(r)], req[r].out))

FreesTool(r) ==
    /\ HoldsTool(r) /\ ~ HoldsTool(r)' /\ req'[r].ans \notin Results
    /\ tool[Key0(r)] # None /\ ToolRewritten(Key0(r), None)

\* The effects of a tool's step on the rows.
LEMMA ToolRows ==
    ASSUME Base, NEW r \in Request, ToolStep(r)
    PROVE  /\ \A q \in Request : q # r => req'[q] = req[q]
           /\ \/ /\ QuietTool(r) /\ \A k \in Key : tool'[k] = tool[k]
                 /\ \A k \in Key : toolLost[k] > 0 => toolLost'[k] > 0
              \/ /\ Key0(r) \in Key /\ req[r].what \in Calls /\ toolLost' = toolLost
                 /\ DropsTool(r) \/ InsertsTool(r) \/ StoresTool(r) \/ FreesTool(r)
<1>0. Others(r)
  BY ToolGo DEF ToolGoes
<1>1. CASE ToolCall(r)
  <2>1. tool' = tool /\ toolLost' = toolLost
    BY <1>1 DEF ToolCall, toolVars
  <2>2. req'[r].pc = "tclear" /\ req'[r].ans = ""
    BY <1>1, ToolCallMoves DEF Moved
  <2>3. QuietTool(r)
    BY <2>2, ResultsApart DEF QuietTool, HoldsTool
  <2> QED
    BY <1>0, <2>1, <2>3 DEF Others
<1>2. CASE ClearStaleTool(r)
  <2>1. toolLost' = toolLost /\ req[r].pc = "tclear"
    BY <1>2 DEF ClearStaleTool
  <2>2. SteppedTo(r, "tinsert") /\ Key0(r) \in Key /\ req[r].what \in Calls
    BY <1>2, <2>1, ClearToolMoves, AtTool DEF Key0, ToolPcs
  <2>3. QuietTool(r) /\ ~ HoldsTool(r)' /\ req'[r].what = req[r].what
    BY <2>1, <2>2 DEF QuietTool, HoldsTool, IsTool, SteppedTo, Moved
  <2>4. CASE ToolRewritten(Key0(r), tool[Key0(r)])
    <3>1. \A k \in Key : tool'[k] = tool[k]
      BY <2>4 DEF ToolRewritten
    <3> QED
      BY <1>0, <2>1, <2>3, <3>1 DEF Others
  <2>5. CASE /\ tool[Key0(r)] # None /\ tool[Key0(r)].status = "running"
             /\ tool[Key0(r)].old /\ ToolRewritten(Key0(r), None)
    BY <1>0, <2>1, <2>2, <2>3, <2>5 DEF Others, DropsTool
  <2> QED
    BY <1>2, <2>4, <2>5, ClearToolMoves DEF Key0
<1>3. CASE InsertTool(r)
  <2>1. toolLost' = toolLost /\ req[r].pc = "tinsert"
    BY <1>3 DEF InsertTool
  <2>2. Key0(r) \in Key /\ req[r].what \in Calls /\ IsTool(r)
    BY <2>1, AtTool DEF Key0, ToolPcs, IsTool
  <2>3. CASE tool' = tool /\ SteppedTo(r, "texisting")
    <3>1. QuietTool(r)
      BY <2>1, <2>3 DEF QuietTool, HoldsTool, IsTool, SteppedTo, Moved
    <3> QED
      BY <1>0, <2>1, <2>3, <3>1 DEF Others
  <2>4. CASE /\ tool[Key0(r)] = None /\ SteppedTo(r, "apply")
             /\ ToolRewritten(Key0(r), Reserved(req[r].what))
    <3>1. HoldsTool(r)' /\ req'[r].what = req[r].what
      BY <2>2, <2>4 DEF HoldsTool, IsTool, SteppedTo, Moved
    <3> QED
      BY <1>0, <2>1, <2>2, <2>4, <3>1 DEF Others, InsertsTool
  <2> QED
    BY <1>3, <2>3, <2>4, InsertToolMoves DEF Key0
<1>4. CASE ReadExistingTool(r)
  <2>1. tool' = tool /\ toolLost' = toolLost
    BY <1>4 DEF ReadExistingTool, toolVars
  <2>2. PICK a \in Answers :
              /\ EndedAs(r, a)
              /\ a \in Results => Says(tool[req[r].what.key], req[r].what, a)
    BY <1>4, ReadToolMoves DEF Says
  <2>3. QuietTool(r)
    BY <2>2 DEF QuietTool, HoldsTool, EndedAs, Moved, Key0
  <2> QED
    BY <1>0, <2>1, <2>3 DEF Others
<1>5. CASE Works(r)
  <2>1. tool' = tool /\ toolLost' = toolLost /\ WorksOn(r)
    BY <1>5 DEF Works
  <2>2. HoldsTool(r) /\ HoldsTool(r)' /\ req'[r].what = req[r].what
    BY <2>1, AtTool DEF WorksOn, ToolWork, ToolPcs, HoldsTool, IsTool
  <2>3. QuietTool(r)
    BY <2>2 DEF QuietTool
  <2> QED
    BY <1>0, <2>1, <2>3 DEF Others
<1>6. CASE Trails(r)
  <2>1. tool' = tool /\ toolLost' = toolLost /\ req[r].pc \in {"effect", "event"}
        /\ (SteppedTo(r, "event") \/ SteppedTo(r, "done"))
    BY <1>6 DEF Trails
  <2>2. QuietTool(r)
    BY <2>1 DEF QuietTool, HoldsTool, IsTool, SteppedTo, Moved
  <2> QED
    BY <1>0, <2>1, <2>2 DEF Others
<1>7. CASE InvokeAction(r) \/ InvokeReturns(r)
  <2>1. tool' = tool /\ toolLost' = toolLost /\ req[r].pc \in {"apply", "returned"}
    BY <1>7 DEF InvokeAction, InvokeReturns, toolVars, Uses
  <2>2. HoldsTool(r)
    BY <2>1, AtTool DEF ToolPcs, HoldsTool, IsTool
  <2>3. HoldsTool(r)' /\ req'[r].what = req[r].what
    BY <1>7, <2>2, InvokeMoves, ReturnMoves DEF HoldsTool, IsTool, SteppedTo, CarriedTo, Moved
  <2>4. QuietTool(r)
    BY <2>2, <2>3 DEF QuietTool
  <2> QED
    BY <1>0, <2>1, <2>4 DEF Others
<1>8. CASE Complete(r)
  <2>1. req[r].pc = "complete"
    BY <1>8 DEF Complete
  <2>2. HoldsTool(r) /\ Key0(r) \in Key /\ req[r].what \in Calls
    BY <2>1, AtTool DEF ToolPcs, HoldsTool, IsTool, Key0
  <2>3. /\ ~ HoldsTool(r)' /\ req'[r].what = req[r].what /\ req[r].out \in Results
        /\ req'[r].ans = req[r].out
    BY <1>8, CompletedMoves DEF Moved, HoldsTool
  <2>4. CASE /\ ToolRewritten(Key0(r), Stored(tool[Key0(r)], req[r].out))
             /\ toolLost' = toolLost
    BY <1>0, <2>2, <2>3, <2>4 DEF Others, StoresTool
  <2>5. CASE tool' = tool /\ toolLost' = [toolLost EXCEPT ![Key0(r)] = @ + 1]
    <3>1. toolLost \in [Key -> Nat]
      BY DEF Base, TypeOK, ToolTypes
    <3>2. \A k \in Key : toolLost[k] > 0 => toolLost'[k] > 0
      BY <2>2, <2>5, <3>1, SMT
    <3>3. toolLost'[Key0(r)] > 0 /\ Key0(r)' = Key0(r)
      BY <2>2, <2>3, <2>5, <3>1, SMT DEF Key0
    <3>4. QuietTool(r)
      BY <2>3, <3>3 DEF QuietTool
    <3> QED
      BY <1>0, <2>5, <3>2, <3>4 DEF Others
  <2> QED
    BY <1>8, <2>4, <2>5, CompletedMoves DEF Key0
<1>9. CASE Release(r)
  <2>1. req[r].pc = "release" /\ toolLost' = toolLost
    BY <1>9 DEF Release
  <2>2. HoldsTool(r) /\ Key0(r) \in Key /\ req[r].what \in Calls
    BY <2>1, AtTool DEF ToolPcs, HoldsTool, IsTool, Key0
  <2>3. ~ HoldsTool(r)' /\ req'[r].ans \notin Results
    BY <1>9, ReleaseMoves, ResultsApart DEF EndedAs, Moved, HoldsTool
  <2>4. CASE tool[Key0(r)] # None /\ ToolRewritten(Key0(r), None)
    BY <1>0, <2>1, <2>2, <2>3, <2>4 DEF Others, FreesTool
  <2>5. CASE ToolRewritten(Key0(r), tool[Key0(r)])
    <3>1. QuietTool(r) /\ \A k \in Key : tool'[k] = tool[k]
      BY <2>3, <2>5 DEF QuietTool, ToolRewritten
    <3> QED
      BY <1>0, <2>1, <3>1 DEF Others
  <2> QED
    BY <1>9, <2>4, <2>5, ReleaseMoves DEF Key0
<1> QED
  BY <1>1, <1>2, <1>3, <1>4, <1>5, <1>6, <1>7, <1>8, <1>9, ToolCases

\* A step of a tool call on the row of its key.
LEMMA ToolRowsStay ==
    ASSUME Base, Base', Invocations, NEW r \in Request, ToolStep(r)
    PROVE  Invocations'
<1>1. /\ \A q \in Request : q # r => req'[q] = req[q]
      /\ \A q \in Request : req[q].what \in Asked \cup {None}
      /\ \A k \in Key : tool[k] \in InvocationRow \cup {None}
  BY ToolRows DEF Base, TypeOK, ActionTypes, ToolTypes, RequestState
<1>2. /\ \A q \in Request : HoldsTool(q) =>
           /\ tool[Key0(q)] # None /\ tool[Key0(q)].args = req[q].what
           /\ tool[Key0(q)].status = "running" /\ ~ tool[Key0(q)].old
      /\ \A q, p \in Request : (HoldsTool(q) /\ HoldsTool(p) /\ Key0(q) = Key0(p)) => q = p
      /\ \A k \in Key : tool[k] # None =>
           tool[k].args.key = k /\ (tool[k].status = "running" <=> tool[k].result = "")
      /\ \A q \in Request : Replayed(q)
  BY DEF Invocations, ToolOwner
<1>3. \A q \in Request : q # r => /\ HoldsTool(q)' <=> HoldsTool(q)
                                  /\ IsTool(q)' <=> IsTool(q)
                                  /\ Key0(q)' = Key0(q)
  BY <1>1, StandsStill
<1>4. \A q \in Request : IsTool(q) => Key0(q) \in Key
  BY <1>1, ToolKeys DEF IsTool, Key0
<1>5. CASE /\ QuietTool(r) /\ \A k \in Key : tool'[k] = tool[k]
           /\ \A k \in Key : toolLost[k] > 0 => toolLost'[k] > 0
  BY <1>1, <1>5, StandsStill, QuietTools
<1>6. CASE /\ Key0(r) \in Key /\ req[r].what \in Calls /\ toolLost' = toolLost
           /\ DropsTool(r) \/ InsertsTool(r) \/ StoresTool(r) \/ FreesTool(r)
  <2>1. PICK k \in Key : k = Key0(r)
    BY <1>6
  <2>2. \A q \in Request : (q # r /\ HoldsTool(q)) => Key0(q) # k
    <3>1. ASSUME NEW q \in Request, q # r, HoldsTool(q), Key0(q) = k PROVE FALSE
      <4>1. tool[k] # None /\ ~ tool[k].old
        BY <1>2, <3>1
      <4>2. CASE DropsTool(r) \/ InsertsTool(r)
        BY <2>1, <4>1, <4>2 DEF DropsTool, InsertsTool
      <4>3. CASE HoldsTool(r)
        BY <1>2, <2>1, <3>1, <4>3
      <4> QED
        BY <1>6, <4>2, <4>3 DEF StoresTool, FreesTool
    <3> QED
      BY <3>1
  <2>3. ~ (tool[k] # None /\ tool[k].status = "completed")
    BY <1>2, <1>6, <2>1 DEF DropsTool, InsertsTool, StoresTool, FreesTool
  <2>4. \A j \in Key : j # k => tool'[j] = tool[j]
    BY <1>6, <2>1 DEF DropsTool, InsertsTool, StoresTool, FreesTool, ToolRewritten
  <2>5. HoldsTool(r)' => /\ Key0(r)' = k /\ tool'[k] = Reserved(req[r].what)
                         /\ req'[r].what = req[r].what
    BY <1>6, <2>1 DEF DropsTool, InsertsTool, StoresTool, FreesTool, ToolRewritten, Key0
  <2>6. /\ Reserved(req[r].what) # None /\ Reserved(req[r].what).args = req[r].what
        /\ Reserved(req[r].what).status = "running" /\ Reserved(req[r].what).old = FALSE
        /\ Reserved(req[r].what).result = ""
    BY <1>6, ReservedRow
  <2>7. StoresTool(r) =>
          /\ tool'[k] # None /\ tool'[k].status = "completed" /\ tool'[k].result = req[r].out
          /\ tool'[k].args = req[r].what /\ req[r].out # ""
    <3>1. SUFFICES ASSUME StoresTool(r)
          PROVE /\ tool'[k] # None /\ tool'[k].status = "completed"
                /\ tool'[k].result = req[r].out
                /\ tool'[k].args = req[r].what /\ req[r].out # ""
      OBVIOUS
    <3>2. PICK row \in InvocationRow \cup {None} : row = tool[k]
      BY <1>1, <2>1
    <3>3. PICK res \in Results : res = req[r].out
      BY <3>1 DEF StoresTool
    <3>4. row # None /\ row.args = req[r].what /\ tool'[k] = Stored(row, res)
      BY <1>2, <2>1, <3>1, <3>2, <3>3 DEF StoresTool, ToolRewritten
    <3>5. Stored(row, res) # None /\ Stored(row, res).status = "completed"
          /\ Stored(row, res).result = res /\ Stored(row, res).args = row.args
      BY <3>4, StoredRow
    <3>6. res # ""
      BY ResultsApart
    <3> QED
      BY <3>3, <3>4, <3>5, <3>6
  <2>8. ASSUME NEW q \in Request, HoldsTool(q)'
        PROVE  /\ tool'[Key0(q)'] # None /\ tool'[Key0(q)'].args = req'[q].what
               /\ tool'[Key0(q)'].status = "running" /\ ~ tool'[Key0(q)'].old
    <3>1. CASE q = r
      BY <2>5, <2>6, <2>8, <3>1
    <3>2. CASE q # r
      <4>1. HoldsTool(q) /\ tool'[Key0(q)'] = tool[Key0(q)] /\ req'[q].what = req[q].what
        BY <1>1, <1>3, <1>4, <2>2, <2>4, <2>8, <3>2 DEF HoldsTool
      <4>2. PICK row : row = tool[Key0(q)]
        OBVIOUS
      <4>3. row # None /\ row.args = req[q].what /\ row.status = "running" /\ ~ row.old
        BY <1>2, <4>1, <4>2
      <4> QED
        BY <4>1, <4>2, <4>3
    <3> QED
      BY <3>1, <3>2
  <2>9. ASSUME NEW q \in Request, NEW p \in Request, HoldsTool(q)', HoldsTool(p)',
               Key0(q)' = Key0(p)'
        PROVE  q = p
    <3>1. CASE q # r /\ p # r
      <4>1. HoldsTool(q) /\ HoldsTool(p) /\ Key0(q) = Key0(p)
        BY <1>3, <2>9, <3>1
      <4> QED
        BY <1>2, <4>1
    <3>2. CASE q = r /\ p # r
      BY <1>3, <2>2, <2>5, <2>9, <3>2
    <3>3. CASE q # r /\ p = r
      BY <1>3, <2>2, <2>5, <2>9, <3>3
    <3> QED
      BY <3>1, <3>2, <3>3
  <2>10. ASSUME NEW j \in Key, tool'[j] # None
         PROVE  tool'[j].args.key = j /\ (tool'[j].status = "running" <=> tool'[j].result = "")
    <3>1. CASE j # k
      <4>1. tool'[j] = tool[j]
        BY <2>4, <3>1
      <4> QED
        BY <1>2, <2>10, <4>1, ZenonT(40)
    <3>2. CASE j = k
      <4>1. CASE DropsTool(r) \/ FreesTool(r)
        BY <2>1, <2>10, <3>2, <4>1 DEF DropsTool, FreesTool, ToolRewritten
      <4>2. CASE InsertsTool(r)
        BY <2>1, <2>5, <2>6, <3>2, <4>2 DEF InsertsTool, Key0
      <4>3. CASE StoresTool(r)
        BY <2>1, <2>7, <3>2, <4>3 DEF Key0
      <4> QED
        BY <1>6, <4>1, <4>2, <4>3
    <3> QED
      BY <3>1, <3>2
  <2>11. ToolOwner'
    BY <2>8, <2>9, <2>10 DEF ToolOwner
  <2>12. ASSUME NEW q \in Request, IsTool(q)', req'[q].ans \in Results, ~ HoldsTool(q)',
                ~ toolLost'[Key0(q)'] > 0
         PROVE  Says(tool'[Key0(q)'], req'[q].what, req'[q].ans)
    <3>1. CASE q # r
      <4>1. /\ IsTool(q) /\ ~ HoldsTool(q) /\ Key0(q)' = Key0(q) /\ Key0(q) \in Key
            /\ req'[q] = req[q]
        BY <1>1, <1>3, <1>4, <2>12, <3>1
      <4>2. Says(tool[Key0(q)], req[q].what, req[q].ans)
        BY <1>2, <1>6, <2>12, <4>1 DEF Replayed, Says
      <4>3. Key0(q) # k
        BY <2>3, <4>2 DEF Says
      <4> QED
        BY <2>4, <4>1, <4>2, <4>3
    <3>2. CASE q = r /\ StoresTool(r)
      <4>1. Key0(r)' = k /\ req'[r].what = req[r].what /\ req'[r].ans = req[r].out
        BY <2>1, <3>2 DEF StoresTool, Key0
      <4> QED
        BY <2>7, <3>2, <4>1 DEF Says
    <3>3. CASE q = r /\ FreesTool(r)
      BY <2>12, <3>3 DEF FreesTool
    <3>4. CASE q = r /\ DropsTool(r)
      <4>1. Key0(r)' = k /\ req'[r].what = req[r].what
        BY <2>1, <3>4 DEF DropsTool, Key0
      <4>2. Says(tool[k], req'[q].what, req'[q].ans)
        BY <1>2, <1>6, <2>1, <2>12, <3>4, <4>1 DEF DropsTool, QuietTool, Replayed, Says
      <4> QED
        BY <2>3, <4>2 DEF Says
    <3> QED
      BY <1>6, <2>12, <3>1, <3>2, <3>3, <3>4 DEF InsertsTool
  <2>13. \A q \in Request : Replayed(q)'
    BY <2>12 DEF Replayed, Says, Key0
  <2> QED
    BY <2>11, <2>13 DEF Invocations
<1> QED
  BY <1>5, <1>6, ToolRows

\* A call that is lost leaves its row, which nobody owns any more.
LEMMA LostTools ==
    ASSUME Base, Base', Sizes, Invocations, Loses
    PROVE  Invocations'
<1>1. tool' = tool /\ \A q \in Request : Dropped(q)
  BY LossMoves
<1>2. \A k \in Key : toolLost[k] > 0 => toolLost'[k] > 0
  BY LossMoves, SMT
<1>3. \A q \in Request : req'[q] = Gone => QuietTool(q)
  BY GoneFields DEF QuietTool, HoldsTool, IsTool
<1>4. \A q \in Request : QuietTool(q)
  BY <1>1, <1>3, StandsStill DEF Dropped
<1> QED
  BY <1>1, <1>2, <1>4, QuietTools

\* Time passes only while no call is at work; stored results stay.
LEMMA TimeTools ==
    ASSUME Base, Invocations, TimePasses
    PROVE  Invocations'
<1>1. req' = req /\ toolLost' = toolLost
  BY TimeMoves
<1>2. \A q \in Request : ~ HoldsTool(q) /\ ~ HoldsTool(q)' /\ (IsTool(q)' <=> IsTool(q))
                         /\ Key0(q)' = Key0(q)
  BY <1>1, TimeMoves, HoldersLive DEF HoldsTool, IsTool, Key0
<1>3. ASSUME NEW k \in Key, tool'[k] # None
      PROVE  /\ tool[k] # None /\ tool'[k].args = tool[k].args
             /\ tool'[k].status = tool[k].status /\ tool'[k].result = tool[k].result
  <2>1. tool[k] \in InvocationRow \cup {None}
    BY DEF Base, TypeOK, ToolTypes
  <2>2. tool'[k] = OldRow(tool[k]) /\ tool[k] # None
    BY <1>3, TimeMoves
  <2> QED
    BY <2>1, <2>2, OldRows
<1>4. ToolOwner'
  <2>1. ASSUME NEW k \in Key, tool'[k] # None
        PROVE  tool'[k].args.key = k /\ (tool'[k].status = "running" <=> tool'[k].result = "")
    <3>1. tool[k].args.key = k /\ (tool[k].status = "running" <=> tool[k].result = "")
      BY <1>3, <2>1 DEF Invocations, ToolOwner
    <3> QED
      BY <1>3, <2>1, <3>1
  <2> QED
    BY <1>2, <2>1 DEF ToolOwner
<1>5. ASSUME NEW q \in Request, IsTool(q), req[q].ans \in Results, ~ toolLost[Key0(q)] > 0
      PROVE  Says(tool'[Key0(q)], req[q].what, req[q].ans)
  <2>1. Says(tool[Key0(q)], req[q].what, req[q].ans)
    BY <1>2, <1>5 DEF Invocations, Replayed, Says
  <2>2. Key0(q) \in Key
    BY <1>5, RequestFields, ToolKeys DEF IsTool, Key0, Base
  <2>3. tool'[Key0(q)] # None
    BY <2>1, <2>2, TimeMoves DEF Says
  <2> QED
    BY <1>3, <2>1, <2>2, <2>3 DEF Says
<1>6. \A q \in Request : Replayed(q)'
  BY <1>1, <1>2, <1>5 DEF Replayed, Says
<1> QED
  BY <1>4, <1>6 DEF Invocations

\* One owner per invocation and one stored result, after every step.
LEMMA InvocationsStep ==
    ASSUME Base, Sizes, Invocations, [OperationsNext]_<<actionVars, toolVars, slashVars>>
    PROVE  Invocations'
<1>0. Base'
  BY BaseStep
<1>1. CASE \E r \in Request : (ActionStep(r) \/ SlashStep(r)) /\ UNCHANGED toolVars
  <2>1. tool' = tool /\ toolLost' = toolLost
    BY <1>1 DEF toolVars
  <2> QED
    BY <1>0, <1>1, <2>1, OutsideTools, QuietTools
<1>2. CASE \E r \in Request : ToolStep(r)
  BY <1>0, <1>2, ToolRowsStay
<1>3. CASE Manages
  BY <1>0, <1>3, ManageMoves, StandsStill, QuietTools
<1> QED
  BY <1>0, <1>1, <1>2, <1>3, LostTools, TimeTools, StepKinds

\* At first nothing is reserved and nothing answered.
LEMMA InvocationsInit ==
    ASSUME OperationsInit
    PROVE  Invocations
<1>1. \A r \in Request : req[r].what = None
  BY DEF OperationsInit, ActionInit, Idle
<1>2. \A k \in Key : tool[k] = None
  BY DEF OperationsInit, ToolInit
<1> QED
  BY <1>1, <1>2 DEF Invocations, ToolOwner, Replayed, HoldsTool, IsTool

-----------------------------------------------------------------------------
(***************************************************************************)
(* Revocation of the agent.                                                *)
(***************************************************************************)
Revoked == CaughtAll /\ RevokedRunsEnd

Working(r) == IsTool(r) /\ Live(r)

\* Only a call that authenticates begins to work.
LEMMA WorkGoesOn ==
    ASSUME Base, NEW r \in Request, ActionStep(r) \/ ToolStep(r) \/ SlashStep(r)
    PROVE  /\ \A q \in Request : q # r => req'[q] = req[q]
           /\ Working(r)' => Working(r) \/ (ToolCall(r) /\ enabled)
<1>1. CASE ActionStep(r)
  BY <1>1, ActionGo DEF ActionGoes, ActionPcs, Others, Working, IsTool, Live
<1>2. CASE ToolStep(r)
  <2>1. CASE req[r].pc = "idle"
    <3>1. ToolCall(r)
      BY <1>2, <2>1, ToolCases DEF ClearStaleTool, InsertTool, ReadExistingTool, Works, WorksOn,
         ToolWork, Trails, InvokeAction, InvokeReturns, Complete, Release, Uses
    <3> QED
      BY <1>2, <3>1, ToolGo DEF ToolGoes, Others, ToolCall
  <2>2. CASE req[r].pc \in ToolPcs \cup {"returned"}
    BY <1>2, <2>2, ToolGo, AtTool DEF ToolGoes, ToolPcs, Others, Working, IsTool, Live
  <2> QED
    BY <1>2, <2>1, <2>2, ToolGo DEF ToolGoes
<1>3. CASE SlashStep(r)
  BY <1>3, SlashGo DEF SlashGoes, Others, Working, IsTool
<1> QED
  BY <1>1, <1>2, <1>3

\* The runs a tool's step opens.
LEMMA RunMoves ==
    ASSUME Base, NEW r \in Request, ToolStep(r)
    PROVE  \/ run' = run
           \/ run' = [run EXCEPT ![r] = "running"] /\ Working(r)
           \/ run' = [run EXCEPT ![Open] = "completed"]
<1>1. CASE Works(r)
  <2>1. Working(r)
    BY <1>1, AtTool DEF Works, WorksOn, ToolWork, ToolPcs, Working, IsTool, Live
  <2> QED
    BY <1>1, <2>1 DEF Works
<1>2. CASE ~ Works(r)
  BY <1>2, ToolCases DEF ToolCall, ClearStaleTool, InsertTool, ReadExistingTool, Trails,
     InvokeAction, InvokeReturns, Complete, Release, toolVars, data
<1> QED
  BY <1>1, <1>2

\* After a revocation, every step keeps the runs of unauthenticated calls closed.
LEMMA RevokedStep ==
    ASSUME Base, Sizes, Revoked, [OperationsNext]_<<actionVars, toolVars, slashVars>>
    PROVE  Revoked'
<1>0. /\ run \in [Request \cup {Open} -> {"none", "running", "completed", "cancelled"}]
      /\ ~ enabled => \A q \in Request : Working(q) => q \in caught
      /\ ~ enabled => \A x \in DOMAIN run : run[x] = "running" => x \in caught
  BY DEF Base, TypeOK, ToolTypes, Revoked, CaughtAll, RevokedRunsEnd, Working
<1>1. SUFFICES ASSUME ~ enabled'
      PROVE /\ \A q \in Request : Working(q)' => q \in caught'
            /\ \A x \in DOMAIN run' : run'[x] = "running" => x \in caught'
  BY DEF Revoked, CaughtAll, RevokedRunsEnd, Working
<1>2. ASSUME NEW q \in Request, req'[q] = req[q]
      PROVE  Working(q)' <=> Working(q)
  BY <1>2 DEF Working, IsTool, Live
<1>3. ASSUME NEW r \in Request, ActionStep(r) \/ ToolStep(r) \/ SlashStep(r),
             enabled' = enabled, caught' = caught
      PROVE  \A q \in Request : Working(q)' => q \in caught'
  BY <1>0, <1>1, <1>2, <1>3, WorkGoesOn
<1>4. CASE \E r \in Request : (ActionStep(r) \/ SlashStep(r)) /\ UNCHANGED toolVars
  <2>1. run' = run /\ enabled' = enabled /\ caught' = caught
    BY <1>4 DEF toolVars
  <2> QED
    BY <1>0, <1>1, <1>3, <1>4, <2>1
<1>5. CASE \E r \in Request : ToolStep(r)
  <2>1. PICK r \in Request : ToolStep(r)
    BY <1>5
  <2>2. enabled' = enabled /\ caught' = caught
    BY <2>1, ToolFrame
  <2>3. \A x \in DOMAIN run' : run'[x] = "running" => x \in caught'
    BY <1>0, <1>1, <2>1, <2>2, RunMoves
  <2> QED
    BY <1>3, <2>1, <2>2, <2>3
<1>6. CASE Loses
  <2>1. run' = run /\ enabled' = enabled /\ caught' = caught /\ \A q \in Request : Dropped(q)
    BY <1>6, LossMoves DEF data
  <2>2. \A q \in Request : Working(q)' => Working(q)
    BY <1>2, <2>1, GoneFields DEF Dropped, Working, IsTool
  <2> QED
    BY <1>0, <1>1, <2>1, <2>2
<1>7. CASE TimePasses
  <2>1. run' = run /\ enabled' = enabled /\ caught' = caught /\ req' = req
    BY <1>7, TimeMoves DEF data
  <2> QED
    BY <1>0, <1>1, <1>2, <2>1
<1>8. CASE RevokeAgent
  <2>1. req' = req /\ caught' = {q \in Request : IsTool(q) /\ Live(q)}
    BY <1>8 DEF RevokeAgent
  <2>2. run' = [x \in DOMAIN run |-> IF run[x] = "running" THEN "cancelled" ELSE run[x]]
    BY <1>8 DEF RevokeAgent
  <2>3. \A x \in DOMAIN run' : run'[x] # "running"
    BY <2>2
  <2> QED
    BY <1>2, <2>1, <2>3 DEF Working
<1>9. CASE Manages /\ ~ RevokeAgent
  <2>1. req' = req /\ run' = run /\ enabled' = enabled /\ caught' = caught
    BY <1>9, ManageMoves DEF Manages, toolVars
  <2> QED
    BY <1>0, <1>1, <1>2, <2>1
<1> QED
  BY <1>4, <1>5, <1>6, <1>7, <1>8, <1>9, StepKinds

\* The agent is enabled at first.
LEMMA RevokedInit ==
    ASSUME OperationsInit
    PROVE  Revoked
BY DEF OperationsInit, ToolInit, Revoked, CaughtAll, RevokedRunsEnd

-----------------------------------------------------------------------------
(***************************************************************************)
(* Successes are real.                                                     *)
(***************************************************************************)
\* The fields of an action.
LEMMA OpFields ==
    ASSUME NEW op \in Op
    PROVE  \/ /\ op.kind = "http" /\ op.index \in 0..100
              /\ op = [kind |-> "http", index |-> op.index]
           \/ /\ op.kind = "mattermost" /\ op.attachment \in 0..100 /\ op.action \in 0..100
              /\ op = [kind |-> "mattermost", attachment |-> op.attachment,
                       action |-> op.action]
<1>1. op \in [kind : {"http"}, index : 0..100]
          \cup [kind : {"mattermost"}, attachment : 0..100, action : 0..100]
  BY ActionAssumptions
<1>2. CASE op \in [kind : {"http"}, index : 0..100]
  BY <1>2, SMT
<1>3. CASE op \in [kind : {"mattermost"}, attachment : 0..100, action : 0..100]
  BY <1>3, SMT
<1> QED
  BY <1>1, <1>2, <1>3

\* The index that is stored tells attachment and button apart.
LEMMA IndexMeans ==
    ASSUME NEW op \in Op
    PROVE  /\ Index(op) >= 10000 <=> op.kind = "mattermost"
           /\ op.kind = "mattermost" => (Index(op) - 10000) \div 101 = op.attachment
<1>1. CASE op.kind = "http"
  BY <1>1, OpFields, SMT DEF Index
<1>2. CASE op.kind = "mattermost"
  <2>1. PICK i \in 0..100, j \in 0..100 : i = op.attachment /\ j = op.action
    BY <1>2, OpFields
  <2>2. Index(op) = 10000 + i * 101 + j
    BY <1>2, <2>1, SMT DEF Index
  <2>3. Index(op) >= 10000 /\ Index(op) - 10000 = 101 * i + j
    BY <2>2, SMT
  <2>4. (101 * i + j) \div 101 = i
    BY SMT
  <2> QED
    BY <1>2, <2>1, <2>3, <2>4, SMT
<1> QED
  BY <1>1, <1>2, OpFields, SMT

\* Kind and index together are the action.
LEMMA IndexTells ==
    ASSUME NEW op \in Op, NEW other \in Op, op.kind = other.kind, Index(op) = Index(other)
    PROVE  op = other
<1>1. CASE op.kind = "http"
  <2>1. op.index = other.index
    BY <1>1, SMT DEF Index
  <2> QED
    BY <1>1, <2>1, OpFields
<1>2. CASE op.kind = "mattermost"
  <2>1. PICK i \in 0..100, j \in 0..100 : i = op.attachment /\ j = op.action
    BY <1>2, OpFields
  <2>2. PICK m \in 0..100, n \in 0..100 : m = other.attachment /\ n = other.action
    BY <1>2, OpFields
  <2>3. 10000 + i * 101 + j = 10000 + m * 101 + n
    BY <1>2, <2>1, <2>2, SMT DEF Index
  <2>4. i = m /\ j = n
    BY <2>3, SMT
  <2> QED
    BY <1>2, <2>1, <2>2, <2>4, OpFields
<1> QED
  BY <1>1, <1>2, OpFields, SMT

RealAt(q) == AnswerReal(req[q]) /\ PendingReal(req[q])

\* What was done stays done.
LEMMA RealKept ==
    ASSUME NEW q \in Request, RealAt(q), taken \subseteq taken', req'[q].what = req[q].what,
           req'[q].ans = req[q].ans \/ req'[q].ans # "succeeded",
           \/ req'[q].pc \notin {"finish", "complete"}
           \/ req'[q].out # "succeeded"
           \/ req'[q].pc = req[q].pc /\ req'[q].out = req[q].out
    PROVE  RealAt(q)'
<1>1. AnswerReal(req[q])'
  BY DEF RealAt, AnswerReal, Did
<1>2. PendingReal(req[q])'
  BY DEF RealAt, PendingReal, Did
<1> QED
  BY <1>1, <1>2 DEF RealAt

\* A request that claims no success has nothing to show for it.
LEMMA RealFresh ==
    ASSUME NEW q \in Request, req'[q].ans # "succeeded",
           req'[q].pc \notin {"finish", "complete"}
    PROVE  RealAt(q)'
BY DEF RealAt, AnswerReal, PendingReal

\* A row keeps its evidence while it is kept, removed or not a success.
LEMMA RowRealKept ==
    ASSUME NEW k \in Key, RowReal(k), taken \subseteq taken',
           \/ exec'[k] = None
           \/ exec'[k].status # "succeeded"
           \/ /\ exec[k] # None /\ exec'[k].status = exec[k].status
              /\ exec'[k].kind = exec[k].kind /\ exec'[k].index = exec[k].index
    PROVE  RowReal(k)'
BY DEF RowReal

\* So does a stored result.
LEMMA StoredRealKept ==
    ASSUME NEW k \in Key, StoredReal(k), taken \subseteq taken',
           \/ tool'[k] = None
           \/ tool'[k].result # "succeeded"
           \/ tool[k] # None /\ tool'[k].result = tool[k].result /\ tool'[k].args = tool[k].args
    PROVE  StoredReal(k)'
BY DEF StoredReal, Did

\* A step of an action records and answers only what its callback did.
LEMMA RealAction ==
    ASSUME Base, Rows, Real, NEW r \in Request, ActionStep(r)
    PROVE  taken \subseteq taken' /\ RealAt(r)' /\ \A k \in Key : RowReal(k)'
<1>1. /\ RealAt(r) /\ \A k \in Key : RowReal(k)
      /\ \A k \in Key : exec[k] \in ExecutionRow \cup {None}
  BY DEF Real, RealAt, Base, TypeOK, ActionTypes
<1>2. CASE Click(r) \/ LoadCard(r) \/ LoadPost(r)
  <2>1. taken' = taken /\ exec' = exec
    BY <1>2 DEF Click, LoadCard, LoadPost, history
  <2>2. CASE Click(r)
    <3>1. req'[r].ans = "" /\ req'[r].pc = "load"
      BY <2>2, ClickMoves DEF Moved
    <3> QED
      BY <1>1, <2>1, <3>1, RealFresh, RowRealKept
  <2>3. CASE LoadCard(r) \/ LoadPost(r)
    <3>1. /\ req'[r].what = req[r].what /\ (req'[r].ans = req[r].ans \/ req'[r].ans # "succeeded")
          /\ req'[r].pc \notin {"finish", "complete"}
      BY <2>3, LoadCardMoves, LoadPostMoves, ZenonT(30) DEF AnsweredAs, CarriedTo, Moved
    <3> QED
      BY <1>1, <2>1, <3>1, RealKept, RowRealKept
  <2> QED
    BY <1>2, <2>2, <2>3
<1>3. CASE LookForResult(r)
  <2>1. taken' = taken /\ exec' = exec /\ req[r].pc = "look"
    BY <1>3 DEF LookForResult, history
  <2>2. /\ req[r].what.kind = "click" /\ req[r].what.op.kind = "mattermost"
        /\ ActionOf(req[r].what) = req[r].what.op /\ req[r].what # None
    <3>1. Shape(req[r])
      BY DEF Base
    <3> QED
      BY <2>1, <3>1, AtAction DEF Shape, ActionPcs, ActionOf
  <2>3. \A k \in Key : RowReal(k)'
    BY <1>1, <2>1, RowRealKept
  <2>4. CASE SteppedTo(r, "clear")
    BY <1>1, <2>1, <2>3, <2>4, RealKept DEF SteppedTo, Moved
  <2>5. CASE req[r].what.op.attachment \in Completed /\ AnsweredAs(r, "succeeded")
    <3>1. PICK k \in Key : /\ exec[k] # None /\ exec[k].index >= 10000
                           /\ exec[k].status = "succeeded"
                           /\ req[r].what.op.attachment = (exec[k].index - 10000) \div 101
      BY <2>5, SMT DEF Completed
    <3>2. PICK op \in Op : <<k, op>> \in taken /\ exec[k].index = Index(op)
      BY <1>1, <3>1, SMT DEF RowReal
    <3>3. op.kind = "mattermost" /\ op.attachment = req[r].what.op.attachment
      <4>1. Index(op) >= 10000
        BY <3>1, <3>2, SMT
      <4>2. op.kind = "mattermost" /\ (Index(op) - 10000) \div 101 = op.attachment
        BY <4>1, IndexMeans, SMT
      <4> QED
        BY <3>1, <3>2, <4>2, SMT
    <3>4. PICK t \in taken : t[2].kind = "mattermost"
                             /\ t[2].attachment = req[r].what.op.attachment
      BY <3>2, <3>3, SMT
    <3>5. /\ req'[r].what = req[r].what /\ req'[r].ans = "succeeded"
          /\ req'[r].pc \notin {"finish", "complete"}
      BY <2>2, <2>5 DEF AnsweredAs, Moved
    <3>6. AnswerReal(req[r])'
      BY <2>1, <2>2, <3>4, <3>5 DEF AnswerReal
    <3>7. PendingReal(req[r])'
      BY <3>5 DEF PendingReal
    <3> QED
      BY <2>1, <2>3, <3>6, <3>7 DEF RealAt
  <2> QED
    BY <1>3, <2>4, <2>5, LookMoves
<1>4. CASE ClearStale(r)
  <2>1. taken' = taken
    BY <1>4 DEF ClearStale, history
  <2>2. \A k \in Key : exec'[k] = None \/ exec'[k] = exec[k]
    BY <1>4, ClearMoves DEF Rewritten
  <2>3. \A k \in Key : RowReal(k)'
    BY <1>1, <2>1, <2>2, RowRealKept
  <2>4. SteppedTo(r, "insert")
    BY <1>4, ClearMoves
  <2> QED
    BY <1>1, <2>1, <2>3, <2>4, RealKept DEF SteppedTo, Moved
<1>5. CASE InsertExecution(r)
  <2>1. taken' = taken /\ req[r].pc = "insert"
    BY <1>5 DEF InsertExecution, history
  <2>2. Row(r).status # "succeeded"
    BY <2>1, RowTyped DEF ActionPcs
  <2>3. \A k \in Key : exec'[k] = Row(r) \/ exec'[k] = exec[k]
    BY <1>5, InsertMoves DEF Rewritten
  <2>4. \A k \in Key : RowReal(k)'
    BY <1>1, <2>1, <2>2, <2>3, RowRealKept
  <2>5. SteppedTo(r, "prepare") \/ SteppedTo(r, "existing")
    BY <1>5, InsertMoves
  <2> QED
    BY <1>1, <2>1, <2>4, <2>5, RealKept DEF SteppedTo, Moved
<1>6. CASE ReadExisting(r)
  <2>1. taken' = taken /\ exec' = exec /\ req[r].pc = "existing"
    BY <1>6 DEF ReadExisting, history
  <2>2. PICK a \in Words :
              /\ AnsweredAs(r, a)
              /\ a = "succeeded" => /\ exec[Key0(r)] # None
                                    /\ exec[Key0(r)].status = "succeeded"
                                    /\ SameOperation(exec[Key0(r)], Row(r))
    BY <1>6, ReadMoves DEF Key0
  <2>3. /\ req'[r].what = req[r].what /\ req'[r].pc \notin {"finish", "complete"}
        /\ req'[r].ans = a
    BY <2>2 DEF AnsweredAs, Moved
  <2>4. \A k \in Key : RowReal(k)'
    BY <1>1, <2>1, RowRealKept
  <2>5. CASE a # "succeeded"
    BY <1>1, <2>1, <2>3, <2>4, <2>5, RealKept
  <2>6. CASE a = "succeeded"
    <3>1. Key0(r) \in Key /\ ActionOf(req[r].what) \in Op
      BY <2>1, AtAction DEF ActionPcs, Key0
    <3>2. /\ exec[Key0(r)].kind = ActionOf(req[r].what).kind
          /\ exec[Key0(r)].index = Index(ActionOf(req[r].what))
      BY <2>1, <2>2, <2>6, RowTyped DEF SameOperation, ActionPcs
    <3>3. PICK op \in Op : <<Key0(r), op>> \in taken /\ exec[Key0(r)].kind = op.kind
                           /\ exec[Key0(r)].index = Index(op)
      BY <1>1, <2>2, <2>6, <3>1 DEF RowReal
    <3>4. op = ActionOf(req[r].what)
      BY <3>1, <3>2, <3>3, IndexTells
    <3>5. Did(req[r].what)
      BY <3>3, <3>4 DEF Did, Key0
    <3>6. /\ req[r].what.kind \in {"click", "tool"}
          /\ req[r].what.kind = "tool" => req[r].what.tool = "notifications.invoke_action"
      BY <2>1, AtAction DEF ActionPcs
    <3>7. AnswerReal(req[r])' /\ PendingReal(req[r])'
      BY <2>1, <2>3, <3>5, <3>6 DEF AnswerReal, PendingReal, Did
    <3> QED
      BY <2>1, <2>4, <3>7 DEF RealAt
  <2> QED
    BY <2>5, <2>6
<1>7. CASE Prepare(r)
  <2>1. taken' = taken /\ exec' = exec
    BY <1>7 DEF Prepare, history
  <2>2. /\ req'[r].what = req[r].what /\ req'[r].ans = req[r].ans
        /\ req'[r].pc \notin {"finish", "complete"} \/ req'[r].out # "succeeded"
    BY <1>7, PrepareMoves DEF SteppedTo, CarriedTo, Moved
  <2> QED
    BY <1>1, <2>1, <2>2, RealKept, RowRealKept
<1>8. CASE CallTarget(r)
  <2>1. exec' = exec
    BY <1>8 DEF CallTarget
  <2>2. PICK out \in {"succeeded", "failed"} :
              /\ CarriedTo(r, "finish", out)
              /\ taken' \in {taken, taken \cup {<<req[r].what.key, ActionOf(req[r].what)>>}}
              /\ out = "succeeded" => <<req[r].what.key, ActionOf(req[r].what)>> \in taken'
    BY <1>8, CallMoves
  <2>3. taken \subseteq taken'
    BY <2>2
  <2>4. /\ req'[r].what = req[r].what /\ req'[r].ans = req[r].ans /\ req'[r].out = out
        /\ req'[r].pc = "finish"
    BY <2>2 DEF CarriedTo, Moved
  <2>5. AnswerReal(req[r])'
    BY <1>1, <2>3, <2>4 DEF RealAt, AnswerReal, Did
  <2>6. PendingReal(req[r])'
    BY <2>2, <2>4 DEF PendingReal, Did
  <2>7. \A k \in Key : RowReal(k)'
    BY <1>1, <2>1, <2>3, RowRealKept
  <2> QED
    BY <2>3, <2>5, <2>6, <2>7 DEF RealAt
<1>9. CASE Finish(r)
  <2>1. taken' = taken /\ req[r].pc = "finish"
    BY <1>9 DEF Finish, history
  <2>2. /\ Key0(r) \in Key /\ ActionOf(req[r].what) \in Op
        /\ req[r].what.kind \in {"click", "tool"}
        /\ req[r].what.kind = "tool" => req[r].what.tool = "notifications.invoke_action"
    BY <2>1, AtAction DEF ActionPcs, Key0
  <2>3. /\ exec[Key0(r)] = Row(r) /\ Row(r) # None
        /\ Row(r).kind = ActionOf(req[r].what).kind
        /\ Row(r).index = Index(ActionOf(req[r].what))
    BY <2>1, RowTyped DEF Rows, Owner, Holds, ActionPcs
  <2>4. PICK out \in {"succeeded", "failed"} : out = req[r].out
    BY <1>9, FinishMoves
  <2>5. PICK row \in ExecutionRow \cup {None} : row = exec[Key0(r)]
    BY <1>1, <2>2
  <2>6. /\ exec'[Key0(r)] = Outcome(row, out)
        /\ \A j \in Key : j # Key0(r) => exec'[j] = exec[j]
        /\ AnsweredAs(r, out)
    BY <1>9, <2>3, <2>4, <2>5, FinishMoves DEF Rewritten, Key0
  <2>7. /\ Outcome(row, out) # None /\ Outcome(row, out).status = out
        /\ Outcome(row, out).kind = row.kind /\ Outcome(row, out).index = row.index
    BY <2>3, <2>5, OutcomeRow
  <2>8. out = "succeeded" => Did(req[r].what)
    BY <1>1, <2>1, <2>4 DEF RealAt, PendingReal
  <2>9. /\ req'[r].what = req[r].what /\ req'[r].ans = out
        /\ req'[r].pc \notin {"finish", "complete"}
    BY <2>6 DEF AnsweredAs, Moved
  <2>10. RealAt(r)'
    BY <2>1, <2>2, <2>8, <2>9 DEF RealAt, AnswerReal, PendingReal, Did
  <2>11. RowReal(Key0(r))'
    <3>1. out = "succeeded" => <<Key0(r), ActionOf(req[r].what)>> \in taken'
      BY <2>1, <2>8 DEF Did, Key0
    <3>2. PICK k : k = Key0(r)
      OBVIOUS
    <3>3. RowReal(k)'
      BY <2>2, <2>3, <2>5, <2>6, <2>7, <3>1, <3>2 DEF RowReal
    <3>4. Key0(r)' = Key0(r)
      BY <2>9 DEF Key0
    <3> QED
      BY <3>2, <3>3, <3>4
  <2>12. \A k \in Key : RowReal(k)'
    <3>1. Key0(r)' = Key0(r)
      BY <2>9 DEF Key0
    <3> QED
      BY <1>1, <2>1, <2>6, <2>11, <3>1, RowRealKept
  <2> QED
    BY <2>1, <2>10, <2>12
<1> QED
  BY <1>2, <1>3, <1>4, <1>5, <1>6, <1>7, <1>8, <1>9 DEF ActionStep

\* A step of a tool call stores and answers only what the action did.
LEMMA RealTool ==
    ASSUME Base, Invocations, Real, NEW r \in Request, ToolStep(r)
    PROVE  RealAt(r)' /\ \A k \in Key : StoredReal(k)'
<1>1. /\ RealAt(r) /\ \A k \in Key : StoredReal(k)
      /\ tool \in [Key -> InvocationRow \cup {None}]
      /\ AnswerReal(req[r]) /\ PendingReal(req[r])
  BY DEF Real, RealAt, Base, TypeOK, ToolTypes
<1>2. taken' = taken
  BY OutsideActions
<1>3. ASSUME tool' = tool
      PROVE  \A k \in Key : StoredReal(k)'
  BY <1>1, <1>2, <1>3, StoredRealKept
<1>4. ASSUME NEW j \in Key, NEW row, ToolRewritten(j, row),
             row = None \/ row = tool[j] \/ row.result # "succeeded"
      PROVE  \A k \in Key : StoredReal(k)'
  BY <1>1, <1>2, <1>4, StoredRealKept DEF ToolRewritten
<1>5. ASSUME NEW pc, SteppedTo(r, pc), pc \notin {"finish", "complete"}
      PROVE  RealAt(r)'
  BY <1>1, <1>2, <1>5, RealKept DEF SteppedTo, Moved
<1>6. CASE ToolCall(r)
  <2>1. req'[r].ans = "" /\ req'[r].pc = "tclear" /\ tool' = tool
    BY <1>6, ToolCallMoves DEF Moved, ToolCall, toolVars
  <2> QED
    BY <1>3, <2>1, RealFresh
<1>7. CASE ClearStaleTool(r)
  <2>1. \A k \in Key : StoredReal(k)'
    BY <1>4, <1>7, ClearToolMoves
  <2> QED
    BY <1>5, <1>7, <2>1, ClearToolMoves
<1>8. CASE InsertTool(r)
  <2>1. req[r].pc = "tinsert" /\ req[r].what \in Calls
    BY <1>8, AtTool DEF InsertTool, ToolPcs
  <2>2. Reserved(req[r].what).result # "succeeded"
    BY <2>1, ReservedRow
  <2>3. \A k \in Key : StoredReal(k)'
    BY <1>3, <1>4, <1>8, <2>2, InsertToolMoves
  <2> QED
    BY <1>5, <1>8, <2>3, InsertToolMoves
<1>9. CASE ReadExistingTool(r)
  <2>1. req[r].pc = "texisting" /\ tool' = tool
    BY <1>9 DEF ReadExistingTool, toolVars
  <2>2. req[r].what.kind = "tool" /\ req[r].what.key \in Key
    BY <2>1, AtTool DEF ToolPcs
  <2>3. PICK a \in Answers :
              /\ EndedAs(r, a)
              /\ a \in Results =>
                   /\ tool[req[r].what.key] # None
                   /\ tool[req[r].what.key].status = "completed"
                   /\ tool[req[r].what.key].args = req[r].what
                   /\ tool[req[r].what.key].result = a
    BY <1>9, ReadToolMoves
  <2>4. req'[r].what = req[r].what /\ req'[r].ans = a /\ req'[r].pc = "done"
    BY <2>3 DEF EndedAs, Moved
  <2>5. CASE a = "succeeded"
    <3>1. a \in Results
      BY <2>5 DEF Results
    <3>2. req[r].what.tool = "notifications.invoke_action" /\ Did(req[r].what)
      BY <1>1, <2>2, <2>3, <2>5, <3>1 DEF StoredReal
    <3>3. AnswerReal(req[r])'
      BY <1>2, <2>2, <2>4, <3>2 DEF AnswerReal, Did
    <3>4. PendingReal(req[r])'
      BY <2>4 DEF PendingReal
    <3> QED
      BY <1>3, <2>1, <3>3, <3>4 DEF RealAt
  <2>6. CASE a # "succeeded"
    BY <1>3, <2>1, <2>4, <2>6, RealFresh
  <2> QED
    BY <2>5, <2>6
<1>10. CASE Works(r)
  <2>1. /\ tool' = tool /\ req'[r].what = req[r].what /\ req'[r].ans = req[r].ans
        /\ req'[r].pc \notin {"finish", "complete"} \/ req'[r].out # "succeeded"
    BY <1>10 DEF Works, WorksOn
  <2> QED
    BY <1>1, <1>2, <1>3, <2>1, RealKept
<1>11. CASE Trails(r)
  BY <1>3, <1>5, <1>11 DEF Trails
<1>12. CASE InvokeAction(r)
  <2>1. req'[r].ans = "" /\ req'[r].pc = "load" /\ tool' = tool
    BY <1>12, InvokeMoves DEF Moved, InvokeAction, toolVars
  <2> QED
    BY <1>3, <2>1, RealFresh
<1>13. CASE InvokeReturns(r)
  <2>1. req[r].pc = "returned" /\ tool' = tool
    BY <1>13 DEF InvokeReturns, toolVars
  <2>2. /\ req[r].what \in Asked /\ req[r].what # None /\ req[r].what.kind = "tool"
        /\ req[r].what.tool = "notifications.invoke_action"
    BY <2>1, AtTool
  <2>3. ActionOf(req[r].what).kind = "http"
    BY <2>2, ActionTyped
  <2>4. CASE req[r].ans = "succeeded" /\ CarriedTo(r, "complete", "succeeded")
    <3>1. Did(req[r].what)
      BY <1>1, <2>2, <2>3, <2>4 DEF AnswerReal
    <3>2. /\ req'[r].what = req[r].what /\ req'[r].ans = req[r].ans
          /\ req'[r].pc = "complete"
      BY <2>4 DEF CarriedTo, Moved
    <3>3. AnswerReal(req[r])'
      BY <1>2, <2>2, <3>1, <3>2 DEF AnswerReal, Did
    <3>4. PendingReal(req[r])'
      BY <1>2, <2>2, <3>1, <3>2 DEF PendingReal, Did
    <3> QED
      BY <1>3, <2>1, <3>3, <3>4 DEF RealAt
  <2>5. CASE SteppedTo(r, "release")
    BY <1>3, <1>5, <2>1, <2>5
  <2> QED
    BY <1>13, <2>4, <2>5, ReturnMoves
<1>14. CASE Complete(r)
  <2>1. req[r].pc = "complete"
    BY <1>14 DEF Complete
  <2>2. /\ req[r].what # None /\ req[r].what.kind = "tool" /\ req[r].what.key \in Key
        /\ req[r].out \in Results
    BY <1>14, <2>1, AtTool, CompletedMoves DEF ToolPcs
  <2>3. req[r].out = "succeeded" =>
          req[r].what.tool = "notifications.invoke_action" /\ Did(req[r].what)
    BY <1>1, <2>1 DEF PendingReal
  <2>4. /\ req'[r].what = req[r].what /\ req'[r].ans = req[r].out
        /\ req'[r].pc \in {"effect", "done"}
    BY <1>14, CompletedMoves DEF Moved
  <2>5. AnswerReal(req[r])'
    BY <1>2, <2>2, <2>3, <2>4 DEF AnswerReal, Did
  <2>6. PendingReal(req[r])'
    BY <2>4 DEF PendingReal
  <2>7. tool[req[r].what.key] # None /\ tool[req[r].what.key].args = req[r].what
    <3>1. HoldsTool(r)
      BY <2>1, <2>2 DEF HoldsTool, IsTool
    <3> QED
      BY <3>1 DEF Invocations, ToolOwner, Key0
  <2>8. CASE ToolRewritten(req[r].what.key, Stored(tool[req[r].what.key], req[r].out))
    <3>1. PICK k \in Key : k = req[r].what.key
      BY <2>2
    <3>2. PICK row \in InvocationRow \cup {None} : row = tool[k]
      BY <1>1
    <3>3. tool'[k] = Stored(row, req[r].out) /\ \A j \in Key : j # k => tool'[j] = tool[j]
      BY <2>8, <3>1, <3>2 DEF ToolRewritten
    <3>4. PICK res \in Results : res = req[r].out
      BY <2>2
    <3>5. row # None /\ row.args = req[r].what /\ tool'[k] = Stored(row, res)
      BY <2>7, <3>1, <3>2, <3>3, <3>4
    <3>6. /\ Stored(row, res) # None /\ Stored(row, res).result = res
          /\ Stored(row, res).args = row.args
      BY <3>5, StoredRow
    <3>7. ASSUME NEW j \in Key
          PROVE  StoredReal(j)'
      <4>1. CASE j = k
        BY <1>2, <2>3, <3>4, <3>5, <3>6, <4>1 DEF StoredReal, Did
      <4>2. CASE j # k
        BY <1>1, <1>2, <3>3, <4>2, StoredRealKept
      <4> QED
        BY <4>1, <4>2
    <3> QED
      BY <2>5, <2>6, <3>7 DEF RealAt
  <2> QED
    BY <1>3, <1>14, <2>5, <2>6, <2>8, CompletedMoves DEF RealAt
<1>15. CASE Release(r)
  <2>1. req'[r].ans = "failed" /\ req'[r].pc = "done"
    BY <1>15, ReleaseMoves DEF EndedAs, Moved
  <2> QED
    BY <1>4, <1>15, <2>1, ReleaseMoves, RealFresh
<1> QED
  BY <1>6, <1>7, <1>8, <1>9, <1>10, <1>11, <1>12, <1>13, <1>14, <1>15, ToolCases

\* A step of a command or a delivery never answers with a success.
LEMMA RealSlash ==
    ASSUME Base, Real, NEW r \in Request, SlashStep(r)
    PROVE  RealAt(r)'
<1>1. RealAt(r) /\ taken' = taken
  BY OutsideActions DEF Real, RealAt
<1>2. ASSUME NEW a, a # "succeeded", EndsAs(r, a)
      PROVE  RealAt(r)'
  BY <1>2, RealFresh DEF EndsAs, Moved
<1>3. ASSUME NEW n, AcceptsAs(r, n)
      PROVE  RealAt(r)'
  BY <1>1, <1>3, RealKept DEF AcceptsAs, Moved
<1>4. ASSUME NEW pc, SteppedTo(r, pc), pc \notin {"finish", "complete"}
      PROVE  RealAt(r)'
  BY <1>1, <1>4, RealKept DEF SteppedTo, Moved
<1>5. CASE Submit(r) \/ Deliver(r)
  <2>1. req'[r].ans = "" /\ req'[r].pc \in {"resolve", "use"}
    BY <1>5, SubmitMoves, DeliverMoves DEF Moved
  <2> QED
    BY <2>1, RealFresh
<1>6. CASE Resolve(r)
  <2>1. ASSUME NEW t, CarriedTo(r, "record", t)
        PROVE  RealAt(r)'
    BY <1>1, <2>1, RealKept DEF CarriedTo, Moved
  <2> QED
    BY <1>2, <1>6, <2>1, ResolveMoves
<1>7. CASE RecordCommand(r)
  BY <1>4, <1>7, RecordMoves
<1>8. CASE Replay(r)
  BY <1>2, <1>8, ReplayMoves
<1>9. CASE Dispatch(r)
  BY <1>2, <1>3, <1>9, DispatchMoves
<1>10. CASE Respond(r)
  BY <1>2, <1>3, <1>10, RespondMoves
<1>11. CASE UseToken(r)
  BY <1>2, <1>3, <1>4, <1>11, UseMoves
<1>12. CASE CountUse(r)
  BY <1>3, <1>12, CountMoves
<1> QED
  BY <1>5, <1>6, <1>7, <1>8, <1>9, <1>10, <1>11, <1>12 DEF SlashStep

\* Every step keeps successes real.
LEMMA RealStep ==
    ASSUME Base, Sizes, Rows, Invocations, Real,
           [OperationsNext]_<<actionVars, toolVars, slashVars>>
    PROVE  Real'
<1>1. /\ \A q \in Request : RealAt(q)
      /\ \A k \in Key : RowReal(k) /\ StoredReal(k)
      /\ exec \in [Key -> ExecutionRow \cup {None}]
      /\ tool \in [Key -> InvocationRow \cup {None}]
  BY DEF Real, RealAt, Base, TypeOK, ActionTypes, ToolTypes
<1>2. ASSUME NEW q \in Request, req'[q] = req[q], taken \subseteq taken'
      PROVE  RealAt(q)'
  BY <1>1, <1>2, RealKept
<1>3. ASSUME exec' = exec, taken \subseteq taken'
      PROVE  \A k \in Key : RowReal(k)'
  BY <1>1, <1>3, RowRealKept
<1>4. ASSUME tool' = tool, taken \subseteq taken'
      PROVE  \A k \in Key : StoredReal(k)'
  BY <1>1, <1>4, StoredRealKept
<1>5. SUFFICES /\ \A q \in Request : RealAt(q)'
               /\ (\A k \in Key : RowReal(k)') /\ (\A k \in Key : StoredReal(k)')
  BY DEF Real, RealAt
<1>6. CASE \E r \in Request : ActionStep(r) /\ UNCHANGED <<toolVars, slashVars>>
  <2>1. PICK r \in Request : ActionStep(r) /\ UNCHANGED <<toolVars, slashVars>>
    BY <1>6
  <2>2. tool' = tool /\ \A q \in Request : q # r => req'[q] = req[q]
    BY <2>1, WorkGoesOn DEF toolVars
  <2> QED
    BY <1>2, <1>4, <2>1, <2>2, RealAction
<1>7. CASE \E r \in Request : ToolStep(r) \/ (SlashStep(r) /\ UNCHANGED toolVars)
  <2>1. PICK r \in Request : ToolStep(r) \/ (SlashStep(r) /\ UNCHANGED toolVars)
    BY <1>7
  <2>2. /\ exec' = exec /\ taken' = taken /\ \A q \in Request : q # r => req'[q] = req[q]
    BY <2>1, OutsideActions
  <2>3. SlashStep(r) /\ UNCHANGED toolVars => tool' = tool
    BY DEF toolVars
  <2> QED
    BY <1>2, <1>3, <1>4, <2>1, <2>2, <2>3, RealTool, RealSlash
<1>8. CASE Loses
  <2>1. /\ exec' = exec /\ tool' = tool /\ taken' = taken /\ \A q \in Request : Dropped(q)
    BY <1>8, LossMoves
  <2>2. \A q \in Request : RealAt(q)'
    BY <1>2, <2>1, GoneFields, RealFresh DEF Dropped
  <2> QED
    BY <1>3, <1>4, <2>1, <2>2
<1>9. CASE TimePasses
  <2>1. taken' = taken /\ req' = req
    BY <1>9, TimeMoves DEF history
  <2>2. ASSUME NEW k \in Key
        PROVE  RowReal(k)' /\ StoredReal(k)'
    <3>1. /\ exec'[k] = None \/ (/\ exec[k] # None /\ exec'[k].status = exec[k].status
                                 /\ exec'[k].kind = exec[k].kind
                                 /\ exec'[k].index = exec[k].index)
          /\ tool'[k] = None \/ (/\ tool[k] # None /\ tool'[k].result = tool[k].result
                                 /\ tool'[k].args = tool[k].args)
      <4>1. PICK row \in ExecutionRow \cup {None} : row = exec[k]
        BY <1>1
      <4>2. PICK inv \in InvocationRow \cup {None} : inv = tool[k]
        BY <1>1
      <4>3. exec'[k] = OldRow(row) /\ tool'[k] = OldRow(inv)
        BY <1>9, <4>1, <4>2, TimeMoves
      <4>4. exec'[k] = None \/ (/\ row # None /\ OldRow(row).status = row.status
                                /\ OldRow(row).kind = row.kind
                                /\ OldRow(row).index = row.index)
        BY <4>1, <4>3, OldRows, NoneIsNoRow
      <4>5. tool'[k] = None \/ (/\ inv # None /\ OldRow(inv).result = inv.result
                                /\ OldRow(inv).args = inv.args)
        BY <4>2, <4>3, OldRows, NoneIsNoRow
      <4> QED
        BY <4>1, <4>2, <4>3, <4>4, <4>5
    <3> QED
      BY <1>1, <2>1, <3>1, RowRealKept, StoredRealKept
  <2> QED
    BY <1>2, <2>1, <2>2
<1>10. CASE Manages
  BY <1>2, <1>3, <1>4, <1>10, ManageMoves
<1> QED
  BY <1>6, <1>7, <1>8, <1>9, <1>10, StepKinds

\* At first nothing has succeeded.
LEMMA RealInit ==
    ASSUME OperationsInit
    PROVE  Real
<1>1. \A r \in Request : req[r].what = None /\ req[r].pc = "idle"
  BY DEF OperationsInit, ActionInit, Idle
<1>2. \A k \in Key : exec[k] = None /\ tool[k] = None
  BY DEF OperationsInit, ActionInit, ToolInit
<1> QED
  BY <1>1, <1>2 DEF Real, RowReal, StoredReal, AnswerReal, PendingReal
=============================================================================
