-------------------------- MODULE SchedulesProofs --------------------------
(***************************************************************************)
(* Proofs about Schedules for any number of servers, schedules, edits and  *)
(* failures, and any lease that is longer than a tick may work.            *)
(***************************************************************************)
EXTENDS Schedules, TLAPS

-----------------------------------------------------------------------------
(* Type correctness.                                                       *)

\* The next digest is after t.
LEMMA DigestNextLater ==
    ASSUME NEW t \in Nat
    PROVE  DigestNext(t) \in Nat /\ DigestNext(t) > t
BY ScheduleAssumptions DEF DigestNext

\* A fresh row is a row.
LEMMA FreshType ==
    ASSUME NEW t \in Nat
    PROVE  Fresh(t) \in Schedule /\ Fresh(t) # NoRow
BY NoRowAssumption DEF Fresh, Schedule

\* A step of one server changes its tick only.
LEMMA OneTick ==
    ASSUME TypeOK, NEW s \in Server, NEW w \in TickState,
           worker' = [worker EXCEPT ![s] = w],
           w.pc \in {"record", "alert", "push", "finish"} => w.job \in Job
    PROVE  /\ worker' \in [Server -> TickState]
           /\ \A t \in Server : Running(t)' => worker'[t].job \in Job
           /\ worker'[s] = w
           /\ \A t \in Server \ {s} : worker'[t] = worker[t]
BY DEF TypeOK, Running

\* The tick of a server that has none.
LEMMA IdleType == Idle \in TickState /\ Idle.pc = "idle"
BY DEF Idle, TickState

\* A tick that leaves runSchedule goes on to finish the schedule.
LEMMA LeaveType ==
    ASSUME TypeOK, NEW s \in Server, NEW w \in TickState, NEW n \in Nat,
           w.job \in Job, Leave(s, w, n)
    PROVE  /\ worker' \in [Server -> TickState]
           /\ \A t \in Server : Running(t)' => worker'[t].job \in Job
<1> DEFINE v == [w EXCEPT !.pc = "finish", !.next = n]
<1>1. v \in TickState /\ v.job \in Job
  BY Zenon DEF TickState
<1>2. worker' = [worker EXCEPT ![s] = v]
  BY DEF Leave
<1> HIDE DEF v
<1> QED BY <1>1, <1>2, OneTick, Zenon

\* The first half of type correctness: no schedule, no tick.
LEMMA TypeInit == Init => TypeOK
BY ScheduleAssumptions DEF Init, TypeOK, Idle, TickState, Running

\* The second half, with a step for every action.
LEMMA TypeStep == TypeOK /\ [Next]_vars => TypeOK'
<1> SUFFICES ASSUME TypeOK, [Next]_vars PROVE TypeOK'
  OBVIOUS
<1> USE ScheduleAssumptions DEF user, recorded
<1>a. /\ now \in Nat /\ failures \in Nat /\ edits \in Nat
      /\ row \in [Job -> Schedule \cup {NoRow}]
      /\ until \in [Job -> Nat]
      /\ visible \in [Job -> BOOLEAN]
      /\ \A s \in Server : worker[s] \in TickState
  BY DEF TypeOK
<1>1. CASE Tick
  BY <1>1 DEF Tick, Idle, TypeOK, TickState, Running
<1>2. ASSUME NEW j \in Job, NEW t \in 1 .. MaxTime + MaxSnooze, Snooze(j, t)
      PROVE  TypeOK'
  BY <1>2, FreshType DEF Snooze, Edit, TypeOK, Running
<1>3. ASSUME NEW j \in Job, CancelSnooze(j) PROVE TypeOK'
  BY <1>3 DEF CancelSnooze, Edit, TypeOK, Running
<1>4. ASSUME NEW j \in Job, NEW on \in BOOLEAN, SaveDigest(j, on) PROVE TypeOK'
  BY <1>4, FreshType, DigestNextLater DEF SaveDigest, Edit, TypeOK, Running
<1>5. ASSUME NEW j \in Job, SetVisible(j) PROVE TypeOK'
  BY <1>5 DEF SetVisible, Edit, TypeOK, Running
<1>6. ASSUME NEW j \in Job, DeleteSavedView(j) PROVE TypeOK'
  BY <1>6 DEF DeleteSavedView, Edit, TypeOK, Running
<1>7. ASSUME NEW s \in Server, StartTick(s) PROVE TypeOK'
  <2> DEFINE w == [worker[s] EXCEPT !.pc = "start", !.at = now]
  <2>1. w \in TickState /\ w.pc = "start"
    BY <1>a, ZenonT(30) DEF TickState
  <2>2. worker' = [worker EXCEPT ![s] = w]
    BY <1>7, Zenon DEF StartTick
  <2> HIDE DEF w
  <2> QED BY <1>7, <2>1, <2>2, OneTick, Zenon DEF StartTick, TypeOK
<1>8. ASSUME NEW s \in Server, ClaimSchedules(s) PROVE TypeOK'
  <2> DEFINE C == {<<j, row[j].due>> : j \in {i \in Job : Due(i, worker[s].at)}}
             w == [worker[s] EXCEPT !.pc = "claim", !.candidates = C]
  <2>1. C \subseteq Job \X Nat
    BY <1>a DEF Due, Schedule
  <2>2. worker' = [worker EXCEPT ![s] = w]
    BY <1>8, Zenon DEF ClaimSchedules
  <2> HIDE DEF C
  <2>3. w \in TickState /\ w.pc = "claim"
    BY <1>a, <2>1, ZenonT(30) DEF TickState
  <2> HIDE DEF w
  <2> QED BY <1>8, <2>2, <2>3, OneTick, Zenon DEF ClaimSchedules, TypeOK
<1>9. ASSUME NEW s \in Server, NEW c \in worker[s].candidates, ClaimOne(s, c) PROVE TypeOK'
  <2>1. c \in Job \X Nat
    BY <1>a DEF TickState
  <2>2. CASE StillDue(c[1], c[2], worker[s].at)
    <3> DEFINE w == [worker[s] EXCEPT !.candidates = @ \ {c}, !.claimed = @ \cup {c}]
    <3>1. [due |-> row[c[1]].due, lease |-> worker[s].at + LeaseFor, token |-> s] \in Schedule
      BY <1>a, <2>1, <2>2 DEF StillDue, Schedule, TickState
    <3>2. row' \in [Job -> Schedule \cup {NoRow}]
      <4> DEFINE v == [due |-> row[c[1]].due, lease |-> worker[s].at + LeaseFor, token |-> s]
      <4>1. row' = [row EXCEPT ![c[1]] = v]
        BY <1>9, <2>2 DEF ClaimOne
      <4>2. v \in Schedule
        BY <3>1
      <4> HIDE DEF v
      <4> QED BY <1>a, <2>1, <4>1, <4>2
    <3>3. worker' = [worker EXCEPT ![s] = w]
      BY <1>9, <2>2, Zenon DEF ClaimOne
    <3>4. w \in TickState /\ w.pc = "claim"
      <4>1. worker[s].pc = "claim"
        BY <1>9 DEF ClaimOne
      <4> DEFINE A == worker[s].candidates \ {c}
                 B == worker[s].claimed \cup {c}
      <4>2. A \in SUBSET (Job \X Nat) /\ B \in SUBSET (Job \X Nat)
        BY <1>a, <2>1 DEF TickState
      <4>3. w = [worker[s] EXCEPT !.candidates = A, !.claimed = B]
        OBVIOUS
      <4> HIDE DEF A, B, w
      <4> QED BY <1>a, <4>1, <4>2, <4>3, ZenonT(40) DEF TickState
    <3> HIDE DEF w
    <3> QED BY <1>9, <3>2, <3>3, <3>4, OneTick, Zenon DEF ClaimOne, TypeOK
  <2>3. CASE ~ StillDue(c[1], c[2], worker[s].at)
    <3> DEFINE w == [worker[s] EXCEPT !.candidates = @ \ {c}]
    <3>3. worker' = [worker EXCEPT ![s] = w]
      BY <1>9, <2>3 DEF ClaimOne
    <3>4. w \in TickState /\ w.pc = "claim"
      BY <1>9, <1>a, <2>1 DEF TickState, ClaimOne
    <3> HIDE DEF w
    <3> QED BY <1>9, <2>3, <3>3, <3>4, OneTick, Zenon DEF ClaimOne, TypeOK
  <2> QED BY <2>2, <2>3
<1>10. ASSUME NEW s \in Server, EndTick(s) PROVE TypeOK'
  BY <1>10, IdleType, OneTick, Zenon DEF EndTick, TypeOK
<1>11. ASSUME NEW s \in Server, NEW c \in worker[s].claimed, CheckAccess(s, c) PROVE TypeOK'
  <2> DEFINE w == TakeUp(s, c)
  <2>1. w \in TickState /\ w.job \in Job
    BY <1>a, ZenonT(40) DEF TakeUp, TickState
  <2>2. [w EXCEPT !.pc = "record"] \in TickState /\ [w EXCEPT !.pc = "record"].job \in Job
    BY <2>1 DEF TickState
  <2>3. w.at \in Nat
    BY <2>1 DEF TickState
  <2> DEFINE v == [w EXCEPT !.pc = "record"]
  <2>4. (\E n \in Nat : Leave(s, w, n)) \/ worker' = [worker EXCEPT ![s] = v]
    BY <1>11, <2>3 DEF CheckAccess
  <2> HIDE DEF v, w
  <2>5. worker' \in [Server -> TickState] /\ \A t \in Server : Running(t)' => worker'[t].job \in Job
    <3>1. CASE \E n \in Nat : Leave(s, w, n)
      BY <2>1, <3>1, LeaveType
    <3>2. CASE worker' = [worker EXCEPT ![s] = v]
      BY <2>2, <3>2, OneTick, Zenon DEF v
    <3> QED BY <2>4, <3>1, <3>2
  <2> QED BY <1>11, <1>a, <2>5 DEF CheckAccess, TypeOK
<1>12. ASSUME NEW s \in Server, Record(s) PROVE TypeOK'
  <2>1. worker[s].job \in Job /\ worker[s].at \in Nat /\ worker[s].due \in Nat
    BY <1>12 DEF Record, TypeOK, TickState, Running
  <2>2. /\ [worker[s] EXCEPT !.pc = "alert"] \in TickState
        /\ [worker[s] EXCEPT !.pc = "alert"].job \in Job
    BY <1>a, <2>1 DEF TickState
  <2>3. worker' \in [Server -> TickState] /\ \A t \in Server : Running(t)' => worker'[t].job \in Job
    BY <1>12, <1>a, <2>1, <2>2, LeaveType, OneTick, DigestNextLater, Zenon DEF Record, Finish
  <2> QED BY <1>12, <2>1, <2>3 DEF Record, TypeOK
<1>13. ASSUME NEW s \in Server, SaveAttentionAlert(s) PROVE TypeOK'
  <2>1. worker[s].job \in Job /\ worker[s].at \in Nat /\ worker[s].due \in Nat
    BY <1>13 DEF SaveAttentionAlert, TypeOK, TickState, Running
  <2>2. /\ [worker[s] EXCEPT !.pc = "push"] \in TickState
        /\ [worker[s] EXCEPT !.pc = "push"].job \in Job
    BY <1>a, <2>1 DEF TickState
  <2>3. worker' \in [Server -> TickState] /\ \A t \in Server : Running(t)' => worker'[t].job \in Job
    BY <1>13, <1>a, <2>1, <2>2, LeaveType, OneTick, DigestNextLater, Zenon
       DEF SaveAttentionAlert, Finish, After
  <2> QED BY <1>13, <2>1, <2>3 DEF SaveAttentionAlert, TypeOK
<1>14. ASSUME NEW s \in Server, Push(s) PROVE TypeOK'
  <2>1. worker[s].job \in Job /\ worker[s].at \in Nat /\ worker[s].due \in Nat
    BY <1>14 DEF Push, TypeOK, TickState, Running
  <2>2. worker' \in [Server -> TickState] /\ \A t \in Server : Running(t)' => worker'[t].job \in Job
    BY <1>14, <1>a, <2>1, LeaveType, DigestNextLater DEF Push, Finish, After
  <2> QED BY <1>14, <2>1, <2>2 DEF Push, TypeOK
<1>15. ASSUME NEW s \in Server, FinishSchedule(s) PROVE TypeOK'
  <2> DEFINE w == [worker[s] EXCEPT !.pc = "claim", !.job = NoJob, !.due = 0, !.next = 0]
  <2>1. w \in TickState /\ w.pc = "claim"
    BY <1>a, ZenonT(40) DEF TickState
  <2>2. worker' = [worker EXCEPT ![s] = w]
    BY <1>15, Zenon DEF FinishSchedule
  <2>3. worker[s].job \in Job /\ worker[s].next \in Nat
    BY <1>15 DEF FinishSchedule, TypeOK, TickState, Running
  <2>4. row' \in [Job -> Schedule \cup {NoRow}]
    BY <1>15, <1>a, <2>3, FreshType DEF FinishSchedule, Finished
  <2> HIDE DEF w
  <2>5. worker' \in [Server -> TickState] /\ \A t \in Server : Running(t)' => worker'[t].job \in Job
    BY <2>1, <2>2, OneTick, Zenon
  <2> QED BY <1>15, <1>a, <2>4, <2>5 DEF FinishSchedule, TypeOK
<1>16. ASSUME NEW s \in Server, RunFails(s) PROVE TypeOK'
  <2>1. worker[s].job \in Job /\ worker[s].at \in Nat /\ worker[s].due \in Nat
    BY <1>16 DEF RunFails, TypeOK, TickState, Running
  <2>2. worker' \in [Server -> TickState] /\ \A t \in Server : Running(t)' => worker'[t].job \in Job
    BY <1>16, <1>a, <2>1, LeaveType DEF RunFails, Finish
  <2>3. alerts' \subseteq Job \X Nat /\ history' \subseteq Digest \X Nat
    BY <1>16, <2>1 DEF RunFails, TypeOK
  <2> QED BY <1>16, <1>a, <2>2, <2>3 DEF RunFails, TypeOK
<1>17. ASSUME NEW s \in Server, Crash(s) PROVE TypeOK'
  <2>1. worker' \in [Server -> TickState] /\ \A t \in Server : Running(t)' => worker'[t].job \in Job
    BY <1>17, IdleType, OneTick, Zenon DEF Crash
  <2> QED BY <1>17, <1>a, <2>1 DEF Crash, TypeOK
<1>18. CASE UNCHANGED vars
  BY <1>18 DEF vars, TypeOK, Running
<1> QED
  BY <1>1, <1>2, <1>3, <1>4, <1>5, <1>6, <1>7, <1>8, <1>9, <1>10, <1>11, <1>12, <1>13,
     <1>14, <1>15, <1>16, <1>17, <1>18 DEF Next, Work

\* Every column keeps its type, and a tick that runs a schedule has one.
THEOREM TypeCorrect == Spec => []TypeOK
BY TypeInit, TypeStep, PTL DEF Spec

-----------------------------------------------------------------------------
(* The inductive invariant.  That no two ticks run one occurrence follows  *)
(* from what a claim knows of its row as long as its tick is in time: the  *)
(* row has the claim's lease and token, or the schedule was removed or     *)
(* moved to a later time, and no schedule ever moves to an earlier one.    *)

\* The tick of s has claimed the occurrence of j that was due at d.
Holds(s, j, d) ==
    \/ <<j, d>> \in worker[s].claimed
    \/ Running(s) /\ worker[s].job = j /\ worker[s].due = d

\* A tick is in time, what it found was due, and it moves schedules forward.
TickInv ==
    \A s \in Server :
        /\ worker[s].pc # "idle" => worker[s].at <= now /\ now <= worker[s].at + WorkLimit
        /\ worker[s].pc \in {"idle", "start"} => worker[s].candidates = {} /\ worker[s].claimed = {}
        /\ worker[s].pc = "finish" => worker[s].next = 0 \/ worker[s].next > worker[s].at
        /\ \A j \in Job, d \in Nat :
             <<j, d>> \in worker[s].candidates \/ Holds(s, j, d) => d <= worker[s].at

\* A schedule with a token was due when it was claimed.
TokenInv ==
    \A j \in Job : row[j] # NoRow /\ row[j].token # NoServer => row[j].due <= now

\* What a claim knows of its row.
ClaimInv ==
    \A s \in Server, j \in Job, d \in Nat : Holds(s, j, d) /\ row[j] # NoRow =>
        /\ \/ row[j].due > d
           \/ row[j].due = d /\ row[j].lease = worker[s].at + LeaseFor /\ row[j].token = s
        /\ row[j].token = s => row[j].due <= worker[s].at

\* No occurrence is claimed twice.
Exclusive ==
    \A s, t \in Server, j \in Job, d \in Nat : Holds(s, j, d) /\ Holds(t, j, d) => s = t

LeaseInv == TypeOK /\ TickInv /\ TokenInv /\ ClaimInv /\ Exclusive

\* What is about to be pushed is on record and was not pushed before.
PushInv ==
    /\ PushedOnce
    /\ \A s \in Server :
        /\ worker[s].pc = "push" => <<worker[s].job, worker[s].due>> \in alerts \ pushed
        /\ worker[s].pc \in {"alert", "push"} /\ worker[s].job \in Digest /\ visible[worker[s].job]
             => <<worker[s].job, worker[s].due>> \in history

\* At the start nothing is claimed.
LEMMA LeaseInvInit == Init => LeaseInv
<1> SUFFICES ASSUME Init PROVE LeaseInv
  OBVIOUS
<1>1. TypeOK
  BY TypeInit
<1>2. \A s \in Server : worker[s] = Idle
  BY DEF Init
<1>3. \A s \in Server, j \in Job, d \in Nat : ~ Holds(s, j, d)
  BY <1>2 DEF Holds, Running, Idle
<1>4. TickInv
  BY <1>2, <1>3 DEF TickInv, Idle
<1>5. TokenInv /\ ClaimInv /\ Exclusive
  BY <1>3 DEF Init, TokenInv, ClaimInv, Exclusive
<1> QED BY <1>1, <1>4, <1>5 DEF LeaseInv

\* A step that leaves the schedules alone and claims nothing.
LEMMA ClaimsKept ==
    ASSUME LeaseInv, TypeOK', TickInv', row' = row, now' = now,
           \A s \in Server, j \in Job, d \in Nat :
               Holds(s, j, d)' => Holds(s, j, d) /\ worker'[s].at = worker[s].at
    PROVE  LeaseInv'
<1>1. TokenInv'
  BY DEF LeaseInv, TokenInv
<1>2. ClaimInv'
  BY DEF LeaseInv, ClaimInv
<1>3. Exclusive'
  BY DEF LeaseInv, Exclusive
<1> QED BY <1>1, <1>2, <1>3 DEF LeaseInv

\* The same for a step of one server, whose tick becomes w.
LEMMA OneTickKept ==
    ASSUME LeaseInv, TypeOK', row' = row, now' = now, NEW s \in Server, NEW w \in TickState,
           worker' = [worker EXCEPT ![s] = w],
           w.pc # "idle" => w.at <= now /\ now <= w.at + WorkLimit,
           w.pc \in {"idle", "start"} => w.candidates = {} /\ w.claimed = {},
           w.pc = "finish" => w.next = 0 \/ w.next > w.at,
           \A j \in Job, d \in Nat : <<j, d>> \in w.candidates => d <= w.at,
           \A j \in Job, d \in Nat :
               \/ <<j, d>> \in w.claimed
               \/ w.pc \in {"record", "alert", "push", "finish"} /\ w.job = j /\ w.due = d
               => Holds(s, j, d) /\ w.at = worker[s].at
    PROVE  LeaseInv'
<1>1. worker'[s] = w /\ \A t \in Server \ {s} : worker'[t] = worker[t]
  BY DEF LeaseInv, TypeOK
<1>2. \A t \in Server, j \in Job, d \in Nat :
          Holds(t, j, d)' => Holds(t, j, d) /\ worker'[t].at = worker[t].at
  BY <1>1 DEF Holds, Running
<1>3. TickInv'
  <2> SUFFICES ASSUME NEW t \in Server
               PROVE  TickInv!(t)'
    BY DEF TickInv
  <2>1. CASE t = s
    BY <1>1, <1>2, <2>1 DEF LeaseInv, TickInv
  <2>2. CASE t # s
    BY <1>1, <1>2, <2>2 DEF LeaseInv, TickInv
  <2> QED BY <2>1, <2>2
<1> QED BY <1>2, <1>3, ClaimsKept

\* A schedule that is removed, or moved past the present.
LEMMA EditKept ==
    ASSUME LeaseInv, TypeOK', worker' = worker, now' = now, NEW j \in Job,
           NEW x \in Schedule \cup {NoRow}, row' = [row EXCEPT ![j] = x],
           x # NoRow => x.due > now /\ x.token = NoServer
    PROVE  LeaseInv'
<1>1. \A s \in Server, i \in Job, d \in Nat : Holds(s, i, d)' <=> Holds(s, i, d)
  BY DEF Holds, Running
<1>2. row'[j] = x /\ \A i \in Job \ {j} : row'[i] = row[i]
  BY DEF LeaseInv, TypeOK
<1>3. TickInv' /\ Exclusive'
  BY <1>1 DEF LeaseInv, TickInv, Exclusive
<1>4. TokenInv'
  BY <1>2 DEF LeaseInv, TokenInv
<1>5. ASSUME NEW s \in Server, NEW d \in Nat, Holds(s, j, d)
      PROVE  d <= now
  <2>1. worker[s].pc # "idle"
    BY <1>5 DEF LeaseInv, TickInv, Holds, Running
  <2>2. d <= worker[s].at /\ worker[s].at <= now
    BY <1>5, <2>1, Zenon DEF LeaseInv, TickInv
  <2>3. worker[s].at \in Nat /\ now \in Nat
    BY DEF LeaseInv, TypeOK, TickState
  <2> QED BY <2>2, <2>3
<1>6. ClaimInv'
  <2> SUFFICES ASSUME NEW s \in Server, NEW i \in Job, NEW d \in Nat,
                      Holds(s, i, d), row'[i] # NoRow
               PROVE  /\ \/ row'[i].due > d
                         \/ row'[i].due = d /\ row'[i].lease = worker[s].at + LeaseFor /\ row'[i].token = s
                      /\ row'[i].token = s => row'[i].due <= worker[s].at
    BY <1>1 DEF ClaimInv
  <2>1. CASE i = j
    <3>1. x.due \in Nat /\ now \in Nat
      BY <1>2, <2>1 DEF LeaseInv, TypeOK, Schedule
    <3> QED BY <1>2, <1>5, <2>1, <3>1, ScheduleAssumptions
  <2>2. CASE i # j
    BY <1>2, <2>2 DEF LeaseInv, ClaimInv
  <2> QED BY <2>1, <2>2
<1> QED BY <1>3, <1>4, <1>6 DEF LeaseInv

\* Time passes: a tick that is not cut off keeps its claims.
LEMMA TimeKept ==
    ASSUME LeaseInv, TypeOK', Tick
    PROVE  LeaseInv'
<1>1. now' = now + 1 /\ row' = row /\ now \in Nat
  BY DEF Tick, LeaseInv, TypeOK
<1>2. \A s \in Server : worker'[s] = IF InTime(s, now') THEN worker[s] ELSE Idle
  BY DEF Tick
<1>3. \A s \in Server, j \in Job, d \in Nat : Holds(s, j, d)' =>
          Holds(s, j, d) /\ worker'[s] = worker[s]
  BY <1>2 DEF Holds, Running, Idle
<1>4. TickInv'
  <2> SUFFICES ASSUME NEW s \in Server PROVE TickInv!(s)'
    BY DEF TickInv
  <2>1. CASE InTime(s, now')
    <3>1. worker'[s] = worker[s] /\ now' <= worker[s].at + WorkLimit
      BY <1>2, <2>1 DEF InTime
    <3>2. worker[s].at \in Nat
      BY DEF LeaseInv, TypeOK, TickState
    <3> QED BY <1>1, <1>3, <3>1, <3>2 DEF LeaseInv, TickInv
  <2>2. CASE ~ InTime(s, now')
    BY <1>2, <1>3, <2>2 DEF Idle, Holds, Running
  <2> QED BY <2>1, <2>2
<1>5. TokenInv'
  <2> SUFFICES ASSUME NEW j \in Job, row[j] # NoRow, row[j].token # NoServer
               PROVE  row[j].due <= now + 1
    BY <1>1 DEF TokenInv
  <2>1. row[j].due \in Nat /\ row[j].due <= now
    BY DEF LeaseInv, TokenInv, TypeOK, Schedule
  <2> QED BY <1>1, <2>1
<1>6. ClaimInv' /\ Exclusive'
  BY <1>1, <1>3, SMTT(30) DEF LeaseInv, ClaimInv, Exclusive
<1> QED BY <1>4, <1>5, <1>6 DEF LeaseInv

\* A claim: the lease of anyone else who holds the occurrence would be live.
LEMMA ClaimKept ==
    ASSUME LeaseInv, TypeOK', NEW s \in Server, NEW c \in worker[s].candidates,
           ClaimOne(s, c), StillDue(c[1], c[2], worker[s].at)
    PROVE  LeaseInv'
<1> DEFINE j == c[1]
           d == c[2]
           x == [due |-> row[j].due, lease |-> worker[s].at + LeaseFor, token |-> s]
<1>1. /\ \A t \in Server : worker[t] \in TickState /\ worker[t].at \in Nat
      /\ now \in Nat /\ row \in [Job -> Schedule \cup {NoRow}]
  BY DEF LeaseInv, TypeOK, TickState
<1>2. j \in Job /\ d \in Nat /\ c = <<j, d>>
  BY <1>1 DEF TickState
<1>3. row[j] # NoRow /\ row[j].due = d /\ row[j].lease < worker[s].at /\ row[j].lease \in Nat
  BY <1>1, <1>2 DEF StillDue, Schedule
<1>4. now' = now /\ row'[j] = x /\ \A i \in Job \ {j} : row'[i] = row[i]
  BY <1>1, <1>2 DEF ClaimOne
<1>5. /\ worker'[s] = [worker[s] EXCEPT !.candidates = @ \ {c}, !.claimed = @ \cup {c}]
      /\ \A t \in Server \ {s} : worker'[t] = worker[t]
  BY <1>1, Zenon DEF ClaimOne, LeaseInv, TypeOK
<1>6. /\ worker'[s].at = worker[s].at /\ worker'[s].pc = "claim" /\ worker[s].pc = "claim"
      /\ worker'[s].candidates = worker[s].candidates \ {c}
      /\ worker'[s].claimed = worker[s].claimed \cup {c}
  BY <1>1, <1>5 DEF TickState, ClaimOne
<1>7. worker[s].at <= now /\ d <= worker[s].at
  BY <1>2, <1>6 DEF LeaseInv, TickInv
<1>8. x.due = d /\ x.lease = worker[s].at + LeaseFor /\ x.token = s
  BY <1>3
<1> HIDE DEF j, d, x
<1>9. \A t \in Server : worker'[t].at = worker[t].at
  BY <1>5, <1>6, Zenon
<1>10. \A t \in Server, i \in Job, e \in Nat :
           Holds(t, i, e)' => Holds(t, i, e) \/ (t = s /\ i = j /\ e = d)
  BY <1>2, <1>5, <1>6, ZenonT(30) DEF Holds, Running
<1>11. ASSUME NEW t \in Server, Holds(t, j, d) PROVE FALSE
  <2>1. worker[t].pc # "idle"
    BY <1>2, <1>11 DEF LeaseInv, TickInv, Holds, Running
  <2>2. now <= worker[t].at + WorkLimit
    BY <2>1 DEF LeaseInv, TickInv
  <2>3. row[j].lease = worker[t].at + LeaseFor
    BY <1>2, <1>3, <1>11 DEF LeaseInv, ClaimInv
  <2> QED BY <1>1, <1>3, <1>7, <2>2, <2>3, ScheduleAssumptions
<1>12. TickInv'
  <2> SUFFICES ASSUME NEW t \in Server PROVE TickInv!(t)'
    BY SMTT(30) DEF TickInv
  <2>1. CASE t = s
    BY <1>4, <1>6, <1>7, <1>10, <2>1 DEF LeaseInv, TickInv
  <2>2. CASE t # s
    BY <1>4, <1>5, <1>10, <2>2 DEF LeaseInv, TickInv
  <2> QED BY <2>1, <2>2, SMTT(30)
<1>13. TokenInv'
  BY <1>1, <1>2, <1>4, <1>7, <1>8, SMTT(30) DEF LeaseInv, TokenInv
<1>14. ClaimInv'
  <2> SUFFICES ASSUME NEW t \in Server, NEW i \in Job, NEW e \in Nat,
                      Holds(t, i, e)', row'[i] # NoRow
               PROVE  /\ \/ row'[i].due > e
                         \/ row'[i].due = e /\ row'[i].lease = worker[t].at + LeaseFor /\ row'[i].token = t
                      /\ row'[i].token = t => row'[i].due <= worker[t].at
    BY <1>9, SMTT(30) DEF ClaimInv
  <2>1. CASE i # j
    BY <1>4, <1>10, <2>1, SMTT(30) DEF LeaseInv, ClaimInv
  <2>2. CASE i = j /\ Holds(t, i, e)
    <3>1. d > e
      BY <1>2, <1>3, <1>11, <2>2 DEF LeaseInv, ClaimInv
    <3> QED BY <1>4, <1>7, <1>8, <2>2, <3>1
  <2>3. CASE t = s /\ i = j /\ e = d
    BY <1>4, <1>7, <1>8, <2>3
  <2> QED BY <1>10, <2>1, <2>2, <2>3, SMTT(30)
<1>15. Exclusive'
  BY <1>10, <1>11 DEF LeaseInv, Exclusive
<1> QED BY <1>12, <1>13, <1>14, <1>15 DEF LeaseInv

\* A claim that is finished moves its schedule past everything claimed of it.
LEMMA FinishKept ==
    ASSUME LeaseInv, TypeOK', NEW s \in Server, FinishSchedule(s)
    PROVE  LeaseInv'
<1> DEFINE j == worker[s].job
           d == worker[s].due
           n == worker[s].next
<1>1. /\ \A t \in Server : worker[t] \in TickState /\ worker[t].at \in Nat
      /\ now \in Nat /\ row \in [Job -> Schedule \cup {NoRow}]
      /\ \A i \in Job : row[i] # NoRow => row[i].due \in Nat
  BY SMTT(30) DEF LeaseInv, TypeOK, TickState, Schedule
<1>2. j \in Job /\ d \in Nat /\ n \in Nat /\ Holds(s, j, d)
  BY <1>1 DEF FinishSchedule, LeaseInv, TypeOK, TickState, Running, Holds
<1>3. /\ worker'[s] = [worker[s] EXCEPT !.pc = "claim", !.job = NoJob, !.due = 0, !.next = 0]
      /\ \A t \in Server \ {s} : worker'[t] = worker[t]
  BY DEF FinishSchedule, LeaseInv, TypeOK
<1>4. /\ worker'[s].at = worker[s].at /\ worker'[s].pc = "claim" /\ worker[s].pc = "finish"
      /\ worker'[s].candidates = worker[s].candidates /\ worker'[s].claimed = worker[s].claimed
  <2>1. worker[s].pc = "finish"
    BY DEF FinishSchedule
  <2> QED BY <1>1, <1>3, <2>1 DEF TickState
<1>5. now' = now /\ \A t \in Server : worker'[t].at = worker[t].at
  BY <1>3, <1>4, Zenon DEF FinishSchedule
<1>6. \A t \in Server, i \in Job, e \in Nat : Holds(t, i, e)' => Holds(t, i, e)
  BY <1>3, <1>4, Zenon DEF Holds, Running
<1>7. TickInv'
  <2> SUFFICES ASSUME NEW t \in Server PROVE TickInv!(t)'
    BY SMTT(30) DEF TickInv
  <2>1. CASE t = s
    BY <1>4, <1>5, <1>6, <2>1 DEF LeaseInv, TickInv
  <2>2. CASE t # s
    BY <1>3, <1>5, <1>6, <2>2 DEF LeaseInv, TickInv
  <2> QED BY <2>1, <2>2
<1>8. \A i \in Job : \/ row'[i] = row[i] \/ row'[i] = NoRow
                     \/ /\ i = j /\ row[j] # NoRow /\ row[j].token = s
                        /\ n # 0 /\ row'[i] = Fresh(n)
  BY <1>1, <1>2, SMTT(30) DEF FinishSchedule, Finished
<1>9. n # 0 => n > worker[s].at
  BY <1>4 DEF LeaseInv, TickInv
<1>10. Fresh(n).due = n /\ Fresh(n).token = NoServer
  BY DEF Fresh
<1> HIDE DEF j, d, n
<1>11. TokenInv'
  BY <1>5, <1>8, <1>10 DEF LeaseInv, TokenInv
<1>12. Exclusive'
  BY <1>6 DEF LeaseInv, Exclusive
<1>13. ClaimInv'
  <2> SUFFICES ASSUME NEW t \in Server, NEW i \in Job, NEW e \in Nat,
                      Holds(t, i, e), row'[i] # NoRow
               PROVE  /\ \/ row'[i].due > e
                         \/ row'[i].due = e /\ row'[i].lease = worker[t].at + LeaseFor /\ row'[i].token = t
                      /\ row'[i].token = t => row'[i].due <= worker[t].at
    BY <1>5, <1>6, SMTT(30) DEF ClaimInv
  <2>1. CASE row'[i] = row[i]
    BY <2>1, SMTT(30) DEF LeaseInv, ClaimInv
  <2>2. CASE i = j /\ row[j] # NoRow /\ row[j].token = s /\ n # 0 /\ row'[i] = Fresh(n)
    <3>1. row[j].due <= worker[s].at
      BY <1>2, <2>2 DEF LeaseInv, ClaimInv
    <3>2. e <= worker[s].at
      <4>1. CASE t = s
        BY <4>1, Zenon DEF LeaseInv, TickInv
      <4>2. CASE t # s
        <5>1. row[j].due > e
          BY <2>2, <4>2 DEF LeaseInv, ClaimInv
        <5> QED BY <1>1, <1>2, <2>2, <3>1, <5>1
      <4> QED BY <4>1, <4>2
    <3> QED BY <1>1, <1>2, <1>9, <1>10, <2>2, <3>2, ScheduleAssumptions
  <2> QED BY <1>8, <2>1, <2>2, SMTT(30)
<1> QED BY <1>7, <1>11, <1>12, <1>13 DEF LeaseInv

\* A tick keeps its place in time while it works.
LEMMA StillInTime ==
    ASSUME LeaseInv, NEW s \in Server, worker[s].pc # "idle"
    PROVE  /\ worker[s].at \in Nat /\ now \in Nat
           /\ worker[s].at <= now /\ now <= worker[s].at + WorkLimit
           /\ \A j \in Job, d \in Nat : <<j, d>> \in worker[s].candidates => d <= worker[s].at
BY DEF LeaseInv, TypeOK, TickState, TickInv

\* A tick that leaves runSchedule keeps its claims and the one it ran.
LEMMA LeaveKept ==
    ASSUME LeaseInv, TypeOK', row' = row, now' = now, NEW s \in Server, NEW w \in TickState,
           NEW n \in Nat, worker[s].pc # "idle", Leave(s, w, n), n = 0 \/ n > w.at,
           w.at = worker[s].at, w.candidates = worker[s].candidates,
           \A j \in Job, d \in Nat :
               <<j, d>> \in w.claimed \/ (w.job = j /\ w.due = d) => Holds(s, j, d)
    PROVE  LeaseInv'
<1> DEFINE v == [w EXCEPT !.pc = "finish", !.next = n]
<1>1. /\ v \in TickState /\ v.pc = "finish" /\ v.next = n /\ v.at = w.at
      /\ v.candidates = w.candidates /\ v.claimed = w.claimed /\ v.job = w.job /\ v.due = w.due
  BY Zenon DEF TickState
<1>2. worker' = [worker EXCEPT ![s] = v]
  BY DEF Leave
<1> HIDE DEF v
<1>3. /\ v.pc # "idle" => v.at <= now /\ now <= v.at + WorkLimit
      /\ v.pc \in {"idle", "start"} => v.candidates = {} /\ v.claimed = {}
      /\ v.pc = "finish" => v.next = 0 \/ v.next > v.at
  BY <1>1, StillInTime
<1>4. \A j \in Job, d \in Nat : <<j, d>> \in v.candidates => d <= v.at
  BY <1>1, StillInTime
<1>5. \A j \in Job, d \in Nat :
          \/ <<j, d>> \in v.claimed
          \/ v.pc \in {"record", "alert", "push", "finish"} /\ v.job = j /\ v.due = d
          => Holds(s, j, d) /\ v.at = worker[s].at
  BY <1>1
<1> QED BY <1>1, <1>2, <1>3, <1>4, <1>5, OneTickKept, Zenon

\* A running tick holds what it runs.
LEMMA RunningHolds ==
    ASSUME LeaseInv, NEW s \in Server, Running(s)
    PROVE  /\ worker[s].pc # "idle" /\ worker[s].job \in Job /\ worker[s].due \in Nat
           /\ worker[s] \in TickState
           /\ \A j \in Job, d \in Nat :
                <<j, d>> \in worker[s].claimed \/ (worker[s].job = j /\ worker[s].due = d)
                => Holds(s, j, d)
BY DEF LeaseInv, TypeOK, TickState, Running, Holds

\* A running tick goes on to its next call.
LEMMA MoveKept ==
    ASSUME LeaseInv, TypeOK', row' = row, now' = now, NEW s \in Server, Running(s),
           NEW p \in {"alert", "push"}, worker' = [worker EXCEPT ![s].pc = p]
    PROVE  LeaseInv'
<1> DEFINE v == [worker[s] EXCEPT !.pc = p]
<1>1. worker[s] \in TickState
  BY RunningHolds
<1>2. /\ v \in TickState /\ v.pc = p /\ v.at = worker[s].at
      /\ v.candidates = worker[s].candidates /\ v.claimed = worker[s].claimed
      /\ v.job = worker[s].job /\ v.due = worker[s].due
  BY <1>1 DEF TickState
<1>3. worker' = [worker EXCEPT ![s] = v]
  OBVIOUS
<1> HIDE DEF v
<1> QED BY <1>2, <1>3, RunningHolds, StillInTime, OneTickKept, ZenonT(40)

\* Every action keeps the invariant; the lemmas above are its cases.
LEMMA LeaseInvStep == LeaseInv /\ [Next]_vars => LeaseInv'
<1> SUFFICES ASSUME LeaseInv, [Next]_vars PROVE LeaseInv'
  OBVIOUS
<1>a. TypeOK /\ TypeOK' /\ \A s \in Server : worker[s] \in TickState
  BY TypeStep DEF LeaseInv, TypeOK
<1> USE DEF user, recorded
<1>1. CASE Tick
  BY <1>1, <1>a, TimeKept
<1>2. ASSUME NEW j \in Job, NEW t \in 1 .. MaxTime + MaxSnooze, Snooze(j, t) PROVE LeaseInv'
  <2>1. t \in Nat /\ t > now /\ Fresh(t) \in Schedule /\ Fresh(t).due = t /\ Fresh(t).token = NoServer
    BY <1>2, <1>a, FreshType, ScheduleAssumptions DEF Snooze, Fresh, TypeOK
  <2> QED BY <1>2, <1>a, <2>1, EditKept, Zenon DEF Snooze
<1>3. ASSUME NEW j \in Job, CancelSnooze(j) PROVE LeaseInv'
  BY <1>3, <1>a, EditKept, Zenon DEF CancelSnooze
<1>4. ASSUME NEW j \in Job, NEW on \in BOOLEAN, SaveDigest(j, on) PROVE LeaseInv'
  <2> DEFINE t == DigestNext(now)
  <2>1. t \in Nat /\ t > now
    BY <1>a, DigestNextLater DEF TypeOK
  <2> HIDE DEF t
  <2>2. Fresh(t) \in Schedule /\ Fresh(t).due = t /\ Fresh(t).token = NoServer
    BY <2>1, FreshType DEF Fresh
  <2>3. CASE on
    BY <1>4, <1>a, <2>1, <2>2, <2>3, EditKept, Zenon DEF SaveDigest, t
  <2>4. CASE ~ on
    BY <1>4, <1>a, <2>4, EditKept, Zenon DEF SaveDigest
  <2> QED BY <2>3, <2>4
<1>5. ASSUME worker' = worker, row' = row, now' = now PROVE LeaseInv'
  BY <1>5, <1>a, ClaimsKept, ZenonT(30) DEF LeaseInv, TickInv, Holds, Running
<1>6. ASSUME NEW j \in Job, SetVisible(j) \/ DeleteSavedView(j) PROVE LeaseInv'
  BY <1>6, <1>5 DEF SetVisible, DeleteSavedView
<1>7. ASSUME NEW s \in Server, StartTick(s) PROVE LeaseInv'
  <2> DEFINE v == [worker[s] EXCEPT !.pc = "start", !.at = now]
  <2>1. /\ v \in TickState /\ v.pc = "start" /\ v.at = now
        /\ v.candidates = worker[s].candidates /\ v.claimed = worker[s].claimed
    BY <1>a, ZenonT(40) DEF TickState, TypeOK
  <2>2. v.candidates = {} /\ v.claimed = {}
    BY <1>7, <2>1 DEF StartTick, Idle
  <2>3. worker' = [worker EXCEPT ![s] = v]
    BY <1>7, Zenon DEF StartTick
  <2>4. now \in Nat /\ now <= now + WorkLimit
    BY <1>a, ScheduleAssumptions DEF TypeOK
  <2> HIDE DEF v
  <2>5. row' = row /\ now' = now
    BY <1>7 DEF StartTick
  <2>6. v.pc # "idle" => v.at <= now /\ now <= v.at + WorkLimit
    BY <2>1, <2>4
  <2> QED BY <1>a, <2>1, <2>2, <2>3, <2>5, <2>6, OneTickKept, Zenon
<1>8. ASSUME NEW s \in Server, ClaimSchedules(s) PROVE LeaseInv'
  <2> DEFINE C == {<<j, row[j].due>> : j \in {i \in Job : Due(i, worker[s].at)}}
             v == [worker[s] EXCEPT !.pc = "claim", !.candidates = C]
  <2>1. worker' = [worker EXCEPT ![s] = v] /\ worker[s].pc = "start"
    BY <1>8, Zenon DEF ClaimSchedules
  <2>2. C \subseteq Job \X Nat /\ \A j \in Job, d \in Nat : <<j, d>> \in C => d <= worker[s].at
    BY <1>a DEF Due, Schedule, TypeOK
  <2> HIDE DEF C
  <2>3. /\ v \in TickState /\ v.pc = "claim" /\ v.at = worker[s].at
        /\ v.candidates = C /\ v.claimed = worker[s].claimed
    BY <1>a, <2>2, Zenon DEF TickState
  <2>4. worker[s].claimed = {}
    BY <2>1 DEF LeaseInv, TickInv
  <2> HIDE DEF v
  <2> QED BY <1>8, <1>a, <2>1, <2>2, <2>3, <2>4, StillInTime, OneTickKept DEF ClaimSchedules
<1>9. ASSUME NEW s \in Server, NEW c \in worker[s].candidates, ClaimOne(s, c) PROVE LeaseInv'
  <2>1. CASE StillDue(c[1], c[2], worker[s].at)
    BY <1>9, <1>a, <2>1, ClaimKept
  <2>2. CASE ~ StillDue(c[1], c[2], worker[s].at)
    <3> DEFINE v == [worker[s] EXCEPT !.candidates = @ \ {c}]
    <3>1. worker' = [worker EXCEPT ![s] = v] /\ worker[s].pc = "claim"
      BY <1>9, <2>2 DEF ClaimOne
    <3>2. /\ v \in TickState /\ v.pc = "claim" /\ v.at = worker[s].at
          /\ v.candidates \subseteq worker[s].candidates /\ v.claimed = worker[s].claimed
      BY <1>a, <3>1 DEF TickState
    <3> HIDE DEF v
    <3> QED BY <1>9, <1>a, <2>2, <3>1, <3>2, StillInTime, OneTickKept, Zenon DEF ClaimOne, Holds
  <2> QED BY <2>1, <2>2
<1>10. ASSUME NEW s \in Server, EndTick(s) \/ Crash(s) PROVE LeaseInv'
  <2>1. worker' = [worker EXCEPT ![s] = Idle] /\ row' = row /\ now' = now
    BY <1>10 DEF EndTick, Crash
  <2>2. Idle.candidates = {} /\ Idle.claimed = {}
    BY DEF Idle
  <2> QED BY <1>a, <2>1, <2>2, IdleType, OneTickKept, Zenon
<1>11. ASSUME NEW s \in Server, NEW c \in worker[s].claimed, CheckAccess(s, c) PROVE LeaseInv'
  <2> DEFINE w == TakeUp(s, c)
             v == [w EXCEPT !.pc = "record"]
  <2>1. worker[s].pc = "claim" /\ c \in Job \X Nat /\ c = <<c[1], c[2]>>
    BY <1>11, <1>a DEF CheckAccess, TickState
  <2>2. /\ w \in TickState /\ w.at = worker[s].at /\ w.candidates = worker[s].candidates
        /\ w.claimed = worker[s].claimed \ {c} /\ w.job = c[1] /\ w.due = c[2]
    BY <1>a, <2>1, ZenonT(30) DEF TakeUp, TickState
  <2>3. w.at \in Nat
    BY <2>2 DEF TickState
  <2>4. (\E n \in {0, w.at + 1} : Leave(s, w, n)) \/ worker' = [worker EXCEPT ![s] = v]
    BY <1>11 DEF CheckAccess
  <2> HIDE DEF w
  <2>5. /\ v \in TickState /\ v.pc = "record" /\ v.at = w.at /\ v.candidates = w.candidates
        /\ v.claimed = w.claimed /\ v.job = w.job /\ v.due = w.due
    BY <2>2 DEF TickState
  <2> HIDE DEF v
  <2>6. row' = row /\ now' = now
    BY <1>11 DEF CheckAccess
  <2>7. \A j \in Job, d \in Nat :
            <<j, d>> \in w.claimed \/ (w.job = j /\ w.due = d) => Holds(s, j, d)
    BY <2>1, <2>2 DEF Holds
  <2>8. CASE \E n \in {0, w.at + 1} : Leave(s, w, n)
    <3>1. PICK n \in {0, w.at + 1} : Leave(s, w, n)
      BY <2>8, Zenon
    <3>2. n \in Nat /\ (n = 0 \/ n > w.at)
      BY <2>3, <3>1
    <3>3. worker[s].pc # "idle" /\ TypeOK' /\ LeaseInv
      BY <1>a, <2>1, Zenon
    <3> QED
      BY <2>2, <2>6, <2>7, <3>1, <3>2, <3>3, LeaveKept, Zenon
  <2>9. CASE worker' = [worker EXCEPT ![s] = v]
    <3>1. /\ v.pc # "idle" => v.at <= now /\ now <= v.at + WorkLimit
          /\ \A j \in Job, d \in Nat : <<j, d>> \in v.candidates => d <= v.at
      BY <2>1, <2>2, <2>5, StillInTime
    <3>2. \A j \in Job, d \in Nat :
              \/ <<j, d>> \in v.claimed
              \/ v.pc \in {"record", "alert", "push", "finish"} /\ v.job = j /\ v.due = d
              => Holds(s, j, d) /\ v.at = worker[s].at
      BY <2>2, <2>5, <2>7
    <3> QED BY <1>a, <2>5, <2>6, <2>9, <3>1, <3>2, OneTickKept, Zenon
  <2> QED BY <2>4, <2>8, <2>9
<1>12. ASSUME NEW s \in Server, Running(s), row' = row, now' = now,
              \/ \E n \in {0, worker[s].at + 1, DigestNext(worker[s].at)} : Finish(s, n)
              \/ \E p \in {"alert", "push"} : worker' = [worker EXCEPT ![s].pc = p]
       PROVE  LeaseInv'
  <2>1. CASE \E n \in {0, worker[s].at + 1, DigestNext(worker[s].at)} : Finish(s, n)
    <3>1. PICK n \in {0, worker[s].at + 1, DigestNext(worker[s].at)} : Leave(s, worker[s], n)
      BY <2>1, SMTT(30) DEF Finish
    <3>2. worker[s].at \in Nat /\ n \in Nat /\ (n = 0 \/ n > worker[s].at)
      BY <1>a, <3>1, DigestNextLater DEF TickState
    <3> QED BY <1>12, <1>a, <3>1, <3>2, RunningHolds, LeaveKept
  <2>2. CASE \E p \in {"alert", "push"} : worker' = [worker EXCEPT ![s].pc = p]
    BY <1>12, <1>a, <2>2, MoveKept, Zenon
  <2> QED BY <1>12, <2>1, <2>2
<1>13. ASSUME NEW s \in Server, Record(s) PROVE LeaseInv'
  BY <1>13, <1>12 DEF Record, Running
<1>14. ASSUME NEW s \in Server, SaveAttentionAlert(s) PROVE LeaseInv'
  BY <1>14, <1>12 DEF SaveAttentionAlert, Running, After
<1>15. ASSUME NEW s \in Server, Push(s) PROVE LeaseInv'
  BY <1>15, <1>12 DEF Push, Running, After
<1>16. ASSUME NEW s \in Server, RunFails(s) PROVE LeaseInv'
  BY <1>16, <1>12 DEF RunFails, Running
<1>17. ASSUME NEW s \in Server, FinishSchedule(s) PROVE LeaseInv'
  BY <1>17, <1>a, FinishKept
<1>18. CASE UNCHANGED vars
  BY <1>18, <1>5 DEF vars
<1> QED
  BY <1>1, <1>2, <1>3, <1>4, <1>6, <1>7, <1>8, <1>9, <1>10, <1>11, <1>13, <1>14, <1>15,
     <1>16, <1>17, <1>18 DEF Next, Work

\* Claims, leases and tokens agree in every reachable state.
LEMMA LeaseInvariant == Spec => []LeaseInv
BY LeaseInvInit, LeaseInvStep, PTL DEF Spec

\* A tick holds what it runs, and an occurrence has one holder.
LEMMA OneRunnerNow == LeaseInv => OneRunner
BY ZenonT(30) DEF LeaseInv, Exclusive, OneRunner, Holds, Running, TypeOK, TickState

\* At any time at most one server runs an occurrence of a schedule, whatever
\* the number of servers, the clock and the crashes: ClaimSchedules' lease
\* outlasts the work of a tick.
THEOREM OneRunnerHolds == Spec => []OneRunner
BY OneRunnerNow, LeaseInvariant, PTL

\* At the start nothing is snoozed.
LEMMA SnoozeInit == Init => SnoozeWillEnd
BY ScheduleAssumptions DEF Init, SnoozeWillEnd

\* The schedule of a snooze in force has no claim to finish: it is not due.
LEMMA SnoozeStep == SnoozeWillEnd /\ LeaseInv /\ [Next]_vars => SnoozeWillEnd'
<1> SUFFICES ASSUME SnoozeWillEnd, LeaseInv, [Next]_vars,
                    NEW j \in Job \ Digest, until'[j] > now'
             PROVE  row'[j] # NoRow /\ row'[j].due = until'[j]
  BY DEF SnoozeWillEnd
<1> USE DEF user, recorded
<1>a. /\ until \in [Job -> Nat] /\ now \in Nat /\ row \in [Job -> Schedule \cup {NoRow}]
      /\ until[j] \in Nat /\ (until[j] > now => row[j] # NoRow /\ row[j].due = until[j])
  BY DEF LeaseInv, TypeOK, SnoozeWillEnd
<1>1. ASSUME until'[j] = until[j], row'[j] = row[j], now' = now \/ now' = now + 1
      PROVE  row'[j] # NoRow /\ row'[j].due = until'[j]
  BY <1>1, <1>a
<1>2. CASE Tick
  BY <1>1, <1>2 DEF Tick
<1>3. ASSUME NEW i \in Job, NEW t \in 1 .. MaxTime + MaxSnooze, Snooze(i, t)
      PROVE  row'[j] # NoRow /\ row'[j].due = until'[j]
  <2>1. CASE i = j
    <3>1. t \in Nat /\ until'[j] = t /\ row'[j] = Fresh(t)
      BY <1>3, <1>a, <2>1, ScheduleAssumptions, SMTT(30) DEF Snooze
    <3>2. Fresh(t) \in Schedule /\ Fresh(t).due = t
      BY <3>1, FreshType DEF Fresh
    <3> QED BY <3>1, <3>2, NoRowAssumption
  <2>2. CASE i # j
    BY <1>1, <1>3, <1>a, <2>2 DEF Snooze
  <2> QED BY <2>1, <2>2
<1>4. ASSUME NEW i \in Job, CancelSnooze(i)
      PROVE  row'[j] # NoRow /\ row'[j].due = until'[j]
  <2>1. CASE i = j
    BY <1>4, <1>a, <2>1 DEF CancelSnooze
  <2>2. CASE i # j
    BY <1>1, <1>4, <1>a, <2>2 DEF CancelSnooze
  <2> QED BY <2>1, <2>2
<1>5. ASSUME NEW i \in Job, NEW on \in BOOLEAN, SaveDigest(i, on)
      PROVE  row'[j] # NoRow /\ row'[j].due = until'[j]
  BY <1>1, <1>5, <1>a, SMTT(30) DEF SaveDigest
<1>6. ASSUME NEW i \in Job, SetVisible(i) \/ DeleteSavedView(i)
      PROVE  row'[j] # NoRow /\ row'[j].due = until'[j]
  BY <1>1, <1>6, SMTT(30) DEF SetVisible, DeleteSavedView
<1>7. ASSUME NEW s \in Server, NEW c \in worker[s].candidates, ClaimOne(s, c)
      PROVE  row'[j] # NoRow /\ row'[j].due = until'[j]
  <2>1. until' = until /\ now' = now
    BY <1>7 DEF ClaimOne
  <2>2. row'[j] = row[j] \/ row'[j] = [due |-> row[j].due, lease |-> worker[s].at + LeaseFor, token |-> s]
    BY <1>7, <1>a DEF ClaimOne
  <2>3. CASE row'[j] = [due |-> row[j].due, lease |-> worker[s].at + LeaseFor, token |-> s]
    <3>1. row'[j].due = until'[j] /\ row[j] \in Schedule
      BY <1>a, <2>1, <2>3
    <3>2. worker[s].at + LeaseFor \in Nat
      BY ScheduleAssumptions, SMTT(30) DEF LeaseInv, TypeOK, TickState
    <3>3. row'[j] \in Schedule
      BY <2>3, <3>1, <3>2 DEF Schedule
    <3> QED BY <3>1, <3>3, NoRowAssumption, SMTT(30)
  <2> QED BY <1>1, <2>1, <2>2, <2>3
<1>8. ASSUME NEW s \in Server, FinishSchedule(s)
      PROVE  row'[j] # NoRow /\ row'[j].due = until'[j]
  <2>1. until' = until /\ now' = now
    BY <1>8 DEF FinishSchedule
  <2>2. row'[j] = row[j] \/ (row[j] # NoRow /\ row[j].token = s)
    BY <1>8, <1>a DEF FinishSchedule, Finished
  <2>3. ~ (row[j] # NoRow /\ row[j].token = s)
    <3>1. row[j] # NoRow /\ row[j].token = s => row[j].due <= now
      BY ScheduleAssumptions DEF LeaseInv, TokenInv
    <3> QED BY <1>a, <2>1, <3>1
  <2> QED BY <1>1, <2>1, <2>2, <2>3
<1>9. ASSUME NEW s \in Server,
             \/ StartTick(s) \/ ClaimSchedules(s) \/ EndTick(s) \/ Record(s)
             \/ (\E c \in worker[s].claimed : CheckAccess(s, c))
             \/ SaveAttentionAlert(s) \/ Push(s) \/ RunFails(s) \/ Crash(s)
      PROVE  row'[j] # NoRow /\ row'[j].due = until'[j]
  <2>1. until' = until /\ row' = row /\ now' = now
    BY <1>9, SMTT(30) DEF StartTick, ClaimSchedules, EndTick, Record, CheckAccess, SaveAttentionAlert,
                Push, RunFails, Crash
  <2> QED BY <1>1, <2>1, SMTT(30)
<1>10. CASE UNCHANGED vars
  BY <1>1, <1>10 DEF vars
<1> QED
  BY <1>2, <1>3, <1>4, <1>5, <1>6, <1>7, <1>8, <1>9, <1>10, Zenon DEF Next, Work

\* A snooze that is in force keeps the schedule that ends it: FinishSchedule
\* compares tokens, and Snooze clears the token of the claim it replaces.
THEOREM SnoozeWillEndHolds == Spec => []SnoozeWillEnd
BY SnoozeInit, SnoozeStep, LeaseInvariant, PTL DEF Spec

\* At the start nothing is pushed.
LEMMA PushInit == Init => PushInv
BY SMTT(30) DEF Init, PushInv, PushedOnce, Idle

\* The occurrence a tick runs, and what the record says of it on its way out.
Ready(w) ==
    /\ w.pc = "push" => <<w.job, w.due>> \in alerts \ pushed
    /\ w.pc \in {"alert", "push"} /\ w.job \in Digest /\ visible[w.job]
         => <<w.job, w.due>> \in history

\* A step of one tick that leaves the record alone.
LEMMA QuietStep ==
    ASSUME PushInv, UNCHANGED <<visible, recorded>>, NEW s \in Server, NEW w,
           worker \in [Server -> TickState], worker' = [worker EXCEPT ![s] = w],
           w.pc \notin {"alert", "push"}
    PROVE  PushInv'
<1>1. worker'[s] = w /\ \A t \in Server \ {s} : worker'[t] = worker[t]
  BY SMTT(30)
<1> QED BY <1>1 DEF PushInv, PushedOnce, recorded

\* What a step of the tick of s owes to the record.
LEMMA RecordStep ==
    ASSUME PushInv, visible' = visible, NEW s \in Server, NEW w,
           worker \in [Server -> TickState], worker' = [worker EXCEPT ![s] = w],
           Ready(w)', alerts \subseteq alerts', history \subseteq history',
           pushed' = pushed, repeated' = repeated
    PROVE  PushInv'
<1>1. worker'[s] = w /\ \A t \in Server \ {s} : worker'[t] = worker[t]
  BY SMTT(30)
<1>2. PushedOnce'
  BY DEF PushInv, PushedOnce
<1>3. ASSUME NEW t \in Server PROVE Ready(worker[t])'
  BY <1>1, <1>3, SMTT(30) DEF PushInv, Ready
<1> QED BY <1>2, <1>3 DEF PushInv, Ready

\* Every action keeps the record ahead of the push; Push needs that no other tick
\* is about to push the same occurrence.
LEMMA PushStep == PushInv /\ LeaseInv /\ [Next]_vars => PushInv'
<1> SUFFICES ASSUME PushInv, LeaseInv, [Next]_vars PROVE PushInv'
  OBVIOUS
<1> USE DEF user, recorded
<1>a. /\ worker \in [Server -> TickState] /\ \A s \in Server : worker[s] \in TickState
      /\ visible \in [Job -> BOOLEAN] /\ pushed \subseteq Job \X Nat
  BY DEF LeaseInv, TypeOK
<1>b. \A s \in Server : Running(s) => worker[s].job \in Job
  BY SMTT(30) DEF LeaseInv, TypeOK
<1>1. CASE Tick
  <2>1. \A s \in Server : worker'[s] = worker[s] \/ worker'[s] = Idle
    BY <1>1, SMTT(30) DEF Tick
  <2> QED BY <1>1, <2>1 DEF Tick, PushInv, PushedOnce, Idle
<1>2. ASSUME UNCHANGED <<visible, recorded, worker>> PROVE PushInv'
  BY <1>2, SMTT(30) DEF PushInv, PushedOnce
<1>3. ASSUME NEW j \in Job, SetVisible(j) PROVE PushInv'
  <2>1. \A i \in Job \cap Digest : visible'[i] = visible[i]
    BY <1>3, <1>a, SMTT(30) DEF SetVisible
  <2>2. PushedOnce'
    BY <1>3, <1>a, <2>1, SMTT(30) DEF SetVisible, PushInv, PushedOnce
  <2> QED BY <1>3, <1>b, <2>1, <2>2 DEF SetVisible, PushInv, Running
<1>4. ASSUME NEW j \in Job, DeleteSavedView(j) PROVE PushInv'
  <2>1. /\ ~ visible'[j] /\ \A i \in Job \ {j} : visible'[i] = visible[i]
        /\ \A i \in Job \ {j}, d \in Nat : <<i, d>> \in history => <<i, d>> \in history'
    BY <1>4, <1>a, SMTT(30) DEF DeleteSavedView
  <2>2. PushedOnce'
    BY <1>4, <1>a, <2>1, SMTT(30) DEF DeleteSavedView, PushInv, PushedOnce
  <2>3. ASSUME NEW s \in Server PROVE Ready(worker[s])'
    <3>1. worker[s].due \in Nat
      BY <1>a DEF TickState
    <3> QED BY <1>4, <1>b, <2>1, <3>1 DEF DeleteSavedView, PushInv, Ready, Running
  <2> QED BY <2>2, <2>3 DEF PushInv, Ready
<1>5. ASSUME NEW s \in Server, NEW n, Finish(s, n), UNCHANGED <<visible, pushed, repeated>>,
             alerts \subseteq alerts', history \subseteq history'
      PROVE  PushInv'
  <2>1. PICK w : w = [worker[s] EXCEPT !.pc = "finish", !.next = n]
    OBVIOUS
  <2>2. w.pc = "finish" /\ worker' = [worker EXCEPT ![s] = w]
    BY <1>5, <1>a, <2>1 DEF Finish, Leave, TickState
  <2>3. Ready(w)'
    BY <2>2 DEF Ready
  <2> QED BY <1>5, <1>a, <2>2, <2>3, RecordStep, Zenon
<1>6. ASSUME NEW s \in Server, NEW w, w.pc \notin {"alert", "push"},
             worker' = [worker EXCEPT ![s] = w], UNCHANGED <<visible, recorded>>
      PROVE  PushInv'
  BY <1>6, <1>a, QuietStep, Zenon
<1>7. ASSUME NEW s \in Server, StartTick(s) PROVE PushInv'
  <2>1. PICK w : w = [worker[s] EXCEPT !.pc = "start", !.at = now]
    OBVIOUS
  <2>2. w.pc = "start" /\ worker' = [worker EXCEPT ![s] = w]
    BY <1>7, <1>a, <2>1, Zenon DEF StartTick, TickState
  <2> QED BY <1>6, <1>7, <2>2, Zenon DEF StartTick
<1>8. ASSUME NEW s \in Server, ClaimSchedules(s) PROVE PushInv'
  <2>1. PICK w : w = [worker[s] EXCEPT !.pc = "claim", !.candidates =
                        {<<j, row[j].due>> : j \in {i \in Job : Due(i, worker[s].at)}}]
    BY Zenon
  <2>2. w.pc = "claim" /\ worker' = [worker EXCEPT ![s] = w]
    BY <1>8, <1>a, <2>1, Zenon DEF ClaimSchedules, TickState
  <2> QED BY <1>6, <1>8, <2>2 DEF ClaimSchedules
<1>9. ASSUME NEW s \in Server, NEW c \in worker[s].candidates, ClaimOne(s, c) PROVE PushInv'
  <2>1. PICK w : /\ w = [worker[s] EXCEPT !.candidates = @ \ {c}]
                    \/ w = [worker[s] EXCEPT !.candidates = @ \ {c}, !.claimed = @ \cup {c}]
                 /\ worker' = [worker EXCEPT ![s] = w]
    BY <1>9 DEF ClaimOne
  <2>2. w.pc = "claim"
    BY <1>9, <1>a, <2>1 DEF ClaimOne, TickState
  <2> QED BY <1>6, <1>9, <2>1, <2>2, Zenon DEF ClaimOne
<1>10. ASSUME NEW s \in Server, EndTick(s) \/ Crash(s) PROVE PushInv'
  <2>1. Idle.pc = "idle"
    BY DEF Idle
  <2> QED BY <1>6, <1>10, <2>1 DEF EndTick, Crash
<1>11. ASSUME NEW s \in Server, NEW c \in worker[s].claimed, CheckAccess(s, c) PROVE PushInv'
  <2>1. PICK u : u = TakeUp(s, c)
    OBVIOUS
  <2>2. u \in TickState
    BY <1>a, <2>1, ZenonT(40) DEF TakeUp, TickState
  <2>3. PICK w, n : /\ worker' = [worker EXCEPT ![s] = w]
                    /\ \/ w = [u EXCEPT !.pc = "finish", !.next = n]
                       \/ w = [u EXCEPT !.pc = "record"]
    BY <1>11, <2>1, Zenon DEF CheckAccess, Leave
  <2>4. w.pc \in {"finish", "record"}
    BY <2>2, <2>3, Zenon DEF TickState
  <2> QED BY <1>6, <1>11, <2>3, <2>4, Zenon DEF CheckAccess
<1>12. ASSUME NEW s \in Server, NEW p, worker' = [worker EXCEPT ![s].pc = p],
              UNCHANGED <<visible, pushed, repeated>>, p \in {"alert", "push"},
              alerts \subseteq alerts', history \subseteq history',
              p = "push" => <<worker[s].job, worker[s].due>> \in alerts' \ pushed,
              worker[s].job \in Digest /\ visible[worker[s].job]
                => <<worker[s].job, worker[s].due>> \in history'
       PROVE  PushInv'
  <2>1. PICK w : w = [worker[s] EXCEPT !.pc = p]
    BY Zenon
  <2>2. w.pc = p /\ w.job = worker[s].job /\ w.due = worker[s].due
    BY <1>a, <2>1 DEF TickState
  <2>3. worker' = [worker EXCEPT ![s] = w]
    BY <1>12, <2>1
  <2>4. Ready(w)'
    BY <1>12, <2>2 DEF Ready
  <2> QED BY <1>12, <1>a, <2>3, <2>4, RecordStep, Zenon
<1>13. ASSUME NEW s \in Server, Record(s) PROVE PushInv'
  <2>1. CASE worker' = [worker EXCEPT ![s].pc = "alert"] /\ worker[s].job \notin Digest
    BY <1>12, <1>13, <2>1, Zenon DEF Record
  <2>2. CASE worker' = [worker EXCEPT ![s].pc = "alert"] /\ worker[s].job \in Digest
    BY <1>12, <1>13, <2>2, ZenonT(30) DEF Record
  <2>3. CASE \E n : Finish(s, n)
    BY <1>5, <1>13, <2>3 DEF Record
  <2> QED BY <1>13, <2>1, <2>2, <2>3 DEF Record
<1>14. ASSUME NEW s \in Server, SaveAttentionAlert(s) PROVE PushInv'
  <2>1. CASE <<worker[s].job, worker[s].due>> \in alerts
    BY <1>5, <1>14, <2>1 DEF SaveAttentionAlert
  <2>2. CASE <<worker[s].job, worker[s].due>> \notin alerts
    BY <1>12, <1>14, <2>2 DEF SaveAttentionAlert, PushInv, PushedOnce
  <2> QED BY <2>1, <2>2
<1>15. ASSUME NEW s \in Server, Push(s) PROVE PushInv'
  <2>1. CASE UNCHANGED <<pushed, repeated>>
    BY <1>5, <1>15, <2>1, SMTT(30) DEF Push
  <2>2. CASE /\ pushed' = pushed \cup {<<worker[s].job, worker[s].due>>}
             /\ repeated' = repeated \cup (pushed \cap {<<worker[s].job, worker[s].due>>})
    <3>1. /\ <<worker[s].job, worker[s].due>> \in alerts \ pushed
          /\ worker[s].job \in Digest /\ visible[worker[s].job]
               => <<worker[s].job, worker[s].due>> \in history
          /\ UNCHANGED <<alerts, history, visible>>
      BY <1>15, SMTT(30) DEF Push, PushInv
    <3>2. PushedOnce'
      BY <2>2, <3>1 DEF PushInv, PushedOnce
    <3>3. /\ worker'[s].pc = "finish"
          /\ \A t \in Server \ {s} : worker'[t] = worker[t]
      BY <1>15, <1>a, SMTT(30) DEF Push, Finish, Leave, TickState
    <3>4. ASSUME NEW t \in Server \ {s}, worker[t].pc = "push"
          PROVE  <<worker[t].job, worker[t].due>> # <<worker[s].job, worker[s].due>>
      BY <1>15, <3>4, OneRunnerNow DEF Push, OneRunner, Running
    <3>5. ASSUME NEW t \in Server PROVE Ready(worker[t])'
      <4>1. CASE t = s
        BY <3>3, <4>1, SMTT(30) DEF Ready
      <4>2. CASE t # s
        BY <2>2, <3>1, <3>3, <3>4, <4>2, SMTT(30) DEF Ready, PushInv
      <4> QED BY <4>1, <4>2, SMTT(30)
    <3> QED BY <3>2, <3>5, SMTT(30) DEF PushInv, Ready
  <2> QED BY <1>15, <2>1, <2>2, SMTT(30) DEF Push
<1>16. ASSUME NEW s \in Server, RunFails(s) PROVE PushInv'
  BY <1>5, <1>16 DEF RunFails
<1>17. ASSUME NEW s \in Server, FinishSchedule(s) PROVE PushInv'
  <2>1. PICK w : w = [worker[s] EXCEPT !.pc = "claim", !.job = NoJob, !.due = 0, !.next = 0]
    OBVIOUS
  <2>2. w.pc = "claim" /\ worker' = [worker EXCEPT ![s] = w]
    BY <1>17, <1>a, <2>1, Zenon DEF FinishSchedule, TickState
  <2> QED BY <1>6, <1>17, <2>2, Zenon DEF FinishSchedule
<1>18. ASSUME NEW j \in Job,
              \/ (\E t \in 1 .. MaxTime + MaxSnooze : Snooze(j, t))
              \/ CancelSnooze(j) \/ (\E on \in BOOLEAN : SaveDigest(j, on))
       PROVE  PushInv'
  BY <1>2, <1>18 DEF Snooze, CancelSnooze, SaveDigest
<1>19. CASE UNCHANGED vars
  BY <1>2, <1>19 DEF vars
<1> QED
  BY <1>1, <1>3, <1>4, <1>7, <1>8, <1>9, <1>10, <1>11, <1>13, <1>14, <1>15, <1>16, <1>17,
     <1>18, <1>19 DEF Next, Work

\* An occurrence is pushed once and is on record when it is: the alert that
\* SaveAttentionAlert inserts is new for one tick only, and no other tick runs
\* the occurrence in between.
THEOREM PushedOnceHolds == Spec => []PushedOnce
<1>1. PushInv => PushedOnce
  BY DEF PushInv
<1> QED BY <1>1, PushInit, PushStep, LeaseInvariant, PTL DEF Spec

=============================================================================
