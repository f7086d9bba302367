----------------------------- MODULE Schedules -----------------------------
(***************************************************************************)
(* Reminders and digests (internal/store/workflows.go and                  *)
(* internal/server/workflows.go).  Every application server runs one       *)
(* worker: a tick claims the due schedules one by one with a compare and   *)
(* swap, runs them, and finishes each with the token of its claim.         *)
(*                                                                         *)
(* Time is counted in minutes.  The workers of several servers share one   *)
(* PostgreSQL database, so every statement is an action of its own.        *)
(***************************************************************************)
EXTENDS Integers, FiniteSets

CONSTANTS
    Server,
    Job,            \* schedules: one per snoozed card or digest view
    Digest,         \* the jobs that are digests; the others are snoozes
    NoJob, NoRow, NoServer,
    LeaseFor,       \* a claim holds for this long (5 minutes)
    WorkLimit,      \* a tick is cut off after this long (4 minutes)
    Day,            \* a digest recurs with this period
    MaxSnooze,      \* the longest snooze (30 days)
    MaxTime, MaxFailures, MaxEdits \* bounds of the model

ASSUME ScheduleAssumptions ==
    /\ Digest \subseteq Job
    /\ NoJob \notin Job
    /\ NoServer \notin Server
    /\ LeaseFor \in Nat /\ WorkLimit \in Nat /\ WorkLimit < LeaseFor
    /\ Day \in Nat \ {0}
    /\ MaxSnooze \in Nat /\ MaxTime \in Nat /\ MaxFailures \in Nat /\ MaxEdits \in Nat

\* workflow_schedules; a token is unique to a claim, and a worker has one
\* claim of a job at a time, so the holder stands for it.
Schedule == [due : Nat, lease : Nat, token : Server \cup {NoServer}]

ASSUME NoRowAssumption == NoRow \notin Schedule

VARIABLES
    now,
    row,        \* workflow_schedules
    until,      \* notification_snoozes.until_at, 0 if there is none
    visible,    \* is the card listed for the user; does the view exist
    alerts,     \* attention_alerts: occurrences <<job, due>>
    history,    \* digest_history: occurrences <<job, due>>
    pushed,     \* occurrences sent to the push service
    repeated,   \* the ones among them sent more than once
    worker,     \* the tick in progress on each server
    failures,   \* calls that failed and processes that died so far
    edits       \* what users changed so far

user == <<until, visible, edits>>
recorded == <<alerts, history, pushed, repeated>>
vars == <<now, row, user, recorded, worker, failures>>

Idle == [pc |-> "idle", at |-> 0, candidates |-> {}, claimed |-> {},
         job |-> NoJob, due |-> 0, next |-> 0]

Init ==
    /\ now = 1
    /\ row = [j \in Job |-> NoRow]
    /\ until = [j \in Job |-> 0]
    /\ visible = [j \in Job |-> TRUE]
    /\ alerts = {} /\ history = {} /\ pushed = {} /\ repeated = {}
    /\ worker = [s \in Server |-> Idle]
    /\ failures = 0
    /\ edits = 0

InTime_NoDeadline(s, t) == TRUE

\* Is the tick of s within its context's deadline at time t?
InTime(s, t) == t <= worker[s].at + WorkLimit

\* Time passes.  Once its deadline has passed every call of a tick fails, the
\* ones that would finish its schedules included, so the tick is over.
Tick ==
    /\ now < MaxTime
    /\ now' = now + 1
    /\ worker' = [s \in Server |-> IF InTime(s, now') THEN worker[s] ELSE Idle]
    /\ UNCHANGED <<row, user, recorded, failures>>

\* DigestConfig.Next: the next delivery time strictly after t.
DigestNext(t) == ((t \div Day) + 1) * Day

\* An inserted or rescheduled row: no lease, no token.
Fresh(due) == [due |-> due, lease |-> 0, token |-> NoServer]

-----------------------------------------------------------------------------
(* The user *)

Edit ==
    /\ edits < MaxEdits
    /\ edits' = edits + 1

Snooze(j, t) ==
    /\ Edit
    /\ j \notin Digest
    /\ now < t /\ t <= now + MaxSnooze
    /\ until' = [until EXCEPT ![j] = t]
    /\ row' = [row EXCEPT ![j] = Fresh(t)]
    /\ UNCHANGED <<now, visible, recorded, worker, failures>>

\* Snooze with no end: remove the snooze and its schedule.
CancelSnooze(j) ==
    /\ Edit
    /\ j \notin Digest
    /\ until' = [until EXCEPT ![j] = 0]
    /\ row' = [row EXCEPT ![j] = NoRow]
    /\ UNCHANGED <<now, visible, recorded, worker, failures>>

\* Set up or remove the daily digest of a view.
SaveDigest(j, on) ==
    /\ Edit
    /\ j \in Digest
    /\ visible[j]
    /\ row' = [row EXCEPT ![j] =
                IF on THEN Fresh(DigestNext(now)) ELSE NoRow]
    /\ UNCHANGED <<now, until, visible, recorded, worker, failures>>

\* Archive or restore the card, lose or regain the channel.
SetVisible(j) ==
    /\ Edit
    /\ j \notin Digest
    /\ visible' = [visible EXCEPT ![j] = ~ @]
    /\ UNCHANGED <<now, row, until, recorded, worker, failures>>

\* The view's digests go with it, its schedule stays.
DeleteSavedView(j) ==
    /\ Edit
    /\ j \in Digest
    /\ visible[j]
    /\ visible' = [visible EXCEPT ![j] = FALSE]
    /\ history' = {h \in history : h[1] # j}
    /\ UNCHANGED <<now, row, until, alerts, pushed, repeated, worker, failures>>

-----------------------------------------------------------------------------
(* The worker of a server *)

Due(j, t) == row[j] # NoRow /\ row[j].due <= t /\ row[j].lease < t

\* The ticker fires: the time of the tick is read once, and its deadline
\* counts from here; the monitors are checked first.  A tick that starts with
\* nothing due does nothing: what is scheduled later is due after its time.
StartTick(s) ==
    /\ worker[s] = Idle
    /\ \E j \in Job : row[j] # NoRow /\ row[j].due <= now
    /\ worker' = [worker EXCEPT ![s].pc = "start", ![s].at = now]
    /\ UNCHANGED <<now, row, user, recorded, failures>>

\* ClaimSchedules, the SELECT: due schedules without a live lease, and the
\* due times under which they were found.
ClaimSchedules(s) ==
    LET w == worker[s] IN
    /\ w.pc = "start"
    /\ worker' = [worker EXCEPT ![s].pc = "claim", ![s].candidates =
            {<<j, row[j].due>> : j \in {i \in Job : Due(i, w.at)}}]
    /\ UNCHANGED <<now, row, user, recorded, failures>>

\* The compare of the compare and swap.
StillDue(j, due, t) ==
    row[j] # NoRow /\ row[j].due = due /\ row[j].lease < t

\* The UPDATE of one candidate: it is claimed unless another worker was
\* faster or the user changed it.
ClaimOne(s, c) ==
    LET w == worker[s] IN
    /\ w.pc = "claim"
    /\ c \in w.candidates
    /\ IF StillDue(c[1], c[2], w.at)
       THEN /\ row' = [row EXCEPT ![c[1]] =
                    [due |-> row[c[1]].due, lease |-> w.at + LeaseFor, token |-> s]]
            /\ worker' = [worker EXCEPT ![s].candidates = @ \ {c},
                                        ![s].claimed = @ \cup {c}]
       ELSE /\ worker' = [worker EXCEPT ![s].candidates = @ \ {c}]
            /\ UNCHANGED row
    /\ UNCHANGED <<now, user, recorded, failures>>

EndTick(s) ==
    /\ worker[s].pc = "claim"
    /\ worker[s].candidates = {} /\ worker[s].claimed = {}
    /\ worker' = [worker EXCEPT ![s] = Idle]
    /\ UNCHANGED <<now, row, user, recorded, failures>>

\* The worker of s with claim c taken up.
TakeUp(s, c) ==
    [worker[s] EXCEPT !.job = c[1], !.due = c[2], !.claimed = @ \ {c}]

\* Leave runSchedule: 0 deletes the schedule, another time reschedules it.
Leave(s, w, next) ==
    worker' = [worker EXCEPT ![s] = [w EXCEPT !.pc = "finish", !.next = next]]

Finish(s, next) == Leave(s, worker[s], next)

\* Take up a claim.  The user and the card are looked up, then the quiet hours,
\* before anything is recorded; the view of a digest is looked up later.  The
\* look-ups may fail, and the schedule is then retried in a minute.
CheckAccess(s, c) ==
    LET w == TakeUp(s, c) IN
    /\ worker[s].pc = "claim" /\ worker[s].candidates = {}
    /\ \/ /\ w.job \notin Digest /\ ~ visible[w.job]
          /\ Leave(s, w, 0)
          /\ UNCHANGED failures
       \/ /\ visible[w.job] \/ w.job \in Digest
          /\ \/ Leave(s, w, w.at + 1)
             \/ worker' = [worker EXCEPT ![s] = [w EXCEPT !.pc = "record"]]
          /\ UNCHANGED failures
       \/ /\ failures < MaxFailures
          /\ failures' = failures + 1
          /\ Leave(s, w, w.at + 1)
    /\ UNCHANGED <<now, row, user, recorded>>

\* A snooze marks its card unread; a digest writes its history row, and an
\* empty one ends here.
Record(s) ==
    LET w == worker[s] IN
    /\ w.pc = "record"
    /\ \/ /\ w.job \notin Digest
          /\ worker' = [worker EXCEPT ![s].pc = "alert"]
          /\ UNCHANGED history
       \/ /\ w.job \in Digest
          /\ \/ /\ ~ visible[w.job]
                /\ Finish(s, 0)
                /\ UNCHANGED history
             \/ /\ visible[w.job]
                /\ history' = history \cup {<<w.job, w.due>>}
                /\ \/ worker' = [worker EXCEPT ![s].pc = "alert"]
                   \/ Finish(s, DigestNext(w.at))
    /\ UNCHANGED <<now, row, user, alerts, pushed, repeated, failures>>

After_Retry(w) == IF w.job \in Digest THEN w.at + 1 ELSE 0

\* Where the schedule goes after an occurrence.
After(w) == IF w.job \in Digest THEN DigestNext(w.at) ELSE 0

SaveAttentionAlert_AlwaysFresh(s) ==
    LET w == worker[s] IN
    /\ w.pc = "alert"
    /\ alerts' = alerts \cup {<<w.job, w.due>>}
    /\ worker' = [worker EXCEPT ![s].pc = "push"]
    /\ UNCHANGED <<now, row, user, history, pushed, repeated, failures>>

\* The occurrence is recorded under the due time of the claim; only a new one
\* is pushed.
SaveAttentionAlert(s) ==
    LET w == worker[s] IN
    /\ w.pc = "alert"
    /\ alerts' = alerts \cup {<<w.job, w.due>>}
    /\ IF <<w.job, w.due>> \in alerts
       THEN Finish(s, After(w))
       ELSE worker' = [worker EXCEPT ![s].pc = "push"]
    /\ UNCHANGED <<now, row, user, history, pushed, repeated, failures>>

\* Hand the occurrence to the push service.  It may drop it (a muted channel,
\* quiet hours, no device), and does when the card was snoozed again.
Push(s) ==
    LET w == worker[s] IN
    /\ w.pc = "push"
    /\ \/ /\ w.job \in Digest \/ until[w.job] <= now
          /\ pushed' = pushed \cup {<<w.job, w.due>>}
          /\ repeated' = repeated \cup (pushed \cap {<<w.job, w.due>>})
       \/ UNCHANGED <<pushed, repeated>>
    /\ Finish(s, After(w))
    /\ UNCHANGED <<now, row, user, alerts, history, failures>>

Finished_AnyToken(s) ==
    LET w == worker[s] IN
    [row EXCEPT ![w.job] = IF w.next = 0 THEN NoRow ELSE Fresh(w.next)]

\* The schedules after the claim of s is finished: its schedule is deleted or
\* moved only if the claim is still in place.
Finished(s) ==
    LET w == worker[s] IN
    IF row[w.job] # NoRow /\ row[w.job].token = s
    THEN [row EXCEPT ![w.job] =
            IF w.next = 0 THEN NoRow ELSE Fresh(w.next)]
    ELSE row

\* A call that fails leaves the lease in place; the tick goes on.
FinishSchedule(s) ==
    LET w == worker[s] IN
    /\ w.pc = "finish"
    /\ \/ row' = Finished(s) /\ UNCHANGED failures
       \/ /\ failures < MaxFailures
          /\ failures' = failures + 1
          /\ UNCHANGED row
    /\ worker' = [worker EXCEPT ![s].pc = "claim", ![s].job = NoJob,
                                ![s].due = 0, ![s].next = 0]
    /\ UNCHANGED <<now, user, recorded>>

\* A later call of runSchedule fails, before or after it took effect: the schedule
\* is retried in a minute.
RunFails(s) ==
    LET w == worker[s] IN
    /\ failures < MaxFailures
    /\ w.pc \in {"record", "alert", "push"}
    /\ w.pc = "push" => w.job \in Digest
    /\ failures' = failures + 1
    /\ \/ UNCHANGED <<alerts, history>>
       \/ /\ w.pc = "record" /\ w.job \in Digest /\ visible[w.job]
          /\ history' = history \cup {<<w.job, w.due>>}
          /\ UNCHANGED alerts
       \/ /\ w.pc = "alert"
          /\ alerts' = alerts \cup {<<w.job, w.due>>}
          /\ UNCHANGED history
    /\ Finish(s, w.at + 1)
    /\ UNCHANGED <<now, row, user, pushed, repeated>>

\* The process dies, or ClaimSchedules fails and returns no claim at all.
Crash(s) ==
    /\ failures < MaxFailures
    /\ worker[s] # Idle
    /\ failures' = failures + 1
    /\ worker' = [worker EXCEPT ![s] = Idle]
    /\ UNCHANGED <<now, row, user, recorded>>

Work(s) ==
    \/ StartTick(s)
    \/ ClaimSchedules(s)
    \/ \E c \in worker[s].candidates : ClaimOne(s, c)
    \/ EndTick(s)
    \/ \E c \in worker[s].claimed : CheckAccess(s, c)
    \/ Record(s)
    \/ SaveAttentionAlert(s)
    \/ Push(s)
    \/ FinishSchedule(s)
    \/ RunFails(s)
    \/ Crash(s)

Next ==
    \/ Tick
    \/ \E j \in Job :
        \/ \E t \in 1 .. MaxTime + MaxSnooze : Snooze(j, t)
        \/ CancelSnooze(j)
        \/ \E on \in BOOLEAN : SaveDigest(j, on)
        \/ SetVisible(j)
        \/ DeleteSavedView(j)
    \/ \E s \in Server : Work(s)

Spec == Init /\ [][Next]_vars

-----------------------------------------------------------------------------
(* Properties *)

Running(s) == worker[s].pc \in {"record", "alert", "push", "finish"}

TickState ==
    [pc : {"idle", "start", "claim", "record", "alert", "push", "finish"}, at : Nat,
     candidates : SUBSET (Job \X Nat), claimed : SUBSET (Job \X Nat),
     job : Job \cup {NoJob}, due : Nat, next : Nat]

\* The types of the variables; a tick is at a place of workflowTick.
TypeOK ==
    /\ now \in Nat /\ failures \in Nat /\ edits \in Nat
    /\ row \in [Job -> Schedule \cup {NoRow}]
    /\ until \in [Job -> Nat]
    /\ visible \in [Job -> BOOLEAN]
    /\ alerts \subseteq Job \X Nat
    /\ history \subseteq Digest \X Nat
    /\ pushed \subseteq Job \X Nat
    /\ worker \in [Server -> TickState]
    /\ \A s \in Server : Running(s) => worker[s].job \in Job

\* Leases coordinate the servers: no two ticks run the same occurrence of a
\* schedule, because a tick is cut off before the leases of its claims end.
OneRunner ==
    \A s, t \in Server :
        s # t /\ Running(s) /\ Running(t) =>
            <<worker[s].job, worker[s].due>> # <<worker[t].job, worker[t].due>>

\* A snooze that is in force has the schedule that ends it: a worker that is
\* still busy with an earlier reminder of the card never deletes or moves it.
SnoozeWillEnd ==
    \A j \in Job \ Digest :
        until[j] > now => row[j] # NoRow /\ row[j].due = until[j]

\* An occurrence is pushed once, however often its schedule is claimed again
\* after time-outs and crashes.  It is on record, so a client that missed it
\* finds it: as an alert, and a digest in the history until its view is deleted.
PushedOnce ==
    /\ repeated = {}
    /\ pushed \subseteq alerts
    /\ \A p \in pushed : p[1] \in Digest /\ visible[p[1]] => p \in history

\* The digests of one period.
Of(j, d) == {h \in history : h[1] = j /\ h[2] \div Day = d}

\* A digest is repeated within its period only for a call that failed.
RepeatsNeedFailures ==
    \A j \in Digest, d \in 0 .. MaxTime :
        Cardinality(Of(j, d)) <= 1 + failures

=============================================================================
