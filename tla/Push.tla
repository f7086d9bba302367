-------------------------------- MODULE Push --------------------------------
(***************************************************************************)
(* Web push: the subscriptions of the readers' devices and the deliveries  *)
(* of cards and messages to them (internal/server/push.go, internal/       *)
(* store/delivery.go and store.go).  A delivery runs beside the requests,  *)
(* for each reader on its own, and ends after 30 seconds at the latest.    *)
(***************************************************************************)
EXTENDS Attention, Sequences

CONSTANTS
    Endpoint,     \* push endpoints of devices
    MaxPublished, \* bound: publications that are delivered
    MaxAttempts   \* attempts to send to one endpoint: 3

ASSUME PushAssumptions == MaxPublished \in Nat /\ MaxAttempts \in Nat \ {0}

VARIABLES
    sub,       \* push_subscriptions: [user, key], or None
    off,       \* the disabled users
    job,       \* job[<<p, u>>]: the delivery of publication p to reader u
    late,      \* the publications whose 30 seconds are over
    receipts,  \* delivery_events with a provider's outcome, by job and endpoint
    sends,     \* history: what the provider was sent, by job and endpoint
    blind      \* history: sends of a job since u was last seen to be entitled

pushVars == <<sub, off, job, late, receipts, sends, blind>>

Job == (1..MaxPublished) \X Reader
NoJob == [pc |-> "none", kind |-> "card", from |-> None, card |-> Mon, ch |-> "home",
          critical |-> FALSE, todo |-> {}, ep |-> None, n |-> 0, out |-> "none"]
Over(j) == [NoJob EXCEPT !.pc = "done", !.kind = job[j].kind]
Finished(j) == job[j].pc \in {"none", "done"}
None3 == [j \in Job |-> [e \in Endpoint |-> <<>>]]

\* A scenario has push if it names the devices at its start.
Configured == Asks("device")

PushInit ==
    /\ sub = [e \in Endpoint |->
                IF \E w \in asked : w.kind = "device" /\ w.ep = e
                THEN LET w == CHOOSE w \in asked : w.kind = "device" /\ w.ep = e
                     IN  [user |-> w.user, key |-> w.key]
                ELSE None]
    /\ off = {}
    /\ job = [j \in Job |-> NoJob]
    /\ late = {}
    /\ receipts = None3
    /\ sends = None3
    /\ blind = [j \in Job |-> 0]

-----------------------------------------------------------------------------
(***************************************************************************)
(* Subscriptions and accounts.                                             *)
(***************************************************************************)
\* An endpoint passes to another user only with the keys of the device.
Subscribed(u, e, k) ==
    IF sub[e] # None /\ ~ (sub[e].user = u \/ sub[e].key = k) THEN sub
    ELSE [sub EXCEPT ![e] = [user |-> u, key |-> k]]

SavePushSubscription(r) ==
    /\ Arrive(r, "subscribe", "done")
    /\ LET w == req'[r].what IN sub' = Subscribed(w.user, w.ep, w.key)
    /\ UNCHANGED <<sqlite, asked, now, store, worker, occ, alarms, attentionVars, off, job, late,
                   receipts, sends, blind>>

Removed_Any(u, e) == [sub EXCEPT ![e] = None]

\* RemoveUserPushSubscription.
Removed(u, e) == IF sub[e] # None /\ sub[e].user = u THEN [sub EXCEPT ![e] = None] ELSE sub

RemovePushSubscription(r) ==
    /\ Arrive(r, "unsubscribe", "done")
    /\ sub' = Removed(req'[r].what.user, req'[r].what.ep)
    /\ UNCHANGED <<sqlite, asked, now, store, worker, occ, alarms, attentionVars, off, job, late,
                   receipts, sends, blind>>

\* The account is disabled or enabled by an administrator.
SetDisabled(r) ==
    /\ Arrive(r, "disable", "done")
    /\ off' = IF req'[r].what.on THEN off \cup {req'[r].what.user} ELSE off \ {req'[r].what.user}
    /\ UNCHANGED <<sqlite, asked, now, store, worker, occ, alarms, attentionVars, sub, job, late,
                   receipts, sends, blind>>

Owns(u, e) == sub[e] # None /\ sub[e].user = u /\ u \notin off

\* testPush: one send without policy, retry or receipt.
TestPush(r) ==
    /\ Arrive(r, "test", "testing")
    /\ Owns(req'[r].what.user, req'[r].what.ep)
    /\ UNCHANGED <<sqlite, asked, now, store, worker, occ, alarms, attentionVars, pushVars>>

TestAnswered(r) ==
    /\ req[r].pc = "testing"
    /\ \E expired \in BOOLEAN : Goto(r, IF expired THEN "drop" ELSE "done")
    /\ UNCHANGED <<sqlite, asked, now, store, worker, occ, alarms, attentionVars, pushVars>>

TestDrops(r) ==
    /\ req[r].pc = "drop"
    /\ sub' = Removed(req[r].what.user, req[r].what.ep)
    /\ Goto(r, "done")
    /\ UNCHANGED <<sqlite, asked, now, store, worker, occ, alarms, attentionVars, off, job, late,
                   receipts, sends, blind>>

PushRequest(r) ==
    \/ SavePushSubscription(r) \/ RemovePushSubscription(r) \/ SetDisabled(r)
    \/ TestPush(r) \/ TestAnswered(r) \/ TestDrops(r)

-----------------------------------------------------------------------------
(***************************************************************************)
(* Deliveries.                                                             *)
(***************************************************************************)
\* A delivery is started for card c as it was published, or for a message.
Deliver(kind, from, c, row) ==
    LET P == {p \in 1..MaxPublished : \A u \in Reader : job[<<p, u>>].pc = "none"}
        p == CHOOSE q \in P : \A o \in P : q <= o
    IN IF ~ Configured THEN UNCHANGED pushVars
       ELSE /\ P # {}
            /\ job' = [j \in Job |-> IF j[1] # p THEN job[j]
                  ELSE [NoJob EXCEPT !.pc = "start", !.kind = kind, !.from = from, !.card = c,
                                     !.ch = row.ch, !.critical = row.critical]]
            /\ UNCHANGED <<sub, off, late, receipts, sends, blind>>

\* timeline.go: a message is posted to the webhooks' channel.
PostMessage(r) ==
    /\ Arrive(r, "message", "done")
    /\ Deliver("message", req'[r].what.by, Mon, [ch |-> "home", critical |-> FALSE])
    /\ UNCHANGED <<sqlite, asked, now, store, worker, occ, alarms, attentionVars>>

Devices(u) == {e \in Endpoint : sub[e] # None /\ sub[e].user = u}

\* ListPushSubscriptionsForChannelMessage and ...ForCommandResponse.
Messaged(u, j) == u # job[j].from /\ Level(u, "home") = "all" /\ MayRead(u, "home")

\* Policy is applied to the card as published.
Eligible(u, j) ==
    /\ u \notin off
    /\ DeliveryReason(u, job[j].card, job[j].ch, job[j].critical) = "eligible"

Addressed(j, kinds, to) ==
    /\ job[j].pc = "start" /\ j[1] \notin late
    /\ job[j].kind \in kinds
    /\ job' = IF to THEN [job EXCEPT ![j].pc = "pick", ![j].todo = Devices(j[2])]
              ELSE [job EXCEPT ![j] = Over(j)]
    /\ UNCHANGED <<inboxVars, attentionVars, sub, off, late, receipts, sends, blind>>

DeliverToUser(j) == Addressed(j, {"card"}, Eligible(j[2], j))

\* deliverMessage and deliverCommandResponse.
DeliverMessage(j) == Addressed(j, {"message"}, Messaged(j[2], j))

\* The devices one after the other.  (The devices a message goes to are served
\* by workers side by side, which share nothing.)
PickDevice(j) ==
    /\ job[j].pc = "pick" /\ j[1] \notin late
    /\ IF job[j].todo = {} THEN job' = [job EXCEPT ![j] = Over(j)]
       ELSE \E e \in job[j].todo :
              job' = [job EXCEPT ![j].pc = "check", ![j].ep = e, ![j].todo = @ \ {e}, ![j].n = 1]
    /\ UNCHANGED <<inboxVars, attentionVars, sub, off, late, receipts, sends, blind>>

\* What u is entitled to now.
Entitled(j) ==
    LET u == j[2] IN
    /\ Owns(u, job[j].ep)
    /\ IF job[j].kind = "card"
       THEN LET c == job[j].card IN
            CanRead(u, c) /\ DeliveryReason(u, c, card[c].ch, card[c].critical) = "eligible"
       ELSE ~ Quiet(u, FALSE) /\ Messaged(u, j)

Recheck_First(j) ==
    /\ job[j].pc = "check" /\ j[1] \notin late
    /\ job' = [job EXCEPT ![j].pc = IF Entitled(j) \/ job[j].n > 1 THEN "send" ELSE "pick"]
    /\ blind' = [blind EXCEPT ![j] = IF Entitled(j) THEN 0 ELSE @]
    /\ UNCHANGED <<inboxVars, attentionVars, sub, off, late, receipts, sends>>

\* sendRecorded rechecks before every attempt.
Recheck(j) ==
    /\ job[j].pc = "check" /\ j[1] \notin late
    /\ job' = [job EXCEPT ![j].pc = IF Entitled(j) THEN "send" ELSE "pick"]
    /\ blind' = [blind EXCEPT ![j] = IF Entitled(j) THEN 0 ELSE @]
    /\ UNCHANGED <<inboxVars, attentionVars, sub, off, late, receipts, sends>>

Outcome == {"provider_accepted", "provider_rejected", "retryable", "subscription_expired"}

\* The provider answers, or cannot be reached ("retryable").
Send(j) ==
    /\ job[j].pc = "send" /\ j[1] \notin late
    /\ \E o \in Outcome :
         /\ job' = [job EXCEPT ![j].pc = "record", ![j].out = o]
         /\ sends' = [sends EXCEPT ![j][job[j].ep] = Append(@, o)]
    /\ blind' = [blind EXCEPT ![j] = IF Entitled(j) THEN 0 ELSE @ + 1]
    /\ UNCHANGED <<inboxVars, attentionVars, sub, off, late, receipts>>

NextAttempt(o, n) == o = "retryable" /\ n < MaxAttempts

Recorded_Last(j) ==
    IF job[j].kind = "card" /\ ~ NextAttempt(job[j].out, job[j].n)
    THEN [receipts EXCEPT ![j][job[j].ep] = Append(@, job[j].out)] ELSE receipts

Recorded(j) ==
    IF job[j].kind = "card" THEN [receipts EXCEPT ![j][job[j].ep] = Append(@, job[j].out)]
    ELSE receipts

\* The receipt, then what the outcome asks for.
RecordDelivery(j) ==
    /\ job[j].pc = "record" /\ j[1] \notin late
    /\ receipts' = Recorded(j)
    /\ job' = [job EXCEPT
         ![j].pc = CASE job[j].out = "subscription_expired" -> "remove"
                     [] NextAttempt(job[j].out, job[j].n) -> "check"
                     [] OTHER -> "pick",
         ![j].n = IF NextAttempt(job[j].out, job[j].n) THEN @ + 1 ELSE @]
    /\ UNCHANGED <<inboxVars, attentionVars, sub, off, late, sends, blind>>

RemoveExpired(j) ==
    /\ job[j].pc = "remove" /\ j[1] \notin late
    /\ sub' = Removed(j[2], job[j].ep)
    /\ job' = [job EXCEPT ![j].pc = "pick"]
    /\ UNCHANGED <<inboxVars, attentionVars, off, late, receipts, sends, blind>>

\* The deadline of the delivery: what is not done yet fails.
Deadline(p) ==
    /\ p \notin late
    /\ \E u \in Reader : ~ Finished(<<p, u>>)
    /\ late' = late \cup {p}
    /\ UNCHANGED <<inboxVars, attentionVars, sub, off, job, receipts, sends, blind>>

GiveUp(j) ==
    /\ j[1] \in late /\ ~ Finished(j)
    /\ job' = [job EXCEPT ![j] = Over(j)]
    /\ UNCHANGED <<inboxVars, attentionVars, sub, off, late, receipts, sends, blind>>

JobStep(j) ==
    \/ DeliverToUser(j) \/ DeliverMessage(j) \/ PickDevice(j) \/ Recheck(j) \/ Send(j) \/ RecordDelivery(j)
    \/ RemoveExpired(j) \/ GiveUp(j)

PushStep == (\E j \in Job : JobStep(j)) \/ (\E p \in 1..MaxPublished : Deadline(p))

-----------------------------------------------------------------------------
\* A device is sent a publication again only after an answer that allows it, at
\* most three times in all; and when its reader loses the channel, the device,
\* the account or the wish to be alerted, at most the attempt that was already
\* checked still goes out (sendRecorded rechecks before every attempt).
RetriesJustified ==
    /\ \A j \in Job : blind[j] <= 1
    /\ \A j \in Job, e \in Endpoint :
         /\ Len(sends[j][e]) <= MaxAttempts
         /\ \A i \in 1..Len(sends[j][e]) : sends[j][e][i] # "retryable" => i = Len(sends[j][e])

\* The delivery history shows every attempt of a card's delivery that ended
\* before its deadline, and never one that was not made (recordDelivery).
ReceiptsAreTrue ==
    \A j \in Job, e \in Endpoint : job[j].kind = "card" =>
        /\ Len(receipts[j][e]) <= Len(sends[j][e])
        /\ \A i \in 1..Len(receipts[j][e]) : receipts[j][e][i] = sends[j][e][i]
        /\ job[j].pc = "done" /\ j[1] \notin late => receipts[j][e] = sends[j][e]

\* A subscription goes only through a step of its owner, and changes hands
\* only with the keys of the device, although it may change hands while an
\* expired attempt to it is being handled (RemoveUserPushSubscription,
\* SavePushSubscription).
SubscriptionIsTheOwners ==
    [][\A e \in Endpoint : sub[e] # None =>
          IF sub'[e] = None
          THEN \/ \E j \in Job : job'[j] # job[j] /\ j[2] = sub[e].user
               \/ \E r \in Request : req'[r] # req[r] /\ req'[r].what.user = sub[e].user
          ELSE sub'[e].user # sub[e].user => sub'[e].key = sub[e].key]_sub

=============================================================================
