-------------------------- MODULE MCNotifications --------------------------
(***************************************************************************)
(* Two readers, two webhooks, a monitor, two app nodes and two devices,    *)
(* and four requests out of one of the mixes below.                        *)
(***************************************************************************)
EXTENDS Notifications, TLC

CONSTANTS ann, bob, phone, tablet, w1, w2

Clock(t, n) == [kind |-> "clock", until |-> t, requests |-> n]
Desktop == [kind |-> "desktop"]
Device(w, x) == [kind |-> "device", user |-> w, ep |-> x, key |-> x]

Plain(h, s) == [kind |-> "hook", form |-> "webhook", hook |-> h, status |-> s, lifecycle |-> FALSE,
                override |-> FALSE, critical |-> FALSE, key |-> "", monitored |-> FALSE]
Override(h) == [Plain(h, "firing") EXCEPT !.override = TRUE]
Incident(h, s) == [Plain(h, s) EXCEPT !.key = "k", !.form = "card", !.lifecycle = TRUE]
Heartbeat(h) == [Plain(h, "firing") EXCEPT !.monitored = TRUE]
Critical(h) == [Plain(h, "firing") EXCEPT !.critical = TRUE, !.form = "card", !.lifecycle = TRUE]
Text(h) == [Plain(h, "") EXCEPT !.form = "text"]
Webhook(op, h) == [kind |-> op, hook |-> h]
Lock(h, l) == [kind |-> "lock", hook |-> h, locked |-> l]

Operate(c, s) == [kind |-> "state", by |-> bob, card |-> c, to |-> s]
Acknowledge == [kind |-> "ack", by |-> bob, key |-> "k"]
Mark(c, a) == [kind |-> "inbox", by |-> ann, card |-> c, action |-> a]
ReadAll(X) == [kind |-> "readall", by |-> ann, channels |-> X]
Member(w, x) == [kind |-> "member", user |-> w, role |-> x]
Monitor(op) == [kind |-> op]

SetLevel(w, x) == [kind |-> "level", user |-> w, level |-> x]
SetHush(w, x) == [kind |-> "hush", user |-> w, hush |-> x]
SetSnooze(c, y) == [kind |-> "snooze", user |-> ann, card |-> c, on |-> y]
Subscription(op, w, x, k) == [kind |-> op, user |-> w, ep |-> x, key |-> k]
Disable(w, y) == [kind |-> "disable", user |-> w, on |-> y]
Message(w) == [kind |-> "message", by |-> w]

MCScenarios == {
    \* one card, its operators and one reader's inbox
    {Clock(1, 4), Plain(1, "firing"), Operate(1, "acknowledged"), Operate(1, "resolved"),
     Mark(1, "dismiss"), ReadAll(Channel)},
    \* webhooks and their channels
    {Clock(0, 4), Override(1), Override(2), Lock(1, TRUE), Lock(1, FALSE), Webhook("duplicate", 1),
     Webhook("revoke", 1), [kind |-> "create", locked |-> TRUE]},
    {Clock(1, 3), Text(1), Plain(1, ""), [kind |-> "playground", state |-> "firing"], Mark(4, "read"),
     Mark(4, "unread"), Mark(4, "restore"), Member(ann, "none"), ReadAll({"home"})},
    \* an incident of two cards
    {Clock(0, 4), Incident(1, ""), Incident(2, "firing"), Acknowledge,
     Incident(1, "resolved"), Member(bob, "viewer")},
    \* a monitor
    {Clock(2, 3), Monitor("monitor"), Heartbeat(1), Operate(3, "acknowledged")},
    {Clock(4, 2), Monitor("monitor"), Heartbeat(1)},
    {Clock(2, 3), Monitor("monitor"), Monitor("unmonitor"), Mark(3, "dismiss"),
     Operate(3, "resolved")},
    \* the desktop client
    {Clock(1, 3), Desktop, Plain(1, "firing"), Plain(2, "firing"), Mark(1, "dismiss"),
     Member(ann, "none"), Member(ann, "viewer"), [kind |-> "signout"]},
    {Clock(1, 3), Desktop, Plain(1, "firing"), SetLevel(ann, "critical"), Critical(2),
     SetSnooze(1, TRUE), SetSnooze(1, FALSE)},
    \* the desktop client and a monitor
    {Clock(2, 2), Desktop, Monitor("monitor"), SetLevel(ann, "muted"), Member(ann, "none")},
    \* deliveries of a card
    {Clock(0, 2), Device(ann, phone), Device(ann, tablet), Plain(1, "firing"), Member(ann, "none")},
    {Clock(0, 2), Device(ann, phone), Plain(1, "firing"), Disable(ann, TRUE),
     Subscription("subscribe", bob, phone, phone), Subscription("unsubscribe", ann, phone, phone)},
    {Clock(0, 3), Device(ann, phone), Disable(ann, TRUE), Disable(ann, FALSE), Subscription("subscribe", bob, phone, phone),
     Subscription("subscribe", bob, phone, tablet), [kind |-> "test", user |-> ann, ep |-> phone]},
    \* deliveries of a message
    {Clock(0, 2), Device(ann, phone), Device(bob, tablet), Message(bob), SetLevel(ann, "critical"),
     SetHush(ann, "bypass"), Critical(1)},
    \* deliveries of a monitor
    {Clock(2, 2), Device(ann, phone), Monitor("monitor"), SetHush(ann, "quiet")}}
=============================================================================
