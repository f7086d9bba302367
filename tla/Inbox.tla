------------------------------- MODULE Inbox -------------------------------
(***************************************************************************)
(* Notification cards from publication to the readers' inboxes: webhooks   *)
(* and their lifecycle keys, operators, incidents, read and dismissed      *)
(* state, and producer monitors (internal/store/store.go, monitors.go,     *)
(* incidents.go, internal/server/server.go, webhooks.go, workflow_api.go,  *)
(* workflows.go).                                                          *)
(*                                                                         *)
(* The webhooks publish to one channel whose readers are its members, or,  *)
(* if they are not locked to it, to a public one.  A webhook uses one      *)
(* lifecycle key and asks for one channel, so the card of that key is      *)
(* named by the webhook; what has no key gets a card of its own.           *)
(***************************************************************************)
EXTENDS Naturals, FiniteSets

CONSTANTS
    Request,    \* bound: the requests that arrive, numbers, each handled once
    Reader,     \* the users
    Hook,       \* webhooks, and the cards they publish (numbers, as ids are ordered)
    Loose,      \* bound: the cards published without a key
    Mon,        \* the card of the producer monitor
    Worker,     \* app nodes that run the workflow ticker
    Period,     \* period and grace of the monitor
    Scenarios   \* sets of requests that are made together, and their bounds

Card == Hook \cup Loose \cup {Mon}

ASSUME InboxAssumptions ==
    /\ Request \subseteq Nat /\ Card \subseteq Nat \ {0} /\ Mon \notin Hook \cup Loose
    /\ Hook \cap Loose = {}
    /\ Worker # {} /\ Period \in Nat
    /\ \A S \in Scenarios : \E w \in S : w.kind = "clock" /\ w.until \in Nat /\ w.requests \in Nat

None == [none |-> TRUE]

VARIABLES
    sqlite,   \* the back end; SQLite has one connection and one app node
    asked,    \* the requests of this behaviour: one of Scenarios
    now,      \* the clock, in milliseconds; many steps may share one
    hook,     \* webhooks: [locked, revoked], or None
    card,     \* notifications: [state, ch, created, updated, key, critical]
    role,     \* channel_memberships of the webhooks' channel
    mark,     \* notification_user_state: [read, unread, dismissed, since], or None
    chan,     \* channel_read_state: when a reader last read a channel
    mon,      \* the producer monitor: [is, last, state]
    worker,   \* the workflow ticker of a node: [pc, at, list]
    req,      \* req[r]: what request r asks for and how far it is
    occ,      \* history: occ[c], how often card c was reopened
    alarms    \* history: alerts of the monitor since it was last healthy or heard of

store == <<hook, card, role, mark, chan, mon>>
inboxVars == <<sqlite, asked, now, store, worker, req, occ, alarms>>

Channel == {"home", "open"}
Idle == [what |-> None, pc |-> "idle", old |-> None, at |-> 0]
Waiting == [pc |-> "idle", at |-> 0, list |-> None]
Asks(kind) == \E w \in asked : w.kind = kind

\* Bounds of this behaviour: its last moment and its number of requests.
Bound == CHOOSE w \in asked : w.kind = "clock"

InboxInit ==
    /\ sqlite \in BOOLEAN
    /\ asked \in Scenarios
    /\ now = 0
    /\ \E h \in Hook, l \in BOOLEAN :
         /\ l \/ Asks("lock") \/ Asks("duplicate")
         /\ \A w \in asked : w.kind \in {"lock", "duplicate", "revoke"} => w.hook = h
         /\ hook = [g \in Hook |-> IF g = h \/ ~ Asks("duplicate")
                                   THEN [locked |-> l, revoked |-> FALSE] ELSE None]
    /\ card = [c \in Card |-> None]
    /\ role = [u \in Reader |-> "operator"]
    /\ mark = [u \in Reader |-> [c \in Card |-> None]]
    /\ chan = [u \in Reader |-> [x \in Channel |-> 0]]
    /\ mon = [is |-> "no", last |-> 0, state |-> "healthy"]
    /\ worker = [w \in Worker |-> Waiting]
    /\ req = [r \in Request |-> Idle]
    /\ occ = [c \in Card |-> 0]
    /\ alarms = 0

\* Requests are numbered as they arrive.
Arrives(r) ==
    /\ req[r].pc = "idle" /\ r <= Bound.requests
    /\ \A q \in Request : q < r => req[q].pc # "idle"

\* A request of this kind arrives and goes to its first step.
Arrive(r, kind, pc) ==
    /\ Arrives(r)
    /\ \E w \in {v \in asked : v.kind = kind} :
         req' = [req EXCEPT ![r].what = w, ![r].pc = pc]

Goto(r, pc) == req' = [req EXCEPT ![r].pc = pc]

CanRead(u, c) == card[c] # None /\ (card[c].ch = "open" \/ role[u] # "none")

Larger(a, b) == IF a > b THEN a ELSE b

\* QueryNotifications, UnreadCount and ListChannels.
Unread(u, c) ==
    LET m == mark[u][c] IN
    \/ m # None /\ m.unread
    \/ card[c].updated > Larger(chan[u][card[c].ch], IF m = None THEN 0 ELSE m.read)

-----------------------------------------------------------------------------
(***************************************************************************)
(* Publication.                                                            *)
(***************************************************************************)
Rank(s) == CASE s = "received" -> 0 [] s = "firing" -> 1 [] s = "acknowledged" -> 2
             [] s = "resolved" -> 3

Reopens(old, s) == old # None /\ old.state = "resolved" /\ s = "firing"

Settled_Latest(old, s) == s

\* A late publication does not take a card back, but a resolved alert may
\* fire again.
Settled(old, s) ==
    IF old # None /\ ~ Reopens(old, s) /\ Rank(old.state) > Rank(s) THEN old.state ELSE s

\* What a payload says of the state, and whether it has a key: an Alertmanager
\* message is recognised by its title, a native card names both, a plain
\* message has neither.
AlertmanagerLifecycle(w) ==
    IF w.status = "" THEN [state |-> "received", keyed |-> FALSE]
    ELSE [state |-> w.status, keyed |-> TRUE]

NativeCardLifecycle(w) ==
    [state |-> IF w.status = "" THEN "received" ELSE w.status, keyed |-> w.lifecycle]

LifecycleOf(w) ==
    CASE w.form = "webhook" -> AlertmanagerLifecycle(w)
      [] w.form = "card" -> NativeCardLifecycle(w)
      [] w.form = "text" -> [state |-> "received", keyed |-> FALSE]

ChannelOf(w) == IF w.override /\ ~ hook[w.hook].locked THEN "open" ELSE "home"

Heard(x, w, at) == IF mon.is = "on" /\ x = "home" /\ w.monitored THEN [mon EXCEPT !.last = at] ELSE mon

Forgotten_Never(c) == mark

\* The read and dismissed state of every reader is deleted.
Forgotten(c) == [u \in Reader |-> [mark[u] EXCEPT ![c] = None]]

Unused == {c \in Loose : card[c] = None}

CardOf(w) == IF LifecycleOf(w).keyed THEN w.hook ELSE CHOOSE c \in Unused : \A d \in Unused : c <= d

\* CreateFromWebhook writes, given the row it found before.  A new row that
\* exists by now is refused.
Store(r, w, old, x, at) ==
    LET c == CardOf(w)
        s == LifecycleOf(w).state
        when == IF old # None /\ at <= old.created THEN old.created + 1 ELSE at
    IN IF old = None /\ card[c] # None
       THEN /\ req' = [req EXCEPT ![r].what = w, ![r].pc = "refused"]
            /\ UNCHANGED <<store, occ, alarms>>
       ELSE /\ req' = [req EXCEPT ![r].what = w, ![r].pc = "done"]
            /\ card' = [card EXCEPT ![c] = [state |-> Settled(old, s), ch |-> x,
                   created |-> IF old = None THEN when ELSE old.created, updated |-> when,
                   key |-> w.key, critical |-> w.critical]]
            /\ mark' = IF Reopens(old, s) THEN Forgotten(c) ELSE mark
            /\ occ' = IF Reopens(old, s) THEN [occ EXCEPT ![c] = @ + 1] ELSE occ
            /\ mon' = Heard(x, w, when)
            /\ alarms' = IF Heard(x, w, when) = mon THEN alarms ELSE 0
            /\ UNCHANGED <<hook, role, chan>>

\* PostgreSQL runs other transactions between the lookup and the writes.
Receive(r, form) ==
    /\ Arrives(r)
    /\ \E w \in {v \in asked : v.kind = "hook"} :
       LET old == IF LifecycleOf(w).keyed THEN card[w.hook] ELSE None
       IN  /\ w.form = form
           /\ LifecycleOf(w).keyed \/ Unused # {}
           /\ CASE hook[w.hook] = None ->
                     /\ req' = [req EXCEPT ![r].what = w, ![r].pc = "refused"]
                     /\ UNCHANGED <<store, occ, alarms>>
                [] hook[w.hook] # None /\ hook[w.hook].revoked ->
                     /\ req' = [req EXCEPT ![r].what = w, ![r].pc = "refused"]
                     /\ UNCHANGED <<store, occ, alarms>>
                [] OTHER ->
                     IF sqlite THEN Store(r, w, old, ChannelOf(w), now)
                     ELSE /\ req' = [req EXCEPT ![r] = [pc |-> "store", old |-> old, at |-> now,
                               what |-> [w EXCEPT !.override = ChannelOf(w) = "open"]]]
                          /\ UNCHANGED <<store, occ, alarms>>
    /\ UNCHANGED <<sqlite, asked, now, worker>>

ReceiveWebhook(r) == Receive(r, "webhook")

ReceiveNativeCard(r) == Receive(r, "card")

ReceiveSimpleMessage(r) == Receive(r, "text")

ReceiveStores(r) ==
    /\ req[r].pc = "store"
    /\ LifecycleOf(req[r].what).keyed \/ Unused # {}
    /\ Store(r, req[r].what, req[r].old, IF req[r].what.override THEN "open" ELSE "home", req[r].at)
    /\ UNCHANGED <<sqlite, asked, now, worker>>

\* The row of a playground card.  No monitor hears of it.
CreatePlaygroundNotification(s) ==
    [state |-> s, ch |-> "home", created |-> now, updated |-> now, key |-> "",
     critical |-> FALSE]

\* The administrator's playground publishes to the channel, always as a new
\* card, whatever key the payload has.
Playground(r) ==
    /\ Arrive(r, "playground", "done")
    /\ Unused # {}
    /\ LET c == CHOOSE d \in Unused : \A f \in Unused : d <= f
       IN  card' = [card EXCEPT ![c] = CreatePlaygroundNotification(req'[r].what.state)]
    /\ UNCHANGED <<sqlite, asked, now, hook, role, mark, chan, mon, worker, occ, alarms>>

-----------------------------------------------------------------------------
(***************************************************************************)
(* Webhooks and members, by an administrator.                              *)
(***************************************************************************)
\* The webhooks after the operation of each name; a revoked one is not found.
SetWebhookChannelLocked(h, l) ==
    {IF hook[h].revoked THEN hook ELSE [hook EXCEPT ![h].locked = l]}

RevokeWebhook(h) == {[hook EXCEPT ![h].revoked = TRUE]}

DuplicateWebhook(h) ==
    IF hook[h].revoked THEN {hook}
    ELSE {[hook EXCEPT ![g] = hook[h]] : g \in {f \in Hook : hook[f] = None}}

CreateWebhook(l) ==
    {[hook EXCEPT ![g] = [locked |-> l, revoked |-> FALSE]] : g \in {f \in Hook : hook[f] = None}}

Webhooks(r, kind, After(_)) ==
    /\ Arrive(r, kind, "done")
    /\ hook' \in After(req'[r].what)
    /\ UNCHANGED <<sqlite, asked, now, card, role, mark, chan, mon, worker, occ, alarms>>

CreateHook(r) == Webhooks(r, "create", LAMBDA w : CreateWebhook(w.locked))

UpdateHook(r) == Webhooks(r, "lock", LAMBDA w : SetWebhookChannelLocked(w.hook, w.locked))

RevokeHook(r) == Webhooks(r, "revoke", LAMBDA w : RevokeWebhook(w.hook))

DuplicateHook(r) == Webhooks(r, "duplicate", LAMBDA w : DuplicateWebhook(w.hook))

\* SetChannelMemberByID, and RemoveChannelMember for the role "none".
SetChannelMember(u, rl) == [role EXCEPT ![u] = rl]

UpdateMembership(r) ==
    /\ Arrive(r, "member", "done")
    /\ role' = SetChannelMember(req'[r].what.user, req'[r].what.role)
    /\ UNCHANGED <<sqlite, asked, now, hook, card, mark, chan, mon, worker, occ, alarms>>

-----------------------------------------------------------------------------
(***************************************************************************)
(* Operators.                                                              *)
(***************************************************************************)
Operates(u, old) == old # None /\ old.ch = "home" /\ role[u] = "operator"

ValidTransition(from, to) ==
    \/ from \in {"received", "firing"} /\ to \in {"acknowledged", "resolved"}
    \/ from = "acknowledged" /\ to = "resolved"

Operated(w, old) ==
    card' = [card EXCEPT ![w.card].state = w.to,
                         ![w.card].updated = IF now <= old.updated THEN old.updated + 1 ELSE now]

SetNotificationState(r) ==
    /\ Arrives(r)
    /\ \E w \in {v \in asked : v.kind = "state"} :
       LET old == card[w.card]
           ok == Operates(w.by, old) /\ ValidTransition(old.state, w.to)
       IN  /\ req' = [req EXCEPT ![r].what = w, ![r].old = IF ok /\ ~ sqlite THEN old ELSE None,
                                 ![r].pc = IF ok /\ ~ sqlite THEN "operate" ELSE "done"]
           /\ IF ok /\ sqlite THEN Operated(w, old) ELSE card' = card
    /\ UNCHANGED <<sqlite, asked, now, hook, role, mark, chan, mon, worker, occ, alarms>>

\* PostgreSQL: the UPDATE, whatever the card has become.
StateWrites(r) ==
    /\ req[r].pc = "operate"
    /\ Operated(req[r].what, req[r].old)
    /\ Goto(r, "done")
    /\ UNCHANGED <<sqlite, asked, now, hook, role, mark, chan, mon, worker, occ, alarms>>

\* RequireChannelOperator comes before the transaction.
AcknowledgeIncident(r) ==
    /\ Arrive(r, "ack", "group")
    /\ role[req'[r].what.by] = "operator"
    /\ UNCHANGED <<sqlite, asked, now, store, worker, occ, alarms>>

\* The cards of an incident that wait for someone.
Group(k) == {c \in Card : card[c] # None /\ card[c].key = k /\ card[c].ch = "home"
                        /\ card[c].state \in {"received", "firing"}}

AcknowledgeGroup(r) ==
    /\ req[r].pc = "group"
    /\ LET G == Group(req[r].what.key) IN
       card' = [c \in Card |-> IF c \in G
                   THEN [card[c] EXCEPT !.state = "acknowledged", !.updated = now]
                   ELSE card[c]]
    /\ Goto(r, "done")
    /\ UNCHANGED <<sqlite, asked, now, hook, role, mark, chan, mon, worker, occ, alarms>>

-----------------------------------------------------------------------------
(***************************************************************************)
(* The inbox of a reader.                                                  *)
(***************************************************************************)
\* updateNotificationInbox: access is checked before the row is written.
UpdateInbox(r) ==
    /\ Arrive(r, "inbox", "mark")
    /\ CanRead(req'[r].what.by, req'[r].what.card)
    /\ UNCHANGED <<sqlite, asked, now, store, worker, occ, alarms>>

\* since: the occurrence of the card that the row is about (a history).
Marked(m, a, c) ==
    LET row == IF m = None THEN [read |-> 0, unread |-> FALSE, dismissed |-> FALSE, since |-> 0] ELSE m
        new == CASE a = "read" -> [row EXCEPT !.read = Larger(@, now), !.unread = FALSE]
                 [] a = "unread" -> [row EXCEPT !.unread = TRUE]
                 [] a = "dismiss" -> [row EXCEPT !.read = Larger(@, now), !.unread = FALSE,
                                                 !.dismissed = TRUE]
                 [] a = "restore" -> [row EXCEPT !.dismissed = FALSE]
    IN  IF m = None THEN [new EXCEPT !.since = occ[c]] ELSE new

SetNotificationInboxState(r) ==
    /\ req[r].pc = "mark"
    /\ LET w == req[r].what IN
       mark' = [mark EXCEPT ![w.by][w.card] = Marked(@, w.action, w.card)]
    /\ Goto(r, "done")
    /\ UNCHANGED <<sqlite, asked, now, hook, card, role, chan, mon, worker, occ, alarms>>

Latest_Now(x) == now

\* Never before the last change of a card of the channel.
Latest(x) ==
    LET T == {now} \cup {card[c].updated : c \in {d \in Card : card[d] # None /\ card[d].ch = x}}
    IN  CHOOSE t \in T : \A s \in T : s <= t

Cleared(u, X) ==
    [mark EXCEPT ![u] = [c \in Card |->
        IF mark[u][c] # None /\ card[c].ch \in X
        THEN [mark[u][c] EXCEPT !.unread = FALSE] ELSE mark[u][c]]]

\* MarkAllRead covers every channel, MarkChannelRead one the reader may read.
MarkRead(r) ==
    /\ Arrive(r, "readall", "done")
    /\ LET u == req'[r].what.by
           X == {x \in req'[r].what.channels :
                    req'[r].what.channels = Channel \/ x = "open" \/ role[u] # "none"}
       IN /\ chan' = [chan EXCEPT ![u] = [x \in Channel |->
                         IF x \in X THEN Larger(chan[u][x], Latest(x)) ELSE chan[u][x]]]
          /\ mark' = Cleared(u, X)
    /\ UNCHANGED <<sqlite, asked, now, hook, card, role, mon, worker, occ, alarms>>

-----------------------------------------------------------------------------
(***************************************************************************)
(* Producer monitors.                                                      *)
(***************************************************************************)
\* A new monitor counts as heard of.
NewMonitor == [is |-> "on", last |-> now, state |-> "healthy"]

SaveMonitor(r) ==
    /\ Arrive(r, "monitor", "done")
    /\ mon.is = "no"
    /\ mon' = NewMonitor
    /\ UNCHANGED <<sqlite, asked, now, hook, card, role, mark, chan, worker, occ, alarms>>

\* Its card remains.
DeleteMonitor(r) ==
    /\ Arrive(r, "unmonitor", "done")
    /\ mon' = [mon EXCEPT !.is = "off"]
    /\ mon.is = "on"
    /\ UNCHANGED <<sqlite, asked, now, hook, card, role, mark, chan, worker, occ, alarms>>

Running == IF sqlite THEN {CHOOSE w \in Worker : TRUE} ELSE Worker

\* The ticker fires; the tick keeps the time it began.
StartTick(w) ==
    /\ worker[w].pc = "idle" /\ w \in Running
    /\ mon.is # "no"
    /\ worker' = [worker EXCEPT ![w].pc = "list", ![w].at = now]
    /\ UNCHANGED <<sqlite, asked, now, store, req, occ, alarms>>

StateAt(at, m) == IF at > m.last + Period THEN "missing" ELSE "healthy"

CheckMonitors_Once(w) ==
    /\ worker[w].pc = "list"
    /\ worker' = [worker EXCEPT ![w] =
           IF mon.is = "on" /\ StateAt(worker[w].at, mon) # mon.state
           THEN [pc |-> "move", at |-> worker[w].at, list |-> mon]
           ELSE worker[w]]
    /\ UNCHANGED <<sqlite, asked, now, store, req, occ, alarms>>

CheckMonitors(w) ==
    /\ worker[w].pc = "list"
    /\ worker' = [worker EXCEPT ![w] =
           IF mon.is = "on" /\ StateAt(worker[w].at, mon) # mon.state
           THEN [pc |-> "move", at |-> worker[w].at, list |-> mon] ELSE Waiting]
    /\ UNCHANGED <<sqlite, asked, now, store, req, occ, alarms>>

Unchanged_Last(m) == mon.is = "on" /\ mon.last = m.last

\* The compare-and-swap on the state and the last publication.
Unchanged(m) == mon.is = "on" /\ mon.state = m.state /\ mon.last = m.last

Lifecycle(state) == IF state = "missing" THEN "firing" ELSE "resolved"

\* One transaction: the monitor, its card and the readers' state.
TransitionMonitor(w) ==
    /\ worker[w].pc = "move"
    /\ worker' = [worker EXCEPT ![w] = Waiting]
    /\ LET at == worker[w].at
           state == StateAt(at, worker[w].list)
           old == card[Mon]
       IN IF Unchanged(worker[w].list)
          THEN /\ mon' = [mon EXCEPT !.state = state]
               /\ card' = [card EXCEPT ![Mon] =
                    [state |-> Lifecycle(state), ch |-> "home",
                     created |-> IF old = None THEN at ELSE old.created, updated |-> at,
                     key |-> "", critical |-> FALSE]]
               /\ mark' = IF state = "missing" THEN Forgotten(Mon) ELSE mark
               /\ occ' = IF state = "missing" THEN [occ EXCEPT ![Mon] = @ + 1] ELSE occ
               /\ alarms' = IF state = "missing" THEN alarms + 1 ELSE 0
          ELSE UNCHANGED <<mon, card, mark, occ, alarms>>
    /\ UNCHANGED <<sqlite, asked, now, hook, role, chan, req>>

-----------------------------------------------------------------------------
Pass ==
    /\ now < Bound.until
    /\ now' = now + 1
    /\ UNCHANGED <<sqlite, asked, store, worker, req, occ, alarms>>

-----------------------------------------------------------------------------
(***************************************************************************)
(* What the inbox promises.                                                *)
(***************************************************************************)

\* With the SQLite back end a card never goes back in its lifecycle, whatever
\* mix of late publications, operators and monitor transitions touches it: it
\* only fires again once it was resolved (CreateFromWebhook,
\* SetNotificationState, transitionMonitor).
StateAdvances ==
    [][sqlite => \A c \in Card : card[c] # None =>
          \/ Rank(card'[c].state) >= Rank(card[c].state)
          \/ card[c].state = "resolved" /\ card'[c].state = "firing"]_card

\* A recurring incident is new work for every reader: no read or dismissed
\* state outlives the reopening of its card (store.go, CreateFromWebhook, and
\* transitionMonitor).
NewWorkForEveryone ==
    sqlite => \A u \in Reader, c \in Card : mark[u][c] # None => mark[u][c].since = occ[c]

\* When a reader marks everything read nothing stays unread, also cards whose
\* change was stamped later than the clock (MarkAllRead, MarkChannelRead).
ReadAllReadsAll ==
    [][\A r \in Request, u \in Reader, c \in Card :
          (req[r].pc = "idle" /\ req'[r].pc = "done" /\ card[c] # None
             /\ req'[r].what = [kind |-> "readall", by |-> u, channels |-> Channel])
          => ~ Unread(u, c)']_inboxVars

\* An alert of a monitor is raised only if its source really was silent for
\* longer than its period, also when a publication arrives during the tick, and
\* once per silence however many nodes run the ticker: a second one needs the
\* monitor to have been healthy in between (CheckMonitors: concurrent nodes
\* cannot duplicate an alert or lose a heartbeat).
AlarmsAreTrue ==
    [][alarms' > alarms => alarms = 0 /\ mon'.last = mon.last /\ now > mon.last + Period]_inboxVars

\* A source that stays silent past its deadline is reported: the ticker of
\* some node runs again and again (runWorkflows).
SilenceIsReported ==
    (mon.is = "on" /\ mon.state = "healthy" /\ now > mon.last + Period)
        ~> (mon.is = "off" \/ mon.state = "missing" \/ now <= mon.last + Period)

=============================================================================
