--------------------------- MODULE Notifications ---------------------------
(***************************************************************************)
(* From a webhook to the readers: the inbox, the desktop feed and web push *)
(* together.  Every publication, by a webhook or by a monitor, starts a    *)
(* push delivery of the card as it was stored.                             *)
(***************************************************************************)
EXTENDS DesktopFeed, Push

notificationVars == <<inboxVars, attentionVars, feedVars, pushVars>>

Init == InboxInit /\ AttentionInit /\ FeedInit /\ PushInit

Published(w) == IF w.kind = "hook" THEN CardOf(w) ELSE CHOOSE c \in Unused : \A d \in Unused : c <= d

\* go s.push.deliver(notification), once the card is stored.
Publish(r) ==
    /\ \/ ReceiveWebhook(r) \/ ReceiveNativeCard(r) \/ ReceiveSimpleMessage(r) \/ ReceiveStores(r)
       \/ Playground(r)
    /\ IF req'[r].pc = "done"
       THEN LET c == Published(req'[r].what) IN Deliver("card", None, c, card'[c])
       ELSE UNCHANGED pushVars
    /\ Watched
    /\ UNCHANGED attentionVars

\* workflowTick delivers within the tick: the node's next one waits.
Tick(w) ==
    /\ \/ /\ StartTick(w)
          /\ \A j \in Job : job[j].from = w => Finished(j)
          /\ UNCHANGED pushVars
       \/ CheckMonitors(w) /\ UNCHANGED pushVars
       \/ /\ TransitionMonitor(w)
          /\ IF mon' # mon THEN Deliver("card", w, Mon, card'[Mon]) ELSE UNCHANGED pushVars
    /\ Watched
    /\ UNCHANGED attentionVars

Handle(r) ==
    \/ Publish(r)
    \/ InboxStep(r) /\ Watched /\ UNCHANGED pushVars
    \/ AttentionStep(r) /\ UNCHANGED <<feedVars, pushVars>>
    \/ SignedOut(r) /\ UNCHANGED pushVars
    \/ (PushRequest(r) \/ PostMessage(r)) /\ UNCHANGED feedVars

Next ==
    \/ \E r \in Request : Handle(r)
    \/ \E w \in Worker : Tick(w)
    \/ FeedStep /\ UNCHANGED pushVars
    \/ PushStep /\ UNCHANGED feedVars
    \/ Pass /\ UNCHANGED <<attentionVars, feedVars, pushVars>>

Spec == Init /\ [][Next]_notificationVars

\* The ticker and the deliveries keep running; requests need not arrive, and
\* the desktop client need not poll.
NotificationSpec ==
    /\ Spec
    /\ \A w \in Worker : WF_notificationVars(Tick(w))
    /\ \A j \in Job : WF_notificationVars(JobStep(j) /\ UNCHANGED feedVars)

-----------------------------------------------------------------------------
\* The types of the variables; jobs and requests are at a place of their
\* handler.
NotificationsTypeOK ==
    /\ now \in 0..Bound.until
    /\ \A h \in Hook : hook[h] = None \/ hook[h] \in [locked : BOOLEAN, revoked : BOOLEAN]
    /\ \A c \in Card : card[c] = None \/
          (card[c].state \in {"received", "firing", "acknowledged", "resolved"} /\ card[c].ch \in Channel
             /\ card[c].created \in Nat /\ card[c].updated \in Nat)
    /\ role \in [Reader -> {"none", "viewer", "operator"}]
    /\ \A w \in Worker : worker[w].pc \in {"idle", "list", "move"}
    /\ level \in [Reader -> {"all", "critical", "muted"}]
    /\ hush \in [Reader -> {"off", "quiet", "bypass"}]
    /\ feed.pc \in {"idle", "show"}
    /\ \A e \in Endpoint : sub[e] = None \/ sub[e].user \in Reader
    /\ \A j \in Job : /\ job[j].pc \in {"none", "start", "pick", "check", "send", "record", "remove", "done"}
                      /\ job[j].n \in 0..MaxAttempts
=============================================================================
