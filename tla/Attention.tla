----------------------------- MODULE Attention -----------------------------
(***************************************************************************)
(* Who is alerted of a card: channel notification levels, quiet hours and  *)
(* snoozes (DeliveryReason, internal/store/workflows.go), shared by web    *)
(* push and the desktop client.  The levels are those of the webhooks'     *)
(* channel; the public one is left at "all".  Entering and leaving quiet   *)
(* hours is a change of hush.                                              *)
(***************************************************************************)
EXTENDS Inbox

VARIABLES
    level,    \* channel_notification_preferences: "all", "critical" or "muted"
    hush,     \* attention_preferences at this hour: "off", "quiet", or
              \* "bypass" (quiet, except for critical cards)
    snooze    \* notification_snoozes: until when

attentionVars == <<level, hush, snooze>>

AttentionInit ==
    /\ level = [u \in Reader |-> "all"]
    /\ hush = [u \in Reader |-> "off"]
    /\ snooze = [u \in Reader |-> [c \in Card |-> 0]]

MayRead(u, x) == x = "open" \/ role[u] # "none"

Level(u, x) == IF x = "open" THEN "all" ELSE level[u]

Quiet(u, critical) == hush[u] = "quiet" \/ (hush[u] = "bypass" /\ ~ critical)

\* The reason not to alert u of card c, or "eligible".
DeliveryReason(u, c, x, critical) ==
    CASE ~ MayRead(u, x) -> "access_revoked"
      [] Level(u, x) = "muted" -> "channel_muted"
      [] Level(u, x) = "critical" /\ ~ critical -> "critical_only"
      [] snooze[u][c] > now -> "snoozed"
      [] Quiet(u, critical) -> "quiet_hours"
      [] OTHER -> "eligible"

-----------------------------------------------------------------------------
\* Refused to who may not read the channel.
Preferred(u, l) == IF MayRead(u, "home") THEN [level EXCEPT ![u] = l] ELSE level

SetChannelNotificationPreference(r) ==
    /\ Arrive(r, "level", "done")
    /\ level' = Preferred(req'[r].what.user, req'[r].what.level)
    /\ UNCHANGED <<sqlite, asked, now, store, worker, occ, alarms, hush, snooze>>

SaveAttentionPreferences(r) ==
    /\ Arrive(r, "hush", "done")
    /\ hush' = [hush EXCEPT ![req'[r].what.user] = req'[r].what.hush]
    /\ UNCHANGED <<sqlite, asked, now, store, worker, occ, alarms, level, snooze>>

\* Snooze checks access before its transaction.
Snooze(r) ==
    /\ Arrive(r, "snooze", "snooze")
    /\ CanRead(req'[r].what.user, req'[r].what.card)
    /\ UNCHANGED <<sqlite, asked, now, store, worker, occ, alarms, attentionVars>>

SnoozeCommits(r) ==
    /\ req[r].pc = "snooze"
    /\ LET w == req[r].what IN
       snooze' = [snooze EXCEPT ![w.user][w.card] = IF w.on THEN now + 1 ELSE 0]
    /\ Goto(r, "done")
    /\ UNCHANGED <<sqlite, asked, now, store, worker, occ, alarms, level, hush>>

AttentionStep(r) ==
    \/ SetChannelNotificationPreference(r) \/ SaveAttentionPreferences(r)
    \/ Snooze(r) \/ SnoozeCommits(r)

InboxStep(r) ==
    /\ \/ CreateHook(r) \/ UpdateHook(r) \/ RevokeHook(r) \/ DuplicateHook(r)
       \/ UpdateMembership(r)
       \/ SetNotificationState(r) \/ StateWrites(r)
       \/ AcknowledgeIncident(r) \/ AcknowledgeGroup(r)
       \/ UpdateInbox(r) \/ SetNotificationInboxState(r) \/ MarkRead(r)
       \/ SaveMonitor(r) \/ DeleteMonitor(r)
    /\ UNCHANGED attentionVars
=============================================================================
