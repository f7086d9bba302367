---------------------------- MODULE DesktopFeed ----------------------------
(***************************************************************************)
(* The desktop client of one reader, which polls for the cards that        *)
(* changed since its cursor and shows each (desktopAlerts in internal/     *)
(* server/workflow_api.go, DesktopArrivals in internal/store, and          *)
(* internal/server/web/desktop-alerts.js).  Cards are the only arrivals    *)
(* modelled: messages and attention alerts take the same path.             *)
(***************************************************************************)
EXTENDS Attention

CONSTANTS
    Desk,      \* the reader with a desktop client
    PageSize   \* arrivals in one page, 200 in the code

ASSUME FeedAssumptions == Desk \in Reader /\ PageSize \in Nat \ {0}

VARIABLES
    feed,    \* the poller: [pc, cursor, page, next]
    seen,    \* seen[c]: the version last shown since the sign-in, 0 for none
    told,    \* history: told[c] = [at, times], the version last shown and how often
    skip,    \* history: skip[c], the version the server last left out
    due      \* history: due[c], card c was changed after all the poller has read

feedVars == <<feed, seen, told, skip, due>>

Asleep == [pc |-> "idle", cursor |-> None, page |-> {}, next |-> None]

FeedInit ==
    /\ feed = Asleep
    /\ seen = [c \in Card |-> 0]
    /\ told = [c \in Card |-> [at |-> 0, times |-> 0]]
    /\ skip = [c \in Card |-> 0]
    /\ due = [c \in Card |-> FALSE]

\* Pages are ordered by time, then id.
Past(at, c, cursor) == at > cursor.at \/ (at = cursor.at /\ c > cursor.id)

Earlier(c, d) == Past(card[d].updated, d, [at |-> card[c].updated, id |-> c])

DesktopArrivals(cursor) ==
    LET A == {c \in Card : CanRead(Desk, c) /\ Past(card[c].updated, c, cursor)}
    IN  {c \in A : Cardinality({d \in A : Earlier(d, c)}) < PageSize}

Alerted(c) ==
    /\ mark[Desk][c] # None => ~ mark[Desk][c].dismissed
    /\ DeliveryReason(Desk, c, card[c].ch, card[c].critical) = "eligible"

\* desktopAlerts.  Without a cursor the client starts at this moment.
Fetch ==
    /\ feed.pc = "idle" /\ Asks("desktop")
    /\ IF feed.cursor = None
       THEN /\ feed' = [feed EXCEPT !.cursor = [at |-> now, id |-> 0]]
            /\ due' = [c \in Card |-> FALSE]
            /\ UNCHANGED skip
       ELSE LET A == DesktopArrivals(feed.cursor)
                last == CHOOSE c \in A : \A d \in A \ {c} : Earlier(d, c)
                next == IF A = {} THEN feed.cursor ELSE [at |-> card[last].updated, id |-> last]
                page == {c \in A : Alerted(c)}
            IN /\ feed' = [pc |-> "show", cursor |-> feed.cursor, next |-> next,
                           page |-> {[at |-> card[c].updated, id |-> c] : c \in page}]
               /\ skip' = [c \in Card |->
                             IF card[c] # None /\ c \notin page /\ ~ Past(card[c].updated, c, next)
                                /\ Past(card[c].updated, c, feed.cursor)
                             THEN card[c].updated ELSE skip[c]]
               /\ UNCHANGED due
    /\ UNCHANGED <<inboxVars, attentionVars, seen, told>>

FirstOf(page) == CHOOSE p \in page : \A q \in page \ {p} : Past(q.at, q.id, p)

\* The next alert of the page, unless this version was shown before.
Show ==
    /\ feed.pc = "show" /\ feed.page # {}
    /\ LET p == FirstOf(feed.page) IN
       /\ feed' = [feed EXCEPT !.page = @ \ {p}]
       /\ seen' = [seen EXCEPT ![p.id] = p.at]
       /\ told' = IF seen[p.id] = p.at THEN told
                  ELSE [told EXCEPT ![p.id] = [at |-> p.at, times |->
                           IF told[p.id].at = p.at THEN told[p.id].times + 1 ELSE 1]]
    /\ UNCHANGED <<inboxVars, attentionVars, skip, due>>

ShowFails_Advances ==
    /\ feed.pc = "show" /\ feed.page # {}
    /\ feed' = [Asleep EXCEPT !.cursor = feed.next]
    /\ UNCHANGED <<inboxVars, attentionVars, seen, told, skip, due>>

\* The shell refuses an alert: the poll ends and the cursor stays.
ShowFails ==
    /\ feed.pc = "show" /\ feed.page # {}
    /\ seen[FirstOf(feed.page).id] # FirstOf(feed.page).at
    /\ feed' = [feed EXCEPT !.pc = "idle", !.page = {}, !.next = None]
    /\ UNCHANGED <<inboxVars, attentionVars, seen, told, skip, due>>

\* The page is shown; the next poll, at once if there is more, goes on from
\* its end.
PageShown ==
    /\ feed.pc = "show" /\ feed.page = {}
    /\ feed' = [Asleep EXCEPT !.cursor = feed.next]
    /\ UNCHANGED <<inboxVars, attentionVars, seen, told, skip, due>>

\* The session ended: the poll is answered 401 and the client starts afresh.
SignedOut(r) ==
    /\ Arrive(r, "signout", "done")
    /\ feed.pc = "idle" /\ feed.cursor # None
    /\ feed' = Asleep
    /\ seen' = [c \in Card |-> 0]
    /\ told' = [c \in Card |-> [at |-> 0, times |-> 0]]
    /\ UNCHANGED <<sqlite, asked, now, store, worker, occ, alarms, attentionVars, skip, due>>

FeedStep == Fetch \/ Show \/ ShowFails \/ PageShown

\* The history of every other step: which cards changed above what was read.
Watched ==
    LET read == IF feed.pc = "show" THEN feed.next ELSE feed.cursor
    IN  /\ due' = [c \in Card |-> IF card'[c] = card[c] THEN due[c]
                                  ELSE read # None /\ Past(card'[c].updated, c, read)]
        /\ UNCHANGED <<feed, seen, told, skip>>

-----------------------------------------------------------------------------
\* Every change is shown exactly once per sign-in, also when the shell fails in
\* the middle of a page or cards change during the poll.  A version that was
\* committed above all the poller had read is still ahead of its cursor, was
\* shown, or was left out by the reader's preferences or access; and none is
\* shown twice when a page is fetched again (desktop-alerts.js, poll and seen).
ShownExactlyOnce ==
    /\ feed.cursor # None => \A c \in Card : due[c] =>
         \/ Past(card[c].updated, c, feed.cursor)
         \/ card[c].updated \in {told[c].at, skip[c]}
    /\ \A c \in Card : told[c].times <= 1
=============================================================================
