---------------------------- MODULE MCOperations ----------------------------
(***************************************************************************)
(* Three requests, one of seven mixes of kinds, two keys.  The             *)
(* Mattermost buttons are the ones where the combined index of one         *)
(* attachment ends and that of the next begins.                            *)
(***************************************************************************)
EXTENDS Operations, TLC

CONSTANTS r1, r2, r3, k1, k2, operator, reader, agent, s1, s2, t1, t2

Native == [kind |-> "http", index |-> 0]
Button(i, j) == [kind |-> "mattermost", attachment |-> i, action |-> j]
MCOp == {Native, Button(0, 100), Button(1, 0), Button(1, 1)}

On(k, op, u) == [kind |-> "click", key |-> k, op |-> op, user |-> u]
Calling(k, t) == [kind |-> "tool", key |-> k, tool |-> t, user |-> agent,
                  args |-> [op |-> Native]]

Running(k, t, u, c) == [kind |-> "command", key |-> k, team |-> t, user |-> u, composer |-> c]
Delayed(k) == [kind |-> "delayed", key |-> k]

MCScenarios ==
    {{On(k1, Native, operator), On(k1, Native, reader),
      Calling(k1, "notifications.invoke_action")},
     {On(k1, Button(0, 100), operator), On(k1, Button(1, 0), operator),
      On(k2, Button(1, 1), operator)},
     {Calling(k1, "runs.start"), Calling(k1, "notifications.publish"),
      Calling(k2, "runs.finish"), Calling(k2, "runs.record")},
     {Calling(k1, "messages.publish"), Calling(k1, "notifications.set_state"),
      Calling(k2, "runs.finish")},
     {Calling(k1, "channels.create"), Calling(k1, "agents.heartbeat"),
      Calling(k2, "agents.heartbeat")},
     {Running(k1, None, operator, TRUE), Running(k1, t1, operator, TRUE),
      Delayed(k1)},
     {Running(k1, t1, operator, FALSE), Running(k1, t1, reader, FALSE),
      Running(k2, t2, operator, FALSE), Delayed(k1)}}

MCSymmetry == Permutations(Request) \cup Permutations(Seeds)
=============================================================================
