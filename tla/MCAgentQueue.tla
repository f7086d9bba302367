--------------------------- MODULE MCAgentQueue ---------------------------
(* Small instances of AgentQueue with two commands and two bridge          *)
(* processes of the same agent.  One instance lets the channel be bound to *)
(* another agent, the other has a second author.                           *)
EXTENDS AgentQueue, TLC
CONSTANTS a1, a2, o1, o2, u1, u2, t1, t2
OneAgent   == o1 :> a1 @@ o2 :> a1
OneAuthor  == 1 :> u1 @@ 2 :> u1
TwoAuthors == 1 :> u1 @@ 2 :> u2
MCSymmetry == Permutations({o1, o2}) \cup Permutations({t1, t2})
===========================================================================
