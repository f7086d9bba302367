--------------------------- MODULE MCAgentBridge ---------------------------
(* Small instances of AgentBridge: one agent, one author, and processes    *)
(* that replace or compete with one another.                               *)
EXTENDS AgentBridge, TLC
CONSTANTS a1, u1, o1, o2, o3, t1, t2
MCAgentOf  == [o \in Owner |-> a1]
MCAuthorOf == [c \in Command |-> u1]
MCSymmetry == Permutations({o1, o2}) \cup Permutations({t1, t2})
============================================================================
