---------------------------- MODULE SerialChannel ----------------------------
(***************************************************************************)
(* What a bound channel promises its users: commands are carried out one   *)
(* at a time and in the order they were posted, each at most once; a       *)
(* command that waits may be withdrawn, and what is done stays done.       *)
(* AgentQueue implements it with leases, expiry, cancellation and          *)
(* reconciliation.                                                         *)
(***************************************************************************)
EXTENDS Naturals

CONSTANT Command

VARIABLE status

Init == status = [c \in Command |-> "none"]

Submit(c) ==
    /\ status[c] = "none"
    /\ \A d \in Command : status[d] # "none" => d < c
    /\ status' = [status EXCEPT ![c] = "waiting"]

Withdraw(W) ==
    /\ \A c \in W : status[c] = "waiting"
    /\ status' = [c \in Command |-> IF c \in W THEN "done" ELSE status[c]]

Start(c) ==
    /\ status[c] = "waiting"
    /\ \A d \in Command : status[d] # "active"
    /\ \A d \in Command : d < c => status[d] # "waiting"
    /\ status' = [status EXCEPT ![c] = "active"]

Finish(c) ==
    /\ status[c] = "active"
    /\ status' = [status EXCEPT ![c] = "done"]

Next ==
    \/ \E c \in Command : Submit(c) \/ Start(c) \/ Finish(c)
    \/ \E W \in SUBSET Command : Withdraw(W)

Spec == Init /\ [][Next]_status
=============================================================================
