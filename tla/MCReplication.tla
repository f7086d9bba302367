--------------------------- MODULE MCReplication ---------------------------
(* Small instances of Replication. *)
EXTENDS Replication, TLC

CONSTANTS n1, n2, n3

TwoNodes == {n1, n2}
ThreeNodes == {n1, n2, n3}
Everyone == [n \in Node |-> Node]
Chain == [n \in Node |-> IF n = n3 THEN {n2} ELSE {n1}]
NoSkew == [n \in Node |-> 0]
FiringOnly == {Firing}
OneEach == [n \in Node |-> 1]
PairWrites == n1 :> 2 @@ n2 :> 1
TwoEach == [n \in Node |-> 2]
ChainWrites == n1 :> 3 @@ n2 :> 1 @@ n3 :> 0
AnyPost == {Firing, Resolved}

=============================================================================
