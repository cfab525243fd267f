-------------------------- MODULE MCOperatedQueue --------------------------
(* A small instance of OperatedQueue for TLC. *)
EXTENDS OperatedQueue, TLC

CONSTANTS j1, w1, l1, l2, p1, p2, o1

TopLevel == [j \in Jobs |-> 1]
NoKeys == [j \in Jobs |-> None]
NoRetry == [j \in Jobs |-> 0]
HostShared == (l1 :> w1) @@ (l2 :> w1)
=============================================================================
