----------------------------- MODULE MCJobQueue -----------------------------
(* Small instances of JobQueue for TLC. *)
EXTENDS JobQueue, TLC

CONSTANTS j1, j2, k1, w1, w2, l1, l2, p1, p2, r1, r2

TopLevel == [j \in Jobs |-> 1]
LowLevel == [j \in Jobs |-> 2]
OneKey == [j \in Jobs |-> k1]
NoKeys == [j \in Jobs |-> None]
NoRetry == [j \in Jobs |-> 0]
OneRetry == [j \in Jobs |-> 1]
TwoRetries == [j \in Jobs |-> 2]

HostSingle == (l1 :> w1)
HostOneEach == (l1 :> w1) @@ (l2 :> w2)
HostShared == (l1 :> w1) @@ (l2 :> w1)

SameLanesAndPromoters == Permutations({l1, l2}) \cup Permutations({p1, p2})
SameReapers == Permutations({r1, r2})
=============================================================================
