---------------------------- MODULE AtLeastOnce ----------------------------
(***************************************************************************)
(* What the job queue promises a client, with nothing said about how: a    *)
(* job it has accepted is owed until it is settled, that is completed or   *)
(* moved to the dead-letter queue, and it is settled some day.  There is   *)
(* no way for a job to stop being owed without being settled.              *)
(***************************************************************************)
CONSTANT Jobs

VARIABLE promise

PromiseTypeOK == promise \in [Jobs -> {"none", "owed", "settled"}]

PromiseInit == promise = [j \in Jobs |-> "none"]

Accept(j) ==
  /\ promise[j] = "none"
  /\ promise' = [promise EXCEPT ![j] = "owed"]

Settle(j) ==
  /\ promise[j] = "owed"
  /\ promise' = [promise EXCEPT ![j] = "settled"]

PromiseNext == \E j \in Jobs : Accept(j) \/ Settle(j)

SafeContract == PromiseInit /\ [][PromiseNext]_promise

Contract == SafeContract /\ \A j \in Jobs : WF_promise(Settle(j))
=============================================================================
