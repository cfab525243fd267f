---------------------------- MODULE MCScheduler ----------------------------
(* A small instance of Scheduler for TLC: a tick of each of two processes. *)
EXTENDS Scheduler, TLC

CONSTANTS d1, s1, s2, t1, t2

TwoInstances == (t1 :> s1) @@ (t2 :> s2)
=============================================================================
