--------------------------- MODULE OperatedQueue ---------------------------
(***************************************************************************)
(* The job queue with operators who retry and cancel jobs while API,       *)
(* promoters, workers and reapers go on.                                   *)
(***************************************************************************)
EXTENDS JobQueue, Operators

operatedVars == <<vars, operatorVars>>

OperatedInit == Init /\ OperatorInit

OperatorNext ==
  /\ \E o \in Operators : RetryJob(o) \/ CancelJob(o) \/ FailOperator(o)
  /\ UNCHANGED <<apiVars, workerVars, reaperVars, dropped>>

OperatedNext ==
  \/ Next /\ UNCHANGED operatorVars
  \/ OperatorNext

OperatedSpec == OperatedInit /\ [][OperatedNext]_operatedVars

\* The operator's own references to a job: a retry that has the UPDATE behind
\* it will push one.
AboutToPush(j) ==
  \E o \in Operators : subject[o] = j /\ operatorPc[o] \in {"store", "push"}

\* As long as no reaper takes jobs back and operators act one at a time, a
\* retry never adds a copy of a job that still has one; cancels are harmless as
\* well, provided they find the job in a queue.  One that comes too late for
\* that marks a job failed that a worker runs, and the job can be retried
\* while it runs.
OneCopyUnlessMissed ==
  \A j \in Jobs \ missed :
    CopiesOf(j) + (IF AboutToPush(j) THEN 1 ELSE 0) <= 1

\* A cancelled job that was found in a queue is never run nor queued again
\* unless it is retried, whatever promoters know of it and whatever calls
\* fail: its row may say so or not.
RevokedStaysOut == \A j \in revoked \ missed : CopiesOf(j) = 0

-----------------------------------------------------------------------------
(* What the two rest on, for a system without reapers and one operator *)

\* A job is only ever pushed to the list of its level.
OnOwnLevel == \A k \in Levels : \A i \in 1..Len(ready[k]) : Level[ready[k][i]] = k

\* A job that was pushed once and is nowhere now.
Withdrawn(j) == Accepted(j) /\ NoCopy(j)

\* Wherever the row or an operator says that the job is out of the queues, it
\* is: the row by "dead" or "failed", a retry by having passed its check and
\* not pushed yet, a cancel by having found the job.
RowsAndOperatorsAgree(j) ==
  /\ ~Accepted(j) => NoCopy(j)
  /\ status[j] \in {"dead", "failed"} => Withdrawn(j)
  /\ j \in revoked => Withdrawn(j)
  /\ \A o \in Operators : subject[o] = j =>
       /\ operatorPc[o] \in {"requeue", "store", "push", "clear", "mark"} => Withdrawn(j)
       /\ operatorPc[o] \in {"store", "push"} =>
            status[j] \notin {"dead", "failed"} /\ j \notin revoked
       /\ operatorPc[o] = "undelay" /\ found[o] => Withdrawn(j)

\* The inductive invariant behind OneCopyUnlessMissed and RevokedStaysOut.
OperatedInvariant ==
  /\ TypeOK /\ OperatorTypeOK /\ FailuresAreCaught /\ OnOwnLevel
  /\ \A j \in Jobs \ missed : InOnePlace(j) /\ RowsAndOperatorsAgree(j)
=============================================================================
