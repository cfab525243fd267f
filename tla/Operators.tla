----------------------------- MODULE Operators -----------------------------
(***************************************************************************)
(* What an operator does to a job through the API (packages/server):       *)
(* retryJob puts a dead or cancelled job back in its queue, cancelJob      *)
(* takes a waiting one out.  Both look at the row's status first and make  *)
(* their calls without looking again.                                      *)
(***************************************************************************)
EXTENDS JobStore

CONSTANTS
  Operators,   \* POST /jobs/:id/retry and DELETE /jobs/:id that may overlap
  MaxCalls     \* bound: requests of operators in a behaviour

ASSUME MaxCallsAssumption == MaxCalls \in Nat

VARIABLES
  operatorPc,   \* next store call of each request
  subject,      \* its job, or None
  returned,     \* attempt in the row its UPDATE returned, or None
  found,        \* history: the cancel has removed the job from a queue
  revoked,      \* history: jobs cancelled, found in a queue, not retried since
  missed,       \* history: jobs whose cancel found them in no queue
  calls         \* history: number of requests

operatorVars == <<operatorPc, subject, returned, found, revoked, missed, calls>>

OperatorPcs == {"idle", "requeue", "store", "push",
                "unlist", "undelay", "clear", "mark"}

OperatorTypeOK ==
  /\ operatorPc \in [Operators -> OperatorPcs]
  /\ subject \in [Operators -> Jobs \cup {None}]
  /\ returned \in [Operators -> Attempts \cup {None}]
  /\ found \in [Operators -> BOOLEAN]
  /\ revoked \in SUBSET Jobs
  /\ missed \in SUBSET Jobs
  /\ calls \in Nat
  /\ \A o \in Operators : operatorPc[o] # "idle" => subject[o] \in Jobs

OperatorInit ==
  /\ operatorPc = [o \in Operators |-> "idle"]
  /\ subject = [o \in Operators |-> None]
  /\ returned = [o \in Operators |-> None]
  /\ found = [o \in Operators |-> FALSE]
  /\ revoked = {}
  /\ missed = {}
  /\ calls = 0

OperatorGoto(o, to) ==
  /\ operatorPc' = [operatorPc EXCEPT ![o] = to]
  /\ UNCHANGED <<subject, returned>>

\* SELECT * FROM jobs: the status decides whether the request goes on
BeginRequest(o, j, to) ==
  /\ operatorPc[o] = "idle"
  /\ calls < MaxCalls
  /\ calls' = calls + 1
  /\ operatorPc' = [operatorPc EXCEPT ![o] = to]
  /\ subject' = [subject EXCEPT ![o] = j]
  /\ found' = [found EXCEPT ![o] = FALSE]
  /\ UNCHANGED <<storeVars, returned, revoked, missed>>

\* A variant with a bug: the request is answered and goes on.
EndRequestNot(o) ==
  /\ subject' = [subject EXCEPT ![o] = None]
  /\ UNCHANGED <<operatorPc, returned>>

\* The request has been answered, or has failed.
EndRequest(o) ==
  /\ operatorPc' = [operatorPc EXCEPT ![o] = "idle"]
  /\ subject' = [subject EXCEPT ![o] = None]
  /\ returned' = [returned EXCEPT ![o] = None]

-----------------------------------------------------------------------------
(* retryJob *)

\* A variant with a bug: a job in any state can be retried.
CheckRetryAnyState(o, j) ==
  /\ status[j] # "absent"
  /\ BeginRequest(o, j, "requeue")

\* A job that is neither dead nor failed gets a 409.
CheckRetry(o, j) ==
  /\ status[j] \in {"dead", "failed"}
  /\ BeginRequest(o, j, "requeue")

\* UPDATE jobs SET status = 'queued' RETURNING *: the attempt stays as it is
Requeue(o) ==
  /\ operatorPc[o] = "requeue"
  /\ operatorPc' = [operatorPc EXCEPT ![o] = "store"]
  /\ returned' = [returned EXCEPT ![o] = attempt[subject[o]]]
  /\ revoked' = revoked \ {subject[o]}
  /\ WriteRow(subject[o], "queued", attempt[subject[o]])
  /\ UNCHANGED <<subject, found, missed, calls>>

\* HSET jobs:data
StoreRetried(o) ==
  /\ operatorPc[o] = "store"
  /\ OperatorGoto(o, "push")
  /\ SetEnvelope(subject[o], returned[o])
  /\ UNCHANGED <<found, revoked, missed, calls>>

\* LPUSH queue:<priority>
PushRetried(o) ==
  /\ operatorPc[o] = "push"
  /\ EndRequest(o)
  /\ LPush(subject[o])
  /\ UNCHANGED <<found, revoked, missed, calls>>

-----------------------------------------------------------------------------
(* cancelJob *)

\* A job that is neither queued nor delayed gets a 409.
CheckCancel(o, j) ==
  /\ status[j] \in {"queued", "delayed"}
  /\ BeginRequest(o, j, "unlist")

\* s in the places of keep, which sorts the places to be kept
KeepOnly(s, keep) == [n \in DOMAIN keep |-> s[keep[n]]]
Sorts(keep, places) ==
  /\ \A n, m \in DOMAIN keep : n < m => keep[n] < keep[m]
  /\ \A i \in places : \E n \in DOMAIN keep : keep[n] = i

\* LREM queue:<priority> 0 id, whatever it replies: all entries of the job go,
\* the others stay in order
Unlist(o) ==
  /\ operatorPc[o] = "unlist"
  /\ OperatorGoto(o, "undelay")
  /\ LET k == Level[subject[o]]
         others == {i \in 1..Len(ready[k]) : ready[k][i] # subject[o]}
     IN  \E keep \in [1..Cardinality(others) -> others] :
           Sorts(keep, others) /\ ready' = [ready EXCEPT ![k] = KeepOnly(@, keep)]
  /\ found' = [found EXCEPT ![o] = InReady(subject[o])]
  /\ UNCHANGED <<delayed, processing, heartbeats, jobData, workersActive, status,
                 attempt, settled, revoked, missed, calls>>

\* ZREM queue:delayed id, whatever it replies
Undelay(o) ==
  /\ operatorPc[o] = "undelay"
  /\ OperatorGoto(o, "clear")
  /\ ZRem(subject[o])
  /\ found' = [found EXCEPT ![o] = @ \/ delayed[subject[o]] # "out"]
  /\ IF found'[o]
     THEN revoked' = revoked \cup {subject[o]} /\ UNCHANGED missed
     ELSE missed' = missed \cup {subject[o]} /\ UNCHANGED revoked
  /\ UNCHANGED calls

\* HDEL jobs:data
ClearCancelled(o) ==
  /\ operatorPc[o] = "clear"
  /\ OperatorGoto(o, "mark")
  /\ SetEnvelope(subject[o], None)
  /\ UNCHANGED <<found, revoked, missed, calls>>

\* UPDATE jobs SET status = 'failed'
MarkCancelled(o) ==
  /\ operatorPc[o] = "mark"
  /\ EndRequest(o)
  /\ WriteRow(subject[o], "failed", attempt[subject[o]])
  /\ UNCHANGED <<found, revoked, missed, calls>>

-----------------------------------------------------------------------------
\* A call throws, or the server dies; nothing is undone.
FailOperator(o) ==
  /\ "api" \in Fallible
  /\ operatorPc[o] # "idle"
  /\ EndRequest(o)
  /\ UNCHANGED <<storeVars, found, revoked, missed, calls>>

RetryJob(o) ==
  (\E j \in Jobs : CheckRetry(o, j)) \/ Requeue(o) \/ StoreRetried(o) \/ PushRetried(o)

CancelJob(o) ==
  \/ \E j \in Jobs : CheckCancel(o, j)
  \/ Unlist(o) \/ Undelay(o) \/ ClearCancelled(o) \/ MarkCancelled(o)
=============================================================================
