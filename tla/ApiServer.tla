----------------------------- MODULE ApiServer -----------------------------
(***************************************************************************)
(* The API server (packages/server): POST /jobs, which looks for a job     *)
(* with the same idempotency key, writes the row and then the Redis        *)
(* side of a job (enqueueJob), and the promoter that every instance runs   *)
(* once a second (promoteDueDelayedJobs).                                  *)
(*                                                                         *)
(* Every element of Jobs is one POST with the job it would create; a       *)
(* client that sends a request again is another element with the same key. *)
(* A promoter below is one run of promoteDueDelayedJobs that can be in     *)
(* progress: setInterval does not wait for the previous run, and every     *)
(* instance of the server has its own timer.                               *)
(***************************************************************************)
EXTENDS JobStore

CONSTANTS
  Deferred,         \* the jobs submitted with delay > 0
  Promoters,        \* runs of promoteDueDelayedJobs that may overlap
  IdempotencyKeys,  \* the idempotency keys of clients
  KeyOf             \* the key of each request, or None

ASSUME DeferredAssumption == Deferred \in SUBSET Jobs
ASSUME KeysAssumption ==
  KeyOf \in [Jobs -> IdempotencyKeys \cup {None}] /\ None \notin IdempotencyKeys

VARIABLES
  request,       \* how far POST /jobs has come for each job
  idemKeys,      \* idempotency:<key>: the job it names, or None
  told,          \* history: the job the answer to each request named, or None
  promoterPc,    \* next call of each promoter
  dueIds,        \* the ids of its ZRANGEBYSCORE it has not looked at yet
  promoting      \* the id it has taken out of the sorted set, or None

promoterVars == <<promoterPc, dueIds, promoting>>
submitVars == <<request, idemKeys, told>>
apiVars == <<submitVars, promoterVars>>

RequestStates ==
  {"new", "missed", "inserted", "remembered", "stored", "accepted",
   "deduped", "rejected", "failed"}

\* The requests whose INSERT succeeded.
Inserted(j) == request[j] \in {"inserted", "remembered", "stored", "accepted", "failed"}

SameKey(i, j) == KeyOf[i] # None /\ KeyOf[i] = KeyOf[j]

ApiTypeOK ==
  /\ request \in [Jobs -> RequestStates]
  /\ idemKeys \in [IdempotencyKeys -> Jobs \cup {None}]
  /\ told \in [Jobs -> Jobs \cup {None}]
  /\ promoterPc \in [Promoters -> {"idle", "take", "load", "push", "mark"}]
  /\ dueIds \in [Promoters -> SUBSET Jobs]
  /\ promoting \in [Promoters -> Jobs \cup {None}]
  /\ \A p \in Promoters : promoterPc[p] \in {"load", "push", "mark"} => promoting[p] \in Jobs

ApiInit ==
  /\ request = [j \in Jobs |-> "new"]
  /\ idemKeys = [k \in IdempotencyKeys |-> None]
  /\ told = [j \in Jobs |-> None]
  /\ promoterPc = [p \in Promoters |-> "idle"]
  /\ dueIds = [p \in Promoters |-> {}]
  /\ promoting = [p \in Promoters |-> None]

-----------------------------------------------------------------------------
(* enqueueJob *)

\* GET idempotency:<key>, then SELECT the job it names: a key is SET after the
\* INSERT and no row is ever deleted, so the job is there.
LookUpKey(j) ==
  /\ request[j] = "new"
  /\ KeyOf[j] # None
  /\ LET existing == idemKeys[KeyOf[j]] IN
     /\ request' = [request EXCEPT ![j] = IF existing = None THEN "missed" ELSE "deduped"]
     /\ told' = [told EXCEPT ![j] = existing]
  /\ UNCHANGED <<storeVars, idemKeys, promoterVars>>

\* The next call of a request that has no key, or whose key named no job
ReadyToInsert(j) == request[j] = (IF KeyOf[j] = None THEN "new" ELSE "missed")

CreateRow(j) ==
  /\ ReadyToInsert(j)
  /\ request' = [request EXCEPT ![j] = "inserted"]
  /\ WriteRow(j, IF j \in Deferred THEN "delayed" ELSE "queued", 0)
  /\ UNCHANGED <<idemKeys, told, promoterVars>>

\* The unique index on idempotency_key, which outlives the Redis key
Taken(j) == \E i \in Jobs : SameKey(i, j) /\ status[i] # "absent"

\* INSERT INTO jobs with the status the job starts in, then its first event
InsertJob(j) == ~Taken(j) /\ CreateRow(j)

\* The INSERT violates the index: the client gets a 500, no job is named
RejectInsert(j) ==
  /\ Taken(j)
  /\ ReadyToInsert(j)
  /\ request' = [request EXCEPT ![j] = "rejected"]
  /\ UNCHANGED <<storeVars, idemKeys, told, promoterVars>>

\* SET idempotency:<key> id EX
RememberKey(j) ==
  /\ request[j] = "inserted"
  /\ KeyOf[j] # None
  /\ request' = [request EXCEPT ![j] = "remembered"]
  /\ idemKeys' = [idemKeys EXCEPT ![KeyOf[j]] = j]
  /\ UNCHANGED <<storeVars, told, promoterVars>>

\* HSET jobs:data id <envelope of the inserted row>
StoreEnvelope(j) ==
  /\ request[j] = (IF KeyOf[j] = None THEN "inserted" ELSE "remembered")
  /\ request' = [request EXCEPT ![j] = "stored"]
  /\ SetEnvelope(j, 0)
  /\ UNCHANGED <<idemKeys, told, promoterVars>>

\* ZADD or LPUSH; the 201 response follows
PushJob(j) ==
  /\ request[j] = "stored"
  /\ request' = [request EXCEPT ![j] = "accepted"]
  /\ told' = [told EXCEPT ![j] = j]
  /\ IF j \in Deferred THEN ZAdd(j) ELSE LPush(j)
  /\ UNCHANGED <<idemKeys, promoterVars>>

\* A call after the INSERT throws, or the server dies: the client gets a 500
\* or no answer.  Nothing undoes what is done.  A request that fails earlier
\* has done nothing.  One that fails after the push, in the PUBLISH or for want of
\* the reply, is counted as accepted and answered: the job is owed all the same,
\* and an answer more makes AnswersAgree harder to keep.
FailRequest(j) ==
  /\ "api" \in Fallible
  /\ request[j] \in {"inserted", "remembered", "stored"}
  /\ request' = [request EXCEPT ![j] = "failed"]
  /\ UNCHANGED <<storeVars, idemKeys, told, promoterVars>>

\* The TTL of idempotency:<key> runs out
ExpireKey(k) ==
  /\ idemKeys[k] # None
  /\ idemKeys' = [idemKeys EXCEPT ![k] = None]
  /\ UNCHANGED <<storeVars, request, told, promoterVars>>

-----------------------------------------------------------------------------
(* promoteDueDelayedJobs *)

\* ZRANGEBYSCORE queue:delayed 0 now LIMIT 0 100: fewer than 100 jobs are due
\* in every instance checked
ScanDue(p) ==
  LET due == {j \in Jobs : delayed[j] = "due"} IN
  /\ promoterPc[p] = "idle"
  /\ due # {}
  /\ promoterPc' = [promoterPc EXCEPT ![p] = "take"]
  /\ dueIds' = [dueIds EXCEPT ![p] = due]
  /\ UNCHANGED <<storeVars, submitVars, promoting>>

\* A variant with a bug: the result of ZREM is ignored.
TakeDueUnchecked(p, j) ==
  /\ promoterPc[p] = "take"
  /\ j \in dueIds[p]
  /\ promoterPc' = [promoterPc EXCEPT ![p] = "load"]
  /\ dueIds' = [dueIds EXCEPT ![p] = @ \ {j}]
  /\ promoting' = [promoting EXCEPT ![p] = j]
  /\ ZRem(j)
  /\ UNCHANGED submitVars

\* ZREM: whoever removes the member goes on to push it
TakeDue(p, j) ==
  /\ promoterPc[p] = "take"
  /\ j \in dueIds[p]
  /\ delayed[j] # "out"
  /\ promoterPc' = [promoterPc EXCEPT ![p] = "load"]
  /\ dueIds' = [dueIds EXCEPT ![p] = @ \ {j}]
  /\ promoting' = [promoting EXCEPT ![p] = j]
  /\ ZRem(j)
  /\ UNCHANGED submitVars

\* ZREM returned 0: another promoter beat us to it
MissDue(p, j) ==
  /\ promoterPc[p] = "take"
  /\ j \in dueIds[p]
  /\ delayed[j] = "out"
  /\ dueIds' = [dueIds EXCEPT ![p] = @ \ {j}]
  /\ UNCHANGED <<storeVars, submitVars, promoterPc, promoting>>

EndPromotion(p) ==
  /\ promoterPc[p] = "take"
  /\ dueIds[p] = {}
  /\ promoterPc' = [promoterPc EXCEPT ![p] = "idle"]
  /\ UNCHANGED <<storeVars, submitVars, dueIds, promoting>>

\* HGET jobs:data: a job without an envelope is skipped
LoadDue(p) ==
  /\ promoterPc[p] = "load"
  /\ IF jobData[promoting[p]] = None
     THEN /\ promoterPc' = [promoterPc EXCEPT ![p] = "take"]
          /\ promoting' = [promoting EXCEPT ![p] = None]
     ELSE /\ promoterPc' = [promoterPc EXCEPT ![p] = "push"]
          /\ UNCHANGED promoting
  /\ UNCHANGED <<storeVars, submitVars, dueIds>>

\* LPUSH queue:<priority> id
PushDue(p) ==
  /\ promoterPc[p] = "push"
  /\ promoterPc' = [promoterPc EXCEPT ![p] = "mark"]
  /\ LPush(promoting[p])
  /\ UNCHANGED <<submitVars, dueIds, promoting>>

\* A variant with a bug: promotion resets the attempt counter of the row.
MarkQueuedAfresh(p) ==
  /\ promoterPc[p] = "mark"
  /\ promoterPc' = [promoterPc EXCEPT ![p] = "take"]
  /\ promoting' = [promoting EXCEPT ![p] = None]
  /\ WriteRow(promoting[p], "queued", 0)
  /\ UNCHANGED <<submitVars, dueIds>>

\* UPDATE jobs SET status = 'queued', after the job is already claimable
MarkQueued(p) ==
  /\ promoterPc[p] = "mark"
  /\ promoterPc' = [promoterPc EXCEPT ![p] = "take"]
  /\ promoting' = [promoting EXCEPT ![p] = None]
  /\ WriteRow(promoting[p], "queued", attempt[promoting[p]])
  /\ UNCHANGED <<submitVars, dueIds>>

\* A call of the run throws, or the server dies: the run is over
FailPromotion(p) ==
  /\ "promoter" \in Fallible
  /\ promoterPc[p] # "idle"
  /\ promoterPc' = [promoterPc EXCEPT ![p] = "idle"]
  /\ dueIds' = [dueIds EXCEPT ![p] = {}]
  /\ promoting' = [promoting EXCEPT ![p] = None]
  /\ UNCHANGED <<storeVars, submitVars>>

-----------------------------------------------------------------------------
Enqueue(j) ==
  \/ LookUpKey(j) \/ InsertJob(j) \/ RejectInsert(j)
  \/ RememberKey(j) \/ StoreEnvelope(j) \/ PushJob(j)

Promote(p) ==
  \/ ScanDue(p)
  \/ \E j \in Jobs : TakeDue(p, j) \/ MissDue(p, j)
  \/ EndPromotion(p) \/ LoadDue(p) \/ PushDue(p) \/ MarkQueued(p)

\* What a promoter has removed from the sorted set and not yet pushed: only
\* its memory knows the job.
PromoterHand(p) == IF promoterPc[p] \in {"load", "push"} THEN {promoting[p]} ELSE {}

PromoterHolds(j) == \E p \in Promoters : j \in PromoterHand(p)

\* FR-1.3 (README): whatever a client is told about an idempotency key, it is
\* told about one job, although requests with the key overlap, the Redis key
\* expires, and calls fail between the row, the key and the push.
AnswersAgree ==
  \A i, j \in Jobs :
    SameKey(i, j) /\ told[i] # None /\ told[j] # None => told[i] = told[j]

\* What AnswersAgree rests on: one row for each key, named by the key and by
\* every answer.
OneRowPerKey ==
  \A i, j \in Jobs : SameKey(i, j) /\ Inserted(i) /\ Inserted(j) => i = j
RowsExist == \A j \in Jobs : Inserted(j) => status[j] # "absent"
KeysNameRows ==
  \A k \in IdempotencyKeys :
    idemKeys[k] # None => KeyOf[idemKeys[k]] = k /\ Inserted(idemKeys[k])
AnswersNameRows ==
  \A j \in Jobs : told[j] # None =>
    Inserted(told[j]) /\ (told[j] = j \/ SameKey(told[j], j))

SubmissionInvariant ==
  ApiTypeOK /\ OneRowPerKey /\ RowsExist /\ KeysNameRows /\ AnswersNameRows
=============================================================================
