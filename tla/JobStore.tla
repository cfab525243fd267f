------------------------------ MODULE JobStore ------------------------------
(***************************************************************************)
(* What every process of the job queue shares: the Redis keys named in     *)
(* packages/shared/src/redisKeys.js and the columns of the PostgreSQL      *)
(* table `jobs` the processes write.  Redis executes one command at a time *)
(* and every UPDATE of one row is atomic, so each command the code issues  *)
(* is one transition of this state.  There is an operator per command; an  *)
(* action of a component is its guard, its local state, and one of them.   *)
(***************************************************************************)
EXTENDS Naturals, Sequences, FiniteSets

CONSTANTS
  Jobs,         \* the jobs clients submit
  Workers,      \* worker ids, one for each process unless WORKER_ID is set
  NumLevels,    \* number of priority levels, 1 is the highest
  Level,        \* the priority of each job
  MaxRetries,   \* max_retries of each job
  Fallible,     \* components whose store calls may fail, among Components
  None          \* "no value": a missing field, a null id

Levels == 1..NumLevels
Components == {"api", "promoter", "worker", "reaper"}

ASSUME LevelsAssumption == NumLevels \in Nat \ {0}
ASSUME LevelAssumption == Level \in [Jobs -> Levels]
ASSUME MaxRetriesAssumption == MaxRetries \in [Jobs -> Nat]
ASSUME FallibleAssumption == Fallible \in SUBSET Components
ASSUME NoneAssumption == None \notin Jobs \cup Workers \cup Nat

VARIABLES
  ready,          \* queue:<priority>, producers push left, workers pop right
  delayed,        \* queue:delayed: "out", "waiting" for its score, or "due"
  processing,     \* processing:<worker>, the jobs a worker has claimed
  heartbeats,     \* jobs:heartbeats: "none", "fresh", or older than the timeout
  jobData,        \* jobs:data: attempt of the stored envelope, or None
  workersActive,  \* workers:active, the registry the reaper scans
  status,         \* jobs.status, "absent" before the INSERT
  attempt,        \* jobs.attempt
  settled         \* history: jobs whose row ever said completed or dead

storeVars == <<ready, delayed, processing, heartbeats, jobData,
               workersActive, status, attempt, settled>>

\* Attempts are counted from 0 and one past the largest max_retries is the
\* number a job is buried with.
Attempts == Nat
Statuses == {"absent", "queued", "delayed", "active", "completed", "failed", "dead"}

\* Every LREM of a processing list has count 0 (all occurrences) and nothing
\* else depends on the order or multiplicity of its entries, so a processing
\* list is a set.  The envelope's other fields never change.
StoreTypeOK ==
  /\ ready \in [Levels -> Seq(Jobs)]
  /\ delayed \in [Jobs -> {"out", "waiting", "due"}]
  /\ processing \in [Workers -> SUBSET Jobs]
  /\ heartbeats \in [Jobs -> {"none", "fresh", "stale"}]
  /\ jobData \in [Jobs -> Attempts \cup {None}]
  /\ workersActive \in SUBSET Workers
  /\ status \in [Jobs -> Statuses]
  /\ attempt \in [Jobs -> Attempts]
  /\ settled \in SUBSET Jobs

StoreInit ==
  /\ ready = [k \in Levels |-> <<>>]
  /\ delayed = [j \in Jobs |-> "out"]
  /\ processing = [w \in Workers |-> {}]
  /\ heartbeats = [j \in Jobs |-> "none"]
  /\ jobData = [j \in Jobs |-> None]
  /\ workersActive = {}
  /\ status = [j \in Jobs |-> "absent"]
  /\ attempt = [j \in Jobs |-> 0]
  /\ settled = {}

InReady(j) == \E k \in Levels : \E i \in 1..Len(ready[k]) : ready[k][i] = j

-----------------------------------------------------------------------------
(* Redis commands *)

\* LPUSH queue:<priority> id
LPush(j) ==
  /\ ready' = [ready EXCEPT ![Level[j]] = <<j>> \o @]
  /\ UNCHANGED <<delayed, processing, heartbeats, jobData, workersActive,
                 status, attempt, settled>>

\* LMOVE queue:<level k> processing:<worker> RIGHT LEFT, on a non-empty list
Rightmost(k) == ready[k][Len(ready[k])]
LMove(k, w) ==
  /\ ready[k] # <<>>
  /\ ready' = [ready EXCEPT ![k] = SubSeq(@, 1, Len(@) - 1)]
  /\ processing' = [processing EXCEPT ![w] = @ \cup {Rightmost(k)}]
  /\ UNCHANGED <<delayed, heartbeats, jobData, workersActive,
                 status, attempt, settled>>

\* LREM processing:<worker> 0 id
LRem(w, j) ==
  /\ processing' = [processing EXCEPT ![w] = @ \ {j}]
  /\ UNCHANGED <<ready, delayed, heartbeats, jobData, workersActive,
                 status, attempt, settled>>

\* ZADD queue:delayed <now + delay> id: the score of a member is replaced
ZAdd(j) ==
  /\ delayed' = [delayed EXCEPT ![j] = "waiting"]
  /\ UNCHANGED <<ready, processing, heartbeats, jobData, workersActive,
                 status, attempt, settled>>

\* ZREM queue:delayed id: whatever its score
ZRem(j) ==
  /\ delayed' = [delayed EXCEPT ![j] = "out"]
  /\ UNCHANGED <<ready, processing, heartbeats, jobData, workersActive,
                 status, attempt, settled>>

\* HSET jobs:heartbeats id <now>, HDEL jobs:heartbeats id
SetHeartbeat(j, h) ==
  /\ heartbeats' = [heartbeats EXCEPT ![j] = h]
  /\ UNCHANGED <<ready, delayed, processing, jobData, workersActive,
                 status, attempt, settled>>

\* HSET jobs:data id <envelope with attempt n>, HDEL jobs:data id (n = None)
SetEnvelope(j, n) ==
  /\ jobData' = [jobData EXCEPT ![j] = n]
  /\ UNCHANGED <<ready, delayed, processing, heartbeats, workersActive,
                 status, attempt, settled>>

\* SADD workers:active worker, SREM workers:active worker
SetRegistry(registered) ==
  /\ workersActive' = registered
  /\ UNCHANGED <<ready, delayed, processing, heartbeats, jobData,
                 status, attempt, settled>>

-----------------------------------------------------------------------------
(* PostgreSQL *)

\* INSERT INTO jobs, or UPDATE jobs SET status = s, attempt = n WHERE id = j:
\* no UPDATE in the code looks at the status it overwrites.
WriteRow(j, s, n) ==
  /\ status' = [status EXCEPT ![j] = s]
  /\ attempt' = [attempt EXCEPT ![j] = n]
  /\ settled' = IF s \in {"completed", "dead"} THEN settled \cup {j} ELSE settled
  /\ UNCHANGED <<ready, delayed, processing, heartbeats, jobData, workersActive>>

-----------------------------------------------------------------------------
(* Time *)

\* now reaches the score of j in queue:delayed
Ripen(j) ==
  /\ delayed[j] = "waiting"
  /\ delayed' = [delayed EXCEPT ![j] = "due"]
  /\ UNCHANGED <<ready, processing, heartbeats, jobData, workersActive,
                 status, attempt, settled>>

\* the heartbeat of j becomes older than the orphan timeout
Age(j) ==
  /\ heartbeats[j] = "fresh"
  /\ heartbeats' = [heartbeats EXCEPT ![j] = "stale"]
  /\ UNCHANGED <<ready, delayed, processing, jobData, workersActive,
                 status, attempt, settled>>
=============================================================================
