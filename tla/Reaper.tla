------------------------------- MODULE Reaper -------------------------------
(***************************************************************************)
(* The reaper (packages/reaper): scans the processing lists of registered  *)
(* workers, takes the jobs whose heartbeat is missing or old, and puts     *)
(* them back with a higher attempt, or buries them.                        *)
(*                                                                         *)
(* A reaper below is one call of tick() that can be in progress:           *)
(* setInterval does not wait for a slow tick, and replicas may run.        *)
(***************************************************************************)
EXTENDS JobStore

CONSTANT Reapers   \* ticks that may overlap, in one process or several

VARIABLES
  reaperLock,   \* workers w whose lock:reaper:<w> exists
  reaperPc,     \* next store call of each tick
  targets,      \* workers of its SMEMBERS it has not visited yet
  visiting,     \* the worker of reapWorker, or None
  victims,      \* jobs of its LRANGE it has not looked at yet
  orphan,       \* the job of requeueOrphan, or None
  orphanEnv     \* attempt of the envelope it works from, or None

tickVars == <<reaperPc, targets, visiting, victims, orphan, orphanEnv>>
reaperVars == <<reaperLock, reaperPc, targets, visiting, victims, orphan, orphanEnv>>

ReaperPcs == {"idle", "walk", "list", "check", "remove", "unbeat", "load",
              "select", "mark", "save", "delay", "drop"}
Requeueing == {"remove", "unbeat", "load", "select", "mark", "save", "delay", "drop"}

ReaperTypeOK ==
  /\ reaperLock \in SUBSET Workers
  /\ reaperPc \in [Reapers -> ReaperPcs]
  /\ targets \in [Reapers -> SUBSET Workers]
  /\ visiting \in [Reapers -> Workers \cup {None}]
  /\ victims \in [Reapers -> SUBSET Jobs]
  /\ orphan \in [Reapers -> Jobs \cup {None}]
  /\ orphanEnv \in [Reapers -> Attempts \cup {None}]
  /\ \A r \in Reapers : reaperPc[r] \in {"list", "check"} \cup Requeueing => visiting[r] \in Workers
  /\ \A r \in Reapers : reaperPc[r] \in Requeueing => orphan[r] \in Jobs
  /\ \A r \in Reapers :
       reaperPc[r] \in {"mark", "save", "delay", "drop"} => orphanEnv[r] \in Attempts

ReaperInit ==
  /\ reaperLock = {}
  /\ reaperPc = [r \in Reapers |-> "idle"]
  /\ targets = [r \in Reapers |-> {}]
  /\ visiting = [r \in Reapers |-> None]
  /\ victims = [r \in Reapers |-> {}]
  /\ orphan = [r \in Reapers |-> None]
  /\ orphanEnv = [r \in Reapers |-> None]

-----------------------------------------------------------------------------
(* Building blocks *)

ReaperGoto(r, to) ==
  /\ reaperPc' = [reaperPc EXCEPT ![r] = to]
  /\ UNCHANGED <<reaperLock, targets, visiting, victims, orphan, orphanEnv>>

\* the end of requeueOrphan: on to the next job of the list
NextVictim(r) ==
  /\ reaperPc' = [reaperPc EXCEPT ![r] = "check"]
  /\ orphan' = [orphan EXCEPT ![r] = None]
  /\ orphanEnv' = [orphanEnv EXCEPT ![r] = None]
  /\ UNCHANGED <<reaperLock, targets, visiting, victims>>

\* the end of reapWorker, which leaves the lock to its TTL
LeaveWorker(r) ==
  /\ reaperPc' = [reaperPc EXCEPT ![r] = "walk"]
  /\ visiting' = [visiting EXCEPT ![r] = None]
  /\ victims' = [victims EXCEPT ![r] = {}]
  /\ orphan' = [orphan EXCEPT ![r] = None]
  /\ orphanEnv' = [orphanEnv EXCEPT ![r] = None]
  /\ UNCHANGED <<reaperLock, targets>>

Exhausted(r) == orphanEnv[r] + 1 > MaxRetries[orphan[r]]

-----------------------------------------------------------------------------
(* tick *)

\* SMEMBERS workers:active
BeginTick(r) ==
  /\ reaperPc[r] = "idle"
  /\ workersActive # {}
  /\ reaperPc' = [reaperPc EXCEPT ![r] = "walk"]
  /\ targets' = [targets EXCEPT ![r] = workersActive]
  /\ UNCHANGED <<storeVars, reaperLock, visiting, victims, orphan, orphanEnv>>

\* SET lock:reaper:<worker> NX PX succeeds
LockWorker(r, w) ==
  /\ reaperPc[r] = "walk"
  /\ w \in targets[r]
  /\ w \notin reaperLock
  /\ reaperLock' = reaperLock \cup {w}
  /\ reaperPc' = [reaperPc EXCEPT ![r] = "list"]
  /\ targets' = [targets EXCEPT ![r] = @ \ {w}]
  /\ visiting' = [visiting EXCEPT ![r] = w]
  /\ UNCHANGED <<storeVars, victims, orphan, orphanEnv>>

\* the lock exists: another tick visited this worker less than a TTL ago
SkipWorker(r, w) ==
  /\ reaperPc[r] = "walk"
  /\ w \in targets[r]
  /\ w \in reaperLock
  /\ targets' = [targets EXCEPT ![r] = @ \ {w}]
  /\ UNCHANGED <<storeVars, reaperLock, reaperPc, visiting, victims, orphan, orphanEnv>>

EndTick(r) ==
  /\ reaperPc[r] = "walk"
  /\ targets[r] = {}
  /\ ReaperGoto(r, "idle")
  /\ UNCHANGED storeVars

\* The TTL of a lock elapses.  No tick deletes a lock.
ExpireLock(w) ==
  /\ w \in reaperLock
  /\ reaperLock' = reaperLock \ {w}
  /\ UNCHANGED <<storeVars, tickVars>>

-----------------------------------------------------------------------------
(* reapWorker *)

\* LRANGE processing:<worker> 0 -1
ListProcessing(r) ==
  /\ reaperPc[r] = "list"
  /\ reaperPc' = [reaperPc EXCEPT ![r] = "check"]
  /\ victims' = [victims EXCEPT ![r] = processing[visiting[r]]]
  /\ UNCHANGED <<storeVars, reaperLock, targets, visiting, orphan, orphanEnv>>

\* A variant with a bug: a job without a heartbeat is taken for alive.
AliveUnlessStale(j) == heartbeats[j] # "stale"

\* HGET jobs:heartbeats: there is a beat, younger than the timeout
Alive(j) == heartbeats[j] = "fresh"

SpareJob(r, j) ==
  /\ reaperPc[r] = "check"
  /\ j \in victims[r]
  /\ Alive(j)
  /\ victims' = [victims EXCEPT ![r] = @ \ {j}]
  /\ UNCHANGED <<storeVars, reaperLock, reaperPc, targets, visiting, orphan, orphanEnv>>

CondemnJob(r, j) ==
  /\ reaperPc[r] = "check"
  /\ j \in victims[r]
  /\ ~Alive(j)
  /\ reaperPc' = [reaperPc EXCEPT ![r] = "remove"]
  /\ victims' = [victims EXCEPT ![r] = @ \ {j}]
  /\ orphan' = [orphan EXCEPT ![r] = j]
  /\ UNCHANGED <<storeVars, reaperLock, targets, visiting, orphanEnv>>

EndVisit(r) ==
  /\ reaperPc[r] = "check"
  /\ victims[r] = {}
  /\ LeaveWorker(r)
  /\ UNCHANGED storeVars

-----------------------------------------------------------------------------
(* requeueOrphan *)

\* LREM processing:<worker> 0 id removes at least one entry
TakeOrphan(r) ==
  /\ reaperPc[r] = "remove"
  /\ orphan[r] \in processing[visiting[r]]
  /\ LRem(visiting[r], orphan[r])
  /\ ReaperGoto(r, "unbeat")

\* LREM returned 0: finished or reaped since the LRANGE
MissOrphan(r) ==
  /\ reaperPc[r] = "remove"
  /\ orphan[r] \notin processing[visiting[r]]
  /\ NextVictim(r)
  /\ UNCHANGED storeVars

\* HDEL jobs:heartbeats
UnbeatOrphan(r) ==
  /\ reaperPc[r] = "unbeat"
  /\ SetHeartbeat(orphan[r], "none")
  /\ ReaperGoto(r, "load")

\* HGET jobs:data.  The row that is read next always exists.
LoadOrphan(r) ==
  /\ reaperPc[r] = "load"
  /\ reaperPc' = [reaperPc EXCEPT ![r] = IF jobData[orphan[r]] = None THEN "select" ELSE "mark"]
  /\ orphanEnv' = [orphanEnv EXCEPT ![r] = jobData[orphan[r]]]
  /\ UNCHANGED <<storeVars, reaperLock, targets, visiting, victims, orphan>>

\* SELECT * FROM jobs: without an envelope the row's attempt counts
SelectOrphan(r) ==
  /\ reaperPc[r] = "select"
  /\ reaperPc' = [reaperPc EXCEPT ![r] = "mark"]
  /\ orphanEnv' = [orphanEnv EXCEPT ![r] = attempt[orphan[r]]]
  /\ UNCHANGED <<storeVars, reaperLock, targets, visiting, victims, orphan>>

\* UPDATE jobs SET status = 'delayed', attempt = nextAttempt
MarkDelayed(r) ==
  /\ reaperPc[r] = "mark"
  /\ ~Exhausted(r)
  /\ WriteRow(orphan[r], "delayed", orphanEnv[r] + 1)
  /\ ReaperGoto(r, "save")

\* UPDATE jobs SET status = 'dead', attempt = nextAttempt
MarkDead(r) ==
  /\ reaperPc[r] = "mark"
  /\ Exhausted(r)
  /\ WriteRow(orphan[r], "dead", orphanEnv[r] + 1)
  /\ ReaperGoto(r, "drop")

\* A variant with a bug: the orphan is saved and never put back in a queue.
SaveOrphanOnly(r) ==
  /\ reaperPc[r] = "save"
  /\ SetEnvelope(orphan[r], orphanEnv[r] + 1)
  /\ NextVictim(r)

\* HSET jobs:data with attempt: nextAttempt
SaveOrphan(r) ==
  /\ reaperPc[r] = "save"
  /\ SetEnvelope(orphan[r], orphanEnv[r] + 1)
  /\ ReaperGoto(r, "delay")

\* ZADD queue:delayed
DelayOrphan(r) ==
  /\ reaperPc[r] = "delay"
  /\ ZAdd(orphan[r])
  /\ NextVictim(r)

\* HDEL jobs:data
DropOrphan(r) ==
  /\ reaperPc[r] = "drop"
  /\ SetEnvelope(orphan[r], None)
  /\ NextVictim(r)

-----------------------------------------------------------------------------
(* A store call fails *)

\* in reapWorker: tick logs the error and goes on to the next worker
FaultInReapWorker(r) ==
  /\ "reaper" \in Fallible
  /\ reaperPc[r] \notin {"idle", "walk"}
  /\ LeaveWorker(r)
  /\ UNCHANGED storeVars

\* The process dies, or the SET of tick throws: the tick is over.
FaultInTick(r) ==
  /\ "reaper" \in Fallible
  /\ reaperPc[r] # "idle"
  /\ reaperPc' = [reaperPc EXCEPT ![r] = "idle"]
  /\ targets' = [targets EXCEPT ![r] = {}]
  /\ visiting' = [visiting EXCEPT ![r] = None]
  /\ victims' = [victims EXCEPT ![r] = {}]
  /\ orphan' = [orphan EXCEPT ![r] = None]
  /\ orphanEnv' = [orphanEnv EXCEPT ![r] = None]
  /\ UNCHANGED <<storeVars, reaperLock>>

-----------------------------------------------------------------------------
Reap(r) ==
  \/ BeginTick(r)
  \/ \E w \in Workers : LockWorker(r, w) \/ SkipWorker(r, w)
  \/ EndTick(r) \/ ListProcessing(r)
  \/ \E j \in Jobs : SpareJob(r, j) \/ CondemnJob(r, j)
  \/ EndVisit(r) \/ TakeOrphan(r) \/ MissOrphan(r) \/ UnbeatOrphan(r)
  \/ LoadOrphan(r) \/ SelectOrphan(r) \/ MarkDelayed(r) \/ MarkDead(r)
  \/ SaveOrphan(r) \/ DelayOrphan(r) \/ DropOrphan(r)

ReaperFault(r) == FaultInReapWorker(r) \/ FaultInTick(r)

\* What a tick has removed from a processing list and not yet rescheduled:
\* only its memory knows the job.
ReaperHand(r) ==
  IF reaperPc[r] \in {"unbeat", "load", "select", "mark", "save", "delay"}
  THEN {orphan[r]} ELSE {}

ReaperHolds(j) == \E r \in Reapers : j \in ReaperHand(r)
=============================================================================
