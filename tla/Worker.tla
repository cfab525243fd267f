------------------------------- MODULE Worker -------------------------------
(***************************************************************************)
(* The worker processes (packages/worker).  A process runs several lanes   *)
(* that share its id, and so its processing list.  A lane claims a job,    *)
(* runs its handler, and writes the outcome with one store call after the  *)
(* other; between any two of them other lanes and other processes act.     *)
(***************************************************************************)
EXTENDS JobStore

CONSTANTS
  Lanes,       \* runLane loops of all the processes
  Host,        \* the process each lane belongs to
  Mortal,      \* workers that may crash
  Sigtermed,   \* workers that may be asked to shut down
  Returning    \* workers with a WORKER_ID, which start again under it

ASSUME HostAssumption == Host \in [Lanes -> Workers]
ASSUME MortalAssumption == Mortal \in SUBSET Workers
ASSUME SigtermedAssumption == Sigtermed \in SUBSET Workers
ASSUME ReturningAssumption == Returning \in SUBSET Workers

VARIABLES
  workerState,  \* life of each process
  lanePc,       \* next store call of each lane
  scan,         \* the level its claimNextJob tries next
  claim,        \* claimed.id, or None
  env,          \* claimed.envelope.attempt; None for the envelope { id }
  caught        \* TRUE while handleFailure runs, outside the try block

laneVars == <<lanePc, scan, claim, env, caught>>
workerVars == <<workerState, lanePc, scan, claim, env, caught>>

WorkerStates == {"off", "up", "draining", "exited", "crashed"}
LanePcs == {"stopped", "idle", "poll", "beat", "fetch", "activate", "run",
            "complete", "fail", "save", "delay", "clear", "release", "unbeat"}
Jobless == {"stopped", "idle", "poll"}    \* the lane has no job
Concluding == {"complete", "fail", "save", "delay", "clear", "release", "unbeat"}

WorkerTypeOK ==
  /\ workerState \in [Workers -> WorkerStates]
  /\ lanePc \in [Lanes -> LanePcs]
  /\ scan \in [Lanes -> Levels]
  /\ claim \in [Lanes -> Jobs \cup {None}]
  /\ env \in [Lanes -> Attempts \cup {None}]
  /\ caught \in [Lanes -> BOOLEAN]
  /\ \A l \in Lanes : lanePc[l] \notin Jobless => claim[l] \in Jobs
  /\ \A l \in Lanes : lanePc[l] \in Concluding => env[l] \in Attempts

WorkerInit ==
  /\ workerState = [w \in Workers |-> "off"]
  /\ lanePc = [l \in Lanes |-> "stopped"]
  /\ scan = [l \in Lanes |-> 1]
  /\ claim = [l \in Lanes |-> None]
  /\ env = [l \in Lanes |-> None]
  /\ caught = [l \in Lanes |-> FALSE]

\* The heartbeat timer of a lane runs from the claim's return to the end of
\* processJob.
Beating == {"activate", "run", "complete", "fail", "save", "delay", "clear",
            "release", "unbeat"}

Executing(l) == lanePc[l] = "run"

LanesOf(w) == {l \in Lanes : Host[l] = w}

-----------------------------------------------------------------------------
(* Building blocks *)

Goto(l, to) ==
  /\ lanePc' = [lanePc EXCEPT ![l] = to]
  /\ UNCHANGED <<workerState, scan, claim, env, caught>>

\* The lane is back at the head of its while loop, without a job.
BackToIdle(l) ==
  /\ lanePc' = [lanePc EXCEPT ![l] = "idle"]
  /\ scan' = [scan EXCEPT ![l] = 1]
  /\ claim' = [claim EXCEPT ![l] = None]
  /\ env' = [env EXCEPT ![l] = None]
  /\ caught' = [caught EXCEPT ![l] = FALSE]
  /\ UNCHANGED workerState

\* An error inside the try block: handleFailure takes over.
Catch(l) ==
  /\ lanePc' = [lanePc EXCEPT ![l] = "fail"]
  /\ caught' = [caught EXCEPT ![l] = TRUE]
  /\ UNCHANGED <<workerState, scan, claim, env>>

LastAttempt(l) == env[l] + 1 > MaxRetries[claim[l]]

-----------------------------------------------------------------------------
(* Life of a process *)

\* registerWorker, then the lanes start: without a WORKER_ID every process has
\* an id of its own, with one it finds the processing list it left behind.
StartWorker(w) ==
  /\ workerState[w] \in IF w \in Returning THEN {"off", "exited", "crashed"} ELSE {"off"}
  /\ workerState' = [workerState EXCEPT ![w] = "up"]
  /\ lanePc' = [l \in Lanes |-> IF Host[l] = w THEN "idle" ELSE lanePc[l]]
  /\ SetRegistry(workersActive \cup {w})
  /\ UNCHANGED <<scan, claim, env, caught>>

\* The process is gone with all its lanes; its keys stay in Redis.
CrashWorker(w) ==
  /\ w \in Mortal
  /\ workerState[w] \in {"up", "draining"}
  /\ workerState' = [workerState EXCEPT ![w] = "crashed"]
  /\ lanePc' = [l \in Lanes |-> IF Host[l] = w THEN "stopped" ELSE lanePc[l]]
  /\ scan' = [l \in Lanes |-> IF Host[l] = w THEN 1 ELSE scan[l]]
  /\ claim' = [l \in Lanes |-> IF Host[l] = w THEN None ELSE claim[l]]
  /\ env' = [l \in Lanes |-> IF Host[l] = w THEN None ELSE env[l]]
  /\ caught' = [l \in Lanes |-> IF Host[l] = w THEN FALSE ELSE caught[l]]
  /\ UNCHANGED storeVars

\* SIGTERM: drain sets the flag the lanes look at before the next claim.
DrainWorker(w) ==
  /\ w \in Sigtermed
  /\ workerState[w] = "up"
  /\ workerState' = [workerState EXCEPT ![w] = "draining"]
  /\ UNCHANGED <<storeVars, laneVars>>

StopLane(l) ==
  /\ lanePc[l] = "idle"
  /\ workerState[Host[l]] = "draining"
  /\ Goto(l, "stopped")
  /\ UNCHANGED storeVars

\* A variant with a bug: the process exits as soon as drain() sees no job in
\* flight, without awaiting its lanes, one of which may be claiming a job.
ExitWorkerNoneInFlight(w) ==
  /\ workerState[w] = "draining"
  /\ \A l \in LanesOf(w) : lanePc[l] \notin Beating
  /\ workerState' = [workerState EXCEPT ![w] = "exited"]
  /\ lanePc' = [l \in Lanes |-> IF Host[l] = w THEN "stopped" ELSE lanePc[l]]
  /\ SetRegistry(workersActive \ {w})
  /\ UNCHANGED <<scan, claim, env, caught>>

\* All lanes have returned: deregisterWorker and exit.  When drain() returns makes
\* no difference, at an empty inFlight or at the end of the grace period: shutdown
\* awaits every lane after it, whatever drain's warning says.
ExitWorker(w) ==
  /\ workerState[w] = "draining"
  /\ \A l \in LanesOf(w) : lanePc[l] = "stopped"
  /\ workerState' = [workerState EXCEPT ![w] = "exited"]
  /\ SetRegistry(workersActive \ {w})
  /\ UNCHANGED laneVars

-----------------------------------------------------------------------------
(* claimNextJob *)

\* A variant with a bug: the loop does not look at isDraining().
BeginClaimRegardless(l) ==
  /\ lanePc[l] = "idle"
  /\ Goto(l, "poll")
  /\ UNCHANGED storeVars

\* isDraining() is false: look at the highest level first
BeginClaim(l) ==
  /\ lanePc[l] = "idle"
  /\ workerState[Host[l]] = "up"
  /\ Goto(l, "poll")
  /\ UNCHANGED storeVars

\* A variant with a bug: the scan runs one level too far.
PollNextTooFar(l) ==
  /\ lanePc[l] = "poll"
  /\ ready[scan[l]] = <<>>
  /\ IF scan[l] <= NumLevels
     THEN /\ scan' = [scan EXCEPT ![l] = @ + 1]
          /\ UNCHANGED <<workerState, lanePc, claim, env, caught>>
     ELSE BackToIdle(l)
  /\ UNCHANGED storeVars

\* A variant with a bug: the lowest level is never polled.
PollNextTooShort(l) ==
  /\ lanePc[l] = "poll"
  /\ ready[scan[l]] = <<>>
  /\ IF scan[l] + 1 < NumLevels
     THEN /\ scan' = [scan EXCEPT ![l] = @ + 1]
          /\ UNCHANGED <<workerState, lanePc, claim, env, caught>>
     ELSE BackToIdle(l)
  /\ UNCHANGED storeVars

\* LMOVE, or the BLMOVE of the lowest level, finds the list empty
PollNext(l) ==
  /\ lanePc[l] = "poll"
  /\ ready[scan[l]] = <<>>
  /\ IF scan[l] < NumLevels
     THEN /\ scan' = [scan EXCEPT ![l] = @ + 1]
          /\ UNCHANGED <<workerState, lanePc, claim, env, caught>>
     ELSE BackToIdle(l)
  /\ UNCHANGED storeVars

\* A variant with a bug: RPOP, which keeps the job in the worker's memory only.
ClaimJobByPop(l) ==
  /\ lanePc[l] = "poll"
  /\ ready[scan[l]] # <<>>
  /\ ready' = [ready EXCEPT ![scan[l]] = SubSeq(@, 1, Len(@) - 1)]
  /\ lanePc' = [lanePc EXCEPT ![l] = "beat"]
  /\ claim' = [claim EXCEPT ![l] = Rightmost(scan[l])]
  /\ UNCHANGED <<delayed, processing, heartbeats, jobData, workersActive, status,
                 attempt, settled, workerState, scan, env, caught>>

\* LMOVE or BLMOVE moves a job to the processing list
ClaimJob(l) ==
  /\ lanePc[l] = "poll"
  /\ LMove(scan[l], Host[l])
  /\ lanePc' = [lanePc EXCEPT ![l] = "beat"]
  /\ claim' = [claim EXCEPT ![l] = Rightmost(scan[l])]
  /\ UNCHANGED <<workerState, scan, env, caught>>

\* HSET jobs:heartbeats
FirstBeat(l) ==
  /\ lanePc[l] = "beat"
  /\ SetHeartbeat(claim[l], "fresh")
  /\ Goto(l, "fetch")

\* HGET jobs:data
FetchEnvelope(l) ==
  /\ lanePc[l] = "fetch"
  /\ lanePc' = [lanePc EXCEPT ![l] = "activate"]
  /\ env' = [env EXCEPT ![l] = jobData[claim[l]]]
  /\ UNCHANGED <<storeVars, workerState, scan, claim, caught>>

-----------------------------------------------------------------------------
(* processJob *)

\* The timer of processJob: HSET jobs:heartbeats
Heartbeat(l) ==
  /\ lanePc[l] \in Beating
  /\ SetHeartbeat(claim[l], "fresh")
  /\ UNCHANGED workerVars

\* UPDATE jobs SET status = 'active'
Activate(l) ==
  /\ lanePc[l] = "activate"
  /\ WriteRow(claim[l], "active", attempt[claim[l]])
  /\ Goto(l, "run")

\* The envelope was missing: no handler has type undefined, and the UPDATE of
\* handleFailure rejects the attempt number NaN.  runLane logs the error.
Confound(l) ==
  /\ lanePc[l] = "run"
  /\ env[l] = None
  /\ BackToIdle(l)
  /\ UNCHANGED storeVars

\* The handler resolves
Succeed(l) ==
  /\ lanePc[l] = "run"
  /\ env[l] # None
  /\ Goto(l, "complete")
  /\ UNCHANGED storeVars

\* The handler rejects, or its timeout fires first
Reject(l) ==
  /\ lanePc[l] = "run"
  /\ env[l] # None
  /\ Catch(l)
  /\ UNCHANGED storeVars

\* UPDATE jobs SET status = 'completed'
Complete(l) ==
  /\ lanePc[l] = "complete"
  /\ WriteRow(claim[l], "completed", attempt[claim[l]])
  /\ Goto(l, "clear")

\* HDEL jobs:data, on completion and on burial
ClearEnvelope(l) ==
  /\ lanePc[l] = "clear"
  /\ SetEnvelope(claim[l], None)
  /\ Goto(l, "release")

-----------------------------------------------------------------------------
(* handleFailure *)

\* UPDATE jobs SET status = 'delayed', attempt = nextAttempt
Reschedule(l) ==
  /\ lanePc[l] = "fail"
  /\ ~LastAttempt(l)
  /\ WriteRow(claim[l], "delayed", env[l] + 1)
  /\ Goto(l, "save")

\* UPDATE jobs SET status = 'dead', attempt = nextAttempt
Bury(l) ==
  /\ lanePc[l] = "fail"
  /\ LastAttempt(l)
  /\ WriteRow(claim[l], "dead", env[l] + 1)
  /\ Goto(l, "clear")

\* A variant with a bug: the envelope keeps the attempt it had.
SaveEnvelopeUnchanged(l) ==
  /\ lanePc[l] = "save"
  /\ SetEnvelope(claim[l], env[l])
  /\ Goto(l, "delay")

\* A variant with a bug: the job is not put back into the queue.
SaveEnvelopeOnly(l) ==
  /\ lanePc[l] = "save"
  /\ SetEnvelope(claim[l], env[l] + 1)
  /\ Goto(l, "release")

\* HSET jobs:data with attempt: nextAttempt
SaveEnvelope(l) ==
  /\ lanePc[l] = "save"
  /\ SetEnvelope(claim[l], env[l] + 1)
  /\ Goto(l, "delay")

\* ZADD queue:delayed
DelayJob(l) ==
  /\ lanePc[l] = "delay"
  /\ ZAdd(claim[l])
  /\ Goto(l, "release")

-----------------------------------------------------------------------------
(* releaseJob *)

\* LREM processing:<worker> 0 id
ReleaseJob(l) ==
  /\ lanePc[l] = "release"
  /\ LRem(Host[l], claim[l])
  /\ Goto(l, "unbeat")

\* HDEL jobs:heartbeats.  A beat the timer sent before the reply came back
\* runs after the HDEL and leaves the field set.
Unbeat(l) ==
  /\ lanePc[l] = "unbeat"
  /\ \E h \in {"none", "fresh"} : SetHeartbeat(claim[l], h)
  /\ BackToIdle(l)

-----------------------------------------------------------------------------
(* A store call fails, or its reply is lost after it took effect *)

\* in claimNextJob, after the LMOVE or for want of its reply: the lane sleeps and
\* forgets the job.  An LMOVE that does nothing only costs time.
FaultInClaim(l) ==
  /\ "worker" \in Fallible
  /\ lanePc[l] \in {"beat", "fetch"}
  /\ BackToIdle(l)
  /\ UNCHANGED storeVars

\* in the try block of processJob, the calls after the handler included
FaultInTry(l) ==
  /\ "worker" \in Fallible
  /\ lanePc[l] \in {"activate", "complete", "clear", "release", "unbeat"}
  /\ ~caught[l]
  /\ env[l] # None
  /\ Catch(l)
  /\ UNCHANGED storeVars

\* in handleFailure: runLane logs the error and takes the next job
FaultInHandleFailure(l) ==
  /\ "worker" \in Fallible
  /\ \/ caught[l] /\ lanePc[l] \in Beating
     \/ env[l] = None /\ lanePc[l] = "activate"
  /\ BackToIdle(l)
  /\ UNCHANGED storeVars

-----------------------------------------------------------------------------
LaneStep(l) ==
  \/ StopLane(l) \/ BeginClaim(l) \/ PollNext(l) \/ ClaimJob(l)
  \/ FirstBeat(l) \/ FetchEnvelope(l) \/ Activate(l) \/ Confound(l)
  \/ Succeed(l) \/ Reject(l) \/ Complete(l) \/ ClearEnvelope(l)
  \/ Reschedule(l) \/ Bury(l) \/ SaveEnvelope(l) \/ DelayJob(l)
  \/ ReleaseJob(l) \/ Unbeat(l)

LaneFault(l) == FaultInClaim(l) \/ FaultInTry(l) \/ FaultInHandleFailure(l)

WorkerStep(w) == StartWorker(w) \/ DrainWorker(w) \/ ExitWorker(w)
=============================================================================
