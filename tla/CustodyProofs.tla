--------------------------- MODULE CustodyProofs ---------------------------
(***************************************************************************)
(* Custody of jobs: drains are clean (DrainedCleanly, from                 *)
(* DrainInvariant), no accepted job is forgotten (NoJobForgotten, from     *)
(* CustodyInvariant), and the system implements the safety of the contract *)
(* AtLeastOnce (ContractIsKept, from both).  For any number of jobs,       *)
(* workers, promoters and reapers, with workers that crash and calls that  *)
(* fail.                                                                   *)
(***************************************************************************)
EXTENDS JobQueueProofs

-----------------------------------------------------------------------------
(* The registry *)

LEMMA RegistryStep ==
  ASSUME TypeOK, RegistryCoversWorkers, [Next]_vars
  PROVE  RegistryCoversWorkers'
<1> USE HostAssumption DEF TypeOK, StoreTypeOK, WorkerTypeOK, RegistryCoversWorkers
<1>1. CASE ApiNext \/ ReaperNext \/ TimeNext \/ UNCHANGED vars
  <2>1. workersActive' = workersActive
    BY <1>1, ApiFrame, ReaperFrame, TimeFrame
  <2>2. UNCHANGED workerVars
    BY <1>1 DEF ApiNext, ReaperNext, TimeNext, vars
  <2>3. QED
    BY <2>1, <2>2 DEF workerVars
<1>2. ASSUME NEW w \in Workers, StartWorker(w)
      PROVE  RegistryCoversWorkers'
  BY <1>2 DEF StartWorker, SetRegistry
<1>3. ASSUME NEW w \in Workers, CrashWorker(w)
      PROVE  RegistryCoversWorkers'
  BY <1>3 DEF CrashWorker, storeVars
<1>4. ASSUME NEW w \in Workers, DrainWorker(w)
      PROVE  RegistryCoversWorkers'
  BY <1>4 DEF DrainWorker, storeVars, laneVars
<1>5. ASSUME NEW w \in Workers, ExitWorker(w)
      PROVE  RegistryCoversWorkers'
  <2>1. \A l \in Lanes : lanePc[l] # "stopped" => Host[l] # w
    BY <1>5 DEF ExitWorker, LanesOf
  <2>2. QED
    BY <1>5, <2>1 DEF ExitWorker, SetRegistry, laneVars
<1>6. ASSUME NEW l \in Lanes, LaneStep(l) \/ Heartbeat(l) \/ LaneFault(l)
      PROVE  RegistryCoversWorkers'
  <2>1. workersActive' = workersActive /\ workerState' = workerState
    BY <1>6, LaneFrame
  <2>2. lanePc[l] # "stopped"
    BY <1>6, LaneRows
  <2>3. \A m \in Lanes : m # l => lanePc'[m] = lanePc[m]
    BY <1>6, OtherLanesStay
  <2>4. QED
    BY <2>1, <2>2, <2>3
<1>7. QED
  BY <1>1, <1>2, <1>3, <1>4, <1>5, <1>6 DEF Next, WorkerNext, WorkerStep

-----------------------------------------------------------------------------
(* Envelopes *)

\* History only grows.
LEMMA SettledGrows ==
  ASSUME [Next]_vars
  PROVE  settled \subseteq settled'
<1>1. CASE ApiNext \/ ReaperNext \/ TimeNext \/ UNCHANGED vars
  BY <1>1, ApiFrame, ReaperFrame, TimeFrame
<1>2. ASSUME NEW w \in Workers, WorkerStep(w) \/ CrashWorker(w)
      PROVE  settled \subseteq settled'
  BY <1>2, LivesKeepStore
<1>3. ASSUME NEW l \in Lanes, LaneStep(l) \/ Heartbeat(l) \/ LaneFault(l)
      PROVE  settled \subseteq settled'
  BY <1>3, LaneRows DEF Activate, Complete, Reschedule, Bury, WriteRow
<1>4. QED
  BY <1>1, <1>2, <1>3 DEF Next, WorkerNext

LEMMA DroppedGrows ==
  ASSUME [Next]_vars
  PROVE  dropped \subseteq dropped'
BY DEF Next, ApiNext, WorkerNext, ReaperNext, TimeNext, vars

\* A lane or a reaper deletes an envelope right after the UPDATE that made the
\* row final, and nobody else deletes one.
LEMMA EnvelopeStep ==
  ASSUME TypeOK, EnvelopeUntilSettled, [Next]_vars
  PROVE  EnvelopeUntilSettled'
<1> USE SettledGrows DEF EnvelopeUntilSettled
<1>1. CASE ApiNext
  <2>1. UNCHANGED <<workerVars, reaperVars>>
    BY <1>1 DEF ApiNext
  <2>2. ASSUME NEW j \in Jobs, request'[j] \in {"stored", "accepted"}, jobData'[j] = None
        PROVE  request[j] \in {"stored", "accepted"} /\ jobData[j] = None
    <3> USE NoneAssumption DEF TypeOK, StoreTypeOK, ApiTypeOK
    <3>1. ASSUME NEW i \in Jobs, Enqueue(i) \/ FailRequest(i)
          PROVE  request[j] \in {"stored", "accepted"} /\ jobData[j] = None
      BY <2>2, <3>1
         DEF Enqueue, LookUpKey, InsertJob, CreateRow, RejectInsert, RememberKey,
             StoreEnvelope, PushJob, FailRequest, storeVars, WriteRow, SetEnvelope, ZAdd,
             LPush
    <3>2. ASSUME NEW p \in Promoters, Promote(p) \/ FailPromotion(p)
          PROVE  request[j] \in {"stored", "accepted"} /\ jobData[j] = None
      BY <2>2, <3>2
         DEF Promote, FailPromotion, ScanDue, TakeDue, MissDue, EndPromotion, LoadDue, PushDue,
             MarkQueued, submitVars, storeVars, WriteRow, ZRem, LPush
    <3>3. QED
      BY <1>1, <3>1, <3>2 DEF ApiNext
  <2>3. QED
    BY <2>1, <2>2 DEF workerVars, reaperVars
<1>2. CASE WorkerNext
  <2>1. UNCHANGED <<apiVars, reaperVars>>
    BY <1>2 DEF WorkerNext
  <2>2. ASSUME NEW l \in Lanes, lanePc'[l] = "clear"
        PROVE  claim'[l] \in settled'
    <3> USE <2>2 DEF TypeOK, WorkerTypeOK
    <3>1. ASSUME NEW w \in Workers, WorkerStep(w) \/ CrashWorker(w)
          PROVE  claim'[l] \in settled'
      <4>1. settled \subseteq settled' /\ lanePc[l] = "clear" /\ claim'[l] = claim[l]
        BY <3>1, LivesMoveLanes, LivesKeepStore
      <4>2. QED
        BY <4>1
    <3>2. ASSUME NEW m \in Lanes, LaneStep(m) \/ Heartbeat(m) \/ LaneFault(m), m # l
          PROVE  claim'[l] \in settled'
      <4>1. lanePc'[l] = lanePc[l] /\ claim'[l] = claim[l]
        BY <3>2, OtherLanesStay
      <4>2. QED
        BY <4>1
    <3>3. CASE Complete(l) \/ Bury(l)
      <4>1. claim[l] \in Jobs /\ claim'[l] = claim[l]
        BY <3>3 DEF Complete, Bury, Goto, Jobless
      <4>2. claim[l] \in settled'
        BY <3>3 DEF Complete, Bury, WriteRow
      <4>3. QED
        BY <4>1, <4>2
    <3>4. CASE \/ Heartbeat(l) \/ LaneFault(l)
               \/ LaneStep(l) /\ ~Complete(l) /\ ~Bury(l)
      <4> USE DEF Goto, BackToIdle, Catch
      <4>1. CASE \/ StopLane(l) \/ BeginClaim(l) \/ PollNext(l) \/ ClaimJob(l)
                 \/ FirstBeat(l) \/ FetchEnvelope(l)
        BY <4>1 DEF StopLane, BeginClaim, PollNext, ClaimJob, FirstBeat, FetchEnvelope
      <4>2. CASE Activate(l) \/ Confound(l) \/ Succeed(l) \/ Reject(l) \/ ClearEnvelope(l)
        BY <4>2 DEF Activate, Confound, Succeed, Reject, ClearEnvelope
      <4>3. CASE \/ Reschedule(l) \/ SaveEnvelope(l) \/ DelayJob(l) \/ ReleaseJob(l)
                 \/ Unbeat(l)
        BY <4>3 DEF Reschedule, SaveEnvelope, DelayJob, ReleaseJob, Unbeat
      <4>4. CASE Heartbeat(l) \/ LaneFault(l)
        BY <4>4 DEF Heartbeat, LaneFault, FaultInClaim, FaultInTry, FaultInHandleFailure,
                    workerVars
      <4>5. QED
        BY <3>4, <4>1, <4>2, <4>3, <4>4 DEF LaneStep
    <3>5. QED
      BY <1>2, <3>1, <3>2, <3>3, <3>4 DEF WorkerNext, LaneStep
  <2>3. ASSUME NEW j \in Jobs, jobData'[j] = None, jobData[j] # None
        PROVE  j \in settled'
    <3> USE <2>3, NoneAssumption DEF TypeOK, StoreTypeOK, WorkerTypeOK
    <3>1. ASSUME NEW w \in Workers, WorkerStep(w) \/ CrashWorker(w)
          PROVE  FALSE
      BY <3>1, LivesKeepStore
    <3>2. ASSUME NEW l \in Lanes, LaneStep(l) \/ Heartbeat(l) \/ LaneFault(l),
                 ~SaveEnvelope(l), ~ClearEnvelope(l)
          PROVE  FALSE
      BY <3>2, LaneStore
    <3>3. ASSUME NEW l \in Lanes, SaveEnvelope(l)
          PROVE  FALSE
      <4>1. env[l] + 1 \in Nat
        BY <3>3 DEF SaveEnvelope, Concluding, Attempts
      <4>2. QED
        BY <3>3, <4>1 DEF SaveEnvelope, SetEnvelope
    <3>4. ASSUME NEW l \in Lanes, ClearEnvelope(l)
          PROVE  j \in settled'
      BY <3>4 DEF ClearEnvelope, SetEnvelope
    <3>5. QED
      BY <1>2, <3>1, <3>2, <3>3, <3>4 DEF WorkerNext
  <2>4. QED
    BY <2>1, <2>2, <2>3 DEF apiVars, submitVars, promoterVars, reaperVars
<1>3. CASE ReaperNext
  <2>1. UNCHANGED <<apiVars, workerVars>>
    BY <1>3 DEF ReaperNext
  <2>2. ASSUME NEW r \in Reapers, reaperPc'[r] = "drop"
        PROVE  orphan'[r] \in settled'
    <3> USE <2>2 DEF TypeOK, ReaperTypeOK
    <3>1. ASSUME NEW w \in Workers, ExpireLock(w)
          PROVE  orphan'[r] \in settled'
      BY <3>1 DEF ExpireLock, tickVars
    <3>2. ASSUME NEW q \in Reapers, Reap(q) \/ ReaperFault(q), q # r
          PROVE  orphan'[r] \in settled'
      <4>1. reaperPc'[r] = reaperPc[r] /\ orphan'[r] = orphan[r]
        BY <3>2
           DEF Reap, ReaperFault, BeginTick, LockWorker, SkipWorker, EndTick, ListProcessing,
               SpareJob, CondemnJob, EndVisit, TakeOrphan, MissOrphan, UnbeatOrphan, LoadOrphan,
               SelectOrphan, MarkDelayed, MarkDead, SaveOrphan, DelayOrphan, DropOrphan,
               FaultInReapWorker, FaultInTick, ReaperGoto, NextVictim, LeaveWorker
      <4>2. QED
        BY <4>1
    <3>3. CASE MarkDead(r)
      <4>1. orphan[r] \in Jobs /\ orphan'[r] = orphan[r]
        BY <3>3 DEF MarkDead, ReaperGoto, Requeueing
      <4>2. orphan[r] \in settled'
        BY <3>3 DEF MarkDead, WriteRow
      <4>3. QED
        BY <4>1, <4>2
    <3>4. CASE (Reap(r) \/ ReaperFault(r)) /\ ~MarkDead(r)
      BY <3>4
         DEF Reap, ReaperFault, BeginTick, LockWorker, SkipWorker, EndTick, ListProcessing,
             SpareJob, CondemnJob, EndVisit, TakeOrphan, MissOrphan, UnbeatOrphan, LoadOrphan,
             SelectOrphan, MarkDelayed, SaveOrphan, DelayOrphan, DropOrphan,
             FaultInReapWorker, FaultInTick, ReaperGoto, NextVictim, LeaveWorker
    <3>5. QED
      BY <1>3, <3>1, <3>2, <3>3, <3>4 DEF ReaperNext
  <2>3. ASSUME NEW j \in Jobs, jobData'[j] = None, jobData[j] # None
        PROVE  j \in settled'
    <3> USE <2>3, NoneAssumption DEF TypeOK, StoreTypeOK, ReaperTypeOK
    <3>1. ASSUME NEW r \in Reapers, Reap(r) \/ ReaperFault(r), ~SaveOrphan(r), ~DropOrphan(r)
          PROVE  FALSE
      BY <3>1
         DEF Reap, ReaperFault, BeginTick, LockWorker, SkipWorker, EndTick, ListProcessing,
             SpareJob, CondemnJob, EndVisit, TakeOrphan, MissOrphan, UnbeatOrphan, LoadOrphan,
             SelectOrphan, MarkDelayed, MarkDead, DelayOrphan, FaultInReapWorker, FaultInTick,
             storeVars, LRem, ZAdd, SetHeartbeat, WriteRow
    <3>2. ASSUME NEW r \in Reapers, SaveOrphan(r)
          PROVE  FALSE
      <4>1. orphanEnv[r] + 1 \in Nat
        BY <3>2 DEF SaveOrphan, Attempts
      <4>2. QED
        BY <3>2, <4>1 DEF SaveOrphan, SetEnvelope
    <3>3. ASSUME NEW r \in Reapers, DropOrphan(r)
          PROVE  j \in settled'
      BY <3>3 DEF DropOrphan, SetEnvelope
    <3>4. ASSUME NEW w \in Workers, ExpireLock(w)
          PROVE  FALSE
      BY <3>4 DEF ExpireLock, storeVars
    <3>5. QED
      BY <1>3, <3>1, <3>2, <3>3, <3>4 DEF ReaperNext
  <2>4. QED
    BY <2>1, <2>2, <2>3 DEF apiVars, submitVars, promoterVars, workerVars
<1>4. CASE TimeNext \/ UNCHANGED vars
  BY <1>4
     DEF TimeNext, ExpireKey, Ripen, AgeHeartbeat, Age, vars, storeVars, apiVars, submitVars,
         promoterVars, workerVars, reaperVars
<1>5. QED
  BY <1>1, <1>2, <1>3, <1>4 DEF Next

-----------------------------------------------------------------------------
(* Shutdown *)

LEMMA DrainInit == Init => DrainInvariant
<1> SUFFICES ASSUME Init PROVE DrainInvariant
  OBVIOUS
<1>1. TypeOK /\ AcceptedFirst
  BY InitType, AcceptedInit
<1>2. RegistryCoversWorkers
  BY HostAssumption DEF Init, WorkerInit, RegistryCoversWorkers
<1>3. EnvelopeUntilSettled
  BY DEF Init, ApiInit, WorkerInit, ReaperInit, EnvelopeUntilSettled
<1>4. LivesAreAllowed /\ OnlySettledConfound
  BY DEF Init, WorkerInit, LivesAreAllowed, OnlySettledConfound
<1>5. ListsAreWorkedOff
  BY SigtermedAssumption DEF Init, StoreInit, ListsAreWorkedOff
<1>6. QED
  BY <1>1, <1>2, <1>3, <1>4, <1>5 DEF DrainInvariant

LEMMA LivesStep ==
  ASSUME TypeOK, RegistryCoversWorkers, LivesAreAllowed, [Next]_vars
  PROVE  LivesAreAllowed'
<1> USE DEF TypeOK, WorkerTypeOK, LivesAreAllowed
<1>1. ASSUME NEW w \in Workers, WorkerStep(w) \/ CrashWorker(w)
      PROVE  LivesAreAllowed'
  BY <1>1 DEF WorkerStep, StartWorker, DrainWorker, ExitWorker, CrashWorker,
              RegistryCoversWorkers
<1>2. ASSUME NEW l \in Lanes, LaneStep(l) \/ Heartbeat(l) \/ LaneFault(l)
      PROVE  workerState' = workerState
  BY <1>2, LaneFrame
<1>3. CASE WorkerNext
  BY <1>1, <1>2, <1>3 DEF WorkerNext
<1>4. CASE ApiNext \/ ReaperNext \/ TimeNext \/ UNCHANGED vars
  BY <1>4 DEF ApiNext, ReaperNext, TimeNext, vars, workerVars
<1>5. QED
  BY <1>3, <1>4 DEF Next

\* A lane finds no envelope only for a job that was accepted, so settled.
LEMMA ConfoundStep ==
  ASSUME TypeOK, EnvelopeUntilSettled, AcceptedFirst, OnlySettledConfound, [Next]_vars
  PROVE  OnlySettledConfound'
<1> USE DEF TypeOK, WorkerTypeOK, OnlySettledConfound
<1>1. settled \subseteq settled'
  BY SettledGrows
<1> SUFFICES ASSUME NEW l \in Lanes, lanePc'[l] \in {"activate", "run"}, env'[l] = None
             PROVE  claim'[l] \in settled'
  OBVIOUS
<1>2. CASE FetchEnvelope(l)
  <2>1. claim[l] \in Jobs /\ claim'[l] = claim[l] /\ jobData[claim[l]] = None
    BY <1>2 DEF FetchEnvelope, Jobless
  <2>2. Accepted(claim[l])
    BY <2>1 DEF AcceptedFirst, Circulates
  <2>3. claim[l] \in settled
    BY <2>1, <2>2 DEF EnvelopeUntilSettled, Accepted
  <2>4. QED
    BY <1>1, <2>1, <2>3
<1>3. CASE ~FetchEnvelope(l)
  <2>1. lanePc[l] \in {"activate", "run"} /\ env'[l] = env[l] /\ claim'[l] = claim[l]
    <3>1. ASSUME NEW w \in Workers, WorkerStep(w) \/ CrashWorker(w)
          PROVE  lanePc'[l] = lanePc[l] /\ env'[l] = env[l] /\ claim'[l] = claim[l]
      BY <3>1, LivesMoveLanes
    <3>2. ASSUME NEW m \in Lanes, m # l, LaneStep(m) \/ Heartbeat(m) \/ LaneFault(m)
          PROVE  lanePc'[l] = lanePc[l] /\ env'[l] = env[l] /\ claim'[l] = claim[l]
      BY <3>2, OtherLanesStay
    <3>3. ASSUME LaneStep(l) \/ Heartbeat(l) \/ LaneFault(l)
          PROVE  lanePc[l] \in {"activate", "run"} /\ env'[l] = env[l] /\ claim'[l] = claim[l]
      <4> USE DEF Goto, BackToIdle, Catch
      <4>1. CASE \/ StopLane(l) \/ BeginClaim(l) \/ PollNext(l) \/ ClaimJob(l)
                 \/ FirstBeat(l)
        BY <4>1 DEF StopLane, BeginClaim, PollNext, ClaimJob, FirstBeat
      <4>2. CASE Activate(l) \/ Confound(l) \/ Succeed(l) \/ Reject(l) \/ ClearEnvelope(l)
        BY <4>2 DEF Activate, Confound, Succeed, Reject, ClearEnvelope
      <4>3. CASE Complete(l) \/ Reschedule(l) \/ Bury(l) \/ SaveEnvelope(l) \/ DelayJob(l)
        BY <4>3 DEF Complete, Reschedule, Bury, SaveEnvelope, DelayJob
      <4>4. CASE ReleaseJob(l) \/ Unbeat(l)
        BY <4>4 DEF ReleaseJob, Unbeat
      <4>5. CASE Heartbeat(l) \/ LaneFault(l)
        BY <4>5 DEF Heartbeat, LaneFault, FaultInClaim, FaultInTry, FaultInHandleFailure,
                    workerVars
      <4>6. QED
        BY <1>3, <3>3, <4>1, <4>2, <4>3, <4>4, <4>5 DEF LaneStep
    <3>4. CASE WorkerNext
      BY <3>1, <3>2, <3>3, <3>4 DEF WorkerNext
    <3>5. CASE ApiNext \/ ReaperNext \/ TimeNext \/ UNCHANGED vars
      BY <3>5 DEF ApiNext, ReaperNext, TimeNext, vars, workerVars
    <3>6. QED
      BY <3>4, <3>5 DEF Next
  <2>2. QED
    BY <1>1, <2>1
<1>4. QED
  BY <1>2, <1>3

\* No list gains a job but by a claim, and no lane gives a job up but by
\* releasing it, or for want of the envelope of a settled one.
LEMMA ListsStep ==
  ASSUME CleanShutdown, DrainInvariant, [Next]_vars
  PROVE  ListsAreWorkedOff'
<1> USE HostAssumption, SigtermedAssumption
    DEF DrainInvariant, TypeOK, StoreTypeOK, WorkerTypeOK
<1>1. settled \subseteq settled'
  BY SettledGrows
<1> SUFFICES ASSUME NEW w \in Sigtermed, workerState'[w] # "crashed",
                    NEW j \in processing'[w], j \notin settled'
             PROVE  \E l \in LanesOf(w) : BusyWith(l, j)'
  BY DEF ListsAreWorkedOff, LanesOf
<1> DEFINE Busy == \E l \in LanesOf(w) : BusyWith(l, j)
<1>2. ASSUME workerState[w] # "crashed", j \in processing[w]
      PROVE  Busy
  BY <1>1, <1>2 DEF ListsAreWorkedOff
<1>3. CASE ApiNext \/ ReaperNext \/ TimeNext \/ UNCHANGED vars
  <2>1. UNCHANGED workerVars /\ j \in processing[w]
    BY <1>3, ApiFrame, ReaperFrame, TimeFrame
  <2>2. QED
    BY <1>2, <2>1 DEF BusyWith, LanesOf, workerVars
<1>4. ASSUME NEW v \in Workers, WorkerStep(v) \/ CrashWorker(v)
      PROVE  \E l \in LanesOf(w) : BusyWith(l, j)'
  <2>1. processing' = processing
    BY <1>4, LivesKeepStore
  <2>2. CASE v # w \/ DrainWorker(v) \/ ExitWorker(v)
    <3>1. \A l \in LanesOf(w) : lanePc'[l] = lanePc[l] /\ claim'[l] = claim[l]
      <4>1. ~(StartWorker(v) \/ CrashWorker(v)) \/ v # w
        BY <2>2 DEF DrainWorker, ExitWorker, StartWorker, CrashWorker
      <4>2. QED
        BY <1>4, <4>1, LivesMoveLanes DEF LanesOf
    <3>2. workerState[w] # "crashed"
      BY <1>4, <2>2 DEF WorkerStep, StartWorker, DrainWorker, ExitWorker, CrashWorker
    <3>3. QED
      BY <1>2, <2>1, <3>1, <3>2 DEF BusyWith, LanesOf
  <2>3. CASE v = w /\ CrashWorker(v)
    BY <2>3 DEF CrashWorker
  <2>4. CASE v = w /\ StartWorker(v)
    <3>1. workerState[w] \in {"off", "exited"}
      BY <2>4 DEF StartWorker, LivesAreAllowed, CleanShutdown
    <3>2. \A l \in LanesOf(w) : ~BusyWith(l, j)
      BY <3>1 DEF RegistryCoversWorkers, LanesOf, BusyWith
    <3>3. QED
      BY <1>2, <2>1, <3>1, <3>2
  <2>5. QED
    BY <1>4, <2>2, <2>3, <2>4 DEF WorkerStep
<1>5. ASSUME NEW l \in Lanes, LaneStep(l) \/ Heartbeat(l) \/ LaneFault(l)
      PROVE  \E m \in LanesOf(w) : BusyWith(m, j)'
  <2>1. ~LaneFault(l)
    BY DEF LaneFault, FaultInClaim, FaultInTry, FaultInHandleFailure, CleanShutdown
  <2>2. /\ workerState' = workerState
        /\ \A m \in Lanes : m # l => lanePc'[m] = lanePc[m] /\ claim'[m] = claim[m]
    BY <1>5, LaneFrame, OtherLanesStay
  <2>3. CASE ClaimJob(l)
    <3>1. CASE Host[l] = w /\ j = Rightmost(scan[l])
      BY <2>3, <3>1 DEF ClaimJob, BusyWith, LanesOf
    <3>2. CASE ~(Host[l] = w /\ j = Rightmost(scan[l]))
      <4>1. j \in processing[w]
        BY <2>3, <3>2 DEF ClaimJob, LMove
      <4>2. PICK m \in LanesOf(w) : BusyWith(m, j)
        BY <1>2, <2>2, <4>1
      <4>3. m # l /\ m \in Lanes
        BY <2>3, <4>2 DEF ClaimJob, BusyWith, LanesOf
      <4>4. QED
        BY <2>2, <4>2, <4>3 DEF BusyWith
    <3>3. QED
      BY <3>1, <3>2
  <2>4. CASE ReleaseJob(l)
    <3>1. j \in processing[w] /\ ~(Host[l] = w /\ claim[l] = j)
      BY <2>4 DEF ReleaseJob, LRem
    <3>2. PICK m \in LanesOf(w) : BusyWith(m, j)
      BY <1>2, <2>2, <3>1
    <3>3. m # l /\ m \in Lanes
      BY <3>1, <3>2 DEF BusyWith, LanesOf
    <3>4. QED
      BY <2>2, <3>2, <3>3 DEF BusyWith
  <2>5. CASE ~ClaimJob(l) /\ ~ReleaseJob(l)
    <3>1. processing' = processing
      BY <1>5, <2>5, LaneStore
    <3>2. PICK m \in LanesOf(w) : BusyWith(m, j)
      BY <1>2, <2>2, <3>1
    <3>3. CASE m # l
      BY <2>2, <3>2, <3>3 DEF BusyWith, LanesOf
    <3>4. CASE m = l
      <4>1. ~Confound(l)
        BY <1>1, <3>2, <3>4 DEF Confound, OnlySettledConfound, BusyWith
      <4>2. BusyWith(l, j)'
        <5> USE <3>2, <3>4 DEF Goto, BusyWith
        <5>1. CASE FirstBeat(l) \/ FetchEnvelope(l) \/ Activate(l) \/ Succeed(l) \/ Reject(l)
          BY <5>1 DEF FirstBeat, FetchEnvelope, Activate, Succeed, Reject, Catch
        <5>2. CASE \/ Complete(l) \/ ClearEnvelope(l) \/ Reschedule(l) \/ Bury(l)
                   \/ SaveEnvelope(l) \/ DelayJob(l) \/ Heartbeat(l)
          BY <5>2 DEF Complete, ClearEnvelope, Reschedule, Bury, SaveEnvelope, DelayJob,
                      Heartbeat, workerVars
        <5>3. CASE StopLane(l) \/ BeginClaim(l) \/ PollNext(l) \/ Unbeat(l)
          BY <5>3 DEF StopLane, BeginClaim, PollNext, Unbeat
        <5>4. QED
          BY <1>5, <2>1, <2>5, <4>1, <5>1, <5>2, <5>3 DEF LaneStep
      <4>3. QED
        BY <3>2, <3>4, <4>2
    <3>5. QED
      BY <3>3, <3>4
  <2>6. QED
    BY <2>3, <2>4, <2>5
<1>6. QED
  BY <1>3, <1>4, <1>5 DEF Next, WorkerNext

LEMMA DrainStep ==
  ASSUME CleanShutdown, DrainInvariant, [Next]_vars
  PROVE  DrainInvariant'
<1>1. ListsAreWorkedOff'
  BY ListsStep
<1> USE DEF DrainInvariant
<1>2. TypeOK' /\ AcceptedFirst'
  BY TypeStep, AcceptedStep
<1>3. RegistryCoversWorkers' /\ EnvelopeUntilSettled'
  BY RegistryStep, EnvelopeStep
<1>4. LivesAreAllowed' /\ OnlySettledConfound'
  BY LivesStep, ConfoundStep
<1>5. QED
  BY <1>1, <1>2, <1>3, <1>4

\* Until its process is gone a lane answers for every unsettled job in the
\* processing list of a worker that may be told to drain.
THEOREM DrainsAreOrderly ==
  ASSUME CleanShutdown
  PROVE  Spec => []DrainInvariant
<1>1. Init => DrainInvariant
  BY DrainInit
<1>2. DrainInvariant /\ [Next]_vars => DrainInvariant'
  BY DrainStep
<1>3. QED
  BY <1>1, <1>2, PTL DEF Spec

\* FR-7: a worker that drains settles, reschedules or hands back every job it
\* has claimed before it deregisters, as long as its calls do not fail and it
\* has not taken over the list of a predecessor that crashed.
THEOREM DrainsAreClean ==
  ASSUME CleanShutdown
  PROVE  Spec => []DrainedCleanly
<1>1. ASSUME DrainInvariant
      PROVE  DrainedCleanly
  <2> SUFFICES ASSUME NEW w \in Workers, workerState[w] = "exited",
                      NEW j \in processing[w]
               PROVE  j \in settled
    BY DEF DrainedCleanly
  <2>1. w \in Sigtermed
    BY <1>1 DEF DrainInvariant, LivesAreAllowed
  <2>2. \A l \in LanesOf(w) : ~BusyWith(l, j)
    BY <1>1 DEF DrainInvariant, RegistryCoversWorkers, LanesOf, BusyWith
  <2>3. QED
    BY <1>1, <2>1, <2>2 DEF DrainInvariant, ListsAreWorkedOff
<1>2. QED
  BY <1>1, DrainsAreOrderly, PTL

-----------------------------------------------------------------------------
(* Custody *)

\* A step that touches none of the places a job can be in leaves it where it is.
LEMMA CustodyUnmoved ==
  ASSUME NEW j \in Jobs, InSafeCustody(j),
         UNCHANGED <<ready, delayed, processing, workersActive, lanePc, claim,
                     promoterPc, promoting, reaperPc, orphan>>
  PROVE  InSafeCustody(j)'
BY SameReady DEF InSafeCustody, InList, AboutToRelease, PromoterHolds, PromoterHand,
                 ReaperHolds, ReaperHand

\* A processing list entry keeps counting when no list loses the job and no
\* lane reaches the point of releasing it.
LEMMA InListKept ==
  ASSUME NEW j \in Jobs,
         workersActive \in SUBSET Workers,
         workersActive \subseteq workersActive',
         \A w \in Workers : j \in processing[w] => j \in processing'[w],
         \A l \in Lanes : lanePc'[l] = "release" /\ claim'[l] = j
                            => lanePc[l] = "release" /\ claim[l] = j,
         InList(j)
  PROVE  InList(j)'
<1>1. PICK w \in workersActive : j \in processing[w] /\ ~AboutToRelease(w, j)
  BY DEF InList
<1>2. w \in workersActive' /\ j \in processing'[w]
  BY <1>1
<1>3. ~AboutToRelease(w, j)'
  BY <1>1 DEF AboutToRelease, LanesOf
<1>4. QED
  BY <1>2, <1>3 DEF InList

\* Requests and promoters, at any call, leave a job in custody, or put the job
\* of a POST there, unless a promoter fails with it in hand.
LEMMA ApiKeepsCustody ==
  ASSUME TypeOK, EnvelopeUntilSettled, ApiNext,
         NEW j \in Jobs, Accepted(j)', j \notin settled', j \notin dropped',
         Accepted(j) => InSafeCustody(j)
  PROVE  InSafeCustody(j)'
<1> USE DEF TypeOK, StoreTypeOK, ApiTypeOK
<1>1. UNCHANGED <<workerVars, reaperVars>>
  BY DEF ApiNext
<1>2. settled \subseteq settled' /\ dropped \subseteq dropped'
  BY SettledGrows DEF Next, ApiNext, WorkerNext, ReaperNext
<1>3. UNCHANGED <<processing, workersActive>>
  BY ApiFrame
<1>4. (InList(j) => InList(j)') /\ (ReaperHolds(j) => ReaperHolds(j)')
  BY <1>1, <1>3 DEF InList, AboutToRelease, ReaperHolds, ReaperHand, workerVars, reaperVars
<1>5. ASSUME NEW i \in Jobs, Enqueue(i) \/ FailRequest(i)
      PROVE  InSafeCustody(j)'
  <2>1. UNCHANGED promoterVars
    BY <1>5 DEF Enqueue, LookUpKey, InsertJob, CreateRow, RejectInsert, RememberKey,
                StoreEnvelope, PushJob, FailRequest
  <2>2. PromoterHolds(j) => PromoterHolds(j)'
    BY <2>1 DEF PromoterHolds, PromoterHand, promoterVars
  <2>3. CASE PushJob(i) /\ i = j
    <3>1. CASE j \in Deferred
      BY <2>3, <3>1 DEF PushJob, ZAdd, InSafeCustody
    <3>2. CASE j \notin Deferred
      BY <2>3, <3>2, LPushReady DEF PushJob, InSafeCustody
    <3>3. QED
      BY <3>1, <3>2
  <2>4. CASE ~(PushJob(i) /\ i = j)
    <3>1. Accepted(j)
      BY <1>5, <2>4 DEF Accepted, Enqueue, LookUpKey, InsertJob, CreateRow, RejectInsert,
                        RememberKey, StoreEnvelope, PushJob, FailRequest
    <3>2. InSafeCustody(j)
      BY <3>1
    <3>3. InReady(j) => InReady(j)'
      BY <1>5, SameReady, LPushReady
         DEF Enqueue, LookUpKey, InsertJob, CreateRow, RejectInsert, RememberKey,
             StoreEnvelope, PushJob, FailRequest, storeVars, WriteRow, SetEnvelope, ZAdd
    <3>4. delayed[j] # "out" => delayed'[j] # "out"
      BY <1>5 DEF Enqueue, LookUpKey, InsertJob, CreateRow, RejectInsert, RememberKey,
                  StoreEnvelope, PushJob, FailRequest, storeVars, WriteRow, SetEnvelope, ZAdd,
                  LPush
    <3>5. QED
      BY <1>4, <2>2, <3>2, <3>3, <3>4 DEF InSafeCustody
  <2>5. QED
    BY <2>3, <2>4
<1>6. ASSUME NEW p \in Promoters, Promote(p)
      PROVE  InSafeCustody(j)'
  <2>2. Accepted(j)
    BY <1>6 DEF Accepted, Promote, FailPromotion, ScanDue, TakeDue, MissDue, EndPromotion,
                LoadDue, PushDue, MarkQueued, submitVars
  <2>3. InSafeCustody(j)
    BY <2>2
  <2>4. InReady(j) => InReady(j)'
    <3>1. CASE PushDue(p)
      BY <3>1, LPushReady DEF PushDue
    <3>2. CASE ~PushDue(p)
      BY <1>6, <3>2, SameReady
         DEF Promote, FailPromotion, ScanDue, TakeDue, MissDue, EndPromotion, LoadDue,
             MarkQueued, storeVars, WriteRow, ZRem
    <3>3. QED
      BY <3>1, <3>2
  <2>5. CASE TakeDue(p, j)
    <3>1. promoterPc'[p] = "load" /\ promoting'[p] = j
      BY <2>5 DEF TakeDue
    <3>2. QED
      BY <3>1 DEF InSafeCustody, PromoterHolds, PromoterHand
  <2>6. CASE PushDue(p) /\ promoting[p] = j
    BY <2>6, LPushReady DEF PushDue, InSafeCustody
  <2>7. CASE LoadDue(p) /\ promoting[p] = j
    <3>1. jobData[j] # None
      BY <1>2, <2>2 DEF EnvelopeUntilSettled, Accepted
    <3>2. promoterPc'[p] = "push" /\ promoting'[p] = j
      BY <2>7, <3>1 DEF LoadDue
    <3>3. QED
      BY <3>2 DEF InSafeCustody, PromoterHolds, PromoterHand
  <2>8. CASE /\ ~TakeDue(p, j)
             /\ ~(PushDue(p) /\ promoting[p] = j) /\ ~(LoadDue(p) /\ promoting[p] = j)
    <3>1. delayed[j] # "out" => delayed'[j] # "out"
      BY <1>6, <2>8
         DEF Promote, FailPromotion, ScanDue, TakeDue, MissDue, EndPromotion, LoadDue, PushDue,
             MarkQueued, storeVars, WriteRow, ZRem, LPush
    <3>2. ASSUME NEW q \in Promoters, promoterPc[q] \in {"load", "push"}, promoting[q] = j
          PROVE  promoterPc'[q] \in {"load", "push"} /\ promoting'[q] = j
      <4>1. CASE q = p
        BY <1>6, <2>8, <3>2, <4>1
           DEF Promote, ScanDue, TakeDue, MissDue, EndPromotion, LoadDue, PushDue, MarkQueued
      <4>2. CASE q # p
        BY <1>6, <3>2, <4>2
           DEF Promote, FailPromotion, ScanDue, TakeDue, MissDue, EndPromotion, LoadDue,
               PushDue, MarkQueued
      <4>3. QED
        BY <4>1, <4>2
    <3>3. PromoterHolds(j) => PromoterHolds(j)'
      BY <3>2 DEF PromoterHolds, PromoterHand
    <3>4. QED
      BY <1>4, <2>3, <2>4, <3>1, <3>3 DEF InSafeCustody
  <2>9. QED
    BY <2>5, <2>6, <2>7, <2>8
<1>7. ASSUME NEW p \in Promoters, FailPromotion(p), dropped' = dropped \cup PromoterHand(p)
      PROVE  InSafeCustody(j)'
  <2>1. j \notin PromoterHand(p)
    BY <1>7
  <2>2. Accepted(j) /\ InSafeCustody(j)
    BY <1>7 DEF Accepted, FailPromotion, submitVars
  <2>3. \A q \in Promoters : q # p => PromoterHand(q)' = PromoterHand(q)
    BY <1>7 DEF FailPromotion, PromoterHand
  <2>4. PromoterHolds(j) => PromoterHolds(j)'
    BY <2>1, <2>3 DEF PromoterHolds
  <2>5. UNCHANGED <<ready, delayed>>
    BY <1>7 DEF FailPromotion, storeVars
  <2>6. QED
    BY <1>4, <2>2, <2>4, <2>5, SameReady DEF InSafeCustody
<1>8. QED
  BY <1>5, <1>6, <1>7 DEF ApiNext

\* A worker takes a job out of custody only by claiming it, or by exiting with
\* the job in its list.
LEMMA WorkerKeepsCustody ==
  ASSUME TypeOK, EnvelopeUntilSettled, WorkerNext,
         NEW j \in Jobs, j \notin settled', InSafeCustody(j)
  PROVE  \/ InSafeCustody(j)'
         \/ \E l \in Lanes : ClaimJob(l) /\ Rightmost(scan[l]) = j
         \/ \E w \in Workers : ExitWorker(w) /\ j \in processing[w]
<1> USE HostAssumption DEF TypeOK, StoreTypeOK, WorkerTypeOK
<1> DEFINE Moves == \/ \E l \in Lanes : ClaimJob(l) /\ Rightmost(scan[l]) = j
                    \/ \E w \in Workers : ExitWorker(w) /\ j \in processing[w]
<1> SUFFICES ASSUME ~Moves PROVE InSafeCustody(j)'
  OBVIOUS
<1>1. UNCHANGED <<apiVars, reaperVars>>
  BY DEF WorkerNext
<1>2. settled \subseteq settled'
  BY SettledGrows DEF Next
<1>3. j \notin settled
  BY <1>2
<1>4. (PromoterHolds(j) => PromoterHolds(j)') /\ (ReaperHolds(j) => ReaperHolds(j)')
  BY <1>1 DEF PromoterHolds, PromoterHand, ReaperHolds, ReaperHand, apiVars, submitVars,
              promoterVars, reaperVars
<1>5. ASSUME NEW w \in Workers, WorkerStep(w) \/ CrashWorker(w)
      PROVE  InSafeCustody(j)'
  <2>1. UNCHANGED <<ready, delayed, processing>>
    BY <1>5
       DEF WorkerStep, StartWorker, DrainWorker, ExitWorker, CrashWorker, SetRegistry, storeVars
  <2>2. \A l \in Lanes : lanePc'[l] = "release" => lanePc[l] = "release" /\ claim'[l] = claim[l]
    <3>1. CASE StartWorker(w) \/ DrainWorker(w) \/ ExitWorker(w)
      BY <3>1 DEF StartWorker, DrainWorker, ExitWorker, laneVars
    <3>2. CASE CrashWorker(w)
      BY <3>2 DEF CrashWorker
    <3>3. QED
      BY <1>5, <3>1, <3>2 DEF WorkerStep
  <2>3. InList(j) => InList(j)'
    <3>1. CASE ExitWorker(w)
      <4>1. j \notin processing[w]
        BY <3>1
      <4>2. workersActive' = workersActive \ {w}
        BY <3>1 DEF ExitWorker, SetRegistry
      <4>3. \A v \in Workers : AboutToRelease(v, j)' => AboutToRelease(v, j)
        BY <2>2 DEF AboutToRelease, LanesOf
      <4>4. QED
        BY <2>1, <4>1, <4>2, <4>3 DEF InList
    <3>2. CASE ~ExitWorker(w)
      <4>1. workersActive \subseteq workersActive'
        BY <1>5, <3>2
           DEF WorkerStep, StartWorker, DrainWorker, CrashWorker, SetRegistry, storeVars
      <4>2. QED
        BY <2>1, <2>2, <4>1, InListKept
    <3>3. QED
      BY <3>1, <3>2
  <2>4. QED
    BY <1>4, <2>1, <2>3, SameReady DEF InSafeCustody
<1>6. ASSUME NEW l \in Lanes, LaneStep(l) \/ Heartbeat(l) \/ LaneFault(l)
      PROVE  InSafeCustody(j)'
  <2>1. workersActive' = workersActive
    BY <1>6
       DEF LaneStep, Heartbeat, LaneFault, storeVars, StopLane, BeginClaim, PollNext, ClaimJob,
           FirstBeat, FetchEnvelope, Activate, Confound, Succeed, Reject, Complete,
           ClearEnvelope, Reschedule, Bury, SaveEnvelope, DelayJob, ReleaseJob, Unbeat,
           FaultInClaim, FaultInTry, FaultInHandleFailure, LMove, LRem, ZAdd, SetHeartbeat,
           SetEnvelope, WriteRow
  <2>2. \A m \in Lanes : m # l => lanePc'[m] = lanePc[m] /\ claim'[m] = claim[m]
    BY <1>6
       DEF LaneStep, Heartbeat, LaneFault, workerVars, StopLane, BeginClaim, PollNext,
           ClaimJob, FirstBeat, FetchEnvelope, Activate, Confound, Succeed, Reject, Complete,
           ClearEnvelope, Reschedule, Bury, SaveEnvelope, DelayJob, ReleaseJob, Unbeat,
           FaultInClaim, FaultInTry, FaultInHandleFailure, Goto, BackToIdle, Catch
  <2>3. CASE ClaimJob(l)
    <3>1. /\ lanePc[l] = "poll" /\ lanePc'[l] = "beat"
          /\ LMove(scan[l], Host[l])
          /\ scan[l] \in Levels /\ Host[l] \in Workers
      BY <2>3 DEF ClaimJob
    <3>2. delayed' = delayed
      BY <3>1 DEF LMove
    <3>3. InList(j) => InList(j)'
      <4>1. \A w \in Workers : j \in processing[w] => j \in processing'[w]
        BY <3>1 DEF LMove
      <4>2. \A m \in Lanes : lanePc'[m] = "release" => lanePc[m] = "release" /\ claim'[m] = claim[m]
        BY <2>2, <3>1
      <4>3. QED
        BY <2>1, <4>1, <4>2, InListKept
    <3>4. QED
      BY <1>4, <2>3, <3>1, <3>2, <3>3, LMoveReady DEF InSafeCustody
  <2>4. CASE ReleaseJob(l)
    <3>1. /\ lanePc[l] = "release" /\ lanePc'[l] = "unbeat"
          /\ LRem(Host[l], claim[l])
      BY <2>4 DEF ReleaseJob, Goto
    <3>2. UNCHANGED <<ready, delayed>>
      BY <3>1 DEF LRem
    <3>3. ASSUME NEW w \in workersActive, j \in processing[w], ~AboutToRelease(w, j)
          PROVE  j \in processing'[w] /\ ~AboutToRelease(w, j)'
      <4>1. ~(w = Host[l] /\ j = claim[l])
        BY <3>1, <3>3 DEF AboutToRelease, LanesOf
      <4>2. j \in processing'[w]
        BY <3>1, <3>3, <4>1 DEF LRem
      <4>3. ~AboutToRelease(w, j)'
        BY <2>2, <3>1, <3>3 DEF AboutToRelease, LanesOf
      <4>4. QED
        BY <4>2, <4>3
    <3>4. InList(j) => InList(j)'
      BY <2>1, <3>3 DEF InList
    <3>5. QED
      BY <1>4, <3>2, <3>4, SameReady DEF InSafeCustody
  <2>5. CASE ClearEnvelope(l) \/ DelayJob(l)
    <3>1. UNCHANGED <<ready, processing, claim>>
      BY <2>5 DEF ClearEnvelope, DelayJob, SetEnvelope, ZAdd, Goto
    <3>2. delayed[j] # "out" => delayed'[j] # "out"
      BY <2>5 DEF ClearEnvelope, DelayJob, SetEnvelope, ZAdd
    <3>3. CASE claim[l] # j
      <4>1. InList(j) => InList(j)'
        <5>1. \A m \in Lanes : lanePc'[m] = "release" /\ claim'[m] = j
                                 => lanePc[m] = "release" /\ claim[m] = j
          BY <2>2, <3>1, <3>3
        <5>2. QED
          BY <2>1, <3>1, <5>1, InListKept
      <4>2. QED
        BY <1>4, <3>1, <3>2, <4>1, SameReady DEF InSafeCustody
    <3>4. CASE claim[l] = j
      <4>1. ~ClearEnvelope(l)
        BY <1>3, <3>4 DEF ClearEnvelope, EnvelopeUntilSettled
      <4>2. delayed'[j] # "out"
        BY <2>5, <3>4, <4>1 DEF DelayJob, ZAdd
      <4>3. QED
        BY <4>2 DEF InSafeCustody
    <3>5. QED
      BY <3>3, <3>4
  <2>6. CASE ~ClaimJob(l) /\ ~ReleaseJob(l) /\ ~ClearEnvelope(l) /\ ~DelayJob(l)
    <3>1. UNCHANGED <<ready, delayed, processing>>
      BY <1>6, <2>6
         DEF LaneStep, Heartbeat, LaneFault, storeVars, StopLane, BeginClaim, PollNext,
             FirstBeat, FetchEnvelope, Activate, Confound, Succeed, Reject, Complete,
             Reschedule, Bury, SaveEnvelope, Unbeat, FaultInClaim, FaultInTry,
             FaultInHandleFailure, SetHeartbeat, SetEnvelope, WriteRow
    <3>2. lanePc'[l] = "release" => lanePc[l] = "release" /\ claim'[l] = claim[l]
      BY <1>6, <2>6
         DEF LaneStep, Heartbeat, LaneFault, workerVars, StopLane, BeginClaim, PollNext,
             FirstBeat, FetchEnvelope, Activate, Confound, Succeed, Reject, Complete,
             Reschedule, Bury, SaveEnvelope, Unbeat, FaultInClaim, FaultInTry,
             FaultInHandleFailure, Goto, BackToIdle, Catch
    <3>3. InList(j) => InList(j)'
      <4>1. \A m \in Lanes : lanePc'[m] = "release" => lanePc[m] = "release" /\ claim'[m] = claim[m]
        BY <2>2, <3>2
      <4>2. QED
        BY <2>1, <3>1, <4>1, InListKept
    <3>4. QED
      BY <1>4, <3>1, <3>3, SameReady DEF InSafeCustody
  <2>7. QED
    BY <2>3, <2>4, <2>5, <2>6
<1>7. QED
  BY <1>5, <1>6 DEF WorkerNext

\* With one lane each and clean shutdowns it takes none.
LEMMA WorkerKeepsJobs ==
  ASSUME OneLaneEach, TypeOK, RegistryCoversWorkers, EnvelopeUntilSettled, ListsAreWorkedOff,
         WorkerNext, NEW j \in Jobs, j \notin settled', InSafeCustody(j)
  PROVE  InSafeCustody(j)'
<1> USE HostAssumption DEF TypeOK, StoreTypeOK, WorkerTypeOK
<1>1. ASSUME NEW w \in Workers, ExitWorker(w)
      PROVE  j \notin processing[w]
  <2>1. w \in Sigtermed /\ workerState[w] # "crashed"
    BY <1>1 DEF ExitWorker, RegistryCoversWorkers
  <2>2. \A l \in LanesOf(w) : ~BusyWith(l, j)
    BY <1>1 DEF ExitWorker, BusyWith
  <2>3. j \notin settled
    BY SettledGrows DEF Next
  <2>4. QED
    BY <2>1, <2>2, <2>3 DEF ListsAreWorkedOff
<1>2. ASSUME NEW l \in Lanes, ClaimJob(l), Rightmost(scan[l]) = j
      PROVE  InSafeCustody(j)'
  <2>1. /\ lanePc[l] = "poll" /\ lanePc'[l] = "beat"
        /\ LMove(scan[l], Host[l])
        /\ Host[l] \in Workers
    BY <1>2 DEF ClaimJob
  <2>2. Host[l] \in workersActive'
    BY <2>1 DEF RegistryCoversWorkers, LMove
  <2>3. j \in processing'[Host[l]]
    BY <1>2, <2>1 DEF LMove
  <2>4. \A m \in Lanes : Host[m] = Host[l] => m = l
    BY DEF OneLaneEach
  <2>5. ~AboutToRelease(Host[l], j)'
    BY <2>1, <2>4 DEF AboutToRelease, LanesOf
  <2>6. QED
    BY <2>2, <2>3, <2>5 DEF InList, InSafeCustody
<1>3. QED
  BY <1>1, <1>2, WorkerKeepsCustody

\* A reaper takes a job out of custody only by failing with it in hand.
LEMMA ReaperKeepsCustody ==
  ASSUME TypeOK, EnvelopeUntilSettled, ReaperNext,
         NEW j \in Jobs, j \notin settled', j \notin dropped', InSafeCustody(j)
  PROVE  InSafeCustody(j)'
<1> USE DEF TypeOK, StoreTypeOK, ReaperTypeOK
<1>1. UNCHANGED <<apiVars, workerVars>>
  BY DEF ReaperNext
<1>4. PromoterHolds(j) => PromoterHolds(j)'
  BY <1>1 DEF PromoterHolds, PromoterHand, apiVars, submitVars, promoterVars
<1>5. UNCHANGED <<ready, workersActive>>
  BY DEF ReaperNext, Reap, ReaperFault, ExpireLock, BeginTick, LockWorker, SkipWorker, EndTick,
         ListProcessing, SpareJob, CondemnJob, EndVisit, TakeOrphan, MissOrphan, UnbeatOrphan,
         LoadOrphan, SelectOrphan, MarkDelayed, MarkDead, SaveOrphan, DelayOrphan, DropOrphan,
         FaultInReapWorker, FaultInTick, storeVars, LRem, ZAdd, SetHeartbeat, SetEnvelope,
         WriteRow
<1>6. InReady(j) => InReady(j)'
  BY <1>5, SameReady
<1>7. delayed[j] # "out" => delayed'[j] # "out"
  BY DEF ReaperNext, Reap, ReaperFault, ExpireLock, BeginTick, LockWorker, SkipWorker, EndTick,
         ListProcessing, SpareJob, CondemnJob, EndVisit, TakeOrphan, MissOrphan, UnbeatOrphan,
         LoadOrphan, SelectOrphan, MarkDelayed, MarkDead, SaveOrphan, DelayOrphan, DropOrphan,
         FaultInReapWorker, FaultInTick, storeVars, LRem, ZAdd, SetHeartbeat, SetEnvelope,
         WriteRow
<1>8. ASSUME NEW w \in Workers, ExpireLock(w)
      PROVE  InSafeCustody(j)'
  BY <1>1, <1>8, CustodyUnmoved
     DEF ExpireLock, storeVars, tickVars, apiVars, submitVars, promoterVars, workerVars
<1>9. ASSUME NEW r \in Reapers, Reap(r)
      PROVE  InSafeCustody(j)'
  <2>2. CASE TakeOrphan(r) /\ orphan[r] = j
    <3>1. reaperPc'[r] = "unbeat" /\ orphan'[r] = j
      BY <2>2 DEF TakeOrphan, ReaperGoto
    <3>2. QED
      BY <3>1 DEF InSafeCustody, ReaperHolds, ReaperHand
  <2>3. CASE DelayOrphan(r) /\ orphan[r] = j
    BY <2>3 DEF DelayOrphan, ZAdd, InSafeCustody
  <2>4. CASE MarkDead(r) /\ orphan[r] = j
    BY <2>4 DEF MarkDead, WriteRow
  <2>5. CASE /\ ~(TakeOrphan(r) /\ orphan[r] = j)
             /\ ~(DelayOrphan(r) /\ orphan[r] = j)
             /\ ~(MarkDead(r) /\ orphan[r] = j)
    <3>1. \A w \in Workers : j \in processing[w] => j \in processing'[w]
      BY <1>9, <2>5
         DEF Reap, BeginTick, LockWorker, SkipWorker, EndTick, ListProcessing, SpareJob,
             CondemnJob, EndVisit, TakeOrphan, MissOrphan, UnbeatOrphan, LoadOrphan,
             SelectOrphan, MarkDelayed, MarkDead, SaveOrphan, DelayOrphan, DropOrphan,
             storeVars, LRem, ZAdd, SetHeartbeat, SetEnvelope, WriteRow
    <3>2. InList(j) => InList(j)'
      BY <1>1, <1>5, <3>1 DEF InList, AboutToRelease, workerVars
    <3>3. ASSUME NEW q \in Reapers, orphan[q] = j,
                 reaperPc[q] \in {"unbeat", "load", "select", "mark", "save", "delay"}
          PROVE  /\ orphan'[q] = j
                 /\ reaperPc'[q] \in {"unbeat", "load", "select", "mark", "save", "delay"}
      <4>1. CASE q = r
        BY <1>9, <2>5, <3>3, <4>1
           DEF Reap, BeginTick, LockWorker, SkipWorker, EndTick, ListProcessing, SpareJob,
               CondemnJob, EndVisit, TakeOrphan, MissOrphan, UnbeatOrphan, LoadOrphan,
               SelectOrphan, MarkDelayed, MarkDead, SaveOrphan, DelayOrphan, DropOrphan,
               ReaperGoto, NextVictim, LeaveWorker
      <4>2. CASE q # r
        BY <1>9, <3>3, <4>2
           DEF Reap, BeginTick, LockWorker, SkipWorker, EndTick, ListProcessing, SpareJob,
               CondemnJob, EndVisit, TakeOrphan, MissOrphan, UnbeatOrphan, LoadOrphan,
               SelectOrphan, MarkDelayed, MarkDead, SaveOrphan, DelayOrphan, DropOrphan,
               ReaperGoto, NextVictim, LeaveWorker
      <4>3. QED
        BY <4>1, <4>2
    <3>4. ReaperHolds(j) => ReaperHolds(j)'
      BY <3>3 DEF ReaperHolds, ReaperHand
    <3>5. QED
      BY <1>4, <1>6, <1>7, <3>2, <3>4 DEF InSafeCustody
  <2>6. QED
    BY <2>2, <2>3, <2>4, <2>5
<1>10. ASSUME NEW r \in Reapers, ReaperFault(r), dropped' = dropped \cup ReaperHand(r)
       PROVE  InSafeCustody(j)'
  <2>1. j \notin ReaperHand(r)
    BY <1>10
  <2>2. \A q \in Reapers : q # r => ReaperHand(q)' = ReaperHand(q)
    BY <1>10 DEF ReaperFault, FaultInReapWorker, FaultInTick, LeaveWorker, ReaperHand
  <2>3. ReaperHolds(j) => ReaperHolds(j)'
    BY <2>1, <2>2 DEF ReaperHolds
  <2>4. UNCHANGED storeVars
    BY <1>10 DEF ReaperFault, FaultInReapWorker, FaultInTick
  <2>5. InList(j) => InList(j)'
    BY <1>1, <2>4 DEF InList, AboutToRelease, workerVars, storeVars
  <2>6. QED
    BY <1>4, <1>6, <1>7, <2>3, <2>5 DEF InSafeCustody
<1>11. QED
  BY <1>8, <1>9, <1>10 DEF ReaperNext

LEMMA TimeKeepsCustody ==
  ASSUME TypeOK, TimeNext \/ UNCHANGED vars, NEW j \in Jobs, InSafeCustody(j)
  PROVE  InSafeCustody(j)'
<1>1. UNCHANGED <<ready, processing, workersActive, workerVars, reaperVars, promoterVars>>
  BY TimeFrame
<1>2. delayed[j] # "out" => delayed'[j] # "out"
  BY DEF TimeNext, ExpireKey, Ripen, AgeHeartbeat, Age, vars, storeVars, TypeOK, StoreTypeOK
<1>3. (PromoterHolds(j) => PromoterHolds(j)') /\ (ReaperHolds(j) => ReaperHolds(j)')
  BY <1>1 DEF PromoterHolds, PromoterHand, ReaperHolds, ReaperHand, promoterVars, reaperVars
<1>4. InList(j) => InList(j)'
  BY <1>1 DEF InList, AboutToRelease, workerVars
<1>5. QED
  BY <1>1, <1>2, <1>3, <1>4, SameReady DEF InSafeCustody

-----------------------------------------------------------------------------
(* The theorem *)

LEMMA CustodyInit == Init => CustodyInvariant
<1> SUFFICES ASSUME Init PROVE CustodyInvariant
  OBVIOUS
<1>1. TypeOK
  BY InitType
<1>2. RegistryCoversWorkers
  BY HostAssumption DEF Init, WorkerInit, RegistryCoversWorkers
<1>3. EnvelopeUntilSettled
  BY DEF Init, ApiInit, WorkerInit, ReaperInit, EnvelopeUntilSettled
<1>4. AcceptedJobsKept
  BY DEF Init, ApiInit, AcceptedJobsKept, Accepted
<1>5. QED
  BY <1>1, <1>2, <1>3, <1>4 DEF CustodyInvariant

LEMMA CustodyStep ==
  ASSUME OneLaneEach, ListsAreWorkedOff, CustodyInvariant, [Next]_vars
  PROVE  CustodyInvariant'
<1> USE DEF CustodyInvariant
<1>1. TypeOK'
  BY TypeStep
<1>2. RegistryCoversWorkers' /\ EnvelopeUntilSettled'
  BY RegistryStep, EnvelopeStep
<1>3. AcceptedJobsKept'
  <2> SUFFICES ASSUME NEW j \in Jobs, Accepted(j)', j \notin settled', j \notin dropped'
               PROVE  InSafeCustody(j)'
    BY DEF AcceptedJobsKept
  <2>0. Accepted(j) => InSafeCustody(j)
    <3>1. settled \subseteq settled' /\ dropped \subseteq dropped'
      BY SettledGrows, DroppedGrows
    <3>2. QED
      BY <3>1 DEF AcceptedJobsKept
  <2>1. CASE ApiNext
    BY <2>0, <2>1, ApiKeepsCustody
  <2>2. CASE WorkerNext
    <3>1. Accepted(j)
      BY <2>2 DEF WorkerNext, Accepted, apiVars, submitVars
    <3>2. QED
      BY <2>0, <2>2, <3>1, WorkerKeepsJobs
  <2>3. CASE ReaperNext
    <3>1. Accepted(j)
      BY <2>3 DEF ReaperNext, Accepted, apiVars, submitVars
    <3>2. QED
      BY <2>0, <2>3, <3>1, ReaperKeepsCustody
  <2>4. CASE TimeNext \/ UNCHANGED vars
    <3>1. Accepted(j)
      BY <2>4 DEF TimeNext, Accepted, vars, apiVars, submitVars, ExpireKey
    <3>2. QED
      BY <2>0, <2>4, <3>1, TimeKeepsCustody
  <2>5. QED
    BY <2>1, <2>2, <2>3, <2>4 DEF Next
<1>4. QED
  BY <1>1, <1>2, <1>3

\* Wherever an accepted job is, someone that still runs or will run answers for
\* it: no worker is busy outside the registry the reapers scan, and no job
\* loses its envelope before it is settled.  Under the same provisos.
THEOREM JobsStayInCustody ==
  ASSUME OneLaneEach, CleanShutdown
  PROVE  Spec => []CustodyInvariant
<1>1. Init => CustodyInvariant
  BY CustodyInit
<1>2. DrainInvariant => ListsAreWorkedOff
  BY DEF DrainInvariant
<1>3. ListsAreWorkedOff /\ CustodyInvariant /\ [Next]_vars => CustodyInvariant'
  BY CustodyStep
<1>4. QED
  BY <1>1, <1>2, <1>3, DrainsAreOrderly, PTL DEF Spec

\* NFR-3: no accepted job is lost when workers crash, when calls of any
\* component fail, however late heartbeats come and however many reapers and
\* promoters overlap, except by a promoter or a reaper that fails with it in
\* hand.  Provided each worker runs one lane and shutdowns are clean.
THEOREM NoJobIsForgotten ==
  ASSUME OneLaneEach, CleanShutdown
  PROVE  Spec => []NoJobForgotten
<1>1. CustodyInvariant => NoJobForgotten
  BY DEF CustodyInvariant, AcceptedJobsKept, NoJobForgotten, InSafeCustody, InList, InCustody
<1>2. QED
  BY <1>1, JobsStayInCustody, PTL

-----------------------------------------------------------------------------
(* How a job can be lost *)

\* What a lane does with the job it has claimed.
LEMMA HoldersKeep ==
  ASSUME TypeOK, RegistryCoversWorkers, WorkerNext,
         NEW l \in Lanes, NEW j \in Jobs, Holds(l, j), j \notin settled'
  PROVE  Holds(l, j)' \/ delayed'[j] # "out" \/ lanePc'[l] \in Jobless
<1> USE DEF TypeOK, StoreTypeOK, WorkerTypeOK, Holds, Undecided, Jobless
<1>1. ASSUME NEW w \in Workers, WorkerStep(w) \/ CrashWorker(w)
      PROVE  Holds(l, j)' \/ lanePc'[l] \in Jobless
  BY <1>1, LivesMoveLanes
<1>2. ASSUME NEW m \in Lanes, m # l, LaneStep(m) \/ Heartbeat(m) \/ LaneFault(m)
      PROVE  Holds(l, j)'
  BY <1>2, OtherLanesStay
<1>3. ASSUME LaneStep(l) \/ Heartbeat(l) \/ LaneFault(l)
      PROVE  Holds(l, j)' \/ delayed'[j] # "out" \/ lanePc'[l] \in Jobless
  <2> USE DEF Goto, BackToIdle, Catch
  <2>1. CASE StopLane(l) \/ BeginClaim(l) \/ PollNext(l) \/ ClaimJob(l)
    BY <2>1 DEF StopLane, BeginClaim, PollNext, ClaimJob
  <2>2. CASE FirstBeat(l) \/ FetchEnvelope(l) \/ Activate(l) \/ Confound(l)
    BY <2>2 DEF FirstBeat, FetchEnvelope, Activate, Confound
  <2>3. CASE Succeed(l) \/ Reject(l) \/ Reschedule(l) \/ SaveEnvelope(l)
    BY <2>3 DEF Succeed, Reject, Reschedule, SaveEnvelope
  <2>4. CASE Complete(l) \/ Bury(l)
    BY <2>4 DEF Complete, Bury, WriteRow
  <2>5. CASE DelayJob(l)
    BY <2>5 DEF DelayJob, ZAdd
  <2>6. CASE ClearEnvelope(l) \/ ReleaseJob(l) \/ Unbeat(l)
    BY <2>6 DEF ClearEnvelope, ReleaseJob, Unbeat
  <2>7. CASE Heartbeat(l) \/ LaneFault(l)
    BY <2>7 DEF Heartbeat, LaneFault, FaultInClaim, FaultInTry, FaultInHandleFailure, workerVars
  <2>8. QED
    BY <1>3, <2>1, <2>2, <2>3, <2>4, <2>5, <2>6, <2>7 DEF LaneStep
<1>4. QED
  BY <1>1, <1>2, <1>3 DEF WorkerNext

Loss(j) ==
  \/ ~InSafeCustody(j) /\ \E l \in Lanes : Holds(l, j) /\ lanePc'[l] \in Jobless
  \/ \E w \in workersActive \ workersActive' : j \in processing[w]

\* A job a step leaves untraceable was in custody, and its worker exited, or was
\* in the memory of lanes only.
LEMMA LossStep ==
  ASSUME TypeOK, RegistryCoversWorkers, EnvelopeUntilSettled, [Next]_vars,
         NEW j \in Jobs, Accepted(j), Traceable(j), ~Traceable(j)'
  PROVE  Loss(j)
<1>1. /\ j \notin settled' /\ j \notin dropped' /\ ~InSafeCustody(j)'
      /\ \A l \in Lanes : ~Holds(l, j)'
  BY DEF Traceable
<1>2. InSafeCustody(j) \/ \E l \in Lanes : Holds(l, j)
  BY <1>1, SettledGrows, DroppedGrows DEF Traceable
<1>3. CASE InSafeCustody(j)
  <2>1. WorkerNext
    <3>1. ~ReaperNext /\ ~(TimeNext \/ UNCHANGED vars)
      BY <1>1, <1>3, ReaperKeepsCustody, TimeKeepsCustody
    <3>2. ASSUME ApiNext
          PROVE  FALSE
      <4>1. Accepted(j)'
        BY AcceptedStays DEF Accepted
      <4>2. QED
        BY <1>1, <1>3, <3>2, <4>1, ApiKeepsCustody
    <3>3. QED
      BY <3>1, <3>2 DEF Next
  <2>2. ASSUME NEW l \in Lanes, ClaimJob(l), Rightmost(scan[l]) = j
        PROVE  FALSE
    <3>1. lanePc'[l] = "beat" /\ claim'[l] = j
      BY <2>2 DEF ClaimJob, TypeOK, WorkerTypeOK
    <3>2. QED
      BY <1>1, <3>1 DEF Holds, Undecided
  <2>3. PICK w \in Workers : ExitWorker(w) /\ j \in processing[w]
    BY <1>1, <1>3, <2>1, <2>2, WorkerKeepsCustody
  <2>4. w \in workersActive /\ w \notin workersActive'
    BY <2>3 DEF ExitWorker, SetRegistry, RegistryCoversWorkers
  <2>5. QED
    BY <2>3, <2>4 DEF Loss
<1>4. CASE ~InSafeCustody(j)
  <2>1. PICK l \in Lanes : Holds(l, j)
    BY <1>2, <1>4
  <2>2. ASSUME ~WorkerNext
        PROVE  FALSE
    <3>1. UNCHANGED workerVars
      BY <2>2 DEF Next, ApiNext, ReaperNext, TimeNext, vars
    <3>2. Holds(l, j)'
      BY <2>1, <3>1 DEF Holds, workerVars
    <3>3. QED
      BY <1>1, <3>2
  <2>3. delayed'[j] = "out"
    BY <1>1 DEF InSafeCustody
  <2>4. lanePc'[l] \in Jobless
    BY <1>1, <2>1, <2>2, <2>3, HoldersKeep
  <2>5. QED
    BY <1>4, <2>1, <2>4 DEF Loss
<1>5. QED
  BY <1>3, <1>4

\* The deployments NoJobIsForgotten leaves out: with any number of lanes per
\* process, with shutdowns of workers that crash and whose calls fail, an
\* accepted job is lost in the two ways LossesAreKnown names and in no other.
THEOREM LossesAreAllKnown == Spec => LossesAreKnown
<1> DEFINE Inv == TypeOK /\ RegistryCoversWorkers /\ EnvelopeUntilSettled
           Known == \A j \in Jobs : Accepted(j) /\ Traceable(j) /\ ~Traceable(j)' => Loss(j)
<1>1. Init => Inv
  BY CustodyInit DEF CustodyInvariant
<1>2. Inv /\ [Next]_vars => Inv'
  BY TypeStep, RegistryStep, EnvelopeStep
<1>3. Inv /\ [Next]_vars => Known
  BY LossStep
<1>4. Inv /\ [Next]_vars => [Known]_vars
  BY <1>3
<1> HIDE DEF Inv, Known
<1>5. Spec => [][Known]_vars
  BY <1>1, <1>2, <1>4, PTL DEF Spec
<1>6. QED
  BY <1>5 DEF LossesAreKnown, Known, Loss

\* With workers that do not crash and whose calls do not fail, neither happens.
SteadyWorkers == Mortal = {} /\ "worker" \notin Fallible

LEMMA NoLossStep ==
  ASSUME SteadyWorkers, DrainInvariant, [Next]_vars, NEW j \in Jobs, j \notin settled'
  PROVE  ~Loss(j)
<1> USE HostAssumption DEF DrainInvariant, TypeOK, StoreTypeOK, WorkerTypeOK
<1>1. j \notin settled
  BY SettledGrows
<1>2. ASSUME NEW l \in Lanes, Holds(l, j)
      PROVE  lanePc'[l] \notin Jobless
  <2> USE <1>2 DEF Holds, Undecided, Jobless
  <2>1. ASSUME NEW w \in Workers, WorkerStep(w) \/ CrashWorker(w)
        PROVE  lanePc'[l] = lanePc[l]
    <3>1. ~CrashWorker(w)
      BY DEF CrashWorker, SteadyWorkers
    <3>2. ~(StartWorker(w) /\ Host[l] = w)
      BY DEF StartWorker, RegistryCoversWorkers
    <3>3. QED
      BY <2>1, <3>1, <3>2, LivesMoveLanes
  <2>2. ASSUME NEW m \in Lanes, m # l, LaneStep(m) \/ Heartbeat(m) \/ LaneFault(m)
        PROVE  lanePc'[l] = lanePc[l]
    BY <2>2, OtherLanesStay
  <2>3. ASSUME LaneStep(l) \/ Heartbeat(l) \/ LaneFault(l)
        PROVE  lanePc'[l] \notin Jobless
    <3> USE DEF Goto, BackToIdle, Catch
    <3>1. ~Confound(l)
      BY <1>1 DEF Confound, OnlySettledConfound
    <3>2. ~LaneFault(l)
      BY DEF LaneFault, FaultInClaim, FaultInTry, FaultInHandleFailure, SteadyWorkers
    <3>3. ~(StopLane(l) \/ BeginClaim(l) \/ PollNext(l) \/ ClaimJob(l) \/ ReleaseJob(l)
            \/ Unbeat(l) \/ ClearEnvelope(l))
      BY DEF StopLane, BeginClaim, PollNext, ClaimJob, ReleaseJob, Unbeat, ClearEnvelope
    <3>4. CASE FirstBeat(l) \/ FetchEnvelope(l) \/ Activate(l) \/ Heartbeat(l)
      BY <3>4 DEF FirstBeat, FetchEnvelope, Activate, Heartbeat, workerVars
    <3>5. CASE Succeed(l) \/ Reject(l) \/ Complete(l) \/ Reschedule(l) \/ Bury(l)
      BY <3>5 DEF Succeed, Reject, Complete, Reschedule, Bury
    <3>6. CASE SaveEnvelope(l) \/ DelayJob(l)
      BY <3>6 DEF SaveEnvelope, DelayJob
    <3>7. QED
      BY <2>3, <3>1, <3>2, <3>3, <3>4, <3>5, <3>6 DEF LaneStep
  <2>4. CASE ~WorkerNext
    BY <2>4 DEF Next, ApiNext, ReaperNext, TimeNext, vars, workerVars
  <2>5. QED
    BY <2>1, <2>2, <2>3, <2>4 DEF WorkerNext
<1>3. ASSUME NEW w \in workersActive \ workersActive'
      PROVE  j \notin processing[w]
  <2>1. ExitWorker(w)
    <3>1. WorkerNext
      BY ApiFrame, ReaperFrame, TimeFrame DEF Next
    <3>2. PICK v \in Workers : WorkerStep(v) \/ CrashWorker(v)
      BY <3>1, LaneFrame DEF WorkerNext
    <3>3. QED
      BY <3>2 DEF WorkerStep, StartWorker, DrainWorker, ExitWorker, CrashWorker, SetRegistry,
                  storeVars
  <2>2. w \in Sigtermed /\ workerState[w] # "crashed"
    BY <2>1 DEF ExitWorker, RegistryCoversWorkers
  <2>3. \A l \in LanesOf(w) : ~BusyWith(l, j)
    BY <2>1 DEF ExitWorker, BusyWith
  <2>4. QED
    BY <1>1, <2>2, <2>3 DEF ListsAreWorkedOff
<1>4. QED
  BY <1>2, <1>3 DEF Loss

\* With any number of lanes sharing each list, as many reapers taking jobs back
\* as there may be, late heartbeats and drains, every accepted job stays in
\* custody, or in the memory of a lane that goes on with it, until it is settled
\* or a promoter or a reaper fails with it in hand, as long as workers do not
\* crash and their calls do not fail.
THEOREM SharedListsLoseNoJob ==
  ASSUME SteadyWorkers
  PROVE  Spec => []JobsTraceable
<1>1. Init => JobsTraceable
  BY DEF Init, ApiInit, JobsTraceable, Accepted
<1>2. DrainInvariant /\ JobsTraceable /\ [Next]_vars => JobsTraceable'
  <2> SUFFICES ASSUME DrainInvariant, JobsTraceable, [Next]_vars,
                      NEW j \in Jobs, Accepted(j)', ~Traceable(j)'
               PROVE  FALSE
    BY DEF JobsTraceable
  <2>1. j \notin settled' /\ j \notin dropped' /\ ~InSafeCustody(j)'
    BY DEF Traceable
  <2>2. CASE Accepted(j)
    <3>1. Loss(j)
      BY <2>2, LossStep DEF JobsTraceable, DrainInvariant
    <3>2. QED
      BY <2>1, <3>1, NoLossStep
  <2>3. CASE ~Accepted(j)
    <3>1. ApiNext
      BY <2>3 DEF Next, WorkerNext, ReaperNext, TimeNext, ExpireKey, Accepted, vars, apiVars,
                  submitVars
    <3>2. QED
      BY <2>1, <2>3, <3>1, ApiKeepsCustody DEF DrainInvariant
  <2>4. QED
    BY <2>2, <2>3
<1>3. CleanShutdown
  BY DEF SteadyWorkers, CleanShutdown
<1>4. QED
  BY <1>1, <1>2, <1>3, DrainsAreOrderly, PTL DEF Spec

-----------------------------------------------------------------------------
(* The contract *)

\* Whoever takes a job out of every list and queue lives to put it back.
NothingDropped == {"promoter", "reaper"} \cap Fallible = {}

KeepsPromises == DrainInvariant /\ CustodyInvariant /\ dropped = {}

LEMMA KeepsPromisesAlways ==
  ASSUME OneLaneEach, CleanShutdown, NothingDropped
  PROVE  Spec => []KeepsPromises
<1>1. Init => dropped = {}
  BY DEF Init
<1>2. ASSUME dropped = {}, [Next]_vars
      PROVE  (dropped = {})'
  BY <1>2
     DEF NothingDropped, Next, ApiNext, WorkerNext, ReaperNext, TimeNext, FailPromotion,
         ReaperFault, FaultInReapWorker, FaultInTick, vars
<1>3. Spec => [](dropped = {})
  BY <1>1, <1>2, PTL DEF Spec
<1>4. DrainInvariant /\ CustodyInvariant /\ dropped = {} => KeepsPromises
  BY DEF KeepsPromises
<1>5. QED
  BY <1>3, <1>4, DrainsAreOrderly, JobsStayInCustody, PTL

\* What the client can be sure of, read off the history.
PromiseRead(j) ==
  PromiseState(j) = IF j \in settled THEN "settled"
                    ELSE IF Accepted(j) THEN "owed" ELSE "none"

LEMMA PromisesRead ==
  ASSUME NEW j \in Jobs
  PROVE  (KeepsPromises => PromiseRead(j)) /\ (KeepsPromises' => PromiseRead(j)')
<1> USE DEF KeepsPromises, CustodyInvariant, AcceptedJobsKept, InSafeCustody, InList, InCustody
<1>1. KeepsPromises /\ Accepted(j) => j \in settled \/ InCustody(j)
  OBVIOUS
<1>2. KeepsPromises' /\ Accepted(j)' => j \in settled' \/ InCustody(j)'
  OBVIOUS
<1>3. QED
  BY ONLY <1>1, <1>2 DEF PromiseRead, PromiseState

LEMMA OneJobAtATime ==
  ASSUME TypeOK, [Next]_vars
  PROVE  \/ /\ settled' = settled
            /\ \E j \in Jobs : \A i \in Jobs : i # j => request'[i] = request[i]
         \/ /\ request' = request
            /\ \E j : settled' \in {settled, settled \cup {j}}
<1> DEFINE Submits == /\ settled' = settled
                      /\ \E j \in Jobs : \A i \in Jobs : i # j => request'[i] = request[i]
           Settles == request' = request /\ \E j : settled' \in {settled, settled \cup {j}}
<1>1. ASSUME NEW j \in Jobs, Enqueue(j) \/ FailRequest(j)
      PROVE  Submits
  <2>1. settled' = settled
    BY <1>1
       DEF Enqueue, LookUpKey, InsertJob, CreateRow, RejectInsert, RememberKey, StoreEnvelope,
           PushJob, FailRequest, storeVars, WriteRow, SetEnvelope, ZAdd, LPush
  <2>2. \A i \in Jobs : i # j => request'[i] = request[i]
    BY <1>1
       DEF Enqueue, LookUpKey, InsertJob, CreateRow, RejectInsert, RememberKey, StoreEnvelope,
           PushJob, FailRequest, TypeOK, ApiTypeOK
  <2>3. QED
    BY <2>1, <2>2
<1>2. ASSUME NEW p \in Promoters, Promote(p) \/ FailPromotion(p)
      PROVE  Settles
  BY <1>2
     DEF Promote, FailPromotion, ScanDue, TakeDue, MissDue, EndPromotion, LoadDue, PushDue,
         MarkQueued, submitVars, storeVars, WriteRow, ZRem, LPush
<1>3. CASE WorkerNext
  <2>1. ASSUME NEW w \in Workers, WorkerStep(w) \/ CrashWorker(w)
        PROVE  settled' = settled
    BY <2>1 DEF WorkerStep, StartWorker, DrainWorker, ExitWorker, CrashWorker, SetRegistry,
                storeVars
  <2>2. ASSUME NEW l \in Lanes, LaneStep(l) \/ Heartbeat(l) \/ LaneFault(l)
        PROVE  settled' \in {settled, settled \cup {claim[l]}}
    BY <2>2
       DEF LaneStep, Heartbeat, LaneFault, StopLane, BeginClaim, PollNext, ClaimJob,
           FirstBeat, FetchEnvelope, Activate, Confound, Succeed, Reject, Complete,
           ClearEnvelope, Reschedule, Bury, SaveEnvelope, DelayJob, ReleaseJob, Unbeat,
           FaultInClaim, FaultInTry, FaultInHandleFailure, storeVars, LMove, LRem, ZAdd,
           SetHeartbeat, SetEnvelope, WriteRow
  <2>3. request' = request
    BY <1>3 DEF WorkerNext, apiVars, submitVars
  <2>4. QED
    BY <1>3, <2>1, <2>2, <2>3 DEF WorkerNext
<1>4. CASE ReaperNext
  <2>1. ASSUME NEW r \in Reapers, Reap(r) \/ ReaperFault(r)
        PROVE  settled' \in {settled, settled \cup {orphan[r]}}
    BY <2>1
       DEF Reap, ReaperFault, BeginTick, LockWorker, SkipWorker, EndTick,
           ListProcessing, SpareJob, CondemnJob, EndVisit, TakeOrphan, MissOrphan, UnbeatOrphan,
           LoadOrphan, SelectOrphan, MarkDelayed, MarkDead, SaveOrphan, DelayOrphan, DropOrphan,
           FaultInReapWorker, FaultInTick, storeVars, LRem, ZAdd, SetHeartbeat, SetEnvelope,
           WriteRow
  <2>2. ASSUME NEW w \in Workers, ExpireLock(w)
        PROVE  settled' = settled
    BY <2>2 DEF ExpireLock, storeVars
  <2>3. request' = request
    BY <1>4 DEF ReaperNext, apiVars, submitVars
  <2>4. QED
    BY <1>4, <2>1, <2>2, <2>3 DEF ReaperNext
<1>5. CASE TimeNext \/ UNCHANGED vars
  BY <1>5
     DEF TimeNext, ExpireKey, Ripen, AgeHeartbeat, Age, vars, storeVars, apiVars, submitVars
<1>6. CASE ApiNext
  BY <1>1, <1>2, <1>6 DEF ApiNext
<1>7. QED
  BY <1>3, <1>4, <1>5, <1>6 DEF Next

LEMMA PromiseStep ==
  ASSUME KeepsPromises, KeepsPromises', [Next]_vars
  PROVE  [Promised!PromiseNext]_([j \in Jobs |-> PromiseState(j)])
<1> DEFINE P == [j \in Jobs |-> PromiseState(j)]
<1>1. /\ TypeOK /\ AcceptedFirst /\ AcceptedFirst'
      /\ settled \in SUBSET Jobs /\ settled' \in SUBSET Jobs
  BY DEF KeepsPromises, DrainInvariant, TypeOK, StoreTypeOK
<1>2. \A j \in Jobs : P[j] = IF j \in settled THEN "settled"
                             ELSE IF Accepted(j) THEN "owed" ELSE "none"
  BY PromisesRead DEF PromiseRead
<1>3. \A j \in Jobs : P'[j] = IF j \in settled' THEN "settled"
                              ELSE IF Accepted(j)' THEN "owed" ELSE "none"
  BY PromisesRead DEF PromiseRead
<1>4. (\A j \in settled : Accepted(j)) /\ (\A j \in settled' : Accepted(j)')
  BY <1>1 DEF AcceptedFirst, Circulates
<1>5. settled \subseteq settled' /\ \A j \in Jobs : Accepted(j) => Accepted(j)'
  BY <1>1, SettledGrows, AcceptedStays
<1> USE DEF Accepted
<1> HIDE DEF P
<1>6. P = [j \in Jobs |-> P[j]] /\ P' = [j \in Jobs |-> P'[j]]
  BY DEF P
<1>7. CASE /\ settled' = settled
           /\ \E j \in Jobs : \A i \in Jobs : i # j => request'[i] = request[i]
  <2>1. PICK j \in Jobs : \A i \in Jobs : i # j => request'[i] = request[i]
    BY <1>7
  <2>2. CASE Accepted(j)' /\ ~Accepted(j)
    <3>1. P[j] = "none" /\ P'[j] = "owed"
      BY <1>2, <1>3, <1>4, <1>7, <2>2
    <3>2. \A i \in Jobs : i # j => P'[i] = P[i]
      BY <1>2, <1>3, <1>7, <2>1
    <3>3. P' = [P EXCEPT ![j] = "owed"]
      BY <1>6, <3>1, <3>2
    <3>4. Promised!Accept(j)
      BY <3>1, <3>3 DEF Promised!Accept, P
    <3>5. QED
      BY <3>4 DEF Promised!PromiseNext
  <2>3. CASE Accepted(j)' <=> Accepted(j)
    <3>1. \A i \in Jobs : P'[i] = P[i]
      BY <1>2, <1>3, <1>7, <2>1, <2>3
    <3>2. P' = P
      BY <1>6, <3>1
    <3>3. QED
      BY <3>2 DEF P
  <2>4. QED
    BY <1>5, <2>2, <2>3
<1>8. CASE request' = request /\ \E j : settled' \in {settled, settled \cup {j}}
  <2>1. PICK j : settled' \in {settled, settled \cup {j}}
    BY <1>8
  <2>2. CASE settled' # settled
    <3>1. j \in settled' /\ j \notin settled /\ j \in Jobs /\ settled' = settled \cup {j}
      BY <1>1, <2>1, <2>2
    <3>2. Accepted(j)
      BY <1>4, <1>8, <3>1
    <3>3. P[j] = "owed" /\ P'[j] = "settled"
      BY <1>2, <1>3, <3>1, <3>2
    <3>4. \A i \in Jobs : i # j => P'[i] = P[i]
      BY <1>2, <1>3, <1>8, <3>1
    <3>5. P' = [P EXCEPT ![j] = "settled"]
      BY <1>6, <3>3, <3>4
    <3>6. Promised!Settle(j)
      BY <3>3, <3>5 DEF Promised!Settle, P
    <3>7. QED
      BY <3>1, <3>6 DEF Promised!PromiseNext
  <2>3. CASE settled' = settled
    <3>1. \A i \in Jobs : P'[i] = P[i]
      BY <1>2, <1>3, <1>8, <2>3
    <3>2. P' = P
      BY <1>6, <3>1
    <3>3. QED
      BY <3>2 DEF P
  <2>4. QED
    BY <2>2, <2>3
<1>9. QED
  BY <1>1, <1>7, <1>8, OneJobAtATime

\* The system implements the safety of the contract: no job stops being owed
\* without being settled, whatever crashes, restarts, drains cleanly or fails,
\* provided promoters and reapers do not fail with a job in hand.
THEOREM ContractIsKept ==
  ASSUME OneLaneEach, CleanShutdown, NothingDropped
  PROVE  Spec => Promised!SafeContract
<1>1. Init => Promised!PromiseInit
  <2>1. Init => \A j \in Jobs : PromiseState(j) = "none"
    BY DEF Init, StoreInit, ApiInit, PromiseState, Accepted
  <2>2. QED
    BY <2>1 DEF Promised!PromiseInit
<1>2. KeepsPromises /\ KeepsPromises' /\ [Next]_vars
        => [Promised!PromiseNext]_([j \in Jobs |-> PromiseState(j)])
  BY PromiseStep
<1>3. QED
  BY <1>1, <1>2, KeepsPromisesAlways, PTL DEF Spec, Promised!SafeContract
=============================================================================
