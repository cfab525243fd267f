----------------------------- MODULE CopyProofs -----------------------------
(***************************************************************************)
(* One copy of each job, one lane that runs it, and one attempt number in  *)
(* PostgreSQL and in Redis: AtMostOneCopy, ExclusiveExecution,             *)
(* EnvelopeMatchesRow and AttemptsOnlyGrow, for any number of jobs,        *)
(* promoters, workers and lanes, with crashes, restarts, shutdowns and     *)
(* failing calls, as long as no reaper takes jobs back.                    *)
(***************************************************************************)
EXTENDS JobQueueProofs, FiniteSetTheorems

NoReaper == Reapers = {}

-----------------------------------------------------------------------------
(* How a step moves the copies of a job *)

\* The step gives j to nobody: whatever has a copy after it had it before.
NoNewCopy(j) ==
  /\ QueuedOnce(j) => QueuedOnce(j)'
  /\ InReady(j)' => InReady(j)
  /\ delayed'[j] # "out" => delayed[j] # "out"
  /\ \A p \in Promoters : PromoterCarries(p, j)' => PromoterCarries(p, j)
  /\ \A l \in Lanes : Carries(l, j)' => Carries(l, j)

LEMMA NoNewCopyKeeps ==
  ASSUME NEW j \in Jobs, NoNewCopy(j)
  PROVE  /\ InOnePlace(j) => InOnePlace(j)'
         /\ NoCopy(j) => NoCopy(j)'
<1>1. ASSUME InOnePlace(j)
      PROVE  InOnePlace(j)'
  BY <1>1 DEF NoNewCopy, InOnePlace
<1>2. ASSUME NoCopy(j)
      PROVE  NoCopy(j)'
  BY <1>2 DEF NoNewCopy, NoCopy
<1>3. QED
  BY <1>1, <1>2

\* The five calls that hand a job over.
HandsOver(j) ==
  \/ PushJob(j)
  \/ \E p \in Promoters : TakeDue(p, j)
  \/ \E p \in Promoters : PushDue(p) /\ promoting[p] = j
  \/ \E l \in Lanes : ClaimJob(l) /\ j = Rightmost(scan[l])
  \/ \E l \in Lanes : DelayJob(l) /\ claim[l] = j

LEMMA SameLanesCarry ==
  ASSUME UNCHANGED workerVars
  PROVE  \A j \in Jobs, l \in Lanes : Carries(l, j)' <=> Carries(l, j)
BY DEF workerVars, Carries

LEMMA SameLanesHandNothing ==
  ASSUME TypeOK, UNCHANGED workerVars
  PROVE  \A l \in Lanes : ~ClaimJob(l) /\ ~DelayJob(l)
BY DEF TypeOK, WorkerTypeOK, ClaimJob, DelayJob, Goto, workerVars

LEMMA SameQueued ==
  ASSUME ready' = ready
  PROVE  \A j \in Jobs : /\ QueuedOnce(j)' <=> QueuedOnce(j)
                         /\ InReady(j)' <=> InReady(j)
BY DEF QueuedOnce, InReady

LEMMA ApiNoNewCopy ==
  ASSUME TypeOK, ApiNext, NEW j \in Jobs, ~HandsOver(j)
  PROVE  NoNewCopy(j)
<1> USE DEF TypeOK, StoreTypeOK, ApiTypeOK
<1>1. \A l \in Lanes : Carries(l, j)' <=> Carries(l, j)
  BY SameLanesCarry DEF ApiNext
<1>2. ASSUME NEW i \in Jobs, Enqueue(i) \/ FailRequest(i)
      PROVE  NoNewCopy(j)
  <2>1. \A p \in Promoters : PromoterCarries(p, j)' <=> PromoterCarries(p, j)
    BY <1>2, RequestFrame DEF promoterVars, PromoterCarries
  <2>2. delayed'[j] # "out" => delayed[j] # "out"
    <3>1. CASE PushJob(i)
      BY <3>1 DEF PushJob, HandsOver, ZAdd, LPush
    <3>2. CASE UNCHANGED delayed
      BY <3>2
    <3>3. QED
      BY <1>2, <3>1, <3>2, RequestFrame
  <2>3. CASE PushJob(i) /\ LPush(i)
    <3>1. i # j
      BY <2>3 DEF HandsOver
    <3>2. (InReady(j)' => InReady(j)) /\ (QueuedOnce(j) => QueuedOnce(j)')
      BY <2>3, <3>1, LPushQueued
    <3>3. QED
      BY <1>1, <2>1, <2>2, <3>2 DEF NoNewCopy
  <2>4. CASE ~(PushJob(i) /\ LPush(i))
    <3>1. ready' = ready
      <4>1. CASE PushJob(i)
        BY <2>4, <4>1 DEF PushJob, ZAdd
      <4>2. QED
        BY <1>2, <4>1, RequestFrame
    <3>2. QED
      BY <1>1, <2>1, <2>2, <3>1, SameQueued DEF NoNewCopy
  <2>5. QED
    BY <2>3, <2>4
<1>3. ASSUME NEW p \in Promoters, Promote(p) \/ FailPromotion(p)
      PROVE  NoNewCopy(j)
  <2>1. ASSUME NEW q \in Promoters, PromoterCarries(q, j)'
        PROVE  PromoterCarries(q, j)
    <3>1. CASE q # p
      BY <1>3, <2>1, <3>1
         DEF Promote, FailPromotion, ScanDue, TakeDue, MissDue, EndPromotion, LoadDue, PushDue,
             MarkQueued, PromoterCarries
    <3>2. CASE q = p /\ \E i \in Jobs : TakeDue(p, i)
      <4>1. PICK i \in Jobs : TakeDue(p, i)
        BY <3>2
      <4>2. promoting'[p] = i
        BY <4>1 DEF TakeDue
      <4>3. ~TakeDue(p, j)
        BY DEF HandsOver
      <4>4. QED
        BY <2>1, <3>2, <4>1, <4>2, <4>3 DEF PromoterCarries
    <3>3. CASE q = p /\ ~\E i \in Jobs : TakeDue(p, i)
      BY <1>3, <2>1, <3>3
         DEF Promote, FailPromotion, ScanDue, MissDue, EndPromotion, LoadDue, PushDue,
             MarkQueued, PromoterCarries
    <3>4. QED
      BY <3>1, <3>2, <3>3
  <2>2. delayed'[j] # "out" => delayed[j] # "out"
    <3>1. ASSUME NEW i \in Jobs, TakeDue(p, i)
          PROVE  delayed'[j] # "out" => delayed[j] # "out"
      BY <3>1 DEF TakeDue, ZRem
    <3>2. QED
      BY <1>3, <3>1, PromoterFrame
  <2>3. CASE PushDue(p)
    <3>1. promoting[p] \in Jobs /\ promoting[p] # j /\ LPush(promoting[p])
      BY <2>3 DEF PushDue, HandsOver
    <3>2. (InReady(j)' => InReady(j)) /\ (QueuedOnce(j) => QueuedOnce(j)')
      BY <3>1, LPushQueued
    <3>3. QED
      BY <1>1, <2>1, <2>2, <3>2 DEF NoNewCopy
  <2>4. CASE ~PushDue(p)
    <3>1. ready' = ready
      BY <1>3, <2>4, PromoterFrame
    <3>2. QED
      BY <1>1, <2>1, <2>2, <3>1, SameQueued DEF NoNewCopy
  <2>5. QED
    BY <2>3, <2>4
<1>4. QED
  BY <1>2, <1>3 DEF ApiNext

LEMMA WorkerNoNewCopy ==
  ASSUME TypeOK, FailuresAreCaught, WorkerNext, NEW j \in Jobs, ~HandsOver(j)
  PROVE  NoNewCopy(j)
<1> USE DEF TypeOK, StoreTypeOK, WorkerTypeOK
<1>1. \A p \in Promoters : PromoterCarries(p, j)' <=> PromoterCarries(p, j)
  BY DEF WorkerNext, apiVars, promoterVars, PromoterCarries
<1>2. ASSUME NEW w \in Workers, WorkerStep(w) \/ CrashWorker(w)
      PROVE  NoNewCopy(j)
  <2>1. UNCHANGED <<ready, delayed>>
    BY <1>2, LivesKeepStore
  <2>2. ASSUME NEW l \in Lanes, Carries(l, j)'
        PROVE  Carries(l, j)
    BY <1>2, <2>2, LivesMoveLanes DEF Carries
  <2>3. QED
    BY <1>1, <2>1, <2>2, SameQueued DEF NoNewCopy
<1>3. ASSUME NEW l \in Lanes, ClaimJob(l)
      PROVE  NoNewCopy(j)
  <2>1. scan[l] \in Levels /\ Host[l] \in Workers /\ LMove(scan[l], Host[l])
    BY <1>3, HostAssumption DEF ClaimJob
  <2>2. delayed' = delayed
    BY <2>1 DEF LMove
  <2>3. (InReady(j)' => InReady(j)) /\ (QueuedOnce(j) => QueuedOnce(j)')
    BY <2>1, LMoveQueued
  <2>4. ASSUME NEW m \in Lanes, Carries(m, j)'
        PROVE  Carries(m, j)
    BY <1>3, <2>4 DEF ClaimJob, HandsOver, Carries
  <2>5. QED
    BY <1>1, <2>2, <2>3, <2>4 DEF NoNewCopy
<1>4. ASSUME NEW l \in Lanes, LaneStep(l) \/ Heartbeat(l) \/ LaneFault(l), ~ClaimJob(l)
      PROVE  NoNewCopy(j)
  <2>1. ready' = ready
    BY <1>4, LaneStore
  <2>2. delayed'[j] # "out" => delayed[j] # "out"
    <3>1. CASE DelayJob(l)
      BY <3>1 DEF DelayJob, ZAdd, HandsOver
    <3>2. QED
      BY <1>4, <3>1, LaneStore
  <2>3. ASSUME NEW m \in Lanes, Carries(m, j)', m # l
        PROVE  Carries(m, j)
    BY <1>4, <2>3, OtherLanesStay DEF Carries
  <2>4. ASSUME Carries(l, j)'
        PROVE  Carries(l, j)
    <3> USE <2>4, NoneAssumption DEF Carries, Goto
    <3>1. CASE StopLane(l) \/ BeginClaim(l) \/ PollNext(l) \/ FirstBeat(l) \/ FetchEnvelope(l)
      BY <3>1 DEF StopLane, BeginClaim, PollNext, FirstBeat, FetchEnvelope, BackToIdle
    <3>2. CASE Activate(l) \/ Succeed(l) \/ Complete(l) \/ ClearEnvelope(l)
      BY <3>2 DEF Activate, Succeed, Complete, ClearEnvelope
    <3>3. CASE Confound(l) \/ Reject(l)
      BY <3>3 DEF Confound, Reject, BackToIdle, Catch
    <3>4. CASE Reschedule(l) \/ Bury(l) \/ SaveEnvelope(l)
      BY <3>4 DEF Reschedule, Bury, SaveEnvelope
    <3>5. CASE DelayJob(l)
      BY <3>5 DEF DelayJob, FailuresAreCaught
    <3>6. CASE ReleaseJob(l) \/ Unbeat(l)
      BY <3>6 DEF ReleaseJob, Unbeat, BackToIdle
    <3>7. CASE Heartbeat(l)
      BY <3>7 DEF Heartbeat, workerVars
    <3>8. CASE LaneFault(l)
      BY <3>8 DEF LaneFault, FaultInClaim, FaultInTry, FaultInHandleFailure, BackToIdle, Catch
    <3>9. QED
      BY <1>4, <3>1, <3>2, <3>3, <3>4, <3>5, <3>6, <3>7, <3>8 DEF LaneStep
  <2>5. QED
    BY ONLY <1>1, <2>1, <2>2, <2>3, <2>4, SameQueued, j \in Jobs DEF NoNewCopy
<1>5. QED
  BY <1>2, <1>3, <1>4 DEF WorkerNext

LEMMA StepNoNewCopy ==
  ASSUME NoReaper, TypeOK, FailuresAreCaught, [Next]_vars, NEW j \in Jobs, ~HandsOver(j)
  PROVE  NoNewCopy(j)
<1>1. CASE ReaperNext \/ TimeNext \/ UNCHANGED vars
  <2>1. /\ UNCHANGED <<ready, promoterVars, workerVars>>
        /\ delayed'[j] # "out" => delayed[j] # "out"
    BY <1>1
       DEF NoReaper, ReaperNext, ExpireLock, TimeNext, ExpireKey, Ripen, AgeHeartbeat, Age,
           vars, storeVars, apiVars, submitVars, TypeOK, StoreTypeOK
  <2>2. QED
    BY <2>1, SameQueued, SameLanesCarry DEF NoNewCopy, PromoterCarries, promoterVars
<1>2. QED
  BY <1>1, ApiNoNewCopy, WorkerNoNewCopy DEF Next

\* Whoever hands a job over has it, and has it no more.
LEMMA HandOverKeeps ==
  ASSUME NoReaper, TypeOK, FailuresAreCaught, [Next]_vars, NEW j \in Jobs, HandsOver(j),
         InOnePlace(j), PushJob(j) => NoCopy(j)
  PROVE  InOnePlace(j)'
<1> USE DEF TypeOK, StoreTypeOK, ApiTypeOK, WorkerTypeOK
<1>1. \/ /\ ApiNext /\ UNCHANGED workerVars
         /\ \/ PushJob(j)
            \/ \E p \in Promoters : TakeDue(p, j) \/ (PushDue(p) /\ promoting[p] = j)
      \/ /\ WorkerNext /\ UNCHANGED apiVars
         /\ \E l \in Lanes :
              (ClaimJob(l) /\ j = Rightmost(scan[l])) \/ (DelayJob(l) /\ claim[l] = j)
  <2>1. CASE UNCHANGED workerVars
    <3>1. \A l \in Lanes : ~ClaimJob(l) /\ ~DelayJob(l)
      BY <2>1, SameLanesHandNothing
    <3>2. ~UNCHANGED <<request, promoterVars>>
      BY <3>1 DEF HandsOver, PushJob, TakeDue, PushDue, promoterVars
    <3>3. ApiNext
      BY <3>2 DEF Next, WorkerNext, ReaperNext, TimeNext, ExpireKey, vars, apiVars, submitVars
    <3>4. QED
      BY <2>1, <3>1, <3>3 DEF HandsOver
  <2>2. CASE ~UNCHANGED workerVars
    <3>1. WorkerNext /\ UNCHANGED apiVars
      BY <2>2 DEF Next, ApiNext, WorkerNext, ReaperNext, TimeNext, vars
    <3>2. ~PushJob(j) /\ \A p \in Promoters : ~TakeDue(p, j) /\ ~PushDue(p)
      BY <3>1 DEF apiVars, submitVars, promoterVars, PushJob, TakeDue, PushDue
    <3>3. QED
      BY <3>1, <3>2 DEF HandsOver
  <2>3. QED
    BY <2>1, <2>2
<1>2. CASE PushJob(j) /\ UNCHANGED workerVars
  <2>1. UNCHANGED promoterVars
    BY <1>2 DEF PushJob
  <2>2. \A p \in Promoters : ~PromoterCarries(p, j)'
    BY <1>2, <2>1 DEF NoCopy, PromoterCarries, promoterVars
  <2>3. \A l \in Lanes : ~Carries(l, j)'
    BY <1>2, SameLanesCarry DEF NoCopy
  <2>4. QueuedOnce(j)' /\ (InReady(j)' => delayed'[j] = "out")
    <3>1. CASE j \in Deferred
      <4>1. ZAdd(j)
        BY <1>2, <3>1 DEF PushJob
      <4>2. QED
        BY <1>2, <4>1, SameQueued DEF ZAdd, NoCopy, InOnePlace
    <3>2. CASE j \notin Deferred
      <4>1. LPush(j)
        BY <1>2, <3>2 DEF PushJob
      <4>2. QED
        BY <1>2, <4>1, LPushQueued DEF LPush, NoCopy, InOnePlace
    <3>3. QED
      BY <3>1, <3>2
  <2>5. QED
    BY <2>2, <2>3, <2>4 DEF InOnePlace
<1>3. ASSUME NEW p \in Promoters, TakeDue(p, j), UNCHANGED workerVars
      PROVE  InOnePlace(j)'
  <2>1. /\ delayed[j] # "out" /\ delayed'[j] = "out" /\ ready' = ready
        /\ \A q \in Promoters : q # p => (PromoterCarries(q, j)' => PromoterCarries(q, j))
    BY <1>3 DEF TakeDue, ZRem, PromoterCarries
  <2>2. \A q \in Promoters : PromoterCarries(q, j)' => q = p
    BY <2>1 DEF InOnePlace
  <2>3. \A l \in Lanes : ~Carries(l, j)'
    BY <1>3, <2>1, SameLanesCarry DEF InOnePlace
  <2>4. QueuedOnce(j)' /\ ~InReady(j)'
    BY <2>1, SameQueued DEF InOnePlace
  <2>5. QED
    BY <2>1, <2>2, <2>3, <2>4 DEF InOnePlace
<1>4. ASSUME NEW p \in Promoters, PushDue(p), promoting[p] = j, UNCHANGED workerVars
      PROVE  InOnePlace(j)'
  <2>1. PromoterCarries(p, j)
    BY <1>4 DEF PushDue, PromoterCarries
  <2>2. LPush(j) /\ delayed'[j] = "out"
    BY <1>4, <2>1 DEF PushDue, LPush, InOnePlace
  <2>3. QueuedOnce(j)'
    BY <2>1, <2>2, LPushQueued DEF InOnePlace
  <2>4. \A q \in Promoters : ~PromoterCarries(q, j)'
    BY <1>4, <2>1 DEF PushDue, PromoterCarries, InOnePlace
  <2>5. \A l \in Lanes : ~Carries(l, j)'
    BY <1>4, <2>1, SameLanesCarry DEF InOnePlace
  <2>6. QED
    BY <2>2, <2>3, <2>4, <2>5 DEF InOnePlace
<1>5. ASSUME NEW l \in Lanes, ClaimJob(l), j = Rightmost(scan[l]), UNCHANGED apiVars
      PROVE  InOnePlace(j)'
  <2>1. scan[l] \in Levels /\ Host[l] \in Workers /\ LMove(scan[l], Host[l])
    BY <1>5, HostAssumption DEF ClaimJob
  <2>2. InReady(j)
    BY <1>5, <2>1, LMoveQueued
  <2>3. QueuedOnce(j)' /\ ~InReady(j)'
    BY <1>5, <2>1, LMoveQueued DEF InOnePlace
  <2>4. delayed'[j] = "out"
    BY <2>1, <2>2 DEF LMove, InOnePlace
  <2>5. \A p \in Promoters : ~PromoterCarries(p, j)'
    BY <1>5, <2>2 DEF apiVars, promoterVars, PromoterCarries, InOnePlace
  <2>6. \A m \in Lanes : Carries(m, j)' => m = l
    BY <1>5, <2>2 DEF ClaimJob, Carries, InOnePlace
  <2>7. QED
    BY <2>3, <2>4, <2>5, <2>6 DEF InOnePlace
<1>6. ASSUME NEW l \in Lanes, DelayJob(l), claim[l] = j, UNCHANGED apiVars
      PROVE  InOnePlace(j)'
  <2>1. Carries(l, j) /\ caught[l]
    BY <1>6 DEF DelayJob, Carries, FailuresAreCaught
  <2>2. ready' = ready
    BY <1>6 DEF DelayJob, ZAdd
  <2>3. QueuedOnce(j)' /\ ~InReady(j)'
    BY <2>1, <2>2, SameQueued DEF InOnePlace
  <2>4. \A p \in Promoters : ~PromoterCarries(p, j)'
    BY <1>6, <2>1 DEF apiVars, promoterVars, PromoterCarries, InOnePlace
  <2>5. \A m \in Lanes : ~Carries(m, j)'
    BY <1>6, <2>1 DEF DelayJob, Goto, Carries, InOnePlace
  <2>6. QED
    BY <2>3, <2>4, <2>5 DEF InOnePlace
<1>7. QED
  BY <1>1, <1>2, <1>3, <1>4, <1>5, <1>6

\* A job without a copy gets one only from its own POST.
LEMMA NoCopyStays ==
  ASSUME NoReaper, TypeOK, FailuresAreCaught, [Next]_vars, NEW j \in Jobs, NoCopy(j),
         ~PushJob(j)
  PROVE  NoCopy(j)'
<1> USE DEF TypeOK, WorkerTypeOK
<1>1. \A p \in Promoters : ~TakeDue(p, j) /\ ~(PushDue(p) /\ promoting[p] = j)
  BY DEF NoCopy, TakeDue, PushDue, PromoterCarries
<1>2. \A l \in Lanes : ~(DelayJob(l) /\ claim[l] = j)
  BY DEF NoCopy, DelayJob, Carries
<1>3. \A l \in Lanes : ~(ClaimJob(l) /\ j = Rightmost(scan[l]))
  <2>1. ASSUME NEW l \in Lanes, ClaimJob(l)
        PROVE  InReady(Rightmost(scan[l]))
    <3>1. scan[l] \in Levels /\ Host[l] \in Workers /\ LMove(scan[l], Host[l])
      BY <2>1, HostAssumption DEF ClaimJob
    <3>2. QED
      BY <3>1, LMoveQueued
  <2>2. QED
    BY <2>1 DEF NoCopy
<1>4. ~HandsOver(j)
  BY <1>1, <1>2, <1>3 DEF HandsOver
<1>5. QED
  BY <1>4, StepNoNewCopy, NoNewCopyKeeps

\* The only copy is gone when its lane stops carrying it.
LEMMA LastCopyGone ==
  ASSUME NEW j \in Jobs, NEW l \in Lanes, InOnePlace(j), NoNewCopy(j),
         Carries(l, j), ~Carries(l, j)'
  PROVE  NoCopy(j)'
BY DEF InOnePlace, NoNewCopy, NoCopy

-----------------------------------------------------------------------------
(* handleFailure and burial *)

LEMMA FailuresStep ==
  ASSUME TypeOK, FailuresAreCaught, [Next]_vars
  PROVE  FailuresAreCaught'
<1> USE DEF TypeOK, WorkerTypeOK
<1>1. CASE UNCHANGED workerVars
  BY <1>1 DEF workerVars, FailuresAreCaught
<1>2. ASSUME NEW w \in Workers, WorkerStep(w) \/ CrashWorker(w)
      PROVE  FailuresAreCaught'
  BY <1>2, LivesMoveLanes DEF FailuresAreCaught
<1>3. ASSUME NEW l \in Lanes, LaneStep(l) \/ Heartbeat(l) \/ LaneFault(l)
      PROVE  FailuresAreCaught'
  <2>1. lanePc'[l] \in {"fail", "save", "delay"} => caught'[l]
    <3> USE DEF FailuresAreCaught, Goto, BackToIdle, Catch
    <3>1. CASE \/ StopLane(l) \/ BeginClaim(l) \/ PollNext(l) \/ ClaimJob(l) \/ FirstBeat(l)
               \/ FetchEnvelope(l)
      BY <3>1 DEF StopLane, BeginClaim, PollNext, ClaimJob, FirstBeat, FetchEnvelope
    <3>2. CASE Activate(l) \/ Confound(l) \/ Succeed(l) \/ Reject(l) \/ Complete(l)
      BY <3>2 DEF Activate, Confound, Succeed, Reject, Complete
    <3>3. CASE Reschedule(l) \/ Bury(l) \/ SaveEnvelope(l) \/ DelayJob(l)
      BY <3>3 DEF Reschedule, Bury, SaveEnvelope, DelayJob
    <3>4. CASE ClearEnvelope(l) \/ ReleaseJob(l) \/ Unbeat(l)
      BY <3>4 DEF ClearEnvelope, ReleaseJob, Unbeat
    <3>5. CASE Heartbeat(l) \/ LaneFault(l)
      BY <3>5 DEF Heartbeat, LaneFault, FaultInClaim, FaultInTry, FaultInHandleFailure,
                  workerVars
    <3>6. QED
      BY <1>3, <3>1, <3>2, <3>3, <3>4, <3>5 DEF LaneStep
  <2>2. QED
    BY <1>3, <2>1, OtherLanesStay DEF FailuresAreCaught
<1>4. QED
  BY <1>1, <1>2, <1>3 DEF Next, ApiNext, WorkerNext, ReaperNext, TimeNext, vars

\* The UPDATE that ends a job takes its only copy.
LEMMA EndedIsGone ==
  ASSUME NoReaper, TypeOK, FailuresAreCaught, WorkerNext, NEW l \in Lanes,
         Bury(l) \/ (Complete(l) /\ caught[l]), InOnePlace(claim[l])
  PROVE  claim[l] \in Jobs /\ claim'[l] = claim[l] /\ NoCopy(claim[l])'
<1> USE DEF TypeOK, WorkerTypeOK
<1>1. PICK j \in Jobs : j = claim[l] /\ j = claim'[l]
  BY DEF Complete, Bury, Goto, Jobless
<1>2. lanePc'[l] = "clear" /\ caught'[l]
  BY DEF Complete, Bury, Goto, FailuresAreCaught
<1>3. Carries(l, j) /\ ~Carries(l, j)'
  BY <1>1, <1>2 DEF Complete, Bury, Carries
<1>4. ~HandsOver(j)
  <2>1. UNCHANGED apiVars
    BY DEF WorkerNext
  <2>2. ~PushJob(j) /\ \A p \in Promoters : ~TakeDue(p, j) /\ ~PushDue(p)
    BY <2>1 DEF apiVars, submitVars, promoterVars, PushJob, TakeDue, PushDue, ApiTypeOK
  <2>3. \A m \in Lanes : m # l => UNCHANGED <<lanePc[m], claim[m], caught[m]>>
    BY OtherLanesStay DEF LaneStep
  <2>4. \A m \in Lanes : ~ClaimJob(m) /\ ~DelayJob(m)
    BY <1>2, <2>3 DEF ClaimJob, DelayJob, Goto, Complete, Bury
  <2>5. QED
    BY <2>2, <2>4 DEF HandsOver
<1>5. NoCopy(j)'
  BY <1>1, <1>3, <1>4, StepNoNewCopy, LastCopyGone DEF Next
<1>6. QED
  BY <1>1, <1>5

LEMMA BuriedStep ==
  ASSUME NoReaper, TypeOK, AcceptedFirst, FailuresAreCaught, BuriedAreGone,
         \A j \in Jobs : InOnePlace(j), [Next]_vars
  PROVE  BuriedAreGone'
<1> USE DEF TypeOK, WorkerTypeOK
<1>1. ASSUME NEW l \in Lanes, UNCHANGED <<lanePc[l], claim[l], caught[l]>>,
             lanePc'[l] = "clear", caught'[l]
      PROVE  NoCopy(claim[l])'
  <2>1. PICK j \in Jobs : j = claim[l] /\ j = claim'[l]
    BY <1>1 DEF Jobless
  <2>2. NoCopy(j) /\ Accepted(j)
    BY <1>1, <2>1 DEF BuriedAreGone, AcceptedFirst, Circulates
  <2>3. NoCopy(j)'
    BY <2>2, NoCopyStays DEF PushJob, Accepted
  <2>4. QED
    BY <2>1, <2>3
<1>2. CASE UNCHANGED workerVars
  BY <1>1, <1>2 DEF workerVars, BuriedAreGone
<1>3. ASSUME NEW w \in Workers, WorkerStep(w) \/ CrashWorker(w)
      PROVE  BuriedAreGone'
  BY <1>1, <1>3, LivesMoveLanes DEF BuriedAreGone
<1>4. ASSUME WorkerNext, NEW l \in Lanes, LaneStep(l) \/ Heartbeat(l) \/ LaneFault(l)
      PROVE  BuriedAreGone'
  <2>1. ASSUME lanePc'[l] = "clear", caught'[l]
        PROVE  NoCopy(claim[l])'
    <3>1. CASE Complete(l) \/ Bury(l)
      <4>1. claim[l] \in Jobs /\ (Bury(l) \/ (Complete(l) /\ caught[l]))
        BY <2>1, <3>1 DEF Complete, Bury, Goto, Jobless
      <4>2. QED
        BY <1>4, <4>1, EndedIsGone
    <3>2. CASE Heartbeat(l)
      BY <1>1, <2>1, <3>2 DEF Heartbeat, workerVars
    <3>3. CASE ~Complete(l) /\ ~Bury(l) /\ ~Heartbeat(l)
      BY <1>4, <2>1, <3>3
         DEF LaneStep, LaneFault, StopLane, BeginClaim, PollNext, ClaimJob,
             FirstBeat, FetchEnvelope, Activate, Confound, Succeed, Reject,
             ClearEnvelope, Reschedule, SaveEnvelope, DelayJob, ReleaseJob, Unbeat,
             FaultInClaim, FaultInTry, FaultInHandleFailure, Goto, BackToIdle, Catch
    <3>4. QED
      BY <3>1, <3>2, <3>3
  <2>2. \A m \in Lanes : m # l => UNCHANGED <<lanePc[m], claim[m], caught[m]>>
    BY <1>4, OtherLanesStay
  <2>3. QED
    BY <1>1, <2>1, <2>2 DEF BuriedAreGone
<1>5. QED
  BY <1>2, <1>3, <1>4 DEF Next, ApiNext, WorkerNext, ReaperNext, TimeNext, vars

-----------------------------------------------------------------------------
(* Envelopes and rows *)

\* Where neither number changes and nobody new waits or carries, they agree.
LEMMA AgreementKept ==
  ASSUME NEW j \in Jobs, AttemptsAgree(j), request'[j] = request[j],
         attempt'[j] = attempt[j], jobData'[j] = jobData[j],
         Waiting(j)' => Waiting(j),
         \A l \in Lanes : Carries(l, j)' =>
           Carries(l, j) /\ lanePc'[l] = lanePc[l] /\ env'[l] = env[l]
  PROVE  AttemptsAgree(j)'
BY DEF AttemptsAgree

LEMMA SameLanesWait ==
  ASSUME NEW j \in Jobs, UNCHANGED workerVars, NoNewCopy(j)
  PROVE  Waiting(j)' => Waiting(j)
BY DEF workerVars, NoNewCopy, Waiting

LEMMA SubmissionAgrees ==
  ASSUME NoReaper, TypeOK, AcceptedFirst, FailuresAreCaught, ApiNext, NEW j \in Jobs,
         AttemptsAgree(j), NEW i \in Jobs, Enqueue(i) \/ FailRequest(i)
  PROVE  AttemptsAgree(j)'
<1> USE DEF TypeOK, StoreTypeOK, ApiTypeOK
<1>1. UNCHANGED workerVars
  BY DEF ApiNext
<1>2. CASE i # j
  <2>1. request'[j] = request[j] /\ attempt'[j] = attempt[j] /\ jobData'[j] = jobData[j]
    BY <1>2
       DEF Enqueue, LookUpKey, InsertJob, CreateRow, RejectInsert, RememberKey, StoreEnvelope,
           PushJob, FailRequest, storeVars, WriteRow, SetEnvelope, ZAdd, LPush
  <2>2. ~HandsOver(j)
    <3>1. UNCHANGED promoterVars /\ ~PushJob(j)
      BY <2>1
         DEF Enqueue, LookUpKey, InsertJob, CreateRow, RejectInsert, RememberKey,
             StoreEnvelope, PushJob, FailRequest
    <3>2. \A p \in Promoters : ~TakeDue(p, j) /\ ~PushDue(p)
      BY <3>1 DEF promoterVars, TakeDue, PushDue
    <3>3. \A m \in Lanes : ~ClaimJob(m) /\ ~DelayJob(m)
      BY <1>1, SameLanesHandNothing
    <3>4. QED
      BY <3>1, <3>2, <3>3 DEF HandsOver
  <2>3. NoNewCopy(j)
    BY <2>2, ApiNoNewCopy
  <2>4. Waiting(j)' => Waiting(j)
    BY <1>1, <2>3, SameLanesWait
  <2>5. QED
    BY <1>1, <2>1, <2>4, AgreementKept, SameLanesCarry DEF workerVars
<1>3. CASE PushJob(j)
  <2>1. /\ request[j] = "stored" /\ request'[j] = "accepted"
        /\ attempt'[j] = attempt[j] /\ jobData'[j] = jobData[j]
    BY <1>3 DEF PushJob, ZAdd, LPush
  <2>2. attempt[j] = 0 /\ jobData[j] = 0 /\ MaxRetries[j] \in Nat
    BY <2>1, MaxRetriesAssumption DEF AttemptsAgree
  <2>3. ~Circulates(j)
    BY <2>1 DEF AcceptedFirst, Accepted
  <2>4. \A l \in Lanes : ~Carries(l, j)'
    BY <1>1, <2>3, SameLanesCarry DEF Carries, Circulates
  <2>5. QED
    BY <2>1, <2>2, <2>4 DEF AttemptsAgree
<1>4. CASE i = j /\ ~PushJob(j)
  <2>1. ~Accepted(j)
    BY <1>4
       DEF Enqueue, LookUpKey, InsertJob, CreateRow, RejectInsert, ReadyToInsert, RememberKey,
           StoreEnvelope, FailRequest, Accepted
  <2>2. ~Circulates(j)'
    BY <1>4, <2>1, CirculationStep DEF AcceptedFirst, Next
  <2>3. ~Waiting(j)' /\ \A l \in Lanes : ~Carries(l, j)'
    BY <2>2 DEF Waiting, Circulates, Carries, PromoterCarries
  <2>4. request'[j] \in {"new", "missed", "inserted", "remembered", "stored"} => attempt'[j] = 0
    BY <1>4
       DEF Enqueue, LookUpKey, InsertJob, CreateRow, RejectInsert, ReadyToInsert, RememberKey,
           StoreEnvelope, FailRequest, storeVars, WriteRow, SetEnvelope, AttemptsAgree
  <2>5. request'[j] = "stored" => jobData'[j] = 0
    BY <1>4
       DEF Enqueue, LookUpKey, InsertJob, CreateRow, RejectInsert, ReadyToInsert, RememberKey,
           StoreEnvelope, FailRequest, storeVars, WriteRow, SetEnvelope, AttemptsAgree
  <2>6. QED
    BY <2>3, <2>4, <2>5 DEF AttemptsAgree
<1>5. QED
  BY <1>2, <1>3, <1>4

LEMMA PromotionAgrees ==
  ASSUME TypeOK, ApiNext, NEW j \in Jobs, AttemptsAgree(j), InOnePlace(j),
         NEW p \in Promoters, Promote(p) \/ FailPromotion(p)
  PROVE  AttemptsAgree(j)'
<1> USE DEF TypeOK, StoreTypeOK, ApiTypeOK
<1>1. UNCHANGED workerVars
  BY DEF ApiNext
<1>2. request'[j] = request[j] /\ attempt'[j] = attempt[j] /\ jobData'[j] = jobData[j]
  BY DEF Promote, FailPromotion, ScanDue, TakeDue, MissDue, EndPromotion, LoadDue, PushDue,
         MarkQueued, submitVars, storeVars, WriteRow, ZRem, LPush
<1>3. Waiting(j)' => Waiting(j)
  <2>1. CASE HandsOver(j)
    <3>1. \A m \in Lanes : ~ClaimJob(m) /\ ~DelayJob(m)
      BY <1>1, SameLanesHandNothing
    <3>2. ~PushJob(j)
      BY <1>2 DEF PushJob
    <3>3. QED
      BY <2>1, <3>1, <3>2 DEF HandsOver, TakeDue, PushDue, PromoterCarries, Waiting
  <2>2. CASE ~HandsOver(j)
    BY <1>1, <2>2, ApiNoNewCopy, SameLanesWait
  <2>3. QED
    BY <2>1, <2>2
<1>4. QED
  BY <1>1, <1>2, <1>3, AgreementKept, SameLanesCarry DEF workerVars

LEMMA LifeAgrees ==
  ASSUME NoReaper, TypeOK, FailuresAreCaught, WorkerNext, NEW j \in Jobs, AttemptsAgree(j),
         NEW w \in Workers, WorkerStep(w) \/ CrashWorker(w)
  PROVE  AttemptsAgree(j)'
<1> USE DEF TypeOK, StoreTypeOK, WorkerTypeOK
<1>1. request'[j] = request[j] /\ attempt'[j] = attempt[j] /\ jobData'[j] = jobData[j]
  BY LivesKeepStore DEF WorkerNext, apiVars, submitVars
<1>2. ASSUME NEW l \in Lanes
      PROVE  \/ lanePc'[l] \in {"idle", "stopped"}
             \/ UNCHANGED <<lanePc[l], claim[l], env[l], caught[l]>>
  BY LivesMoveLanes
<1>3. UNCHANGED <<ready, delayed, promoterVars>>
  BY LivesKeepStore DEF WorkerNext, apiVars
<1>4. Waiting(j)' => Waiting(j)
  BY <1>2, <1>3, SameQueued DEF Waiting, PromoterCarries, promoterVars
<1>5. QED
  BY <1>1, <1>2, <1>4, AgreementKept DEF Carries

\* The lane that carries the job is the only one that writes its numbers.
LEMMA CarrierAgrees ==
  ASSUME TypeOK, AcceptedFirst, FailuresAreCaught, WorkerNext, NEW j \in Jobs,
         InOnePlace(j), AttemptsAgree(j), InOnePlace(j)',
         NEW l \in Lanes, LaneStep(l) \/ Heartbeat(l) \/ LaneFault(l), Carries(l, j)
  PROVE  AttemptsAgree(j)'
<1> USE MaxRetriesAssumption DEF TypeOK, StoreTypeOK, WorkerTypeOK, Attempts
<1>1. /\ claim[l] = j /\ lanePc[l] # "poll"
      /\ ~InReady(j) /\ delayed[j] = "out"
      /\ \A p \in Promoters : ~PromoterCarries(p, j)
      /\ \A m \in Lanes : m # l => ~Carries(m, j)
  BY DEF Carries, InOnePlace
<1>2. UNCHANGED apiVars /\ Accepted(j)
  BY <1>1 DEF WorkerNext, AcceptedFirst, Circulates
<1>3. \A m \in Lanes : m # l => UNCHANGED <<lanePc[m], claim[m], env[m], caught[m]>>
  BY OtherLanesStay
<1>4. \A m \in Lanes : m # l => ~Carries(m, j)'
  BY <1>1, <1>3 DEF Carries
<1>5. UNCHANGED ready
  BY <1>1, LaneStore DEF ClaimJob
<1>6. ~InReady(j)' /\ \A p \in Promoters : ~PromoterCarries(p, j)'
  BY <1>1, <1>2, <1>5, SameQueued DEF apiVars, promoterVars, PromoterCarries
<1>7. ASSUME Waiting(j)'
      PROVE  jobData'[j] = attempt'[j] /\ attempt'[j] <= MaxRetries[j]
  <2>1. delayed'[j] # "out" \/ (claim'[l] = j /\ lanePc'[l] \in {"beat", "fetch"})
    BY <1>4, <1>6, <1>7 DEF Waiting, Carries
  <2>2. CASE DelayJob(l)
    BY <1>1, <2>2 DEF DelayJob, ZAdd, AttemptsAgree
  <2>3. CASE FirstBeat(l)
    BY <1>1, <2>3 DEF FirstBeat, SetHeartbeat, AttemptsAgree, Waiting
  <2>4. CASE Heartbeat(l)
    BY <1>1, <2>1, <2>4 DEF Heartbeat, SetHeartbeat, workerVars, Beating
  <2>5. CASE ~DelayJob(l) /\ ~FirstBeat(l) /\ ~Heartbeat(l)
    BY <1>1, <2>1, <2>5
       DEF LaneStep, LaneFault, StopLane, BeginClaim, PollNext, ClaimJob,
           FetchEnvelope, Activate, Confound, Succeed, Reject, Complete,
           ClearEnvelope, Reschedule, Bury, SaveEnvelope, ReleaseJob, Unbeat,
           FaultInClaim, FaultInTry, FaultInHandleFailure, Goto, BackToIdle, Catch, storeVars,
           LRem, SetHeartbeat, SetEnvelope, WriteRow
  <2>6. QED
    BY <2>2, <2>3, <2>4, <2>5
<1>8. ASSUME Carries(l, j)'
      PROVE  /\ attempt'[j] <= MaxRetries[j]
             /\ lanePc'[l] \in {"activate", "run", "complete", "fail", "clear", "release",
                               "unbeat"} => env'[l] = attempt'[j]
             /\ lanePc'[l] \in {"save", "delay"} => env'[l] + 1 = attempt'[j]
             /\ lanePc'[l] = "delay" => jobData'[j] = attempt'[j]
  <2>1. CASE Reschedule(l)
    BY <1>1, <2>1 DEF Reschedule, LastAttempt, WriteRow, Goto, AttemptsAgree, Concluding
  <2>2. CASE SaveEnvelope(l)
    BY <1>1, <2>2 DEF SaveEnvelope, SetEnvelope, Goto, AttemptsAgree, Concluding
  <2>3. CASE FetchEnvelope(l)
    BY <1>1, <2>3 DEF FetchEnvelope, storeVars, AttemptsAgree, Waiting
  <2>4. CASE Bury(l) \/ DelayJob(l)
    BY <1>1, <1>8, <2>4 DEF Bury, DelayJob, Goto, Carries, FailuresAreCaught
  <2>5. CASE Heartbeat(l)
    BY <1>1, <2>5 DEF Heartbeat, SetHeartbeat, workerVars, AttemptsAgree
  <2>6. CASE LaneFault(l)
    BY <1>1, <1>8, <2>6, NoneAssumption
       DEF LaneFault, FaultInClaim, FaultInTry, FaultInHandleFailure, BackToIdle, Catch,
           storeVars, Carries, AttemptsAgree
  <2>7. CASE LaneStep(l) /\ ~Reschedule(l) /\ ~SaveEnvelope(l) /\ ~FetchEnvelope(l) /\ ~Bury(l)
             /\ ~DelayJob(l)
    <3>1. attempt'[j] = attempt[j]
      BY <1>1, <2>7
         DEF LaneStep, StopLane, BeginClaim, PollNext, ClaimJob, FirstBeat, Activate, Confound,
             Succeed, Reject, Complete, ClearEnvelope, ReleaseJob, Unbeat, storeVars, LMove,
             LRem, SetHeartbeat, SetEnvelope, WriteRow
    <3>2. \/ env'[l] = env[l]
          \/ lanePc'[l] = "idle"
      BY <1>1, <2>7
         DEF LaneStep, StopLane, BeginClaim, PollNext, ClaimJob, FirstBeat, Activate, Confound,
             Succeed, Reject, Complete, ClearEnvelope, ReleaseJob, Unbeat, Goto, BackToIdle,
             Catch
    <3>3. /\ lanePc'[l] \notin {"save", "delay"}
          /\ lanePc'[l] \in {"activate", "run", "complete", "fail",
                            "clear", "release", "unbeat"} =>
               lanePc[l] \in {"activate", "run", "complete", "fail",
                              "clear", "release", "unbeat"}
      BY <1>1, <2>7
         DEF LaneStep, StopLane, BeginClaim, PollNext, ClaimJob, FirstBeat, Activate, Confound,
             Succeed, Reject, Complete, ClearEnvelope, ReleaseJob, Unbeat, Goto, BackToIdle,
             Catch
    <3>4. QED
      BY <1>8, <3>1, <3>2, <3>3 DEF AttemptsAgree, Carries
  <2>8. QED
    BY <2>1, <2>2, <2>3, <2>4, <2>5, <2>6, <2>7
<1>9. request'[j] = "accepted"
  BY <1>2 DEF apiVars, submitVars, Accepted
<1>10. QED
  BY <1>4, <1>7, <1>8, <1>9 DEF AttemptsAgree

\* A lane that does not carry the job writes none of its numbers.  The envelope
\* it may delete is that of a job with no copy left.
LEMMA BystanderAgrees ==
  ASSUME NoReaper, TypeOK, AcceptedFirst, FailuresAreCaught, BuriedAreGone, WorkerNext,
         NEW j \in Jobs, InOnePlace(j), AttemptsAgree(j),
         NEW l \in Lanes, LaneStep(l) \/ Heartbeat(l) \/ LaneFault(l), ~Carries(l, j)
  PROVE  AttemptsAgree(j)'
<1> USE HostAssumption DEF TypeOK, StoreTypeOK, WorkerTypeOK
<1>1. UNCHANGED apiVars /\ request'[j] = request[j] /\ ~PushJob(j)
  BY DEF WorkerNext, apiVars, submitVars, ApiTypeOK, PushJob
<1>2. \A m \in Lanes : m # l => UNCHANGED <<lanePc[m], claim[m], env[m], caught[m]>>
  BY OtherLanesStay
<1>3. \A m \in Lanes : m # l => (Carries(m, j)' <=> Carries(m, j))
  BY <1>2 DEF Carries
<1>4. CASE ClearEnvelope(l) /\ claim[l] = j
  <2>1. NoCopy(j) /\ Accepted(j)
    BY <1>4 DEF ClearEnvelope, Carries, BuriedAreGone, AcceptedFirst, Circulates
  <2>2. NoCopy(j)'
    BY <1>1, <2>1, NoCopyStays DEF Next
  <2>3. ~Waiting(j)'
    BY <2>2 DEF NoCopy, Waiting, Carries
  <2>4. request'[j] = "accepted"
    BY <1>1, <2>1 DEF Accepted
  <2>5. QED
    BY <2>2, <2>3, <2>4 DEF AttemptsAgree, NoCopy
<1>5. CASE ClaimJob(l) /\ j = Rightmost(scan[l])
  <2>1. scan[l] \in Levels /\ Host[l] \in Workers /\ LMove(scan[l], Host[l])
    BY <1>5 DEF ClaimJob
  <2>2. InReady(j)
    BY <1>5, <2>1, LMoveQueued
  <2>3. attempt'[j] = attempt[j] /\ jobData'[j] = jobData[j] /\ lanePc'[l] = "beat"
    BY <1>5, <2>1 DEF ClaimJob, LMove
  <2>4. jobData[j] = attempt[j] /\ attempt[j] <= MaxRetries[j]
    BY <2>2 DEF AttemptsAgree, Waiting
  <2>5. \A m \in Lanes : Carries(m, j)' => m = l
    BY <1>3, <2>2 DEF InOnePlace
  <2>6. QED
    BY <1>1, <2>3, <2>4, <2>5 DEF AttemptsAgree
<1>6. CASE ~(ClearEnvelope(l) /\ claim[l] = j) /\ ~(ClaimJob(l) /\ j = Rightmost(scan[l]))
  <2>1. attempt'[j] = attempt[j] /\ jobData'[j] = jobData[j]
    <3>1. attempt'[j] = attempt[j]
      <4>1. CASE Activate(l) \/ Complete(l)
        BY <4>1 DEF Activate, Complete, WriteRow
      <4>2. CASE Reschedule(l) \/ Bury(l)
        BY <4>2 DEF Reschedule, Bury, WriteRow, Carries
      <4>3. QED
        BY <4>1, <4>2, LaneRows
    <3>2. CASE ClearEnvelope(l) \/ SaveEnvelope(l)
      BY <1>6, <3>1, <3>2 DEF ClearEnvelope, SaveEnvelope, SetEnvelope, Carries
    <3>3. QED
      BY <3>1, <3>2, LaneStore
  <2>2. ~HandsOver(j)
    <3>1. \A p \in Promoters : ~TakeDue(p, j) /\ ~PushDue(p)
      BY <1>1 DEF apiVars, promoterVars, TakeDue, PushDue, ApiTypeOK
    <3>2. \A m \in Lanes : m # l => ~ClaimJob(m) /\ ~DelayJob(m)
      BY <1>2 DEF ClaimJob, DelayJob, Goto
    <3>3. ~(DelayJob(l) /\ claim[l] = j)
      BY DEF DelayJob, Carries
    <3>4. QED
      BY <1>1, <1>6, <3>1, <3>2, <3>3 DEF HandsOver
  <2>3. NoNewCopy(j)
    BY <2>2, StepNoNewCopy DEF Next
  <2>4. ~Carries(l, j)'
    BY <2>3 DEF NoNewCopy
  <2>5. Waiting(j)' => Waiting(j)
    BY <1>1, <1>2, <2>3, <2>4
       DEF NoNewCopy, Waiting, Carries, apiVars, promoterVars, PromoterCarries
  <2>6. QED
    BY <1>1, <1>2, <1>3, <2>1, <2>4, <2>5, AgreementKept
<1>7. QED
  BY <1>4, <1>5, <1>6

LEMMA AgreementStep ==
  ASSUME NoReaper, CopyInvariant, [Next]_vars, NEW j \in Jobs, InOnePlace(j)'
  PROVE  AttemptsAgree(j)'
<1> USE DEF CopyInvariant
<1>1. CASE ApiNext
  BY <1>1, SubmissionAgrees, PromotionAgrees DEF ApiNext
<1>2. CASE WorkerNext
  BY <1>2, LifeAgrees, CarrierAgrees, BystanderAgrees DEF WorkerNext
<1>3. CASE ReaperNext \/ TimeNext \/ UNCHANGED vars
  <2>1. /\ UNCHANGED <<ready, jobData, attempt, request, promoterVars, workerVars>>
        /\ delayed'[j] # "out" => delayed[j] # "out"
    BY <1>3
       DEF NoReaper, ReaperNext, ExpireLock, TimeNext, ExpireKey, Ripen, AgeHeartbeat, Age,
           vars, storeVars, apiVars, submitVars, TypeOK, StoreTypeOK
  <2>2. NoNewCopy(j)
    BY <2>1, SameQueued, SameLanesCarry DEF NoNewCopy, PromoterCarries, promoterVars
  <2>3. Waiting(j)' => Waiting(j)
    BY <2>1, <2>2, SameLanesWait
  <2>4. QED
    BY <2>1, <2>3, AgreementKept, SameLanesCarry DEF workerVars
<1>4. QED
  BY <1>1, <1>2, <1>3 DEF Next

-----------------------------------------------------------------------------
(* The theorems *)

LEMMA CopyInit == Init => CopyInvariant
<1> SUFFICES ASSUME Init PROVE CopyInvariant
  OBVIOUS
<1>1. TypeOK /\ AcceptedFirst
  BY InitType, AcceptedInit
<1>2. FailuresAreCaught /\ BuriedAreGone
  BY DEF Init, WorkerInit, FailuresAreCaught, BuriedAreGone
<1>3. ASSUME NEW j \in Jobs
      PROVE  NoCopy(j) /\ QueuedOnce(j)
  BY DEF Init, StoreInit, ApiInit, WorkerInit, NoCopy, InReady, QueuedOnce, PromoterCarries,
         Carries
<1>4. ASSUME NEW j \in Jobs
      PROVE  InOnePlace(j)
  BY <1>3 DEF NoCopy, InOnePlace
<1>5. ASSUME NEW j \in Jobs
      PROVE  AttemptsAgree(j)
  <2>1. ~Waiting(j)
    BY <1>3 DEF Init, WorkerInit, NoCopy, Waiting
  <2>2. QED
    BY <1>3, <2>1 DEF Init, StoreInit, ApiInit, NoCopy, AttemptsAgree
<1>6. QED
  BY <1>1, <1>2, <1>4, <1>5 DEF CopyInvariant

LEMMA CopyStep ==
  ASSUME NoReaper, CopyInvariant, [Next]_vars
  PROVE  CopyInvariant'
<1> USE DEF CopyInvariant
<1>1. TypeOK' /\ AcceptedFirst'
  BY TypeStep, AcceptedStep
<1>2. FailuresAreCaught' /\ BuriedAreGone'
  BY FailuresStep, BuriedStep
<1>3. ASSUME NEW j \in Jobs
      PROVE  InOnePlace(j)'
  <2>1. PushJob(j) => NoCopy(j)
    <3>1. PushJob(j) => ~Circulates(j)
      BY DEF PushJob, AcceptedFirst, Accepted
    <3>2. QED
      BY <3>1 DEF Circulates, NoCopy, PromoterCarries, Carries
  <2>2. QED
    BY <2>1, StepNoNewCopy, NoNewCopyKeeps, HandOverKeeps
<1>4. ASSUME NEW j \in Jobs
      PROVE  AttemptsAgree(j)'
  BY <1>3, AgreementStep
<1>5. QED
  BY <1>1, <1>2, <1>3, <1>4

\* Every job has at most one carrier, and its envelope and its row agree
\* wherever the next execution is decided, whatever crashes, restarts, drains
\* or fails, while no reaper takes jobs back.
THEOREM OneCarrier ==
  ASSUME NoReaper
  PROVE  Spec => []CopyInvariant
<1>1. Init => CopyInvariant
  BY CopyInit
<1>2. CopyInvariant /\ [Next]_vars => CopyInvariant'
  BY CopyStep
<1>3. QED
  BY <1>1, <1>2, PTL DEF Spec

\* A set without two different members.
LEMMA AtMostOne ==
  ASSUME NEW S, \A x, y \in S : x = y
  PROVE  /\ Cardinality(S) \in {0, 1}
         /\ Cardinality(S) = 1 => S # {}
<1>1. CASE S = {}
  BY <1>1, FS_EmptySet
<1>2. CASE S # {}
  <2>1. PICK x \in S : S = {x}
    BY <1>2
  <2>2. QED
    BY <2>1, FS_Singleton
<1>3. QED
  BY <1>1, <1>2

LEMMA OneCopyInOnePlace ==
  ASSUME NEW j \in Jobs, InOnePlace(j)
  PROVE  CopiesOf(j) \in {0, 1}
<1> DEFINE Pushing == {p \in Promoters : promoterPc[p] \in {"load", "push"} /\ promoting[p] = j}
           Carrying == {l \in Lanes : Carries(l, j)}
<1>1. ASSUME NEW a \in Queued(j)
      PROVE  \E k \in Levels : \E i \in 1..Len(ready[k]) : ready[k][i] = j /\ a = <<k, i>>
  BY <1>1 DEF Queued
<1>2. \A a, b \in Queued(j) : a = b
  <2> SUFFICES ASSUME NEW a \in Queued(j), NEW b \in Queued(j)
               PROVE  a = b
    OBVIOUS
  <2>1. PICK k \in Levels : \E i \in 1..Len(ready[k]) : ready[k][i] = j /\ a = <<k, i>>
    BY <1>1
  <2>2. PICK i \in 1..Len(ready[k]) : ready[k][i] = j /\ a = <<k, i>>
    BY <2>1
  <2>3. PICK m \in Levels : \E n \in 1..Len(ready[m]) : ready[m][n] = j /\ b = <<m, n>>
    BY <1>1
  <2>4. PICK n \in 1..Len(ready[m]) : ready[m][n] = j /\ b = <<m, n>>
    BY <2>3
  <2>5. k = m /\ i = n
    BY <2>2, <2>4 DEF InOnePlace, QueuedOnce
  <2>6. QED
    BY <2>2, <2>4, <2>5
<1>3. Queued(j) # {} => InReady(j)
  BY <1>1 DEF InReady
<1>4. (\A p, q \in Pushing : p = q) /\ (\A l, m \in Carrying : l = m)
  BY DEF InOnePlace, PromoterCarries
<1>5. /\ InReady(j) => delayed[j] = "out"
      /\ Pushing # {} => ~InReady(j) /\ delayed[j] = "out"
      /\ Carrying # {} => ~InReady(j) /\ delayed[j] = "out" /\ Pushing = {}
  BY DEF InOnePlace, PromoterCarries
<1>6. /\ Cardinality(Queued(j)) \in {0, 1}
      /\ Cardinality(Queued(j)) = 1 => InReady(j)
  BY <1>2, <1>3, AtMostOne
<1>7. /\ Cardinality(Pushing) \in {0, 1}
      /\ Cardinality(Pushing) = 1 => Pushing # {}
      /\ Cardinality(Carrying) \in {0, 1}
      /\ Cardinality(Carrying) = 1 => Carrying # {}
      /\ Cardinality({}) = 0
  BY <1>4, AtMostOne, FS_EmptySet
<1> HIDE DEF Pushing, Carrying
<1>8. Cardinality(Queued(j)) + (IF delayed[j] = "out" THEN 0 ELSE 1)
        + Cardinality(Pushing) + Cardinality(Carrying) \in {0, 1}
  BY <1>5, <1>6, <1>7
<1>9. QED
  BY <1>8 DEF CopiesOf, Pushing, Carrying

\* Without a reaper, promoters that overlap, lanes that share a list, crashes
\* and failing calls never multiply a job.
THEOREM JobsAreNotCopied ==
  ASSUME NoReaper
  PROVE  Spec => []AtMostOneCopy
<1>1. CopyInvariant => AtMostOneCopy
  BY OneCopyInOnePlace DEF CopyInvariant, AtMostOneCopy
<1>2. QED
  BY <1>1, OneCarrier, PTL

\* FR-3 without a reaper: no two lanes, of one worker or of two, run the
\* handler of one job at the same time.
THEOREM ExecutionIsExclusive ==
  ASSUME NoReaper
  PROVE  Spec => []ExclusiveExecution
<1>1. ASSUME CopyInvariant
      PROVE  ExclusiveExecution
  <2>1. \A l \in Lanes : Executing(l) => claim[l] \in Jobs /\ Carries(l, claim[l])
    BY <1>1 DEF CopyInvariant, Executing, Carries, TypeOK, WorkerTypeOK, Jobless
  <2>2. QED
    BY <1>1, <2>1 DEF ExclusiveExecution, CopyInvariant, InOnePlace
<1>2. QED
  BY <1>1, OneCarrier, PTL

\* Redis and PostgreSQL never disagree on the attempt a worker is about to run
\* or is running, so a job runs at most max_retries + 1 times.
THEOREM EnvelopeKeepsUp ==
  ASSUME NoReaper
  PROVE  Spec => []EnvelopeMatchesRow
<1>1. ASSUME CopyInvariant
      PROVE  EnvelopeMatchesRow
  <2>1. \A l \in Lanes : \A j \in Jobs :
          Executing(l) /\ claim[l] = j => Carries(l, j) /\ lanePc[l] = "run"
    BY DEF Executing, Carries
  <2>2. QED
    BY <1>1, <2>1 DEF EnvelopeMatchesRow, CopyInvariant, AttemptsAgree, Waiting
<1>2. QED
  BY <1>1, OneCarrier, PTL

\* Without a reaper no step, a late UPDATE of a promoter included, takes the
\* attempt of a row back.
THEOREM AttemptsGrow ==
  ASSUME NoReaper
  PROVE  Spec => AttemptsOnlyGrow
<1>1. ASSUME CopyInvariant, [Next]_vars
      PROVE  \A j \in Jobs : attempt'[j] >= attempt[j]
  <2> SUFFICES ASSUME NEW j \in Jobs
               PROVE  attempt'[j] >= attempt[j]
    OBVIOUS
  <2> USE <1>1 DEF CopyInvariant, TypeOK, StoreTypeOK, ApiTypeOK, WorkerTypeOK, Attempts
  <2>1. ASSUME NEW l \in Lanes, claim[l] = j, Reschedule(l) \/ Bury(l)
        PROVE  attempt'[j] >= attempt[j]
    <3>1. Carries(l, j) /\ lanePc[l] = "fail"
      BY <2>1 DEF Reschedule, Bury, Carries
    <3>2. env[l] = attempt[j]
      BY <3>1 DEF AttemptsAgree
    <3>3. QED
      BY <2>1, <3>2 DEF Reschedule, Bury, WriteRow
  <2>2. CASE CreateRow(j)
    <3>1. request[j] \in {"new", "missed"}
      BY <2>2 DEF CreateRow, ReadyToInsert
    <3>2. attempt[j] = 0
      BY <3>1 DEF AttemptsAgree
    <3>3. QED
      BY <2>2, <3>2 DEF CreateRow, WriteRow
  <2>3. CASE /\ ~CreateRow(j)
             /\ \A l \in Lanes : claim[l] = j => ~Reschedule(l) /\ ~Bury(l)
    <3>1. ASSUME NEW i \in Jobs, Enqueue(i) \/ FailRequest(i)
          PROVE  attempt'[j] = attempt[j]
      <4>1. CASE CreateRow(i)
        BY <2>3, <4>1 DEF CreateRow, WriteRow
      <4>2. CASE ~CreateRow(i)
        BY <3>1, <4>2, RequestFrame DEF InsertJob
      <4>3. QED
        BY <4>1, <4>2
    <3>2. ASSUME NEW p \in Promoters, Promote(p) \/ FailPromotion(p)
          PROVE  attempt'[j] = attempt[j]
      BY <3>2, PromoterFrame DEF MarkQueued, WriteRow
    <3>3. ASSUME NEW w \in Workers, WorkerStep(w) \/ CrashWorker(w)
          PROVE  attempt'[j] = attempt[j]
      BY <3>3, LivesKeepStore
    <3>4. ASSUME NEW l \in Lanes, LaneStep(l) \/ Heartbeat(l) \/ LaneFault(l)
          PROVE  attempt'[j] = attempt[j]
      <4>1. CASE Activate(l) \/ Complete(l)
        BY <4>1 DEF Activate, Complete, WriteRow
      <4>2. CASE Reschedule(l) \/ Bury(l)
        BY <2>3, <4>2 DEF Reschedule, Bury, WriteRow
      <4>3. QED
        BY <3>4, <4>1, <4>2, LaneRows
    <3>5. ASSUME ReaperNext \/ TimeNext \/ UNCHANGED vars
          PROVE  attempt'[j] = attempt[j]
      BY <3>5
         DEF NoReaper, ReaperNext, ExpireLock, TimeNext, ExpireKey, Ripen, AgeHeartbeat, Age,
             vars, storeVars
    <3>6. attempt'[j] = attempt[j]
      <4>1. CASE ApiNext
        BY <3>1, <3>2, <4>1 DEF ApiNext
      <4>2. CASE WorkerNext
        BY <3>3, <3>4, <4>2 DEF WorkerNext
      <4>3. QED
        BY <3>5, <4>1, <4>2 DEF Next
    <3>7. QED
      BY <3>6
  <2>4. QED
    BY <2>1, <2>2, <2>3
<1>2. QED
  BY <1>1, OneCarrier, PTL DEF Spec, AttemptsOnlyGrow
=============================================================================
