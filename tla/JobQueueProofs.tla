--------------------------- MODULE JobQueueProofs ---------------------------
(***************************************************************************)
(* Theorems about JobQueue, for every number of jobs, workers, lanes,      *)
(* promoters and reapers, every assignment of levels and retries.          *)
(***************************************************************************)
EXTENDS JobQueue, TLAPS

-----------------------------------------------------------------------------
(* What the store commands preserve: cited wherever a component issues one *)

\* The store keeps its types under every command.
LEMMA LPushType ==
  ASSUME StoreTypeOK, NEW j \in Jobs, LPush(j)
  PROVE  StoreTypeOK'
BY LevelAssumption DEF StoreTypeOK, LPush

LEMMA LMoveType ==
  ASSUME StoreTypeOK, NEW k \in Levels, NEW w \in Workers, LMove(k, w)
  PROVE  StoreTypeOK' /\ Rightmost(k) \in Jobs
<1>1. ready[k] \in Seq(Jobs) /\ ready[k] # <<>>
  BY DEF StoreTypeOK, LMove
<1>2. Len(ready[k]) \in 1..Len(ready[k]) /\ Rightmost(k) \in Jobs
  BY <1>1 DEF Rightmost
<1>3. SubSeq(ready[k], 1, Len(ready[k]) - 1) \in Seq(Jobs)
  BY <1>1
<1>4. QED
  BY <1>2, <1>3 DEF StoreTypeOK, LMove

LEMMA LRemType ==
  ASSUME StoreTypeOK, NEW w \in Workers, NEW j \in Jobs, LRem(w, j)
  PROVE  StoreTypeOK'
BY DEF StoreTypeOK, LRem

LEMMA SortedSetType ==
  ASSUME StoreTypeOK, NEW j \in Jobs, ZAdd(j) \/ ZRem(j) \/ Ripen(j)
  PROVE  StoreTypeOK'
BY DEF StoreTypeOK, ZAdd, ZRem, Ripen

LEMMA SetHeartbeatType ==
  ASSUME StoreTypeOK, NEW j \in Jobs, NEW h \in {"none", "fresh", "stale"}, SetHeartbeat(j, h)
  PROVE  StoreTypeOK'
BY DEF StoreTypeOK, SetHeartbeat

LEMMA AgeType ==
  ASSUME StoreTypeOK, NEW j \in Jobs, Age(j)
  PROVE  StoreTypeOK'
BY DEF StoreTypeOK, Age

LEMMA SetEnvelopeType ==
  ASSUME StoreTypeOK, NEW j \in Jobs, NEW n \in Attempts \cup {None}, SetEnvelope(j, n)
  PROVE  StoreTypeOK'
BY DEF StoreTypeOK, SetEnvelope

LEMMA SetRegistryType ==
  ASSUME StoreTypeOK, NEW S \in SUBSET Workers, SetRegistry(S)
  PROVE  StoreTypeOK'
BY DEF StoreTypeOK, SetRegistry

LEMMA WriteRowType ==
  ASSUME StoreTypeOK, NEW j \in Jobs, NEW s \in Statuses, NEW n \in Attempts, WriteRow(j, s, n)
  PROVE  StoreTypeOK' /\ settled \subseteq settled'
BY DEF StoreTypeOK, WriteRow

-----------------------------------------------------------------------------
(* The priority lists under LPUSH and LMOVE *)

LEMMA SameReady ==
  ASSUME ready' = ready
  PROVE  \A j \in Jobs : InReady(j)' <=> InReady(j)
BY DEF InReady

\* LPUSH adds its job and hides none.
LEMMA LPushReady ==
  ASSUME StoreTypeOK, NEW j \in Jobs, LPush(j)
  PROVE  /\ InReady(j)'
         /\ \A i \in Jobs : InReady(i) => InReady(i)'
<1> DEFINE k == Level[j]
           s == ready[k]
           t == <<j>> \o s
<1>1. k \in Levels /\ s \in Seq(Jobs)
  BY LevelAssumption DEF StoreTypeOK
<1>2. /\ ready'[k] = t
      /\ \A m \in Levels : m # k => ready'[m] = ready[m]
  BY <1>1 DEF LPush, StoreTypeOK
<1>3. /\ Len(t) = Len(s) + 1
      /\ t[1] = j
      /\ \A n \in 1..Len(s) : t[n + 1] = s[n]
  BY <1>1
<1>4. InReady(j)'
  <2>1. 1 \in 1..Len(ready'[k]) /\ ready'[k][1] = j
    BY <1>1, <1>2, <1>3
  <2>2. QED
    BY <1>1, <2>1 DEF InReady
<1>5. ASSUME NEW i \in Jobs, InReady(i)
      PROVE  InReady(i)'
  <2>1. PICK m \in Levels : \E n \in 1..Len(ready[m]) : ready[m][n] = i
    BY <1>5 DEF InReady
  <2>2. PICK n \in 1..Len(ready[m]) : ready[m][n] = i
    BY <2>1
  <2>3. CASE m # k
    BY <1>2, <2>2, <2>3 DEF InReady
  <2>4. CASE m = k
    <3>1. n + 1 \in 1..Len(ready'[k]) /\ ready'[k][n + 1] = i
      BY <1>1, <1>2, <1>3, <2>2, <2>4
    <3>2. QED
      BY <1>1, <3>1 DEF InReady
  <2>5. QED
    BY <2>3, <2>4
<1>6. QED
  BY <1>4, <1>5

\* LMOVE takes away one occurrence of the job it returns, and nothing else.
LEMMA LMoveReady ==
  ASSUME StoreTypeOK, NEW k \in Levels, NEW w \in Workers, LMove(k, w)
  PROVE  \A i \in Jobs : InReady(i) => InReady(i)' \/ i = Rightmost(k)
<1> DEFINE s == ready[k]
           t == SubSeq(s, 1, Len(s) - 1)
<1>1. s \in Seq(Jobs) /\ s # <<>>
  BY DEF StoreTypeOK, LMove
<1>2. /\ ready'[k] = t
      /\ \A m \in Levels : m # k => ready'[m] = ready[m]
  BY DEF LMove, StoreTypeOK
<1>3. /\ Len(t) = Len(s) - 1
      /\ \A n \in 1..(Len(s) - 1) : t[n] = s[n]
  BY <1>1
<1> SUFFICES ASSUME NEW i \in Jobs, InReady(i), i # Rightmost(k)
             PROVE  InReady(i)'
  OBVIOUS
<1>4. PICK m \in Levels : \E n \in 1..Len(ready[m]) : ready[m][n] = i
  BY DEF InReady
<1>5. PICK n \in 1..Len(ready[m]) : ready[m][n] = i
  BY <1>4
<1>6. CASE m # k
  BY <1>2, <1>5, <1>6 DEF InReady
<1>7. CASE m = k
  <2>1. n \in 1..(Len(s) - 1)
    BY <1>1, <1>5, <1>7 DEF Rightmost
  <2>2. n \in 1..Len(ready'[k]) /\ ready'[k][n] = i
    BY <1>1, <1>2, <1>3, <1>5, <1>7, <2>1
  <2>3. QED
    BY <2>2 DEF InReady
<1>8. QED
  BY <1>6, <1>7

\* LPUSH adds one cell, and it names its job.
LEMMA LPushQueued ==
  ASSUME StoreTypeOK, NEW j \in Jobs, LPush(j)
  PROVE  /\ \A i \in Jobs : InReady(i)' => InReady(i) \/ i = j
         /\ \A i \in Jobs : QueuedOnce(i) /\ (i = j => ~InReady(i)) => QueuedOnce(i)'
<1> DEFINE k == Level[j]
           s == ready[k]
           t == <<j>> \o s
<1>1. k \in Levels /\ s \in Seq(Jobs) /\ Len(s) \in Nat
  BY LevelAssumption DEF StoreTypeOK
<1>2. /\ ready'[k] = t
      /\ \A m \in Levels : m # k => ready'[m] = ready[m]
  BY <1>1 DEF LPush, StoreTypeOK
<1>3. /\ Len(t) = Len(s) + 1
      /\ t[1] = j
      /\ \A n \in 2..Len(t) : n - 1 \in 1..Len(s) /\ t[n] = s[n - 1]
  BY <1>1
<1>4. ASSUME NEW m \in Levels, NEW n \in 1..Len(ready'[m]), m # k \/ n # 1
      PROVE  \E h \in 1..Len(ready[m]) :
               ready[m][h] = ready'[m][n] /\ h = IF m = k THEN n - 1 ELSE n
  <2>1. CASE m # k
    BY <1>2, <1>4, <2>1
  <2>2. CASE m = k
    <3>1. n \in 2..Len(t)
      BY <1>1, <1>2, <1>3, <1>4, <2>2
    <3>2. QED
      BY <1>2, <1>3, <2>2, <3>1
  <2>3. QED
    BY <2>1, <2>2
<1>5. ready'[k][1] = j
  BY <1>2, <1>3
<1>6. ASSUME NEW i \in Jobs, InReady(i)', i # j
      PROVE  InReady(i)
  <2>1. PICK m \in Levels : \E n \in 1..Len(ready'[m]) : ready'[m][n] = i
    BY <1>6 DEF InReady
  <2>2. PICK n \in 1..Len(ready'[m]) : ready'[m][n] = i
    BY <2>1
  <2>3. QED
    BY <1>4, <1>5, <1>6, <2>2 DEF InReady
<1>7. ASSUME NEW i \in Jobs, QueuedOnce(i), i = j => ~InReady(i),
             NEW k1 \in Levels, NEW k2 \in Levels,
             NEW i1 \in 1..Len(ready'[k1]), NEW i2 \in 1..Len(ready'[k2]),
             ready'[k1][i1] = i, ready'[k2][i2] = i
      PROVE  k1 = k2 /\ i1 = i2
  <2>1. CASE i = j
    <3>1. k1 = k /\ i1 = 1
      BY <1>4, <1>7, <2>1 DEF InReady
    <3>2. k2 = k /\ i2 = 1
      BY <1>4, <1>7, <2>1 DEF InReady
    <3>3. QED
      BY <3>1, <3>2
  <2>2. CASE i # j
    <3>1. PICK h1 \in 1..Len(ready[k1]) :
            ready[k1][h1] = i /\ h1 = IF k1 = k THEN i1 - 1 ELSE i1
      BY <1>4, <1>5, <1>7, <2>2
    <3>2. PICK h2 \in 1..Len(ready[k2]) :
            ready[k2][h2] = i /\ h2 = IF k2 = k THEN i2 - 1 ELSE i2
      BY <1>4, <1>5, <1>7, <2>2
    <3>3. k1 = k2 /\ h1 = h2
      BY <1>7, <3>1, <3>2 DEF QueuedOnce
    <3>4. i1 \in Nat /\ i2 \in Nat
      OBVIOUS
    <3>5. QED
      BY <3>1, <3>2, <3>3, <3>4
  <2>3. QED
    BY <2>1, <2>2
<1>8. QED
  BY <1>6, <1>7 DEF QueuedOnce

\* LMOVE removes one cell: a job that was listed once is listed no more.
LEMMA LMoveQueued ==
  ASSUME StoreTypeOK, NEW k \in Levels, NEW w \in Workers, LMove(k, w)
  PROVE  /\ InReady(Rightmost(k))
         /\ \A i \in Jobs : InReady(i)' => InReady(i)
         /\ \A i \in Jobs : QueuedOnce(i) => QueuedOnce(i)'
         /\ \A i \in Jobs : i = Rightmost(k) /\ QueuedOnce(i) => ~InReady(i)'
<1> DEFINE s == ready[k]
           t == SubSeq(s, 1, Len(s) - 1)
           j == Rightmost(k)
<1>1. s \in Seq(Jobs) /\ s # <<>> /\ Len(s) \in Nat \ {0}
  BY DEF StoreTypeOK, LMove
<1>2. /\ ready'[k] = t
      /\ \A m \in Levels : m # k => ready'[m] = ready[m]
  BY DEF LMove, StoreTypeOK
<1>3. /\ Len(t) = Len(s) - 1
      /\ \A n \in 1..(Len(s) - 1) : t[n] = s[n]
  BY <1>1
<1>4. ASSUME NEW m \in Levels, NEW n \in 1..Len(ready'[m])
      PROVE  /\ n \in 1..Len(ready[m]) /\ ready[m][n] = ready'[m][n]
             /\ m = k => n # Len(s)
  BY <1>1, <1>2, <1>3, <1>4
<1>5. Len(s) \in 1..Len(ready[k]) /\ ready[k][Len(s)] = j
  BY <1>1 DEF Rightmost
<1>6. InReady(j)
  BY <1>5 DEF InReady
<1>7. ASSUME NEW i \in Jobs, InReady(i)'
      PROVE  InReady(i)
  <2>1. PICK m \in Levels : \E n \in 1..Len(ready'[m]) : ready'[m][n] = i
    BY <1>7 DEF InReady
  <2>2. PICK n \in 1..Len(ready'[m]) : ready'[m][n] = i
    BY <2>1
  <2>3. n \in 1..Len(ready[m]) /\ ready[m][n] = i
    BY <1>4, <2>2
  <2>4. QED
    BY <2>3 DEF InReady
<1>8. ASSUME NEW i \in Jobs, QueuedOnce(i)
      PROVE  QueuedOnce(i)'
  <2>1. ASSUME NEW k1 \in Levels, NEW k2 \in Levels,
               NEW i1 \in 1..Len(ready'[k1]), NEW i2 \in 1..Len(ready'[k2]),
               ready'[k1][i1] = i, ready'[k2][i2] = i
        PROVE  k1 = k2 /\ i1 = i2
    <3>1. /\ i1 \in 1..Len(ready[k1]) /\ ready[k1][i1] = i
          /\ i2 \in 1..Len(ready[k2]) /\ ready[k2][i2] = i
      BY <1>4, <2>1
    <3>2. QED
      BY <1>8, <3>1 DEF QueuedOnce
  <2>2. QED
    BY <2>1 DEF QueuedOnce
<1>9. ASSUME NEW i \in Jobs, i = Rightmost(k), QueuedOnce(i), InReady(i)'
      PROVE  FALSE
  <2>1. PICK m \in Levels : \E n \in 1..Len(ready'[m]) : ready'[m][n] = i
    BY <1>9 DEF InReady
  <2>2. PICK n \in 1..Len(ready'[m]) : ready'[m][n] = i
    BY <2>1
  <2>3. m = k /\ n = Len(s)
    BY <1>4, <1>5, <1>9, <2>2 DEF QueuedOnce
  <2>4. QED
    BY <1>4, <2>2, <2>3
<1>10. QED
  BY <1>6, <1>7, <1>8, <1>9

-----------------------------------------------------------------------------
(* What the steps of a component leave alone, whatever the invariant *)

\* Requests and promoters touch no list of a worker and settle nothing.
LEMMA ApiFrame ==
  ASSUME ApiNext
  PROVE  /\ UNCHANGED <<processing, heartbeats, workersActive, settled>>
         /\ UNCHANGED <<workerVars, reaperVars>>
<1> USE DEF storeVars, WriteRow, SetEnvelope, ZAdd, ZRem, LPush
<1>1. ASSUME NEW j \in Jobs, Enqueue(j)
      PROVE  UNCHANGED <<processing, heartbeats, workersActive, settled>>
  <2>1. CASE LookUpKey(j) \/ RejectInsert(j) \/ RememberKey(j) \/ StoreEnvelope(j)
    BY <2>1 DEF LookUpKey, RejectInsert, RememberKey, StoreEnvelope
  <2>2. CASE InsertJob(j)
    BY <2>2 DEF InsertJob, CreateRow
  <2>3. CASE PushJob(j)
    BY <2>3 DEF PushJob
  <2>4. QED
    BY <1>1, <2>1, <2>2, <2>3 DEF Enqueue
<1>2. ASSUME NEW p \in Promoters, Promote(p)
      PROVE  UNCHANGED <<processing, heartbeats, workersActive, settled>>
  <2>1. CASE ScanDue(p) \/ EndPromotion(p) \/ LoadDue(p) \/ \E j \in Jobs : MissDue(p, j)
    BY <2>1 DEF ScanDue, EndPromotion, LoadDue, MissDue
  <2>2. CASE PushDue(p) \/ MarkQueued(p) \/ \E j \in Jobs : TakeDue(p, j)
    BY <2>2 DEF PushDue, MarkQueued, TakeDue
  <2>3. QED
    BY <1>2, <2>1, <2>2 DEF Promote
<1>3. ASSUME NEW j \in Jobs, FailRequest(j)
      PROVE  UNCHANGED <<processing, heartbeats, workersActive, settled>>
  BY <1>3 DEF FailRequest
<1>4. ASSUME NEW p \in Promoters, FailPromotion(p)
      PROVE  UNCHANGED <<processing, heartbeats, workersActive, settled>>
  BY <1>4 DEF FailPromotion
<1>5. QED
  BY <1>1, <1>2, <1>3, <1>4 DEF ApiNext

\* Which calls of a request and of a promoter write to the store.
LEMMA RequestFrame ==
  ASSUME NEW j \in Jobs, Enqueue(j) \/ FailRequest(j)
  PROVE  /\ UNCHANGED promoterVars
         /\ PushJob(j) \/ UNCHANGED <<ready, delayed>>
         /\ StoreEnvelope(j) \/ UNCHANGED jobData
         /\ InsertJob(j) \/ UNCHANGED <<status, attempt>>
<1>1. CASE LookUpKey(j) \/ RejectInsert(j) \/ RememberKey(j) \/ FailRequest(j)
  BY <1>1 DEF LookUpKey, RejectInsert, RememberKey, FailRequest, storeVars
<1>2. CASE InsertJob(j)
  BY <1>2 DEF InsertJob, CreateRow, WriteRow
<1>3. CASE StoreEnvelope(j)
  BY <1>3 DEF StoreEnvelope, SetEnvelope
<1>4. CASE PushJob(j)
  BY <1>4 DEF PushJob, ZAdd, LPush
<1>5. QED
  BY <1>1, <1>2, <1>3, <1>4 DEF Enqueue

LEMMA PromoterFrame ==
  ASSUME NEW p \in Promoters, Promote(p) \/ FailPromotion(p)
  PROVE  /\ UNCHANGED <<submitVars, jobData>>
         /\ PushDue(p) \/ UNCHANGED ready
         /\ (\E j \in Jobs : TakeDue(p, j)) \/ UNCHANGED delayed
         /\ MarkQueued(p) \/ UNCHANGED <<status, attempt>>
<1>1. CASE ScanDue(p) \/ EndPromotion(p) \/ FailPromotion(p)
  BY <1>1 DEF ScanDue, EndPromotion, FailPromotion, storeVars
<1>2. CASE LoadDue(p) \/ \E j \in Jobs : MissDue(p, j)
  BY <1>2 DEF LoadDue, MissDue, storeVars
<1>3. CASE \E j \in Jobs : TakeDue(p, j)
  BY <1>3 DEF TakeDue, ZRem
<1>4. CASE PushDue(p) \/ MarkQueued(p)
  BY <1>4 DEF PushDue, MarkQueued, LPush, WriteRow
<1>5. QED
  BY <1>1, <1>2, <1>3, <1>4 DEF Promote

\* A process that starts, drains, exits or dies writes the registry only.
LEMMA LivesKeepStore ==
  ASSUME NEW w \in Workers, WorkerStep(w) \/ CrashWorker(w)
  PROVE  UNCHANGED <<ready, delayed, processing, heartbeats, jobData, status, attempt, settled>>
<1>1. CASE StartWorker(w) \/ ExitWorker(w)
  BY <1>1 DEF StartWorker, ExitWorker, SetRegistry
<1>2. CASE DrainWorker(w) \/ CrashWorker(w)
  BY <1>2 DEF DrainWorker, CrashWorker, storeVars
<1>3. QED
  BY <1>1, <1>2 DEF WorkerStep

\* It leaves each lane alone, or starts or stops it.
LEMMA LivesMoveLanes ==
  ASSUME NEW w \in Workers, WorkerStep(w) \/ CrashWorker(w), NEW l \in Lanes
  PROVE  \/ /\ lanePc'[l] \in {"idle", "stopped"} /\ claim'[l] \in {claim[l], None}
            /\ Host[l] = w /\ (StartWorker(w) \/ CrashWorker(w))
         \/ UNCHANGED <<lanePc[l], claim[l], env[l], caught[l]>>
<1>1. CASE StartWorker(w)
  <2>1. lanePc'[l] = IF Host[l] = w THEN "idle" ELSE lanePc[l]
    BY <1>1 DEF StartWorker
  <2>2. UNCHANGED <<claim, env, caught>>
    BY <1>1 DEF StartWorker
  <2>3. QED
    BY <1>1, <2>1, <2>2
<1>2. CASE CrashWorker(w)
  <2>1. /\ lanePc'[l] = IF Host[l] = w THEN "stopped" ELSE lanePc[l]
        /\ claim'[l] = IF Host[l] = w THEN None ELSE claim[l]
    BY <1>2 DEF CrashWorker
  <2>2. /\ env'[l] = IF Host[l] = w THEN None ELSE env[l]
        /\ caught'[l] = IF Host[l] = w THEN FALSE ELSE caught[l]
    BY <1>2 DEF CrashWorker
  <2>3. QED
    BY <1>2, <2>1, <2>2
<1>3. CASE DrainWorker(w) \/ ExitWorker(w)
  BY <1>3 DEF DrainWorker, ExitWorker, laneVars
<1>4. QED
  BY <1>1, <1>2, <1>3 DEF WorkerStep

\* A lane leaves the registry and the life of its process alone.
LEMMA LaneFrame ==
  ASSUME NEW l \in Lanes, LaneStep(l) \/ Heartbeat(l) \/ LaneFault(l)
  PROVE  workersActive' = workersActive /\ workerState' = workerState
<1> USE DEF Goto, BackToIdle, Catch, storeVars
<1>1. CASE StopLane(l) \/ BeginClaim(l) \/ PollNext(l) \/ FetchEnvelope(l)
  BY <1>1 DEF StopLane, BeginClaim, PollNext, FetchEnvelope
<1>2. CASE Confound(l) \/ Succeed(l) \/ Reject(l)
  BY <1>2 DEF Confound, Succeed, Reject
<1>3. CASE ClaimJob(l) \/ ReleaseJob(l)
  BY <1>3 DEF ClaimJob, ReleaseJob, LMove, LRem
<1>4. CASE FirstBeat(l) \/ Unbeat(l) \/ Heartbeat(l)
  BY <1>4 DEF FirstBeat, Unbeat, Heartbeat, SetHeartbeat, workerVars
<1>5. CASE Activate(l) \/ Complete(l) \/ Reschedule(l) \/ Bury(l)
  BY <1>5 DEF Activate, Complete, Reschedule, Bury, WriteRow
<1>6. CASE ClearEnvelope(l) \/ SaveEnvelope(l) \/ DelayJob(l)
  BY <1>6 DEF ClearEnvelope, SaveEnvelope, DelayJob, SetEnvelope, ZAdd
<1>7. CASE LaneFault(l)
  BY <1>7 DEF LaneFault, FaultInClaim, FaultInTry, FaultInHandleFailure
<1>8. QED
  BY <1>1, <1>2, <1>3, <1>4, <1>5, <1>6, <1>7 DEF LaneStep

\* Four calls of a lane write rows; a lane that makes any call is running.
LEMMA LaneRows ==
  ASSUME NEW l \in Lanes, LaneStep(l) \/ Heartbeat(l) \/ LaneFault(l)
  PROVE  /\ lanePc[l] # "stopped"
         /\ \/ Activate(l) \/ Complete(l) \/ Reschedule(l) \/ Bury(l)
            \/ UNCHANGED <<status, attempt, settled>>
<1>1. CASE StopLane(l) \/ BeginClaim(l) \/ PollNext(l) \/ FetchEnvelope(l)
  BY <1>1 DEF StopLane, BeginClaim, PollNext, FetchEnvelope, storeVars
<1>2. CASE Confound(l) \/ Succeed(l) \/ Reject(l)
  BY <1>2 DEF Confound, Succeed, Reject, storeVars
<1>3. CASE ClaimJob(l) \/ ReleaseJob(l)
  BY <1>3 DEF ClaimJob, ReleaseJob, LMove, LRem
<1>4. CASE FirstBeat(l) \/ Unbeat(l) \/ Heartbeat(l)
  BY <1>4 DEF FirstBeat, Unbeat, Heartbeat, SetHeartbeat, Beating
<1>5. CASE Activate(l) \/ Complete(l) \/ Reschedule(l) \/ Bury(l)
  BY <1>5 DEF Activate, Complete, Reschedule, Bury
<1>6. CASE ClearEnvelope(l) \/ SaveEnvelope(l) \/ DelayJob(l)
  BY <1>6 DEF ClearEnvelope, SaveEnvelope, DelayJob, SetEnvelope, ZAdd
<1>7. CASE LaneFault(l)
  BY <1>7 DEF LaneFault, FaultInClaim, FaultInTry, FaultInHandleFailure, Beating, storeVars
<1>8. QED
  BY <1>1, <1>2, <1>3, <1>4, <1>5, <1>6, <1>7 DEF LaneStep

\* Which calls of a lane write to the lists, the sorted set and the envelopes.
LEMMA LaneStore ==
  ASSUME NEW l \in Lanes, LaneStep(l) \/ Heartbeat(l) \/ LaneFault(l)
  PROVE  /\ ClaimJob(l) \/ UNCHANGED ready
         /\ ClaimJob(l) \/ ReleaseJob(l) \/ UNCHANGED processing
         /\ DelayJob(l) \/ UNCHANGED delayed
         /\ ClearEnvelope(l) \/ SaveEnvelope(l) \/ UNCHANGED jobData
<1>1. CASE StopLane(l) \/ BeginClaim(l) \/ PollNext(l) \/ FetchEnvelope(l)
  BY <1>1 DEF StopLane, BeginClaim, PollNext, FetchEnvelope, storeVars
<1>2. CASE Confound(l) \/ Succeed(l) \/ Reject(l)
  BY <1>2 DEF Confound, Succeed, Reject, storeVars
<1>3. CASE ClaimJob(l)
  BY <1>3 DEF ClaimJob, LMove
<1>4. CASE ReleaseJob(l) \/ DelayJob(l)
  BY <1>4 DEF ReleaseJob, DelayJob, LRem, ZAdd
<1>5. CASE FirstBeat(l) \/ Unbeat(l) \/ Heartbeat(l)
  BY <1>5 DEF FirstBeat, Unbeat, Heartbeat, SetHeartbeat
<1>6. CASE Activate(l) \/ Complete(l) \/ Reschedule(l) \/ Bury(l)
  BY <1>6 DEF Activate, Complete, Reschedule, Bury, WriteRow
<1>7. CASE ClearEnvelope(l) \/ SaveEnvelope(l)
  BY <1>7 DEF ClearEnvelope, SaveEnvelope, SetEnvelope
<1>8. CASE LaneFault(l)
  BY <1>8 DEF LaneFault, FaultInClaim, FaultInTry, FaultInHandleFailure, storeVars
<1>9. QED
  BY <1>1, <1>2, <1>3, <1>4, <1>5, <1>6, <1>7, <1>8 DEF LaneStep

\* A lane gets a job by a claim only, and keeps it until it is idle again.
LEMMA LaneKeepsClaim ==
  ASSUME NEW l \in Lanes, LaneStep(l) \/ Heartbeat(l) \/ LaneFault(l), WorkerTypeOK
  PROVE  ClaimJob(l) \/ claim'[l] \in {claim[l], None}
<1> USE DEF WorkerTypeOK, Goto, BackToIdle, Catch
<1>1. CASE StopLane(l) \/ BeginClaim(l) \/ PollNext(l) \/ FetchEnvelope(l)
  BY <1>1 DEF StopLane, BeginClaim, PollNext, FetchEnvelope
<1>2. CASE Confound(l) \/ Succeed(l) \/ Reject(l) \/ ReleaseJob(l)
  BY <1>2 DEF Confound, Succeed, Reject, ReleaseJob
<1>3. CASE FirstBeat(l) \/ Unbeat(l) \/ Heartbeat(l)
  BY <1>3 DEF FirstBeat, Unbeat, Heartbeat, workerVars
<1>4. CASE Activate(l) \/ Complete(l) \/ Reschedule(l) \/ Bury(l)
  BY <1>4 DEF Activate, Complete, Reschedule, Bury
<1>5. CASE ClearEnvelope(l) \/ SaveEnvelope(l) \/ DelayJob(l)
  BY <1>5 DEF ClearEnvelope, SaveEnvelope, DelayJob
<1>6. CASE LaneFault(l)
  BY <1>6 DEF LaneFault, FaultInClaim, FaultInTry, FaultInHandleFailure
<1>7. QED
  BY <1>1, <1>2, <1>3, <1>4, <1>5, <1>6 DEF LaneStep

\* The steps of a lane are its own.
LEMMA OtherLanesStay ==
  ASSUME NEW l \in Lanes, LaneStep(l) \/ Heartbeat(l) \/ LaneFault(l),
         NEW m \in Lanes, m # l, WorkerTypeOK
  PROVE  UNCHANGED <<lanePc[m], scan[m], claim[m], env[m], caught[m]>>
<1> USE DEF WorkerTypeOK, Goto, BackToIdle, Catch
<1>1. CASE StopLane(l) \/ BeginClaim(l) \/ PollNext(l) \/ FetchEnvelope(l)
  BY <1>1 DEF StopLane, BeginClaim, PollNext, FetchEnvelope
<1>2. CASE Confound(l) \/ Succeed(l) \/ Reject(l)
  BY <1>2 DEF Confound, Succeed, Reject
<1>3. CASE ClaimJob(l) \/ ReleaseJob(l)
  BY <1>3 DEF ClaimJob, ReleaseJob
<1>4. CASE FirstBeat(l) \/ Unbeat(l) \/ Heartbeat(l)
  BY <1>4 DEF FirstBeat, Unbeat, Heartbeat, workerVars
<1>5. CASE Activate(l) \/ Complete(l) \/ Reschedule(l) \/ Bury(l)
  BY <1>5 DEF Activate, Complete, Reschedule, Bury
<1>6. CASE ClearEnvelope(l) \/ SaveEnvelope(l) \/ DelayJob(l)
  BY <1>6 DEF ClearEnvelope, SaveEnvelope, DelayJob
<1>7. CASE LaneFault(l)
  BY <1>7 DEF LaneFault, FaultInClaim, FaultInTry, FaultInHandleFailure
<1>8. QED
  BY <1>1, <1>2, <1>3, <1>4, <1>5, <1>6, <1>7 DEF LaneStep

\* A reaper pushes nothing and registers nobody; it only takes jobs out of the
\* processing lists.
LEMMA ReaperFrame ==
  ASSUME ReaperNext
  PROVE  /\ UNCHANGED <<ready, workersActive>>
         /\ UNCHANGED <<apiVars, workerVars>>
         /\ settled \subseteq settled'
         /\ processing \in [Workers -> SUBSET Jobs] =>
              \A w \in Workers : processing'[w] \subseteq processing[w]
<1> DEFINE Frame ==
      /\ UNCHANGED <<ready, workersActive>>
      /\ settled \subseteq settled'
      /\ processing \in [Workers -> SUBSET Jobs] =>
           \A w \in Workers : processing'[w] \subseteq processing[w]
<1>1. ASSUME NEW r \in Reapers, Reap(r)
      PROVE  Frame
  <2>1. CASE BeginTick(r) \/ EndTick(r) \/ ListProcessing(r) \/ EndVisit(r) \/ MissOrphan(r)
    BY <2>1 DEF BeginTick, EndTick, ListProcessing, EndVisit, MissOrphan, storeVars
  <2>2. CASE \E w \in Workers : LockWorker(r, w) \/ SkipWorker(r, w)
    BY <2>2 DEF LockWorker, SkipWorker, storeVars
  <2>3. CASE \E j \in Jobs : SpareJob(r, j) \/ CondemnJob(r, j)
    BY <2>3 DEF SpareJob, CondemnJob, storeVars
  <2>4. CASE LoadOrphan(r) \/ SelectOrphan(r)
    BY <2>4 DEF LoadOrphan, SelectOrphan, storeVars
  <2>5. CASE TakeOrphan(r)
    BY <2>5 DEF TakeOrphan, LRem
  <2>6. CASE MarkDelayed(r) \/ MarkDead(r)
    BY <2>6 DEF MarkDelayed, MarkDead, WriteRow
  <2>7. CASE UnbeatOrphan(r) \/ SaveOrphan(r) \/ DelayOrphan(r) \/ DropOrphan(r)
    BY <2>7 DEF UnbeatOrphan, SaveOrphan, DelayOrphan, DropOrphan, SetHeartbeat, SetEnvelope, ZAdd
  <2>8. QED
    BY <1>1, <2>1, <2>2, <2>3, <2>4, <2>5, <2>6, <2>7 DEF Reap
<1>2. ASSUME NEW r \in Reapers, ReaperFault(r)
      PROVE  Frame
  BY <1>2 DEF ReaperFault, FaultInReapWorker, FaultInTick, storeVars
<1>3. ASSUME NEW w \in Workers, ExpireLock(w)
      PROVE  Frame
  BY <1>3 DEF ExpireLock, storeVars
<1>4. QED
  BY <1>1, <1>2, <1>3 DEF ReaperNext

\* Two calls of a reaper write rows.
LEMMA ReaperRows ==
  ASSUME NEW r \in Reapers, Reap(r) \/ ReaperFault(r)
  PROVE  MarkDelayed(r) \/ MarkDead(r) \/ UNCHANGED <<status, attempt, settled>>
<1>1. CASE BeginTick(r) \/ EndTick(r) \/ ListProcessing(r) \/ EndVisit(r) \/ MissOrphan(r)
  BY <1>1 DEF BeginTick, EndTick, ListProcessing, EndVisit, MissOrphan, storeVars
<1>2. CASE \E w \in Workers : LockWorker(r, w) \/ SkipWorker(r, w)
  BY <1>2 DEF LockWorker, SkipWorker, storeVars
<1>3. CASE \E j \in Jobs : SpareJob(r, j) \/ CondemnJob(r, j)
  BY <1>3 DEF SpareJob, CondemnJob, storeVars
<1>4. CASE LoadOrphan(r) \/ SelectOrphan(r) \/ TakeOrphan(r)
  BY <1>4 DEF LoadOrphan, SelectOrphan, TakeOrphan, LRem, storeVars
<1>5. CASE UnbeatOrphan(r) \/ SaveOrphan(r) \/ DelayOrphan(r) \/ DropOrphan(r)
  BY <1>5 DEF UnbeatOrphan, SaveOrphan, DelayOrphan, DropOrphan, SetHeartbeat, SetEnvelope, ZAdd
<1>6. CASE ReaperFault(r)
  BY <1>6 DEF ReaperFault, FaultInReapWorker, FaultInTick, storeVars
<1>7. QED
  BY <1>1, <1>2, <1>3, <1>4, <1>5, <1>6 DEF Reap

\* Time moves scores and heartbeats, and ends keys and locks.
LEMMA TimeFrame ==
  ASSUME TimeNext \/ UNCHANGED vars
  PROVE  /\ UNCHANGED <<ready, processing, jobData, workersActive, status, attempt, settled>>
         /\ UNCHANGED <<workerVars, reaperVars, promoterVars>>
<1>1. CASE TimeNext
  BY <1>1 DEF TimeNext, Ripen, AgeHeartbeat, Age, ExpireKey, storeVars, apiVars
<1>2. CASE UNCHANGED vars
  BY <1>2 DEF vars, storeVars, apiVars
<1>3. QED
  BY <1>1, <1>2

-----------------------------------------------------------------------------
(* Type correctness *)

LEMMA InitType == Init => TypeOK
BY LevelsAssumption, NoneAssumption
   DEF Init, TypeOK, StoreInit, ApiInit, WorkerInit, ReaperInit, StoreTypeOK, ApiTypeOK,
       WorkerTypeOK, ReaperTypeOK, Levels, Attempts, Statuses, WorkerStates, LanePcs,
       Jobless, Concluding, ReaperPcs, Requeueing, RequestStates

LEMMA ApiNextType ==
  ASSUME TypeOK, ApiNext
  PROVE  TypeOK'
<1> USE NoneAssumption DEF TypeOK, ApiTypeOK, Attempts, Statuses, promoterVars, submitVars,
      RequestStates
<1>1. WorkerTypeOK' /\ ReaperTypeOK'
  BY DEF ApiNext, workerVars, reaperVars, WorkerTypeOK, ReaperTypeOK
<1>2. ASSUME NEW j \in Jobs, Enqueue(j) \/ FailRequest(j)
      PROVE  StoreTypeOK' /\ ApiTypeOK'
  <2>1. CASE LookUpKey(j)
    <3>1. idemKeys[KeyOf[j]] \in Jobs \cup {None}
      BY <2>1, KeysAssumption DEF LookUpKey
    <3>2. QED
      BY <2>1, <3>1 DEF LookUpKey, storeVars, StoreTypeOK
  <2>2. CASE InsertJob(j)
    BY <2>2, WriteRowType DEF InsertJob, CreateRow
  <2>3. CASE RejectInsert(j) \/ FailRequest(j)
    <3>1. StoreTypeOK'
      BY <2>3 DEF RejectInsert, FailRequest, storeVars, StoreTypeOK
    <3>2. ApiTypeOK'
      BY <2>3 DEF RejectInsert, FailRequest
    <3>3. QED
      BY <3>1, <3>2
  <2>4. CASE RememberKey(j)
    BY <2>4, KeysAssumption DEF RememberKey, storeVars, StoreTypeOK
  <2>5. CASE StoreEnvelope(j)
    BY <2>5, SetEnvelopeType DEF StoreEnvelope
  <2>6. CASE PushJob(j)
    BY <2>6, LPushType, SortedSetType DEF PushJob
  <2>7. QED
    BY <1>2, <2>1, <2>2, <2>3, <2>4, <2>5, <2>6 DEF Enqueue
<1>3. ASSUME NEW p \in Promoters, Promote(p) \/ FailPromotion(p)
      PROVE  StoreTypeOK' /\ ApiTypeOK'
  <2>1. CASE ScanDue(p)
    BY <2>1 DEF ScanDue, storeVars, StoreTypeOK
  <2>2. ASSUME NEW j \in Jobs, TakeDue(p, j)
        PROVE  StoreTypeOK' /\ ApiTypeOK'
    BY <2>2, SortedSetType DEF TakeDue
  <2>3. ASSUME NEW j \in Jobs, MissDue(p, j)
        PROVE  StoreTypeOK' /\ ApiTypeOK'
    BY <2>3 DEF MissDue, storeVars, StoreTypeOK
  <2>4. CASE EndPromotion(p)
    BY <2>4 DEF EndPromotion, storeVars, StoreTypeOK
  <2>5. CASE LoadDue(p)
    <3>1. StoreTypeOK'
      BY <2>5 DEF LoadDue, storeVars, StoreTypeOK
    <3>2. CASE jobData[promoting[p]] = None
      BY <2>5, <3>1, <3>2 DEF LoadDue
    <3>3. CASE jobData[promoting[p]] # None
      BY <2>5, <3>1, <3>3 DEF LoadDue
    <3>4. QED
      BY <3>2, <3>3
  <2>6. CASE PushDue(p)
    BY <2>6, LPushType DEF PushDue
  <2>7. CASE MarkQueued(p)
    <3>1. promoting[p] \in Jobs /\ attempt[promoting[p]] \in Nat
      BY <2>7 DEF MarkQueued, StoreTypeOK
    <3>2. QED
      BY <2>7, <3>1, WriteRowType DEF MarkQueued
  <2>8. CASE FailPromotion(p)
    BY <2>8 DEF FailPromotion, storeVars, StoreTypeOK
  <2>9. QED
    BY <1>3, <2>1, <2>2, <2>3, <2>4, <2>5, <2>6, <2>7, <2>8 DEF Promote
<1>4. dropped' \in SUBSET Jobs
  BY DEF ApiNext, PromoterHand
<1>5. QED
  BY <1>1, <1>2, <1>3, <1>4 DEF ApiNext

LEMMA WorkerNextType ==
  ASSUME TypeOK, WorkerNext
  PROVE  TypeOK'
<1> USE NoneAssumption DEF TypeOK, WorkerTypeOK, Attempts, Statuses, Goto, BackToIdle, Catch,
      LanePcs, WorkerStates, Jobless, Concluding
<1>1. ApiTypeOK' /\ ReaperTypeOK'
  BY DEF WorkerNext, apiVars, submitVars, promoterVars, reaperVars, ApiTypeOK, ReaperTypeOK
<1>2. ASSUME NEW w \in Workers, WorkerStep(w) \/ CrashWorker(w)
      PROVE  StoreTypeOK' /\ WorkerTypeOK'
  <2>1. CASE StartWorker(w)
    <3>1. workersActive \cup {w} \in SUBSET Workers
      BY DEF StoreTypeOK
    <3>2. StoreTypeOK'
      BY <2>1, <3>1, SetRegistryType DEF StartWorker
    <3>3. WorkerTypeOK'
      BY <2>1 DEF StartWorker
    <3>4. QED
      BY <3>2, <3>3
  <2>2. CASE DrainWorker(w)
    BY <2>2 DEF DrainWorker, storeVars, laneVars, StoreTypeOK
  <2>3. CASE ExitWorker(w)
    <3>1. workersActive \ {w} \in SUBSET Workers
      BY DEF StoreTypeOK
    <3>2. QED
      BY <2>3, <3>1, SetRegistryType DEF ExitWorker, laneVars
  <2>4. CASE CrashWorker(w)
    <3>1. StoreTypeOK'
      BY <2>4 DEF CrashWorker, storeVars, StoreTypeOK
    <3>2. 1 \in Levels
      BY LevelsAssumption DEF Levels
    <3>3. /\ workerState' \in [Workers -> WorkerStates]
          /\ lanePc' \in [Lanes -> LanePcs]
          /\ scan' \in [Lanes -> Levels]
          /\ claim' \in [Lanes -> Jobs \cup {None}]
          /\ env' \in [Lanes -> Attempts \cup {None}]
      BY <2>4, <3>2 DEF CrashWorker
    <3>4. caught' \in [Lanes -> BOOLEAN]
      BY <2>4 DEF CrashWorker
    <3>5. ASSUME NEW l \in Lanes
          PROVE  /\ lanePc'[l] \notin Jobless => claim'[l] \in Jobs
                 /\ lanePc'[l] \in Concluding => env'[l] \in Attempts
      <4>1. CASE Host[l] = w
        BY <2>4, <4>1 DEF CrashWorker
      <4>2. CASE Host[l] # w
        BY <2>4, <4>2 DEF CrashWorker
      <4>3. QED
        BY <4>1, <4>2
    <3>6. QED
      BY <3>1, <3>3, <3>4, <3>5
  <2>5. QED
    BY <1>2, <2>1, <2>2, <2>3, <2>4 DEF WorkerStep
<1>3. ASSUME NEW l \in Lanes, LaneStep(l)
      PROVE  StoreTypeOK' /\ WorkerTypeOK'
  <2> USE HostAssumption, LevelsAssumption
  <2>0. 1 \in Levels
    BY DEF Levels
  <2>1. CASE StopLane(l)
    BY <2>1 DEF StopLane, storeVars, StoreTypeOK
  <2>2. CASE BeginClaim(l)
    BY <2>2 DEF BeginClaim, storeVars, StoreTypeOK
  <2>3. CASE PollNext(l)
    <3>1. StoreTypeOK'
      BY <2>3 DEF PollNext, storeVars, StoreTypeOK
    <3>2. CASE scan[l] < NumLevels
      <4>1. scan[l] + 1 \in Levels
        BY <3>2 DEF Levels
      <4>2. QED
        BY <2>3, <3>1, <3>2, <4>1 DEF PollNext
    <3>3. CASE ~(scan[l] < NumLevels)
      <4>1. BackToIdle(l)
        BY <2>3, <3>3 DEF PollNext
      <4>2. QED
        BY <2>0, <3>1, <4>1
    <3>4. QED
      BY <3>2, <3>3
  <2>4. CASE ClaimJob(l)
    <3>1. scan[l] \in Levels /\ Host[l] \in Workers
      OBVIOUS
    <3>2. StoreTypeOK' /\ Rightmost(scan[l]) \in Jobs
      BY <2>4, <3>1, LMoveType DEF ClaimJob
    <3>3. QED
      BY <2>4, <3>2 DEF ClaimJob
  <2>5. CASE FirstBeat(l)
    BY <2>5, SetHeartbeatType DEF FirstBeat
  <2>6. CASE FetchEnvelope(l)
    <3>1. StoreTypeOK'
      BY <2>6 DEF FetchEnvelope, storeVars, StoreTypeOK
    <3>2. jobData[claim[l]] \in Nat \cup {None}
      BY <2>6 DEF FetchEnvelope, StoreTypeOK
    <3>3. QED
      BY <2>6, <3>1, <3>2 DEF FetchEnvelope
  <2>7. CASE Activate(l)
    <3>1. claim[l] \in Jobs /\ attempt[claim[l]] \in Nat
      BY <2>7 DEF Activate, StoreTypeOK
    <3>2. QED
      BY <2>7, <3>1, WriteRowType DEF Activate
  <2>8. CASE Confound(l)
    BY <2>0, <2>8 DEF Confound, storeVars, StoreTypeOK
  <2>9. CASE Succeed(l)
    BY <2>9 DEF Succeed, storeVars, StoreTypeOK
  <2>10. CASE Reject(l)
    BY <2>10 DEF Reject, storeVars, StoreTypeOK
  <2>11. CASE Complete(l)
    <3>1. claim[l] \in Jobs /\ attempt[claim[l]] \in Nat
      BY <2>11 DEF Complete, StoreTypeOK
    <3>2. QED
      BY <2>11, <3>1, WriteRowType DEF Complete
  <2>12. CASE ClearEnvelope(l)
    BY <2>12, SetEnvelopeType DEF ClearEnvelope
  <2>13. CASE Reschedule(l)
    BY <2>13, WriteRowType DEF Reschedule
  <2>14. CASE Bury(l)
    BY <2>14, WriteRowType DEF Bury
  <2>15. CASE SaveEnvelope(l)
    BY <2>15, SetEnvelopeType DEF SaveEnvelope
  <2>16. CASE DelayJob(l)
    BY <2>16, SortedSetType DEF DelayJob
  <2>17. CASE ReleaseJob(l)
    BY <2>17, LRemType DEF ReleaseJob
  <2>18. CASE Unbeat(l)
    BY <2>0, <2>18, SetHeartbeatType DEF Unbeat
  <2>19. QED
    BY <1>3, <2>1, <2>2, <2>3, <2>4, <2>5, <2>6, <2>7, <2>8, <2>9, <2>10, <2>11, <2>12,
       <2>13, <2>14, <2>15, <2>16, <2>17, <2>18 DEF LaneStep
<1>4. ASSUME NEW l \in Lanes, Heartbeat(l)
      PROVE  StoreTypeOK' /\ WorkerTypeOK'
  BY <1>4, SetHeartbeatType DEF Heartbeat, workerVars, Beating
<1>5. ASSUME NEW l \in Lanes, LaneFault(l)
      PROVE  StoreTypeOK' /\ WorkerTypeOK'
  <2>0. 1 \in Levels
    BY LevelsAssumption DEF Levels
  <2>1. StoreTypeOK'
    BY <1>5 DEF LaneFault, FaultInClaim, FaultInTry, FaultInHandleFailure, storeVars, StoreTypeOK
  <2>2. WorkerTypeOK'
    <3>1. CASE FaultInTry(l)
      BY <3>1 DEF FaultInTry
    <3>2. CASE FaultInClaim(l)
      BY <2>0, <3>2 DEF FaultInClaim
    <3>3. CASE FaultInHandleFailure(l)
      BY <2>0, <3>3 DEF FaultInHandleFailure
    <3>4. QED
      BY <1>5, <3>1, <3>2, <3>3 DEF LaneFault
  <2>3. QED
    BY <2>1, <2>2
<1>6. QED
  BY <1>1, <1>2, <1>3, <1>4, <1>5 DEF WorkerNext

LEMMA ReaperNextType ==
  ASSUME TypeOK, ReaperNext
  PROVE  TypeOK'
<1> USE NoneAssumption DEF TypeOK, ReaperTypeOK, Attempts, Statuses, ReaperPcs, Requeueing,
      ReaperGoto, NextVictim, LeaveWorker
<1>1. ApiTypeOK' /\ WorkerTypeOK'
  BY DEF ReaperNext, apiVars, submitVars, promoterVars, workerVars, ApiTypeOK, WorkerTypeOK
<1>2. ASSUME NEW r \in Reapers, Reap(r)
      PROVE  StoreTypeOK' /\ ReaperTypeOK'
  <2>1. CASE BeginTick(r)
    BY <2>1 DEF BeginTick, storeVars, StoreTypeOK
  <2>2. ASSUME NEW w \in Workers, LockWorker(r, w)
        PROVE  StoreTypeOK' /\ ReaperTypeOK'
    BY <2>2 DEF LockWorker, storeVars, StoreTypeOK
  <2>3. ASSUME NEW w \in Workers, SkipWorker(r, w)
        PROVE  StoreTypeOK' /\ ReaperTypeOK'
    BY <2>3 DEF SkipWorker, storeVars, StoreTypeOK
  <2>4. CASE EndTick(r)
    BY <2>4 DEF EndTick, storeVars, StoreTypeOK
  <2>5. CASE ListProcessing(r)
    <3>1. StoreTypeOK'
      BY <2>5 DEF ListProcessing, storeVars, StoreTypeOK
    <3>2. processing[visiting[r]] \in SUBSET Jobs
      BY <2>5 DEF ListProcessing, StoreTypeOK
    <3>3. QED
      BY <2>5, <3>1, <3>2 DEF ListProcessing
  <2>6. ASSUME NEW j \in Jobs, SpareJob(r, j)
        PROVE  StoreTypeOK' /\ ReaperTypeOK'
    BY <2>6 DEF SpareJob, storeVars, StoreTypeOK
  <2>7. ASSUME NEW j \in Jobs, CondemnJob(r, j)
        PROVE  StoreTypeOK' /\ ReaperTypeOK'
    BY <2>7 DEF CondemnJob, storeVars, StoreTypeOK
  <2>8. CASE EndVisit(r)
    BY <2>8 DEF EndVisit, storeVars, StoreTypeOK
  <2>9. CASE TakeOrphan(r)
    BY <2>9, LRemType DEF TakeOrphan
  <2>10. CASE MissOrphan(r)
    BY <2>10 DEF MissOrphan, storeVars, StoreTypeOK
  <2>11. CASE UnbeatOrphan(r)
    BY <2>11, SetHeartbeatType DEF UnbeatOrphan
  <2>12. CASE LoadOrphan(r)
    <3>1. StoreTypeOK'
      BY <2>12 DEF LoadOrphan, storeVars, StoreTypeOK
    <3>2. jobData[orphan[r]] \in Nat \cup {None}
      BY <2>12 DEF LoadOrphan, StoreTypeOK
    <3>3. QED
      BY <2>12, <3>1, <3>2 DEF LoadOrphan
  <2>13. CASE SelectOrphan(r)
    <3>1. StoreTypeOK'
      BY <2>13 DEF SelectOrphan, storeVars, StoreTypeOK
    <3>2. attempt[orphan[r]] \in Nat
      BY <2>13 DEF SelectOrphan, StoreTypeOK
    <3>3. QED
      BY <2>13, <3>1, <3>2 DEF SelectOrphan
  <2>14. CASE MarkDelayed(r)
    BY <2>14, WriteRowType DEF MarkDelayed
  <2>15. CASE MarkDead(r)
    BY <2>15, WriteRowType DEF MarkDead
  <2>16. CASE SaveOrphan(r)
    BY <2>16, SetEnvelopeType DEF SaveOrphan
  <2>17. CASE DelayOrphan(r)
    BY <2>17, SortedSetType DEF DelayOrphan
  <2>18. CASE DropOrphan(r)
    BY <2>18, SetEnvelopeType DEF DropOrphan
  <2>19. QED
    BY <1>2, <2>1, <2>2, <2>3, <2>4, <2>5, <2>6, <2>7, <2>8, <2>9, <2>10, <2>11, <2>12,
       <2>13, <2>14, <2>15, <2>16, <2>17, <2>18 DEF Reap
<1>3. ASSUME NEW r \in Reapers, ReaperFault(r)
      PROVE  StoreTypeOK' /\ ReaperTypeOK'
  <2>1. StoreTypeOK'
    BY <1>3 DEF ReaperFault, FaultInReapWorker, FaultInTick, storeVars, StoreTypeOK
  <2>2. CASE FaultInReapWorker(r)
    BY <2>1, <2>2 DEF FaultInReapWorker
  <2>3. CASE FaultInTick(r)
    BY <2>1, <2>3 DEF FaultInTick
  <2>4. QED
    BY <1>3, <2>2, <2>3 DEF ReaperFault
<1>4. ASSUME NEW w \in Workers, ExpireLock(w)
      PROVE  StoreTypeOK' /\ ReaperTypeOK'
  BY <1>4 DEF ExpireLock, tickVars, storeVars, StoreTypeOK
<1>5. dropped' \in SUBSET Jobs
  BY DEF ReaperNext, ReaperHand
<1>6. QED
  BY <1>1, <1>2, <1>3, <1>4, <1>5 DEF ReaperNext

LEMMA TypeStep ==
  ASSUME TypeOK, [Next]_vars
  PROVE  TypeOK'
<1>1. CASE ApiNext
  BY <1>1, ApiNextType
<1>2. CASE WorkerNext
  BY <1>2, WorkerNextType
<1>3. CASE ReaperNext
  BY <1>3, ReaperNextType
<1>4. CASE TimeNext
  <2>1. ASSUME NEW j \in Jobs, Ripen(j) \/ AgeHeartbeat(j), UNCHANGED apiVars
        PROVE  StoreTypeOK' /\ ApiTypeOK'
    <3>1. StoreTypeOK'
      BY <2>1, SortedSetType, AgeType DEF AgeHeartbeat, TypeOK
    <3>2. QED
      BY <2>1, <3>1 DEF TypeOK, apiVars, submitVars, promoterVars, ApiTypeOK
  <2>2. ASSUME NEW k \in IdempotencyKeys, ExpireKey(k)
        PROVE  StoreTypeOK' /\ ApiTypeOK'
    BY <2>2 DEF ExpireKey, storeVars, promoterVars, TypeOK, StoreTypeOK, ApiTypeOK
  <2>3. QED
    BY <1>4, <2>1, <2>2
       DEF TimeNext, TypeOK, workerVars, reaperVars, WorkerTypeOK, ReaperTypeOK
<1>5. CASE UNCHANGED vars
  BY <1>5
     DEF vars, storeVars, apiVars, submitVars, promoterVars, workerVars, reaperVars, TypeOK,
         StoreTypeOK, ApiTypeOK, WorkerTypeOK, ReaperTypeOK
<1>6. QED
  BY <1>1, <1>2, <1>3, <1>4, <1>5 DEF Next

\* Every reachable state is well typed: no lane, promoter or reaper ever makes
\* a store call for a job, a worker or an attempt it does not have.
THEOREM TypeCorrectness == Spec => []TypeOK
<1>1. QED
  BY InitType, TypeStep, PTL DEF Spec

-----------------------------------------------------------------------------
(* Nothing happens to a job before its POST has pushed it *)

LEMMA AcceptedInit == Init => AcceptedFirst
BY NoneAssumption
   DEF Init, StoreInit, ApiInit, WorkerInit, ReaperInit, AcceptedFirst, Circulates, InReady

\* A request that was accepted stays accepted.
LEMMA AcceptedStays ==
  ASSUME TypeOK, [Next]_vars, NEW j \in Jobs, Accepted(j)
  PROVE  Accepted(j)'
<1>1. CASE ApiNext
  BY <1>1
     DEF ApiNext, Enqueue, LookUpKey, InsertJob, CreateRow, RejectInsert, ReadyToInsert,
         RememberKey, StoreEnvelope, PushJob, FailRequest, Promote, FailPromotion, ScanDue,
         TakeDue, MissDue, EndPromotion, LoadDue, PushDue, MarkQueued, submitVars, Accepted,
         TypeOK, ApiTypeOK
<1>2. CASE ~ApiNext
  BY <1>2
     DEF Next, WorkerNext, ReaperNext, TimeNext, ExpireKey, vars, apiVars, submitVars, Accepted
<1>3. QED
  BY <1>1, <1>2

\* Only its own push puts a job into circulation.
LEMMA ApiNextCirculates ==
  ASSUME TypeOK, ApiNext, NEW j \in Jobs, Circulates(j)'
  PROVE  Circulates(j) \/ PushJob(j)
<1> USE DEF TypeOK, StoreTypeOK, ApiTypeOK
<1>1. UNCHANGED <<workerVars, reaperVars>>
  BY DEF ApiNext
<1>2. ASSUME NEW i \in Jobs, Enqueue(i) \/ FailRequest(i), ~(PushJob(i) /\ i = j)
      PROVE  Circulates(j)
  <2>1. UNCHANGED promoterVars /\ UNCHANGED <<processing, settled>>
    BY <1>2
       DEF Enqueue, LookUpKey, InsertJob, CreateRow, RejectInsert, RememberKey, StoreEnvelope,
           PushJob, FailRequest, storeVars, WriteRow, SetEnvelope, ZAdd, LPush
  <2>2. InReady(j)' => InReady(j)
    <3>1. CASE PushJob(i) /\ LPush(i)
      BY <1>2, <3>1, LPushQueued
    <3>2. CASE ~(PushJob(i) /\ LPush(i))
      <4>1. ready' = ready
        BY <1>2, <3>2
           DEF Enqueue, LookUpKey, InsertJob, CreateRow, RejectInsert, RememberKey,
               StoreEnvelope, PushJob, FailRequest, storeVars, WriteRow, SetEnvelope, ZAdd
      <4>2. QED
        BY <4>1, SameReady
    <3>3. QED
      BY <3>1, <3>2
  <2>3. delayed'[j] # "out" => delayed[j] # "out"
    BY <1>2
       DEF Enqueue, LookUpKey, InsertJob, CreateRow, RejectInsert, RememberKey, StoreEnvelope,
           PushJob, FailRequest, storeVars, WriteRow, SetEnvelope, ZAdd, LPush
  <2>4. QED
    BY <1>1, <2>1, <2>2, <2>3 DEF Circulates, promoterVars, workerVars, reaperVars
<1>3. ASSUME NEW p \in Promoters, Promote(p) \/ FailPromotion(p)
      PROVE  Circulates(j)
  <2>1. UNCHANGED <<processing, settled>>
    BY <1>3
       DEF Promote, FailPromotion, ScanDue, TakeDue, MissDue, EndPromotion, LoadDue, PushDue,
           MarkQueued, storeVars, WriteRow, ZRem, LPush
  <2>2. InReady(j)' => InReady(j) \/ promoting[p] = j
    <3>1. CASE PushDue(p)
      <4>1. promoting[p] \in Jobs /\ LPush(promoting[p])
        BY <3>1 DEF PushDue
      <4>2. QED
        BY <4>1, LPushQueued
    <3>2. CASE ~PushDue(p)
      <4>1. ready' = ready
        BY <1>3, <3>2
           DEF Promote, FailPromotion, ScanDue, TakeDue, MissDue, EndPromotion, LoadDue,
               MarkQueued, storeVars, WriteRow, ZRem
      <4>2. QED
        BY <4>1, SameReady
    <3>3. QED
      BY <3>1, <3>2
  <2>3. delayed'[j] # "out" => delayed[j] # "out"
    BY <1>3
       DEF Promote, FailPromotion, ScanDue, TakeDue, MissDue, EndPromotion, LoadDue, PushDue,
           MarkQueued, storeVars, WriteRow, ZRem, LPush
  <2>4. ASSUME NEW q \in Promoters, j \in dueIds'[q] \/ promoting'[q] = j
        PROVE  j \in dueIds[q] \/ promoting[q] = j \/ delayed[j] # "out"
    <3>1. CASE ScanDue(p)
      BY <2>4, <3>1 DEF ScanDue
    <3>2. CASE ~ScanDue(p)
      BY <1>3, <2>4, <3>2, NoneAssumption
         DEF Promote, FailPromotion, TakeDue, MissDue, EndPromotion, LoadDue, PushDue,
             MarkQueued
    <3>3. QED
      BY <3>1, <3>2
  <2>5. QED
    BY <1>1, <2>1, <2>2, <2>3, <2>4 DEF Circulates, workerVars, reaperVars
<1>4. QED
  BY <1>2, <1>3 DEF ApiNext

LEMMA WorkerNextCirculates ==
  ASSUME TypeOK, WorkerNext, NEW j \in Jobs, Circulates(j)'
  PROVE  Circulates(j)
<1> USE DEF TypeOK, StoreTypeOK, WorkerTypeOK
<1>1. UNCHANGED <<apiVars, reaperVars>>
  BY DEF WorkerNext
<1>2. ASSUME NEW w \in Workers, WorkerStep(w) \/ CrashWorker(w)
      PROVE  Circulates(j)
  <2>1. UNCHANGED <<ready, delayed, processing, settled>>
    BY <1>2 DEF WorkerStep, StartWorker, DrainWorker, ExitWorker, CrashWorker, SetRegistry,
                storeVars
  <2>2. \A l \in Lanes : claim'[l] = j => claim[l] = j
    <3>1. CASE CrashWorker(w)
      BY <3>1, NoneAssumption DEF CrashWorker
    <3>2. CASE WorkerStep(w)
      BY <3>2 DEF WorkerStep, StartWorker, DrainWorker, ExitWorker, laneVars
    <3>3. QED
      BY <1>2, <3>1, <3>2
  <2>3. QED
    BY <1>1, <2>1, <2>2, SameReady
       DEF Circulates, apiVars, submitVars, promoterVars, reaperVars
<1>3. ASSUME NEW l \in Lanes, ClaimJob(l)
      PROVE  Circulates(j)
  <2>1. scan[l] \in Levels /\ Host[l] \in Workers /\ LMove(scan[l], Host[l])
    BY <1>3, HostAssumption DEF ClaimJob
  <2>2. UNCHANGED <<delayed, settled>>
    BY <2>1 DEF LMove
  <2>3. InReady(j)' => InReady(j)
    BY <2>1, LMoveQueued
  <2>4. \A w \in Workers : j \in processing'[w] =>
          j \in processing[w] \/ j = Rightmost(scan[l])
    BY <2>1 DEF LMove
  <2>5. \A m \in Lanes : claim'[m] = j => claim[m] = j \/ j = Rightmost(scan[l])
    BY <1>3 DEF ClaimJob
  <2>6. j = Rightmost(scan[l]) => InReady(j)
    BY <2>1, LMoveQueued
  <2>7. QED
    BY <1>1, <2>2, <2>3, <2>4, <2>5, <2>6
       DEF Circulates, apiVars, submitVars, promoterVars, reaperVars
<1>4. ASSUME NEW l \in Lanes, LaneStep(l) \/ Heartbeat(l) \/ LaneFault(l), ~ClaimJob(l)
      PROVE  Circulates(j)
  <2>1. ready' = ready
    BY <1>4, LaneStore
  <2>2. delayed'[j] # "out" => delayed[j] # "out" \/ claim[l] = j
    <3>1. CASE DelayJob(l)
      BY <3>1 DEF DelayJob, ZAdd
    <3>2. QED
      BY <1>4, <3>1, LaneStore
  <2>3. j \in settled' => j \in settled \/ claim[l] = j
    <3>1. CASE Activate(l) \/ Complete(l) \/ Reschedule(l) \/ Bury(l)
      BY <3>1 DEF Activate, Complete, Reschedule, Bury, WriteRow
    <3>2. QED
      BY <1>4, <3>1, LaneRows
  <2>4. \A w \in Workers : j \in processing'[w] => j \in processing[w]
    <3>1. CASE ReleaseJob(l)
      BY <3>1 DEF ReleaseJob, LRem
    <3>2. QED
      BY <1>4, <3>1, LaneStore
  <2>5. ASSUME NEW m \in Lanes, claim'[m] = j
        PROVE  claim[m] = j
    <3>1. CASE m # l
      BY <1>4, <2>5, <3>1, OtherLanesStay
    <3>2. CASE m = l
      BY <1>4, <2>5, <3>2, LaneKeepsClaim, NoneAssumption
    <3>3. QED
      BY <3>1, <3>2
  <2>6. QED
    BY ONLY <1>1, <2>1, <2>2, <2>3, <2>4, <2>5, SameReady, Circulates(j)'
       DEF Circulates, apiVars, submitVars, promoterVars, reaperVars
<1>5. QED
  BY <1>2, <1>3, <1>4 DEF WorkerNext

LEMMA ReaperNextCirculates ==
  ASSUME TypeOK, ReaperNext, NEW j \in Jobs, Circulates(j)'
  PROVE  Circulates(j)
<1> USE DEF TypeOK, StoreTypeOK, ReaperTypeOK
<1>1. UNCHANGED <<apiVars, workerVars>>
  BY DEF ReaperNext
<1>2. ASSUME NEW w \in Workers, ExpireLock(w)
      PROVE  Circulates(j)
  BY <1>1, <1>2, SameReady
     DEF ExpireLock, tickVars, storeVars, Circulates, apiVars, submitVars, promoterVars,
         workerVars
<1>3. ASSUME NEW r \in Reapers, Reap(r) \/ ReaperFault(r)
      PROVE  Circulates(j)
  <2>1. ready' = ready
    BY <1>3
       DEF Reap, ReaperFault, BeginTick, LockWorker, SkipWorker, EndTick, ListProcessing,
           SpareJob, CondemnJob, EndVisit, TakeOrphan, MissOrphan, UnbeatOrphan, LoadOrphan,
           SelectOrphan, MarkDelayed, MarkDead, SaveOrphan, DelayOrphan, DropOrphan,
           FaultInReapWorker, FaultInTick, storeVars, LRem, ZAdd, SetHeartbeat, SetEnvelope,
           WriteRow
  <2>2. delayed'[j] # "out" => delayed[j] # "out" \/ orphan[r] = j
    BY <1>3
       DEF Reap, ReaperFault, BeginTick, LockWorker, SkipWorker, EndTick, ListProcessing,
           SpareJob, CondemnJob, EndVisit, TakeOrphan, MissOrphan, UnbeatOrphan, LoadOrphan,
           SelectOrphan, MarkDelayed, MarkDead, SaveOrphan, DelayOrphan, DropOrphan,
           FaultInReapWorker, FaultInTick, storeVars, LRem, ZAdd, SetHeartbeat, SetEnvelope,
           WriteRow
  <2>3. j \in settled' => j \in settled \/ orphan[r] = j
    BY <1>3
       DEF Reap, ReaperFault, BeginTick, LockWorker, SkipWorker, EndTick, ListProcessing,
           SpareJob, CondemnJob, EndVisit, TakeOrphan, MissOrphan, UnbeatOrphan, LoadOrphan,
           SelectOrphan, MarkDelayed, MarkDead, SaveOrphan, DelayOrphan, DropOrphan,
           FaultInReapWorker, FaultInTick, storeVars, LRem, ZAdd, SetHeartbeat, SetEnvelope,
           WriteRow
  <2>4. \A w \in Workers : j \in processing'[w] => j \in processing[w]
    BY <1>3
       DEF Reap, ReaperFault, BeginTick, LockWorker, SkipWorker, EndTick, ListProcessing,
           SpareJob, CondemnJob, EndVisit, TakeOrphan, MissOrphan, UnbeatOrphan, LoadOrphan,
           SelectOrphan, MarkDelayed, MarkDead, SaveOrphan, DelayOrphan, DropOrphan,
           FaultInReapWorker, FaultInTick, storeVars, LRem, ZAdd, SetHeartbeat, SetEnvelope,
           WriteRow
  <2>5. ASSUME NEW q \in Reapers, j \in victims'[q] \/ orphan'[q] = j
        PROVE  \/ j \in victims[q] \/ orphan[q] = j
               \/ \E w \in Workers : j \in processing[w]
    <3>1. CASE ListProcessing(r)
      <4>1. visiting[r] \in Workers
        BY <3>1 DEF ListProcessing
      <4>2. QED
        BY <2>5, <3>1, <4>1 DEF ListProcessing
    <3>2. CASE ~ListProcessing(r)
      BY <1>3, <2>5, <3>2, NoneAssumption
         DEF Reap, ReaperFault, BeginTick, LockWorker, SkipWorker, EndTick, SpareJob,
             CondemnJob, EndVisit, TakeOrphan, MissOrphan, UnbeatOrphan, LoadOrphan,
             SelectOrphan, MarkDelayed, MarkDead, SaveOrphan, DelayOrphan, DropOrphan,
             FaultInReapWorker, FaultInTick, ReaperGoto, NextVictim, LeaveWorker
    <3>3. QED
      BY <3>1, <3>2
  <2>6. QED
    BY <1>1, <2>1, <2>2, <2>3, <2>4, <2>5, SameReady
       DEF Circulates, apiVars, submitVars, promoterVars, workerVars
<1>4. QED
  BY <1>2, <1>3 DEF ReaperNext

LEMMA CirculationStep ==
  ASSUME TypeOK, [Next]_vars, NEW j \in Jobs, Circulates(j)'
  PROVE  Circulates(j) \/ PushJob(j)
<1>1. CASE TimeNext \/ UNCHANGED vars
  <2>1. /\ UNCHANGED <<ready, processing, settled>>
        /\ UNCHANGED <<promoterVars, workerVars, reaperVars>>
        /\ delayed'[j] # "out" => delayed[j] # "out"
    BY <1>1
       DEF TimeNext, ExpireKey, Ripen, AgeHeartbeat, Age, vars, storeVars, apiVars, submitVars,
           TypeOK, StoreTypeOK
  <2>2. QED
    BY <2>1, SameReady DEF Circulates, promoterVars, workerVars, reaperVars
<1>2. QED
  BY <1>1, ApiNextCirculates, WorkerNextCirculates, ReaperNextCirculates DEF Next

LEMMA AcceptedStep ==
  ASSUME TypeOK, AcceptedFirst, [Next]_vars
  PROVE  AcceptedFirst'
<1> SUFFICES ASSUME NEW j \in Jobs, Circulates(j)'
             PROVE  Accepted(j)'
  BY DEF AcceptedFirst
<1>1. CASE Circulates(j)
  BY <1>1, AcceptedStays DEF AcceptedFirst
<1>2. CASE PushJob(j)
  BY <1>2 DEF PushJob, Accepted, TypeOK, ApiTypeOK
<1>3. QED
  BY <1>1, <1>2, CirculationStep

\* FR-1: no queue, no worker and no final row knows a job whose POST has not
\* pushed it: a request that was rejected or failed on the way has no effect
\* beyond its row.
THEOREM NothingBeforeAcceptance == Spec => []AcceptedFirst
<1>1. Init => AcceptedFirst
  BY AcceptedInit
<1>2. TypeOK /\ AcceptedFirst /\ [Next]_vars => AcceptedFirst'
  BY AcceptedStep
<1>3. QED
  BY <1>1, <1>2, TypeCorrectness, PTL DEF Spec
=============================================================================
