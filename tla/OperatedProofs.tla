--------------------------- MODULE OperatedProofs ---------------------------
(***************************************************************************)
(* Operators who retry and cancel jobs next to everything else:            *)
(* OneCopyUnlessMissed and RevokedStaysOut, for any number of jobs,        *)
(* promoters, workers and lanes, with crashes, restarts and failing calls, *)
(* as long as no reaper takes jobs back and operators act one at a time.   *)
(***************************************************************************)
EXTENDS CopyProofs, OperatedQueue

OneOperator == \A o, q \in Operators : o = q

-----------------------------------------------------------------------------
(* The priority lists *)

LEMMA LPushLevels ==
  ASSUME StoreTypeOK, OnOwnLevel, NEW j \in Jobs, LPush(j)
  PROVE  OnOwnLevel'
<1> DEFINE k == Level[j]
           s == ready[k]
           t == <<j>> \o s
<1>1. k \in Levels /\ s \in Seq(Jobs) /\ Len(s) \in Nat
  BY LevelAssumption DEF StoreTypeOK
<1>2. /\ ready'[k] = t
      /\ \A m \in Levels : m # k => ready'[m] = ready[m]
  BY <1>1 DEF LPush, StoreTypeOK
<1>3. /\ Len(t) = Len(s) + 1
      /\ t[1] = j
      /\ \A n \in 2..Len(t) : n - 1 \in 1..Len(s) /\ t[n] = s[n - 1]
  BY <1>1
<1>4. ASSUME NEW i \in 1..Len(t)
      PROVE  Level[t[i]] = k
  <2>1. CASE i = 1
    BY <1>3, <2>1
  <2>2. CASE i # 1
    BY <1>1, <1>3, <2>2 DEF OnOwnLevel
  <2>3. QED
    BY <2>1, <2>2
<1>5. QED
  BY <1>2, <1>4 DEF OnOwnLevel

LEMMA LMoveLevels ==
  ASSUME StoreTypeOK, OnOwnLevel, NEW k \in Levels, NEW w \in Workers, LMove(k, w)
  PROVE  OnOwnLevel'
<1> DEFINE s == ready[k]
           t == SubSeq(s, 1, Len(s) - 1)
<1>1. s \in Seq(Jobs) /\ s # <<>> /\ Len(s) \in Nat \ {0}
  BY DEF StoreTypeOK, LMove
<1>2. /\ ready'[k] = t
      /\ \A m \in Levels : m # k => ready'[m] = ready[m]
  BY DEF LMove, StoreTypeOK
<1>3. /\ Len(t) = Len(s) - 1
      /\ \A n \in 1..(Len(s) - 1) : t[n] = s[n]
  BY <1>1
<1>4. ASSUME NEW i \in 1..Len(t)
      PROVE  Level[t[i]] = k
  BY <1>1, <1>3 DEF OnOwnLevel
<1>5. QED
  BY <1>2, <1>4 DEF OnOwnLevel

\* Without reapers, a step pushes a job, moves one to a processing list, or
\* leaves the priority lists alone.
LEMMA ReadyMoves ==
  ASSUME NoReaper, TypeOK, [Next]_vars
  PROVE  \/ ready' = ready
         \/ \E j \in Jobs : LPush(j)
         \/ \E k \in Levels, w \in Workers : LMove(k, w)
<1> USE DEF TypeOK, ApiTypeOK, WorkerTypeOK
<1>1. ASSUME NEW j \in Jobs, PushJob(j)
      PROVE  ready' = ready \/ LPush(j)
  BY <1>1 DEF PushJob, ZAdd
<1>2. ASSUME NEW p \in Promoters, PushDue(p)
      PROVE  promoting[p] \in Jobs /\ LPush(promoting[p])
  BY <1>2 DEF PushDue
<1>3. CASE ApiNext /\ (\A j \in Jobs : ~PushJob(j)) /\ (\A p \in Promoters : ~PushDue(p))
  <2>1. ASSUME NEW j \in Jobs, Enqueue(j) \/ FailRequest(j)
        PROVE  ready' = ready
    BY <1>3, <2>1, RequestFrame DEF PushJob, ZAdd
  <2>2. ASSUME NEW p \in Promoters, Promote(p) \/ FailPromotion(p)
        PROVE  ready' = ready
    BY <1>3, <2>2, PromoterFrame
  <2>3. QED
    BY <1>3, <2>1, <2>2 DEF ApiNext
<1>4. ASSUME NEW l \in Lanes, ClaimJob(l)
      PROVE  \E k \in Levels, w \in Workers : LMove(k, w)
  BY <1>4, HostAssumption DEF ClaimJob
<1>5. CASE WorkerNext /\ \A l \in Lanes : ~ClaimJob(l)
  BY <1>5, LivesKeepStore, LaneStore DEF WorkerNext
<1>6. CASE ReaperNext \/ TimeNext \/ UNCHANGED vars
  BY <1>6
     DEF NoReaper, ReaperNext, ExpireLock, TimeNext, ExpireKey, Ripen, AgeHeartbeat, Age,
         vars, storeVars
<1>7. QED
  BY <1>1, <1>2, <1>3, <1>4, <1>5, <1>6 DEF Next

LEMMA LevelsStep ==
  ASSUME NoReaper, TypeOK, OnOwnLevel, [Next]_vars
  PROVE  OnOwnLevel'
<1>1. CASE ready' = ready
  BY <1>1 DEF OnOwnLevel
<1>2. QED
  BY <1>1, ReadyMoves, LPushLevels, LMoveLevels DEF TypeOK

\* LREM takes all entries of its job and no others, and keeps these in order.
Others(o) == LET s == ready[Level[subject[o]]] IN {i \in 1..Len(s) : s[i] # subject[o]}

LEMMA CountOfOthers ==
  ASSUME StoreTypeOK, NEW o \in Operators, subject[o] \in Jobs
  PROVE  Cardinality(Others(o)) \in Nat
<1> DEFINE s == ready[Level[subject[o]]]
<1>1. s \in Seq(Jobs) /\ Len(s) \in Nat
  BY LevelAssumption DEF StoreTypeOK
<1>2. IsFiniteSet(1..Len(s))
  BY <1>1, FS_Interval
<1>3. Others(o) \subseteq 1..Len(s)
  BY DEF Others
<1>4. QED
  BY <1>2, <1>3, FS_Subset, FS_CardinalityType

LEMMA UnlistType ==
  ASSUME StoreTypeOK, NEW o \in Operators, subject[o] \in Jobs, Unlist(o)
  PROVE  ready' \in [Levels -> Seq(Jobs)]
<1> DEFINE k == Level[subject[o]]
           s == ready[k]
           c == Cardinality(Others(o))
<1>1. k \in Levels /\ s \in Seq(Jobs) /\ Len(s) \in Nat
  BY LevelAssumption DEF StoreTypeOK
<1>2. c \in Nat
  BY CountOfOthers
<1>3. PICK keep \in [1..c -> Others(o)] : ready' = [ready EXCEPT ![k] = KeepOnly(s, keep)]
  BY DEF Unlist, Others
<1> HIDE DEF c
<1>4. KeepOnly(s, keep) \in [1..c -> Jobs]
  BY <1>1, <1>3 DEF KeepOnly, Others
<1>5. KeepOnly(s, keep) \in Seq(Jobs)
  BY <1>2, <1>4
<1>6. QED
  BY <1>1, <1>3, <1>5 DEF StoreTypeOK

LEMMA UnlistReady ==
  ASSUME StoreTypeOK, OnOwnLevel, NEW o \in Operators, subject[o] \in Jobs, Unlist(o)
  PROVE  /\ OnOwnLevel'
         /\ ~InReady(subject[o])'
         /\ \A i \in Jobs : (InReady(i)' => InReady(i)) /\ (QueuedOnce(i) => QueuedOnce(i)')
<1> DEFINE k == Level[subject[o]]
           s == ready[k]
           others == {i \in 1..Len(s) : s[i] # subject[o]}
           c == Cardinality(others)
<1>1. k \in Levels /\ s \in Seq(Jobs) /\ Len(s) \in Nat
  BY LevelAssumption DEF StoreTypeOK
<1>2. c \in Nat
  BY CountOfOthers DEF Others
<1>3. PICK keep \in [1..c -> others] :
        Sorts(keep, others) /\ ready' = [ready EXCEPT ![k] = KeepOnly(s, keep)]
  BY DEF Unlist
<1> DEFINE t == KeepOnly(s, keep)
<1> HIDE DEF c
<1>4. t \in [1..c -> Jobs] /\ \A n \in 1..c : t[n] = s[keep[n]]
  BY <1>1, <1>3 DEF KeepOnly
<1>5. t \in Seq(Jobs) /\ Len(t) = c
  BY <1>2, <1>4
<1>6. /\ ready'[k] = t
      /\ \A m \in Levels : m # k => ready'[m] = ready[m]
  BY <1>1, <1>3, <1>5 DEF StoreTypeOK
<1>7. ASSUME NEW n \in 1..c, NEW m \in 1..c, keep[n] = keep[m]
      PROVE  n = m
  <2>1. keep[n] \in Nat /\ ~(keep[n] < keep[m]) /\ ~(keep[m] < keep[n])
    BY <1>1, <1>3, <1>7
  <2>2. ~(n < m) /\ ~(m < n)
    BY <1>3, <2>1 DEF Sorts
  <2>3. n \in Nat /\ m \in Nat
    BY <1>2
  <2>4. QED
    BY <2>2, <2>3
<1>8. ASSUME NEW n \in 1..Len(ready'[k])
      PROVE  /\ n \in 1..c /\ keep[n] \in 1..Len(ready[k])
             /\ ready'[k][n] = ready[k][keep[n]] /\ ready'[k][n] # subject[o]
  <2>1. n \in 1..c
    BY <1>5, <1>6
  <2>2. QED
    BY <1>3, <1>4, <1>6, <2>1
<1> HIDE DEF k, others, t, s
<1>9. OnOwnLevel'
  <2>1. ASSUME NEW m \in Levels, NEW n \in 1..Len(ready'[m])
        PROVE  Level[ready'[m][n]] = m
    <3>1. CASE m = k
      BY <1>8, <2>1, <3>1 DEF OnOwnLevel
    <3>2. CASE m # k
      BY <1>6, <2>1, <3>2 DEF OnOwnLevel
    <3>3. QED
      BY <3>1, <3>2
  <2>2. QED
    BY <2>1 DEF OnOwnLevel
<1>10. ~InReady(subject[o])'
  <2>1. ASSUME NEW m \in Levels, NEW n \in 1..Len(ready'[m]), ready'[m][n] = subject[o]
        PROVE  FALSE
    <3>1. m = k
      BY <1>9, <2>1 DEF OnOwnLevel, k
    <3>2. QED
      BY <1>8, <2>1, <3>1
  <2>2. subject'[o] = subject[o]
    BY DEF Unlist, OperatorGoto
  <2>3. QED
    BY <2>1, <2>2 DEF InReady
<1>11. ASSUME NEW i \in Jobs, NEW m \in Levels, NEW n \in 1..Len(ready'[m]), ready'[m][n] = i
       PROVE  \E h \in 1..Len(ready[m]) :
                ready[m][h] = i /\ h = IF m = k THEN keep[n] ELSE n
  <2>1. CASE m = k
    BY <1>8, <1>11, <2>1
  <2>2. CASE m # k
    BY <1>6, <1>11, <2>2
  <2>3. QED
    BY <2>1, <2>2
<1>12. ASSUME NEW i \in Jobs, InReady(i)'
       PROVE  InReady(i)
  <2>1. PICK m \in Levels : \E n \in 1..Len(ready'[m]) : ready'[m][n] = i
    BY <1>12 DEF InReady
  <2>2. QED
    BY <1>11, <2>1 DEF InReady
<1>13. ASSUME NEW i \in Jobs, QueuedOnce(i),
              NEW k1 \in Levels, NEW k2 \in Levels,
              NEW i1 \in 1..Len(ready'[k1]), NEW i2 \in 1..Len(ready'[k2]),
              ready'[k1][i1] = i, ready'[k2][i2] = i
       PROVE  k1 = k2 /\ i1 = i2
  <2>1. PICK h1 \in 1..Len(ready[k1]) : ready[k1][h1] = i /\ h1 = IF k1 = k THEN keep[i1] ELSE i1
    BY <1>11, <1>13
  <2>2. PICK h2 \in 1..Len(ready[k2]) : ready[k2][h2] = i /\ h2 = IF k2 = k THEN keep[i2] ELSE i2
    BY <1>11, <1>13
  <2>3. k1 = k2 /\ h1 = h2
    BY <1>13, <2>1, <2>2 DEF QueuedOnce
  <2>4. CASE k1 = k
    <3>1. i1 \in 1..c /\ i2 \in 1..c
      BY <1>8, <1>13, <2>3, <2>4
    <3>2. QED
      BY <1>7, <2>1, <2>2, <2>3, <2>4, <3>1
  <2>5. CASE k1 # k
    BY <2>1, <2>2, <2>3, <2>5
  <2>6. QED
    BY <2>3, <2>4, <2>5
<1>14. ASSUME NEW i \in Jobs, QueuedOnce(i)
       PROVE  QueuedOnce(i)'
  <2> SUFFICES ASSUME NEW k1 \in Levels, NEW k2 \in Levels,
                      NEW i1 \in 1..Len(ready'[k1]), NEW i2 \in 1..Len(ready'[k2]),
                      ready'[k1][i1] = i, ready'[k2][i2] = i
               PROVE  k1 = k2 /\ i1 = i2
    BY DEF QueuedOnce
  <2>1. QED
    BY <1>13, <1>14
<1>15. QED
  BY <1>9, <1>10, <1>12, <1>14

-----------------------------------------------------------------------------
(* Types *)

LEMMA OperatorTypes ==
  ASSUME TypeOK, OperatorTypeOK, OperatorNext
  PROVE  TypeOK' /\ OperatorTypeOK'
<1> USE DEF OperatorTypeOK
<1>1. PICK o \in Operators : RetryJob(o) \/ CancelJob(o) \/ FailOperator(o)
  BY DEF OperatorNext
<1>2. operatorPc[o] # "idle" => subject[o] \in Jobs
  OBVIOUS
<1>3. StoreTypeOK'
  <2> USE DEF TypeOK
  <2>1. CASE Unlist(o)
    BY <1>2, <2>1, UnlistType DEF Unlist, StoreTypeOK
  <2>2. CASE Requeue(o) \/ MarkCancelled(o)
    <3>1. /\ subject[o] \in Jobs /\ attempt[subject[o]] \in Attempts
          /\ \E s \in Statuses : WriteRow(subject[o], s, attempt[subject[o]])
      BY <1>2, <2>2 DEF Requeue, MarkCancelled, Statuses, StoreTypeOK
    <3>2. QED
      BY <3>1, WriteRowType
  <2>3. CASE StoreRetried(o) \/ ClearCancelled(o)
    <3>1. subject[o] \in Jobs /\ \E n \in Attempts \cup {None} : SetEnvelope(subject[o], n)
      BY <1>2, <2>3 DEF StoreRetried, ClearCancelled
    <3>2. QED
      BY <3>1, SetEnvelopeType
  <2>4. CASE PushRetried(o)
    BY <1>2, <2>4, LPushType DEF PushRetried
  <2>5. CASE Undelay(o)
    BY <1>2, <2>5, SortedSetType DEF Undelay
  <2>6. CASE FailOperator(o) \/ \E j \in Jobs : CheckRetry(o, j) \/ CheckCancel(o, j)
    <3>1. UNCHANGED storeVars
      BY <2>6 DEF FailOperator, CheckRetry, CheckCancel, BeginRequest
    <3>2. QED
      BY <3>1 DEF storeVars, StoreTypeOK
  <2>7. QED
    BY <1>1, <2>1, <2>2, <2>3, <2>4, <2>5, <2>6 DEF RetryJob, CancelJob
<1>4. TypeOK'
  BY <1>3
     DEF OperatorNext, apiVars, submitVars, promoterVars, workerVars, reaperVars, TypeOK,
         ApiTypeOK, WorkerTypeOK, ReaperTypeOK
<1>5. OperatorTypeOK'
  <2> USE DEF OperatorPcs
  <2>1. CASE Unlist(o)
    <3>1. /\ operatorPc' = [operatorPc EXCEPT ![o] = "undelay"]
          /\ UNCHANGED <<subject, returned, revoked, missed, calls>>
          /\ operatorPc[o] # "idle"
      BY <2>1 DEF Unlist, OperatorGoto
    <3>2. found' = [found EXCEPT ![o] = InReady(subject[o])]
      BY <2>1 DEF Unlist
    <3>3. InReady(subject[o]) \in BOOLEAN
      BY DEF InReady
    <3>4. found' \in [Operators -> BOOLEAN]
      BY <3>2, <3>3
    <3>5. QED
      BY <1>2, <3>1, <3>4
  <2>2. CASE Requeue(o)
    BY <1>2, <2>2 DEF Requeue, TypeOK, StoreTypeOK
  <2>3. CASE StoreRetried(o) \/ ClearCancelled(o)
    BY <1>2, <2>3 DEF StoreRetried, ClearCancelled, OperatorGoto
  <2>4. CASE PushRetried(o) \/ MarkCancelled(o) \/ FailOperator(o)
    <3>1. EndRequest(o) /\ UNCHANGED <<found, revoked, missed, calls>>
      BY <2>4 DEF PushRetried, MarkCancelled, FailOperator
    <3>2. QED
      BY <3>1 DEF EndRequest
  <2>5. CASE Undelay(o)
    <3>1. /\ operatorPc' = [operatorPc EXCEPT ![o] = "clear"]
          /\ UNCHANGED <<subject, returned, calls>>
      BY <2>5 DEF Undelay, OperatorGoto
    <3>2. found' \in [Operators -> BOOLEAN]
      BY <2>5, Zenon DEF Undelay
    <3>3. revoked' \in SUBSET Jobs /\ missed' \in SUBSET Jobs
      BY <1>2, <2>5 DEF Undelay
    <3>4. operatorPc[o] # "idle"
      BY <2>5 DEF Undelay
    <3>5. QED
      BY <1>2, <3>1, <3>2, <3>3, <3>4
  <2>6. ASSUME NEW j \in Jobs, CheckRetry(o, j) \/ CheckCancel(o, j)
        PROVE  OperatorTypeOK'
    <3>1. \E to \in {"requeue", "unlist"} : BeginRequest(o, j, to)
      BY <2>6 DEF CheckRetry, CheckCancel
    <3>2. found' = [found EXCEPT ![o] = FALSE]
      BY <3>1 DEF BeginRequest
    <3>3. found' \in [Operators -> BOOLEAN]
      BY <3>2
    <3>4. QED
      BY <3>1, <3>3 DEF BeginRequest
  <2>7. QED
    BY <1>1, <2>1, <2>2, <2>3, <2>4, <2>5, <2>6 DEF RetryJob, CancelJob
<1>6. QED
  BY <1>4, <1>5

-----------------------------------------------------------------------------
(* What the rest of the system does to jobs that are out *)

LEMMA WithdrawnStays ==
  ASSUME NoReaper, TypeOK, FailuresAreCaught, [Next]_vars, NEW j \in Jobs, Withdrawn(j)
  PROVE  Withdrawn(j)'
<1>1. ~PushJob(j)
  BY DEF Withdrawn, Accepted, PushJob
<1>2. QED
  BY <1>1, NoCopyStays, AcceptedStays DEF Withdrawn

\* Without operators, only the UPDATE of a burial says that a job is out.
LEMMA OnlyBurialsKill ==
  ASSUME NoReaper, TypeOK, [Next]_vars, NEW j \in Jobs, status'[j] \in {"dead", "failed"}
  PROVE  \/ status[j] = status'[j]
         \/ \E l \in Lanes : Bury(l) /\ claim[l] = j
<1> USE DEF TypeOK, StoreTypeOK
<1> DEFINE Says == status[j] = status'[j] \/ \E l \in Lanes : Bury(l) /\ claim[l] = j
<1>1. ASSUME NEW i \in Jobs, Enqueue(i) \/ FailRequest(i)
      PROVE  Says
  BY <1>1, RequestFrame DEF InsertJob, CreateRow, WriteRow
<1>2. ASSUME NEW p \in Promoters, Promote(p) \/ FailPromotion(p)
      PROVE  Says
  BY <1>2, PromoterFrame DEF MarkQueued, WriteRow
<1>3. ASSUME NEW w \in Workers, WorkerStep(w) \/ CrashWorker(w)
      PROVE  Says
  BY <1>3, LivesKeepStore
<1>4. ASSUME NEW l \in Lanes, LaneStep(l) \/ Heartbeat(l) \/ LaneFault(l)
      PROVE  Says
  <2>1. CASE Activate(l) \/ Complete(l) \/ Reschedule(l)
    BY <2>1 DEF Activate, Complete, Reschedule, WriteRow
  <2>2. CASE Bury(l)
    BY <2>2 DEF Bury, WriteRow
  <2>3. QED
    BY <1>4, <2>1, <2>2, LaneRows
<1>5. CASE ReaperNext \/ TimeNext \/ UNCHANGED vars
  BY <1>5, TimeFrame DEF NoReaper, ReaperNext, ExpireLock, storeVars
<1>6. QED
  <2>1. CASE ApiNext
    BY <1>1, <1>2, <2>1 DEF ApiNext
  <2>2. CASE WorkerNext
    BY <1>3, <1>4, <2>2 DEF WorkerNext
  <2>3. QED
    BY <1>5, <2>1, <2>2 DEF Next

\* API, promoters, workers and time keep what rows and operators say true.
LEMMA ProcessesAgree ==
  ASSUME NoReaper, TypeOK, FailuresAreCaught, [Next]_vars, UNCHANGED operatorVars,
         NEW j \in Jobs, InOnePlace(j), RowsAndOperatorsAgree(j)
  PROVE  InOnePlace(j)' /\ RowsAndOperatorsAgree(j)'
<1>1. PushJob(j) => NoCopy(j)
  BY DEF PushJob, Accepted, RowsAndOperatorsAgree
<1>2. InOnePlace(j)'
  BY <1>1, StepNoNewCopy, NoNewCopyKeeps, HandOverKeeps
<1>3. ~Accepted(j)' => NoCopy(j)'
  <2>1. ASSUME ~Accepted(j)'
        PROVE  ~Accepted(j) /\ ~PushJob(j)
    BY <2>1, AcceptedStays DEF PushJob, Accepted, TypeOK, ApiTypeOK
  <2>2. QED
    BY <2>1, NoCopyStays DEF RowsAndOperatorsAgree
<1>4. Withdrawn(j) => Withdrawn(j)' /\ \A l \in Lanes : Bury(l) => claim[l] # j
  BY WithdrawnStays DEF Bury, Withdrawn, NoCopy, Carries
<1>5. ASSUME status'[j] \in {"dead", "failed"}
      PROVE  Withdrawn(j)'
  <2>1. CASE status[j] = status'[j]
    BY <1>4, <1>5, <2>1 DEF RowsAndOperatorsAgree
  <2>2. ASSUME NEW l \in Lanes, Bury(l), claim[l] = j
        PROVE  Withdrawn(j)'
    <3>1. WorkerNext
      BY <2>2 DEF Next, ApiNext, ReaperNext, TimeNext, vars, workerVars, Bury, Goto, TypeOK,
                  WorkerTypeOK
    <3>2. Accepted(j)
      BY <2>2 DEF Bury, Carries, NoCopy, RowsAndOperatorsAgree
    <3>3. QED
      BY <2>2, <3>1, <3>2, EndedIsGone, AcceptedStays DEF Withdrawn
  <2>3. QED
    BY <1>5, <2>1, <2>2, OnlyBurialsKill
<1>6. Withdrawn(j) /\ status[j] \notin {"dead", "failed"} => status'[j] \notin {"dead", "failed"}
  BY <1>4, OnlyBurialsKill
<1>7. RowsAndOperatorsAgree(j)'
  BY <1>3, <1>4, <1>5, <1>6 DEF RowsAndOperatorsAgree, operatorVars
<1>8. QED
  BY <1>2, <1>7

-----------------------------------------------------------------------------
(* What the operator does *)

\* Only the push of a retry puts a job anywhere.
LEMMA OnlyRetriesPush ==
  ASSUME TypeOK, OperatorTypeOK, OnOwnLevel, OperatorNext, NEW j \in Jobs,
         \A o \in Operators : PushRetried(o) => subject[o] # j
  PROVE  NoNewCopy(j)
<1> USE DEF TypeOK
<1>1. PICK o \in Operators : RetryJob(o) \/ CancelJob(o) \/ FailOperator(o)
  BY DEF OperatorNext
<1>2. operatorPc[o] # "idle" => subject[o] \in Jobs
  BY DEF OperatorTypeOK
<1>3. /\ \A p \in Promoters : PromoterCarries(p, j)' <=> PromoterCarries(p, j)
      /\ \A l \in Lanes : Carries(l, j)' <=> Carries(l, j)
  BY SameLanesCarry DEF OperatorNext, apiVars, promoterVars, PromoterCarries
<1>4. /\ delayed'[j] # "out" => delayed[j] # "out"
      /\ InReady(j)' => InReady(j)
      /\ QueuedOnce(j) => QueuedOnce(j)'
  <2>1. CASE Unlist(o)
    BY <1>2, <2>1, UnlistReady DEF Unlist
  <2>2. CASE PushRetried(o)
    <3>1. subject[o] \in Jobs /\ subject[o] # j /\ LPush(subject[o])
      BY <1>2, <2>2 DEF PushRetried
    <3>2. QED
      BY <3>1, LPushQueued DEF LPush
  <2>3. CASE ~Unlist(o) /\ ~PushRetried(o)
    <3>1. ready' = ready
      BY <1>1, <2>3
         DEF RetryJob, CancelJob, FailOperator, CheckRetry, CheckCancel, BeginRequest, Requeue,
             StoreRetried, Undelay, ClearCancelled, MarkCancelled, storeVars, WriteRow,
             SetEnvelope, ZRem
    <3>2. delayed'[j] # "out" => delayed[j] # "out"
      BY <1>1, <2>3
         DEF RetryJob, CancelJob, FailOperator, CheckRetry, CheckCancel, BeginRequest, Requeue,
             StoreRetried, Undelay, ClearCancelled, MarkCancelled, storeVars, WriteRow,
             SetEnvelope, ZRem, StoreTypeOK
    <3>3. QED
      BY <3>1, <3>2, SameQueued
  <2>4. QED
    BY <2>1, <2>2, <2>3
<1>5. QED
  BY <1>3, <1>4 DEF NoNewCopy

\* A request leaves other jobs, and what is said about them, alone.
LEMMA OthersAgree ==
  ASSUME OneOperator, TypeOK, OperatorTypeOK, OnOwnLevel, OperatorNext, NEW j \in Jobs,
         InOnePlace(j), RowsAndOperatorsAgree(j),
         \A o \in Operators : subject[o] # j /\ subject'[o] # j
  PROVE  InOnePlace(j)' /\ RowsAndOperatorsAgree(j)'
<1>1. PICK o \in Operators : RetryJob(o) \/ CancelJob(o) \/ FailOperator(o)
  BY DEF OperatorNext
<1>2. NoNewCopy(j)
  BY OnlyRetriesPush
<1>3. Accepted(j)' <=> Accepted(j)
  BY DEF OperatorNext, apiVars, submitVars, Accepted
<1>4. status'[j] = status[j] /\ (j \in revoked' => j \in revoked)
  <2> USE DEF OperatorGoto, TypeOK, StoreTypeOK
  <2>1. CASE (\E i \in Jobs : CheckRetry(o, i) \/ CheckCancel(o, i)) \/ FailOperator(o)
    BY <2>1 DEF BeginRequest, CheckRetry, CheckCancel, FailOperator, storeVars
  <2>2. CASE Requeue(o) \/ MarkCancelled(o)
    BY <2>2 DEF Requeue, MarkCancelled, WriteRow
  <2>3. CASE StoreRetried(o) \/ PushRetried(o)
    BY <2>3 DEF StoreRetried, PushRetried, SetEnvelope, LPush
  <2>4. CASE Unlist(o) \/ Undelay(o) \/ ClearCancelled(o)
    BY <2>4 DEF Unlist, Undelay, ClearCancelled, ZRem, SetEnvelope
  <2>5. QED
    BY <1>1, <2>1, <2>2, <2>3, <2>4 DEF RetryJob, CancelJob
<1>5. QED
  BY <1>2, <1>3, <1>4, NoNewCopyKeeps DEF RowsAndOperatorsAgree, Withdrawn

\* The job of the request: its row and the request stay true of it.
LEMMA SubjectAgrees ==
  ASSUME OneOperator, TypeOK, OperatorTypeOK, OnOwnLevel, OperatorNext,
         NEW j \in Jobs, j \notin missed', InOnePlace(j), RowsAndOperatorsAgree(j),
         NEW o \in Operators, RetryJob(o) \/ CancelJob(o) \/ FailOperator(o),
         subject[o] = j \/ subject'[o] = j
  PROVE  InOnePlace(j)' /\ RowsAndOperatorsAgree(j)'
<1> USE DEF OperatorTypeOK, TypeOK, StoreTypeOK
<1> DEFINE Out == /\ status'[j] \in {"dead", "failed"} => Withdrawn(j)'
                  /\ j \in revoked' => Withdrawn(j)'
<1>1. \A q \in Operators : q = o
  BY DEF OneOperator
<1>2. Accepted(j)' <=> Accepted(j)
  BY DEF OperatorNext, apiVars, submitVars, Accepted
<1>3. (\A q \in Operators : ~PushRetried(q)) => NoNewCopy(j)
  BY OnlyRetriesPush
<1>4. NoNewCopy(j) => /\ InOnePlace(j)'
                      /\ ~Accepted(j)' => NoCopy(j)'
                      /\ Withdrawn(j) => Withdrawn(j)'
  BY <1>2, NoNewCopyKeeps DEF RowsAndOperatorsAgree, Withdrawn
<1>5. CASE FailOperator(o) \/ \E i \in Jobs : CheckRetry(o, i) \/ CheckCancel(o, i)
  <2>1. UNCHANGED <<storeVars, revoked>>
    BY <1>5 DEF FailOperator, CheckRetry, CheckCancel, BeginRequest
  <2>2. NoNewCopy(j)
    BY <2>1, SameQueued, SameLanesCarry
       DEF OperatorNext, apiVars, promoterVars, storeVars, PromoterCarries, NoNewCopy
  <2>3. Out
    BY <1>4, <2>1, <2>2 DEF storeVars, RowsAndOperatorsAgree
  <2>4. subject'[o] = j =>
          operatorPc'[o] = "unlist" \/ (operatorPc'[o] = "requeue" /\ Withdrawn(j)')
    <3>1. CASE FailOperator(o)
      BY <3>1, NoneAssumption DEF FailOperator, EndRequest
    <3>2. ASSUME NEW i \in Jobs, CheckRetry(o, i)
          PROVE  subject'[o] = i /\ operatorPc'[o] = "requeue" /\ status[i] \in {"dead", "failed"}
      BY <3>2 DEF CheckRetry, BeginRequest
    <3>3. ASSUME NEW i \in Jobs, CheckCancel(o, i)
          PROVE  operatorPc'[o] = "unlist"
      BY <3>3 DEF CheckCancel, BeginRequest
    <3>4. QED
      BY <1>4, <1>5, <2>2, <3>1, <3>2, <3>3 DEF RowsAndOperatorsAgree
  <2>5. QED
    BY <1>1, <1>4, <2>2, <2>3, <2>4 DEF RowsAndOperatorsAgree
<1>6. CASE Requeue(o) \/ StoreRetried(o)
  <2>1. NoNewCopy(j) /\ Withdrawn(j) /\ subject'[o] = j
    BY <1>1, <1>3, <1>6 DEF Requeue, StoreRetried, OperatorGoto, PushRetried, RowsAndOperatorsAgree
  <2>2. operatorPc'[o] \in {"store", "push"}
    BY <1>6 DEF Requeue, StoreRetried, OperatorGoto
  <2>3. status'[j] \notin {"dead", "failed"} /\ j \notin revoked'
    BY <1>6, <2>1 DEF Requeue, StoreRetried, OperatorGoto, WriteRow, SetEnvelope,
                      RowsAndOperatorsAgree
  <2>4. QED
    BY <1>1, <1>4, <2>1, <2>2, <2>3 DEF RowsAndOperatorsAgree
<1>7. CASE PushRetried(o)
  <2>1. /\ subject[o] = j /\ subject'[o] = None /\ LPush(j)
        /\ NoCopy(j) /\ Accepted(j)
        /\ status'[j] \notin {"dead", "failed"} /\ j \notin revoked'
    BY <1>7, NoneAssumption DEF PushRetried, EndRequest, LPush, RowsAndOperatorsAgree, Withdrawn
  <2>2. QueuedOnce(j)' /\ delayed'[j] = "out"
    <3>1. StoreTypeOK /\ ~InReady(j) /\ QueuedOnce(j) /\ delayed[j] = "out"
      BY <2>1 DEF NoCopy, InOnePlace, TypeOK
    <3>2. QueuedOnce(j)'
      BY <2>1, <3>1, LPushQueued
    <3>3. QED
      BY <2>1, <3>1, <3>2 DEF LPush
  <2>3. /\ \A p \in Promoters : ~PromoterCarries(p, j)'
        /\ \A l \in Lanes : ~Carries(l, j)'
    BY <2>1, SameLanesCarry DEF OperatorNext, apiVars, promoterVars, PromoterCarries, NoCopy
  <2>4. QED
    BY <1>1, <1>2, <2>1, <2>2, <2>3, NoneAssumption DEF InOnePlace, RowsAndOperatorsAgree
<1>8. CASE Unlist(o)
  <2>1. /\ NoNewCopy(j) /\ subject[o] = j /\ subject'[o] = j
        /\ operatorPc'[o] = "undelay"
        /\ UNCHANGED <<status, revoked>>
        /\ found'[o] <=> InReady(j)
        /\ ~InReady(j)'
    <3>1. subject[o] = j /\ subject'[o] = j /\ operatorPc'[o] = "undelay"
      BY <1>3, <1>8 DEF Unlist, OperatorGoto
    <3>2. UNCHANGED <<status, revoked>>
      BY <1>8 DEF Unlist
    <3>3. ~PushRetried(o)
      BY <1>8 DEF Unlist, PushRetried
    <3>4. NoNewCopy(j)
      BY <1>1, <1>3, <3>3, Zenon
    <3>5. (found'[o] <=> InReady(j)) /\ ~InReady(j)'
      <4>1. found' = [found EXCEPT ![o] = InReady(j)]
        BY <1>8, <3>1 DEF Unlist
      <4>2. found'[o] = InReady(j)
        BY <4>1
      <4>3. ~InReady(subject[o])'
        BY <1>8, <3>1, UnlistReady
      <4>4. QED
        BY <3>1, <4>2, <4>3, Zenon
    <3>6. QED
      BY <3>1, <3>2, <3>4, <3>5
  <2>2. ASSUME InReady(j)
        PROVE  Withdrawn(j)'
    <3>1. Accepted(j)'
      BY <1>2, <2>2 DEF RowsAndOperatorsAgree, NoCopy
    <3>2. NoCopy(j)'
      BY <2>1, <2>2 DEF InOnePlace, NoNewCopy, NoCopy
    <3>3. QED
      BY <3>1, <3>2 DEF Withdrawn
  <2>3. Out
    BY <1>4, <2>1 DEF RowsAndOperatorsAgree
  <2>4. QED
    BY <1>1, <1>4, <2>1, <2>2, <2>3 DEF RowsAndOperatorsAgree
<1>9. CASE Undelay(o)
  <2>1. /\ NoNewCopy(j) /\ subject[o] = j /\ subject'[o] = j
        /\ operatorPc[o] = "undelay" /\ operatorPc'[o] = "clear"
        /\ status' = status /\ delayed'[j] = "out"
        /\ found[o] \/ delayed[j] # "out"
    BY <1>1, <1>3, <1>9 DEF Undelay, OperatorGoto, ZRem, PushRetried
  <2>2. Withdrawn(j)'
    <3>1. CASE found[o]
      BY <1>4, <2>1, <3>1 DEF RowsAndOperatorsAgree
    <3>2. CASE delayed[j] # "out"
      <4>1. Accepted(j)'
        BY <1>2, <3>2 DEF RowsAndOperatorsAgree, NoCopy
      <4>2. NoCopy(j)'
        BY <2>1, <3>2 DEF InOnePlace, NoNewCopy, NoCopy
      <4>3. QED
        BY <4>1, <4>2 DEF Withdrawn
    <3>3. QED
      BY <2>1, <3>1, <3>2
  <2>3. QED
    BY <1>1, <1>4, <2>1, <2>2 DEF RowsAndOperatorsAgree
<1>10. CASE ClearCancelled(o) \/ MarkCancelled(o)
  <2>1. NoNewCopy(j) /\ subject[o] = j
    BY <1>1, <1>3, <1>10, NoneAssumption
       DEF ClearCancelled, MarkCancelled, OperatorGoto, EndRequest, PushRetried
  <2>2. Withdrawn(j)'
    BY <1>4, <1>10, <2>1 DEF ClearCancelled, MarkCancelled, RowsAndOperatorsAgree
  <2>3. subject'[o] = j => operatorPc'[o] = "mark"
    BY <1>10, NoneAssumption DEF ClearCancelled, MarkCancelled, OperatorGoto, EndRequest
  <2>4. QED
    BY <1>1, <1>4, <2>1, <2>2, <2>3 DEF RowsAndOperatorsAgree
<1>11. QED
  BY <1>5, <1>6, <1>7, <1>8, <1>9, <1>10 DEF RetryJob, CancelJob

-----------------------------------------------------------------------------
(* The theorems *)

LEMMA OperatedStarts == OperatedInit => OperatedInvariant
<1> SUFFICES ASSUME OperatedInit PROVE OperatedInvariant
  OBVIOUS
<1>1. CopyInvariant
  BY CopyInit DEF OperatedInit
<1>2. OperatorTypeOK
  BY DEF OperatedInit, OperatorInit, OperatorTypeOK, OperatorPcs
<1>3. OnOwnLevel
  BY DEF OperatedInit, Init, StoreInit, OnOwnLevel
<1>4. ASSUME NEW j \in Jobs
      PROVE  RowsAndOperatorsAgree(j)
  <2>1. NoCopy(j)
    BY DEF OperatedInit, Init, StoreInit, ApiInit, WorkerInit, NoCopy, InReady,
           PromoterCarries, Carries
  <2>2. status[j] = "absent" /\ revoked = {} /\ \A o \in Operators : operatorPc[o] = "idle"
    BY DEF OperatedInit, Init, StoreInit, OperatorInit
  <2>3. QED
    BY <2>1, <2>2 DEF RowsAndOperatorsAgree
<1>5. QED
  BY <1>1, <1>2, <1>3, <1>4 DEF CopyInvariant, OperatedInvariant

LEMMA OperatedStep ==
  ASSUME NoReaper, OneOperator, OperatedInvariant, [OperatedNext]_operatedVars
  PROVE  OperatedInvariant'
<1> USE DEF OperatedInvariant
<1>1. CASE [Next]_vars /\ UNCHANGED operatorVars
  <2>1. TypeOK' /\ FailuresAreCaught' /\ OnOwnLevel'
    BY <1>1, TypeStep, FailuresStep, LevelsStep
  <2>2. OperatorTypeOK'
    BY <1>1 DEF operatorVars, OperatorTypeOK
  <2>3. missed' = missed
    BY <1>1 DEF operatorVars
  <2>4. QED
    BY <1>1, <2>1, <2>2, <2>3, ProcessesAgree
<1>2. CASE OperatorNext
  <2>1. TypeOK' /\ OperatorTypeOK'
    BY <1>2, OperatorTypes
  <2>2. FailuresAreCaught'
    BY <1>2 DEF OperatorNext, workerVars, FailuresAreCaught
  <2>3. PICK o \in Operators : RetryJob(o) \/ CancelJob(o) \/ FailOperator(o)
    BY <1>2 DEF OperatorNext
  <2>4. OnOwnLevel'
    <3>1. operatorPc[o] # "idle" => subject[o] \in Jobs
      BY DEF OperatorTypeOK
    <3>2. CASE Unlist(o)
      BY <3>1, <3>2, UnlistReady DEF Unlist, TypeOK
    <3>3. CASE PushRetried(o)
      BY <3>1, <3>3, LPushLevels DEF PushRetried, TypeOK
    <3>4. CASE ~Unlist(o) /\ ~PushRetried(o)
      <4>1. ready' = ready
        BY <2>3, <3>4
           DEF RetryJob, CancelJob, FailOperator, CheckRetry, CheckCancel, BeginRequest,
               Requeue, StoreRetried, Undelay, ClearCancelled, MarkCancelled, storeVars,
               WriteRow, SetEnvelope, ZRem
      <4>2. QED
        BY <4>1 DEF OnOwnLevel
    <3>5. QED
      BY <3>2, <3>3, <3>4
  <2>5. missed \subseteq missed'
    BY <2>3
       DEF RetryJob, CancelJob, FailOperator, CheckRetry, CheckCancel, BeginRequest, Requeue,
           StoreRetried, PushRetried, Unlist, Undelay, ClearCancelled, MarkCancelled
  <2>6. ASSUME NEW j \in Jobs, j \notin missed'
        PROVE  InOnePlace(j)' /\ RowsAndOperatorsAgree(j)'
    <3>1. InOnePlace(j) /\ RowsAndOperatorsAgree(j)
      BY <2>5, <2>6
    <3>2. CASE subject[o] = j \/ subject'[o] = j
      BY <1>2, <2>3, <2>6, <3>1, <3>2, SubjectAgrees
    <3>3. CASE subject[o] # j /\ subject'[o] # j
      <4>1. \A q \in Operators : subject[q] # j /\ subject'[q] # j
        BY <3>3 DEF OneOperator
      <4>2. QED
        BY <1>2, <3>1, <4>1, OthersAgree
    <3>4. QED
      BY <3>2, <3>3
  <2>7. QED
    BY <2>1, <2>2, <2>4, <2>6
<1>3. QED
  BY <1>1, <1>2 DEF OperatedNext, operatedVars

\* Whatever promoters, workers and one operator at a time do in between, a row
\* that says dead or failed, a retry past its check and a cancel that found its
\* job are right about the job being out of every queue and every lane.
THEOREM RowsSpeakTrue ==
  ASSUME NoReaper, OneOperator
  PROVE  OperatedSpec => []OperatedInvariant
<1>1. OperatedInit => OperatedInvariant
  BY OperatedStarts
<1>2. OperatedInvariant /\ [OperatedNext]_operatedVars => OperatedInvariant'
  BY OperatedStep
<1>3. QED
  BY <1>1, <1>2, PTL DEF OperatedSpec

\* A request between two calls has a job, with any number of operators and
\* with reapers.
THEOREM RequestsAreTyped == OperatedSpec => []OperatorTypeOK
<1> DEFINE Typed == TypeOK /\ OperatorTypeOK
<1>1. OperatedInit => Typed
  BY OperatedStarts DEF OperatedInvariant
<1>2. Typed /\ [OperatedNext]_operatedVars => Typed'
  <2> SUFFICES ASSUME Typed, [OperatedNext]_operatedVars
               PROVE  Typed'
    OBVIOUS
  <2>1. CASE [Next]_vars /\ UNCHANGED operatorVars
    BY <2>1, TypeStep DEF operatorVars, OperatorTypeOK
  <2>2. CASE OperatorNext
    BY <2>2, OperatorTypes
  <2>3. QED
    BY <2>1, <2>2 DEF OperatedNext, operatedVars
<1>3. Typed => OperatorTypeOK
  OBVIOUS
<1>4. QED
  BY <1>1, <1>2, <1>3, PTL DEF OperatedSpec

LEMMA NoCopyNoCopies ==
  ASSUME NEW j \in Jobs, NoCopy(j)
  PROVE  CopiesOf(j) = 0
<1>1. Queued(j) = {}
  BY DEF Queued, NoCopy, InReady
<1>2. {p \in Promoters : promoterPc[p] \in {"load", "push"} /\ promoting[p] = j} = {}
  BY DEF NoCopy, PromoterCarries
<1>3. {l \in Lanes : Carries(l, j)} = {}
  BY DEF NoCopy
<1>4. delayed[j] = "out"
  BY DEF NoCopy
<1>5. QED
  BY <1>1, <1>2, <1>3, <1>4, FS_EmptySet DEF CopiesOf

\* A retry never adds a copy of a job that still has one, unless a cancel has
\* missed the job before.
THEOREM RetriesAddNoCopy ==
  ASSUME NoReaper, OneOperator
  PROVE  OperatedSpec => []OneCopyUnlessMissed
<1>1. OperatedInvariant => OneCopyUnlessMissed
  <2> SUFFICES ASSUME OperatedInvariant, NEW j \in Jobs \ missed
               PROVE  CopiesOf(j) + (IF AboutToPush(j) THEN 1 ELSE 0) <= 1
    BY DEF OneCopyUnlessMissed
  <2>1. CASE AboutToPush(j)
    <3>1. NoCopy(j)
      BY <2>1 DEF AboutToPush, OperatedInvariant, RowsAndOperatorsAgree, Withdrawn
    <3>2. QED
      BY <2>1, <3>1, NoCopyNoCopies
  <2>2. CASE ~AboutToPush(j)
    <3>1. CopiesOf(j) \in {0, 1}
      BY OneCopyInOnePlace DEF OperatedInvariant
    <3>2. QED
      BY <2>2, <3>1
  <2>3. QED
    BY <2>1, <2>2
<1>2. QED
  BY <1>1, RowsSpeakTrue, PTL

\* A job that a cancel found stays out of every queue and every lane until it
\* is retried.
THEOREM CancelledJobsStayOut ==
  ASSUME NoReaper, OneOperator
  PROVE  OperatedSpec => []RevokedStaysOut
<1>1. OperatedInvariant => RevokedStaysOut
  <2> SUFFICES ASSUME OperatedInvariant, NEW j \in revoked \ missed
               PROVE  CopiesOf(j) = 0
    BY DEF RevokedStaysOut
  <2>1. j \in Jobs \ missed
    BY DEF OperatedInvariant, OperatorTypeOK
  <2>2. NoCopy(j)
    BY <2>1 DEF OperatedInvariant, RowsAndOperatorsAgree, Withdrawn
  <2>3. QED
    BY <2>1, <2>2, NoCopyNoCopies
<1>2. QED
  BY <1>1, RowsSpeakTrue, PTL
=============================================================================
