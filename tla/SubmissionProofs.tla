-------------------------- MODULE SubmissionProofs --------------------------
(***************************************************************************)
(* What clients are told about an idempotency key: AnswersAgree, proved    *)
(* from SubmissionInvariant for any number of requests and keys, whatever  *)
(* fails or crashes and whenever the Redis keys expire.                    *)
(***************************************************************************)
EXTENDS JobQueueProofs

\* No UPDATE takes a row away, so the unique index never forgets a key.
LEMMA RowsStay ==
  ASSUME TypeOK, [Next]_vars
  PROVE  \A j \in Jobs : status[j] # "absent" => status'[j] # "absent"
<1> DEFINE Stay == \A j \in Jobs : status[j] # "absent" => status'[j] # "absent"
<1> USE DEF TypeOK, StoreTypeOK, WriteRow
<1>1. ASSUME NEW j \in Jobs, Enqueue(j) \/ FailRequest(j)
      PROVE  Stay
  BY <1>1, RequestFrame DEF InsertJob, CreateRow
<1>2. ASSUME NEW p \in Promoters, Promote(p) \/ FailPromotion(p)
      PROVE  Stay
  BY <1>2, PromoterFrame DEF MarkQueued
<1>3. ASSUME NEW w \in Workers, WorkerStep(w) \/ CrashWorker(w)
      PROVE  Stay
  BY <1>3, LivesKeepStore
<1>4. ASSUME NEW l \in Lanes, LaneStep(l) \/ Heartbeat(l) \/ LaneFault(l)
      PROVE  Stay
  BY <1>4, LaneRows DEF Activate, Complete, Reschedule, Bury
<1>5. ASSUME NEW r \in Reapers, Reap(r) \/ ReaperFault(r)
      PROVE  Stay
  BY <1>5, ReaperRows DEF MarkDelayed, MarkDead
<1>6. ASSUME NEW w \in Workers, ExpireLock(w)
      PROVE  Stay
  BY <1>6 DEF ExpireLock, storeVars
<1>7. CASE TimeNext \/ UNCHANGED vars
  BY <1>7, TimeFrame
<1>8. QED
  <2>1. CASE ApiNext
    BY <1>1, <1>2, <2>1 DEF ApiNext
  <2>2. CASE WorkerNext
    BY <1>3, <1>4, <2>2 DEF WorkerNext
  <2>3. CASE ReaperNext
    BY <1>5, <1>6, <2>3 DEF ReaperNext
  <2>4. QED
    BY <1>7, <2>1, <2>2, <2>3 DEF Next

LEMMA SubmissionInit == Init => SubmissionInvariant
<1> SUFFICES ASSUME Init PROVE SubmissionInvariant
  OBVIOUS
<1>1. ApiTypeOK
  BY InitType DEF TypeOK
<1>2. OneRowPerKey /\ RowsExist /\ KeysNameRows /\ AnswersNameRows
  BY DEF Init, ApiInit, OneRowPerKey, RowsExist, KeysNameRows, AnswersNameRows, Inserted
<1>3. QED
  BY <1>1, <1>2 DEF SubmissionInvariant

\* A step that leaves the submission alone, or only lets a Redis key expire
LEMMA SubmissionUnmoved ==
  ASSUME TypeOK, SubmissionInvariant, [Next]_vars,
         UNCHANGED <<request, told>>,
         \A k \in IdempotencyKeys : idemKeys'[k] \in {idemKeys[k], None}
  PROVE  SubmissionInvariant'
<1> USE DEF SubmissionInvariant
<1>1. ApiTypeOK'
  BY TypeStep DEF TypeOK
<1>2. \A j \in Jobs : Inserted(j)' <=> Inserted(j)
  BY DEF Inserted
<1>3. OneRowPerKey' /\ RowsExist'
  BY <1>2, RowsStay DEF OneRowPerKey, RowsExist
<1>4. KeysNameRows'
  BY <1>2 DEF KeysNameRows, ApiTypeOK
<1>5. AnswersNameRows'
  BY <1>2 DEF AnswersNameRows, ApiTypeOK
<1>6. QED
  BY <1>1, <1>3, <1>4, <1>5

LEMMA EnqueueStep ==
  ASSUME TypeOK, SubmissionInvariant, [Next]_vars,
         NEW j \in Jobs, Enqueue(j) \/ FailRequest(j)
  PROVE  SubmissionInvariant'
<1> USE DEF SubmissionInvariant, ApiTypeOK, RequestStates
<1>1. ApiTypeOK'
  BY TypeStep DEF TypeOK
<1>2. \A i \in Jobs : i # j => request'[i] = request[i] /\ told'[i] = told[i]
  BY DEF Enqueue, LookUpKey, InsertJob, CreateRow, RejectInsert, RememberKey, StoreEnvelope,
         PushJob, FailRequest
<1>3. \A i \in Jobs : Inserted(i) => Inserted(i)'
  BY DEF Enqueue, LookUpKey, InsertJob, CreateRow, RejectInsert, RememberKey, StoreEnvelope,
         PushJob, FailRequest, Inserted, ReadyToInsert
<1>4. \A i \in Jobs : Inserted(i)' => Inserted(i) \/ (i = j /\ InsertJob(j))
  <2>1. ASSUME Inserted(j)', ~InsertJob(j)
        PROVE  Inserted(j)
    <3>1. CASE LookUpKey(j)
      BY <2>1, <3>1 DEF LookUpKey, Inserted
    <3>2. CASE RejectInsert(j) \/ FailRequest(j)
      BY <2>1, <3>2 DEF RejectInsert, FailRequest, Inserted
    <3>3. CASE RememberKey(j) \/ StoreEnvelope(j) \/ PushJob(j)
      BY <2>1, <3>3 DEF RememberKey, StoreEnvelope, PushJob, Inserted
    <3>4. QED
      BY <2>1, <3>1, <3>2, <3>3 DEF Enqueue
  <2>2. QED
    BY <1>2, <2>1 DEF Inserted
<1>5. OneRowPerKey'
  <2>1. ASSUME InsertJob(j), NEW i \in Jobs, SameKey(i, j) \/ SameKey(j, i), Inserted(i)
        PROVE  FALSE
    BY <2>1 DEF InsertJob, Taken, RowsExist, SameKey
  <2>2. QED
    BY <1>4, <2>1 DEF OneRowPerKey, SameKey
<1>6. RowsExist'
  <2>1. InsertJob(j) => status'[j] # "absent"
    BY DEF InsertJob, CreateRow, WriteRow, TypeOK, StoreTypeOK
  <2>2. QED
    BY <1>4, <2>1, RowsStay DEF RowsExist
<1>7. KeysNameRows'
  <2>1. CASE RememberKey(j)
    <3>1. Inserted(j)'
      BY <2>1 DEF RememberKey, Inserted
    <3>2. \A k \in IdempotencyKeys : k # KeyOf[j] => idemKeys'[k] = idemKeys[k]
      BY <2>1 DEF RememberKey
    <3>3. KeyOf[j] \in IdempotencyKeys => idemKeys'[KeyOf[j]] = j
      BY <2>1 DEF RememberKey
    <3>4. QED
      BY <1>1, <1>3, <3>1, <3>2, <3>3 DEF KeysNameRows
  <2>2. CASE ~RememberKey(j)
    <3>1. idemKeys' = idemKeys
      BY <2>2 DEF Enqueue, LookUpKey, InsertJob, CreateRow, RejectInsert, StoreEnvelope,
                  PushJob, FailRequest
    <3>2. QED
      BY <1>1, <1>3, <3>1 DEF KeysNameRows
  <2>3. QED
    BY <2>1, <2>2
<1>8. AnswersNameRows'
  <2> DEFINE NamesRow(i) == Inserted(told[i]) /\ (told[i] = i \/ SameKey(told[i], i))
  <2>1. ASSUME told'[j] # None, told'[j] # told[j]
        PROVE  NamesRow(j)'
    <3>1. CASE LookUpKey(j)
      <4>1. told'[j] = idemKeys[KeyOf[j]] /\ KeyOf[j] # None
        BY <3>1 DEF LookUpKey
      <4>2. KeyOf[j] \in IdempotencyKeys
        BY <4>1, KeysAssumption
      <4>3. PICK e \in Jobs : told'[j] = e /\ Inserted(e) /\ KeyOf[e] = KeyOf[j]
        BY <2>1, <4>1, <4>2 DEF KeysNameRows
      <4>4. Inserted(e)'
        BY <1>3, <4>3
      <4>5. QED
        BY <4>1, <4>3, <4>4 DEF SameKey, Inserted
    <3>2. CASE PushJob(j)
      BY <3>2 DEF PushJob, Inserted
    <3>3. CASE ~LookUpKey(j) /\ ~PushJob(j)
      BY <2>1, <3>3 DEF Enqueue, InsertJob, CreateRow, RejectInsert, RememberKey, StoreEnvelope,
                        FailRequest
    <3>4. QED
      BY <3>1, <3>2, <3>3
  <2>2. ASSUME NEW i \in Jobs, told'[i] # None, told'[i] = told[i]
        PROVE  NamesRow(i)'
    <3>1. told[i] \in Jobs /\ NamesRow(i)
      BY <2>2 DEF AnswersNameRows
    <3>2. Inserted(told[i])'
      BY <1>2, <2>2, <3>1, <1>3 DEF Inserted
    <3>3. QED
      BY <2>2, <3>1, <3>2 DEF SameKey
  <2>3. \A i \in Jobs : told'[i] # None => NamesRow(i)'
    BY <1>2, <2>1, <2>2
  <2>4. QED
    BY <2>3 DEF AnswersNameRows
<1>9. QED
  BY <1>1, <1>5, <1>6, <1>7, <1>8

LEMMA SubmissionStep ==
  ASSUME TypeOK, SubmissionInvariant, [Next]_vars
  PROVE  SubmissionInvariant'
<1>1. ASSUME NEW j \in Jobs, Enqueue(j) \/ FailRequest(j)
      PROVE  SubmissionInvariant'
  BY <1>1, EnqueueStep
<1>2. ASSUME NEW p \in Promoters, Promote(p) \/ FailPromotion(p)
      PROVE  SubmissionInvariant'
  <2>1. UNCHANGED submitVars
    BY <1>2 DEF Promote, FailPromotion, ScanDue, TakeDue, MissDue, EndPromotion, LoadDue,
                PushDue, MarkQueued
  <2>2. QED
    BY <2>1, SubmissionUnmoved DEF submitVars
<1>3. ASSUME NEW k \in IdempotencyKeys, ExpireKey(k)
      PROVE  SubmissionInvariant'
  <2>1. UNCHANGED <<request, told>>
    BY <1>3 DEF ExpireKey
  <2>2. \A i \in IdempotencyKeys : idemKeys'[i] \in {idemKeys[i], None}
    BY <1>3 DEF ExpireKey, SubmissionInvariant, ApiTypeOK
  <2>3. QED
    BY <2>1, <2>2, SubmissionUnmoved
<1>4. CASE UNCHANGED apiVars
  BY <1>4, SubmissionUnmoved DEF apiVars, submitVars
<1>5. QED
  BY <1>1, <1>2, <1>3, <1>4 DEF Next, ApiNext, WorkerNext, ReaperNext, TimeNext, vars

\* What a Redis key or an answer names is a row of the table with the same
\* idempotency key, and no key has two rows.
THEOREM KeysNameJobs == Spec => []SubmissionInvariant
<1>1. Init => TypeOK /\ SubmissionInvariant
  BY InitType, SubmissionInit
<1>2. TypeOK /\ SubmissionInvariant /\ [Next]_vars => (TypeOK /\ SubmissionInvariant)'
  BY TypeStep, SubmissionStep
<1>3. QED
  BY <1>1, <1>2, PTL DEF Spec

\* FR-1.3: two answers about one idempotency key never name two jobs, however
\* the requests overlap, whichever of their calls fail, and although the Redis
\* key that names the job expires while the row stays.
THEOREM OneJobPerKey == Spec => []AnswersAgree
<1>1. SubmissionInvariant => AnswersAgree
  <2> SUFFICES ASSUME SubmissionInvariant, NEW i \in Jobs, NEW j \in Jobs,
                      SameKey(i, j), told[i] # None, told[j] # None
               PROVE  told[i] = told[j]
    BY DEF AnswersAgree
  <2>1. told[i] \in Jobs /\ told[j] \in Jobs
    BY DEF SubmissionInvariant, ApiTypeOK
  <2>2. SameKey(told[i], told[j]) /\ Inserted(told[i]) /\ Inserted(told[j])
    BY DEF SubmissionInvariant, AnswersNameRows, SameKey
  <2>3. QED
    BY <2>1, <2>2 DEF SubmissionInvariant, OneRowPerKey
<1>2. QED
  BY <1>1, KeysNameJobs, PTL
=============================================================================
