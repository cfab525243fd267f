-------------------------- MODULE SchedulerProofs --------------------------
(***************************************************************************)
(* For any number of definitions, instances and ticks: until a lock        *)
(* expires under its tick, the scheduler never fires a definition twice    *)
(* for one fire time, whatever calls fail and whichever processes die; and *)
(* at all times a fire time that is marked as dealt with has its job, or a *)
(* tick that is about to push it, or one that failed in between.           *)
(***************************************************************************)
EXTENDS Scheduler, TLAPS

USE OwnerAssumption, SchedulerBoundsAssumption, SchedulerNoneAssumption

\* Ticks that leave the try block keep the types.
LEMMA LeavingTypes ==
  ASSUME TypeOK, NEW leaving \in SUBSET Ticks, NEW to \in {"idle", "unlock"}, Leave(leaving, to)
  PROVE  /\ tickPc' \in [Ticks -> TickPcs]
         /\ rows' \in [Ticks -> SUBSET Definitions]
         /\ seen' \in [Ticks -> [Definitions -> Nat]]
         /\ tickNow' \in [Ticks -> [Definitions -> Nat]]
         /\ firing' \in [Ticks -> Definitions \cup {None}]
         /\ \A t \in Ticks : tickPc'[t] \in Firing => firing'[t] \in Definitions
<1>1. Unread \in [Definitions -> Nat]
  BY DEF Unread
<1>2. /\ tickPc' \in [Ticks -> TickPcs]
      /\ rows' \in [Ticks -> SUBSET Definitions]
  BY DEF TypeOK, Leave, TickPcs
<1>3. seen' \in [Ticks -> [Definitions -> Nat]]
  BY <1>1 DEF TypeOK, Leave
<1>4. tickNow' \in [Ticks -> [Definitions -> Nat]]
  BY <1>1 DEF TypeOK, Leave
<1>5. /\ firing' \in [Ticks -> Definitions \cup {None}]
      /\ \A t \in Ticks : tickPc'[t] \in Firing => firing'[t] \in Definitions
  BY DEF TypeOK, Leave, Firing
<1>6. QED
  BY <1>2, <1>3, <1>4, <1>5

\* So does every step of a tick.
LEMMA TickStepTypes ==
  ASSUME TypeOK, NEW t \in Ticks, TickStep(t)
  PROVE  TypeOK'
<1> USE DEF TypeOK, TickPcs, Firing, TickGoto, tableVars, historyVars
<1>1. CASE Acquire(t) \/ Unlock(t) \/ StoreEnvelope(t)
  <2>1. lock' \in Instances \cup {None}
    BY <1>1, OwnerAssumption DEF Acquire, Unlock, StoreEnvelope
  <2>2. CASE Acquire(t)
    BY <2>1, <2>2 DEF Acquire
  <2>3. CASE Unlock(t)
    BY <2>1, <2>3 DEF Unlock
  <2>4. CASE StoreEnvelope(t)
    BY <2>1, <2>4 DEF StoreEnvelope
  <2>5. QED
    BY <1>1, <2>2, <2>3, <2>4
<1>2. CASE LoadDefinitions(t)
  <2>1. PICK lag \in 0..Skew :
          tickNow' = [tickNow EXCEPT ![t] =
                        [d \in Definitions |-> IF lag < fires[d] THEN fires[d] - lag ELSE 1]]
    BY <1>2 DEF LoadDefinitions
  <2>2. [d \in Definitions |-> IF lag < fires[d] THEN fires[d] - lag ELSE 1]
            \in [Definitions -> Nat]
    OBVIOUS
  <2>3. tickNow' \in [Ticks -> [Definitions -> Nat]]
    BY <2>1, <2>2
  <2>4. QED
    BY <1>2, <2>3 DEF LoadDefinitions
<1>3. CASE \E d \in Definitions : SkipDefinition(t, d) \/ InsertJob(t, d)
  <2>1. PICK d \in Definitions : SkipDefinition(t, d) \/ InsertJob(t, d)
    BY <1>3
  <2>2. CASE SkipDefinition(t, d)
    BY <2>2 DEF SkipDefinition
  <2>3. CASE InsertJob(t, d)
    BY <2>3 DEF InsertJob
  <2>4. QED
    BY <2>1, <2>2, <2>3
<1>4. CASE EndWalk(t)
  BY <1>4, LeavingTypes DEF EndWalk
<1>5. CASE StampRun(t)
  <2>1. firing[t] \in Definitions /\ tickNow[t][firing[t]] \in Nat
    BY <1>5 DEF StampRun
  <2>2. QED
    BY <1>5, <2>1 DEF StampRun
<1>6. CASE PushJob(t)
  <2>1. firing[t] \in Definitions /\ tickNow[t][firing[t]] \in Nat
    BY <1>6 DEF PushJob
  <2>2. pushed' \in [Definitions -> Seq(Nat)]
    BY <1>6, <2>1 DEF PushJob
  <2>3. QED
    BY <1>6, <2>2 DEF PushJob
<1>7. QED
  BY <1>1, <1>2, <1>3, <1>4, <1>5, <1>6 DEF TickStep

\* What ticks leave unpushed when they are cut short are fire times.
LEMMA CutTypes ==
  ASSUME TypeOK, NEW failing \in SUBSET Ticks, CutShort(failing)
  PROVE  /\ cut' \in [Definitions -> SUBSET Nat] /\ failures' \in Nat
         /\ pushed' = pushed /\ overruns' = overruns
<1>1. \A d \in Definitions : Unpushed(failing, d) \in SUBSET Nat
  BY DEF TypeOK, Unpushed
<1>2. cut' \in [Definitions -> SUBSET Nat]
  BY <1>1 DEF CutShort, TypeOK
<1>3. QED
  BY <1>2 DEF CutShort, TypeOK

\* And so does every step of the system.
LEMMA SchedulerTypeStep == TypeOK /\ [Next]_vars => TypeOK'
<1> SUFFICES ASSUME TypeOK, [Next]_vars
             PROVE  TypeOK'
  OBVIOUS
<1>1. ASSUME NEW t \in Ticks, FaultInTick(t)
      PROVE  TypeOK'
  <2>1. CutShort({t}) /\ Leave({t}, "unlock")
    BY <1>1 DEF FaultInTick
  <2>2. QED
    BY <1>1, <2>1, CutTypes, LeavingTypes DEF FaultInTick, TypeOK, tableVars
<1>2. ASSUME NEW t \in Ticks, FaultInAcquire(t)
      PROVE  TypeOK'
  <2>1. CutShort({})
    BY <1>2 DEF FaultInAcquire
  <2>2. QED
    BY <1>2, <2>1, CutTypes DEF FaultInAcquire, TypeOK, tableVars, tickVars
<1>3. ASSUME NEW s \in Instances, CrashInstance(s)
      PROVE  TypeOK'
  <2> DEFINE dying == {t \in Ticks : Owner[t] = s}
  <2>1. CutShort(dying) /\ Leave(dying, "idle")
    BY <1>3 DEF CrashInstance
  <2>2. QED
    BY <1>3, <2>1, CutTypes, LeavingTypes DEF CrashInstance, TypeOK, tableVars
<1>4. CASE ExpireLock
  BY <1>4 DEF ExpireLock, TypeOK, tableVars, tickVars
<1>5. ASSUME NEW d \in Definitions, PassFireTime(d)
      PROVE  TypeOK'
  BY <1>5 DEF PassFireTime, TypeOK, tickVars, historyVars
<1>6. ASSUME NEW d \in Definitions, SetEnabled(d)
      PROVE  TypeOK'
  <2>1. enabled' \in [Definitions -> BOOLEAN]
    BY <1>6, Zenon DEF SetEnabled, TypeOK
  <2>2. QED
    BY <1>6, <2>1 DEF SetEnabled, TypeOK, tickVars, historyVars
<1>7. CASE UNCHANGED vars
  BY <1>7 DEF vars, TypeOK
<1>8. QED
  BY <1>1, <1>2, <1>3, <1>4, <1>5, <1>6, <1>7, TickStepTypes DEF Next

-----------------------------------------------------------------------------
(* Fires while no lock has expired under its tick *)

\* Nothing has been pushed and no tick is in progress at the start.
LEMMA FireInit == Init => TypeOK /\ Exclusive
<1> SUFFICES ASSUME Init PROVE TypeOK /\ Exclusive
  OBVIOUS
<1>1. TypeOK
  BY DEF Init, TypeOK, TickPcs, Firing
<1>2. SoleTick /\ SelectIsCurrent /\ FiringIsNew
  BY DEF Init, SoleTick, SelectIsCurrent, FiringIsNew, Firing
<1>3. PushedAreStamped /\ PushesAreInOrder
  BY DEF Init, PushedAreStamped, PushesAreInOrder, InOrder
<1> QED
  BY <1>1, <1>2, <1>3 DEF Exclusive

\* A step that leaves the jobs pushed and last_run_at alone, and takes ticks
\* only out of their try block, keeps what is known of fires.
LEMMA LeavingKeeps ==
  ASSUME TypeOK, Exclusive, NEW leaving \in SUBSET Ticks, NEW to \in {"idle", "unlock"},
         Leave(leaving, to), UNCHANGED <<lastRun, pushed>>
  PROVE  SelectIsCurrent' /\ FiringIsNew' /\ PushedAreStamped' /\ PushesAreInOrder'
<1>1. \A t \in Ticks : tickPc'[t] \in {"walk"} \cup Firing =>
        /\ tickPc'[t] = tickPc[t] /\ rows'[t] = rows[t] /\ seen'[t] = seen[t]
        /\ tickNow'[t] = tickNow[t] /\ firing'[t] = firing[t]
  BY DEF TypeOK, Leave, Firing
<1>2. SelectIsCurrent'
  BY <1>1 DEF Exclusive, SelectIsCurrent
<1>3. FiringIsNew'
  BY <1>1 DEF Exclusive, FiringIsNew, Firing
<1>4. PushedAreStamped' /\ PushesAreInOrder'
  BY DEF Exclusive, PushedAreStamped, PushesAreInOrder, InOrder
<1> QED
  BY <1>2, <1>3, <1>4

\* A step of a tick from one place in the try block to another.
LEMMA TickStepKeeps ==
  ASSUME TypeOK, Exclusive, NEW t \in Ticks, TickStep(t)
  PROVE  Exclusive'
<1> USE DEF Exclusive, historyVars
<1>1. CASE Acquire(t)
  <2>1. SoleTick'
    BY <1>1 DEF Acquire, TickGoto, TypeOK, TickPcs, Firing, SoleTick, tableVars
  <2>2. SelectIsCurrent' /\ FiringIsNew'
    BY <1>1 DEF Acquire, TickGoto, TypeOK, Firing, SelectIsCurrent, FiringIsNew, tableVars
  <2>3. PushedAreStamped' /\ PushesAreInOrder'
    BY <1>1 DEF Acquire, PushedAreStamped, PushesAreInOrder, InOrder, tableVars
  <2> QED
    BY <2>1, <2>2, <2>3
<1>2. CASE LoadDefinitions(t)
  <2>1. SoleTick'
    BY <1>2 DEF LoadDefinitions, TypeOK, SoleTick
  <2>2. SelectIsCurrent'
    BY <1>2 DEF LoadDefinitions, TypeOK, SelectIsCurrent, Firing, SoleTick, tableVars
  <2>3. FiringIsNew'
    BY <1>2 DEF LoadDefinitions, TypeOK, FiringIsNew, SoleTick, tableVars
  <2>4. PushedAreStamped' /\ PushesAreInOrder'
    BY <1>2 DEF LoadDefinitions, PushedAreStamped, PushesAreInOrder, InOrder, tableVars
  <2> QED
    BY <2>1, <2>2, <2>3, <2>4
<1>3. ASSUME NEW d \in Definitions, SkipDefinition(t, d) PROVE Exclusive'
  <2>1. SoleTick'
    BY <1>3 DEF SkipDefinition, TypeOK, SoleTick, tableVars
  <2>2. SelectIsCurrent' /\ FiringIsNew'
    BY <1>3 DEF SkipDefinition, TypeOK, SelectIsCurrent, FiringIsNew, tableVars
  <2>3. PushedAreStamped' /\ PushesAreInOrder'
    BY <1>3 DEF SkipDefinition, PushedAreStamped, PushesAreInOrder, InOrder, tableVars
  <2> QED
    BY <2>1, <2>2, <2>3
<1>4. ASSUME NEW d \in Definitions, InsertJob(t, d) PROVE Exclusive'
  <2>1. SoleTick'
    BY <1>4 DEF InsertJob, TypeOK, TickPcs, Firing, SoleTick, tableVars
  <2>2. SelectIsCurrent'
    BY <1>4 DEF InsertJob, TypeOK, SelectIsCurrent, Firing, tableVars
  <2>3. FiringIsNew'
    BY <1>4 DEF InsertJob, IsDue, TypeOK, SelectIsCurrent, FiringIsNew, tableVars
  <2>4. PushedAreStamped' /\ PushesAreInOrder'
    BY <1>4 DEF InsertJob, PushedAreStamped, PushesAreInOrder, InOrder, tableVars
  <2> QED
    BY <2>1, <2>2, <2>3, <2>4
<1>5. CASE EndWalk(t)
  <2>1. SelectIsCurrent' /\ FiringIsNew' /\ PushedAreStamped' /\ PushesAreInOrder'
    BY <1>5, LeavingKeeps DEF EndWalk, tableVars
  <2>2. SoleTick'
    BY <1>5 DEF EndWalk, Leave, TypeOK, SoleTick
  <2> QED
    BY <2>1, <2>2
<1>6. CASE Unlock(t)
  <2>1. SoleTick'
    BY <1>6 DEF Unlock, TickGoto, TypeOK, TickPcs, Firing, SoleTick, tableVars
  <2>2. SelectIsCurrent' /\ FiringIsNew'
    BY <1>6 DEF Unlock, TickGoto, TypeOK, Firing, SelectIsCurrent, FiringIsNew, tableVars
  <2>3. PushedAreStamped' /\ PushesAreInOrder'
    BY <1>6 DEF Unlock, PushedAreStamped, PushesAreInOrder, InOrder, tableVars
  <2> QED
    BY <2>1, <2>2, <2>3
<1>7. CASE StampRun(t)
  <2> DEFINE f == firing[t]
  <2>1. f \in Definitions /\ lastRun[f] < tickNow[t][f]
    BY <1>7 DEF StampRun, TypeOK, Firing, FiringIsNew
  <2>2. SoleTick'
    BY <1>7 DEF StampRun, TickGoto, TypeOK, SoleTick
  <2>3. \A u \in Ticks : u # t => tickPc[u] = "idle" /\ tickPc'[u] = "idle"
    BY <1>7 DEF StampRun, TickGoto, TypeOK, SoleTick
  <2>4. SelectIsCurrent'
    BY <1>7, <2>1, <2>3 DEF StampRun, TickGoto, TypeOK, SelectIsCurrent, Firing
  <2>5. \A i \in 1..Len(pushed[f]) : pushed[f][i] < tickNow[t][f]
    BY <2>1 DEF TypeOK, PushedAreStamped
  <2>6. FiringIsNew'
    BY <1>7, <2>1, <2>3, <2>5 DEF StampRun, TickGoto, TypeOK, FiringIsNew
  <2>7. PushedAreStamped'
    BY <1>7, <2>1, <2>5 DEF StampRun, TickGoto, TypeOK, PushedAreStamped
  <2>8. PushesAreInOrder'
    BY <1>7 DEF StampRun, PushesAreInOrder, InOrder
  <2> QED
    BY <2>2, <2>4, <2>6, <2>7, <2>8
<1>8. CASE StoreEnvelope(t)
  <2>1. SoleTick'
    BY <1>8 DEF StoreEnvelope, TickGoto, TypeOK, TickPcs, Firing, SoleTick, tableVars
  <2>2. SelectIsCurrent' /\ FiringIsNew'
    BY <1>8 DEF StoreEnvelope, TickGoto, TypeOK, Firing, SelectIsCurrent, FiringIsNew, tableVars
  <2>3. PushedAreStamped' /\ PushesAreInOrder'
    BY <1>8 DEF StoreEnvelope, PushedAreStamped, PushesAreInOrder, InOrder, tableVars
  <2> QED
    BY <2>1, <2>2, <2>3
<1>9. CASE PushJob(t)
  <2> DEFINE f == firing[t]
             n == tickNow[t][f]
  <2>1. /\ f \in Definitions /\ n \in Nat /\ lastRun[f] = n
        /\ pushed[f] \in Seq(Nat)
        /\ \A i \in 1..Len(pushed[f]) : pushed[f][i] < n
    BY <1>9 DEF PushJob, TypeOK, Firing, FiringIsNew
  <2>2. pushed' = [pushed EXCEPT ![f] = Append(pushed[f], n)]
    BY <1>9 DEF PushJob
  <2>3. /\ pushed'[f] \in Seq(Nat)
        /\ Len(pushed'[f]) = Len(pushed[f]) + 1
        /\ \A i \in 1..Len(pushed[f]) : pushed'[f][i] = pushed[f][i]
        /\ pushed'[f][Len(pushed[f]) + 1] = n
    BY <2>1, <2>2 DEF TypeOK
  <2>4. \A d \in Definitions : d # f => pushed'[d] = pushed[d]
    BY <2>2 DEF TypeOK
  <2>5. SoleTick'
    BY <1>9 DEF PushJob, TypeOK, TickPcs, Firing, SoleTick, tableVars
  <2>6. \A u \in Ticks : u # t => tickPc'[u] = "idle"
    BY <1>9 DEF PushJob, TypeOK, SoleTick
  <2>7. SelectIsCurrent' /\ FiringIsNew'
    <3>1. SelectIsCurrent'
      BY <1>9, <2>6, SchedulerNoneAssumption
         DEF PushJob, TypeOK, SelectIsCurrent, Firing, tableVars
    <3>2. FiringIsNew'
      BY <1>9, <2>6, SchedulerNoneAssumption DEF PushJob, TypeOK, FiringIsNew, Firing
    <3>3. QED
      BY <3>1, <3>2
  <2>8. PushedAreStamped'
    BY <1>9, <2>1, <2>3, <2>4 DEF PushJob, TypeOK, PushedAreStamped, tableVars
  <2>9. PushesAreInOrder'
    <3>1. SUFFICES ASSUME NEW d \in Definitions, NEW i \in 1..Len(pushed'[d]),
                          NEW k \in 1..Len(pushed'[d]), i < k
                   PROVE  pushed'[d][i] < pushed'[d][k]
      BY DEF PushesAreInOrder, InOrder
    <3>2. CASE d # f
      BY <3>1, <3>2, <2>4 DEF PushesAreInOrder, InOrder
    <3>3. CASE d = f
      <4>0. Len(pushed[f]) \in Nat
        BY <2>1
      <4>1. i \in 1..Len(pushed[f])
        BY <3>1, <3>3, <4>0, <2>3
      <4>2. CASE k = Len(pushed[f]) + 1
        BY <3>3, <4>0, <4>1, <4>2, <2>1, <2>3
      <4>3. CASE k \in 1..Len(pushed[f])
        BY <3>1, <3>3, <4>0, <4>1, <4>3, <2>1, <2>3 DEF PushesAreInOrder, InOrder
      <4> QED
        BY <3>1, <3>3, <4>0, <4>1, <4>2, <4>3, <2>3
    <3> QED
      BY <3>2, <3>3
  <2> QED
    BY <2>5, <2>7, <2>8, <2>9
<1> QED
  BY <1>1, <1>2, <1>3, <1>4, <1>5, <1>6, <1>7, <1>8, <1>9 DEF TickStep

\* Every step keeps the invariant, also one that ends its premise.
LEMMA FireStep == FireInvariant /\ [Next]_vars => FireInvariant'
<1> SUFFICES ASSUME FireInvariant, [Next]_vars
             PROVE  FireInvariant'
  OBVIOUS
<1> USE DEF FireInvariant
<1>1. TypeOK'
  BY SchedulerTypeStep
<1>2. SUFFICES ASSUME overruns' = 0
               PROVE  Exclusive'
  BY <1>1
<1>3. ASSUME NEW t \in Ticks, TickStep(t) PROVE Exclusive'
  <2>1. overruns = 0
    BY <1>2, <1>3
       DEF TickStep, Acquire, LoadDefinitions, SkipDefinition, EndWalk, Unlock, InsertJob,
           StampRun, StoreEnvelope, PushJob, historyVars
  <2>2. QED
    BY <1>3, <2>1, TickStepKeeps
<1>4. ASSUME NEW t \in Ticks, FaultInTick(t) PROVE Exclusive'
  <2>1. Exclusive /\ Leave({t}, "unlock") /\ UNCHANGED <<lastRun, pushed>>
    BY <1>2, <1>4 DEF FaultInTick, CutShort, tableVars
  <2>2. SelectIsCurrent' /\ FiringIsNew' /\ PushedAreStamped' /\ PushesAreInOrder'
    BY <2>1, LeavingKeeps
  <2>3. SoleTick'
    BY <1>4, <2>1 DEF FaultInTick, Leave, TypeOK, Exclusive, SoleTick
  <2>4. QED
    BY <2>2, <2>3 DEF Exclusive
<1>5. ASSUME NEW t \in Ticks, FaultInAcquire(t) PROVE Exclusive'
  <2>1. Exclusive /\ UNCHANGED <<lastRun, pushed, tickVars>>
    BY <1>2, <1>5 DEF FaultInAcquire, CutShort, tableVars
  <2>2. \A u \in Ticks : tickPc[u] = "idle"
    BY <1>5, <2>1 DEF FaultInAcquire, Exclusive, SoleTick
  <2>3. QED
    BY <2>1, <2>2
       DEF Exclusive, SoleTick, SelectIsCurrent, FiringIsNew, PushedAreStamped,
           PushesAreInOrder, InOrder, tickVars, Firing
<1>6. ASSUME NEW s \in Instances, CrashInstance(s) PROVE Exclusive'
  <2> DEFINE dying == {t \in Ticks : Owner[t] = s}
  <2>1. Exclusive /\ Leave(dying, "idle") /\ UNCHANGED <<lastRun, pushed, lock>>
    BY <1>2, <1>6 DEF CrashInstance, CutShort, tableVars
  <2>2. SelectIsCurrent' /\ FiringIsNew' /\ PushedAreStamped' /\ PushesAreInOrder'
    BY <2>1, LeavingKeeps
  <2>3. SoleTick'
    BY <2>1 DEF Leave, TypeOK, Exclusive, SoleTick
  <2>4. QED
    BY <2>2, <2>3 DEF Exclusive
<1>7. CASE ExpireLock
  <2>1. ~Busy /\ Exclusive /\ UNCHANGED <<lastRun, pushed, tickVars>>
    BY <1>2, <1>7 DEF ExpireLock, TypeOK, tableVars
  <2>2. \A u \in Ticks : tickPc[u] = "idle"
    BY <2>1 DEF Busy, Exclusive, SoleTick
  <2>3. QED
    BY <2>1, <2>2
       DEF Exclusive, SoleTick, SelectIsCurrent, FiringIsNew, PushedAreStamped,
           PushesAreInOrder, InOrder, tickVars, Firing
<1>8. ASSUME NEW d \in Definitions, PassFireTime(d) \/ SetEnabled(d) PROVE Exclusive'
  <2>1. Exclusive /\ UNCHANGED <<lastRun, lock, tickVars, pushed>>
    BY <1>2, <1>8 DEF PassFireTime, SetEnabled, historyVars
  <2>2. QED
    BY <2>1
       DEF Exclusive, SoleTick, SelectIsCurrent, FiringIsNew, PushedAreStamped,
           PushesAreInOrder, InOrder, tickVars
<1>9. CASE UNCHANGED vars
  BY <1>2, <1>9
     DEF vars, Exclusive, SoleTick, SelectIsCurrent, FiringIsNew, PushedAreStamped,
         PushesAreInOrder, InOrder
<1>10. QED
  BY <1>3, <1>4, <1>5, <1>6, <1>7, <1>8, <1>9 DEF Next

\* Until a lock expires under its tick, a single tick is past the lock, the
\* definitions it selected are still as it read them, and what it is about to
\* fire is new.
THEOREM TicksStayExclusive == Spec => []FireInvariant
<1>1. Init => FireInvariant
  BY FireInit DEF FireInvariant
<1>2. FireInvariant /\ [Next]_vars => FireInvariant'
  BY FireStep
<1> QED
  BY <1>1, <1>2, PTL DEF Spec

\* FR-5.2: until a lock expires under its tick, no fire time of a definition
\* puts two jobs in the queue, whatever fails and whoever dies.
THEOREM NoDoubleFire == Spec => []NeverDoubleFires
<1>1. FireInvariant => NeverDoubleFires
  BY DEF FireInvariant, Exclusive, PushesAreInOrder, NeverDoubleFires
<1> QED
  BY <1>1, TicksStayExclusive, PTL

-----------------------------------------------------------------------------
(* Stamps and pushes, whatever becomes of the lock *)

\* A sequence keeps what it has when something is appended.
LEMMA AppendKeeps ==
  ASSUME NEW s \in Seq(Nat), NEW n \in Nat, NEW i \in 1..Len(s)
  PROVE  i \in 1..Len(Append(s, n)) /\ Append(s, n)[i] = s[i]
OBVIOUS

\* What was pushed stays pushed.
LEMMA PushesStay ==
  ASSUME TypeOK, [Next]_vars, NEW d \in Definitions, NEW n \in Nat, WasPushed(d, n)
  PROVE  WasPushed(d, n)'
<1> USE DEF TypeOK
<1>1. CASE \E t \in Ticks : PushJob(t)
  <2>1. PICK t \in Ticks : PushJob(t)
    BY <1>1
  <2>2. pushed'[d] \in {pushed[d], Append(pushed[d], tickNow[t][firing[t]])}
    BY <2>1 DEF PushJob
  <2>3. pushed[d] \in Seq(Nat) /\ tickNow[t][firing[t]] \in Nat
    BY <2>1 DEF PushJob, Firing
  <2>4. PICK i \in 1..Len(pushed[d]) : pushed[d][i] = n
    BY DEF WasPushed
  <2>5. i \in 1..Len(pushed'[d]) /\ pushed'[d][i] = n
    <3>1. CASE pushed'[d] = pushed[d]
      BY <2>4, <3>1
    <3>2. CASE pushed'[d] = Append(pushed[d], tickNow[t][firing[t]])
      <4>1. /\ i \in 1..Len(Append(pushed[d], tickNow[t][firing[t]]))
            /\ Append(pushed[d], tickNow[t][firing[t]])[i] = pushed[d][i]
        BY <2>3, AppendKeeps
      <4>2. QED
        BY <2>4, <3>2, <4>1
    <3>3. QED
      BY <2>2, <3>1, <3>2
  <2>6. QED
    BY <2>5 DEF WasPushed
<1>2. CASE ~\E t \in Ticks : PushJob(t)
  <2>1. pushed' = pushed
    BY <1>2
       DEF Next, vars, TickStep, Acquire, LoadDefinitions, SkipDefinition, EndWalk, Unlock,
           InsertJob, StampRun, StoreEnvelope, FaultInTick, FaultInAcquire, CrashInstance,
           CutShort, ExpireLock, PassFireTime, SetEnabled, historyVars
  <2>2. QED
    BY <2>1 DEF WasPushed
<1>3. QED
  BY <1>1, <1>2

\* A tick leaves the calls between stamp and push only by pushing or failing.
LEMMA AnswerStep ==
  ASSUME TypeOK, StampsAreAnswered, [Next]_vars
  PROVE  StampsAreAnswered'
<1> DEFINE Answers(t, d) ==
      tickPc[t] \in {"store", "push"} /\ firing[t] = d /\ tickNow[t][d] = lastRun[d]
<1> USE DEF TypeOK
<1> SUFFICES ASSUME NEW d \in Definitions
             PROVE  \/ lastRun'[d] = 0
                    \/ WasPushed(d, lastRun[d])'
                    \/ lastRun'[d] \in cut'[d]
                    \/ \E t \in Ticks : Answers(t, d)'
  BY DEF StampsAreAnswered
<1>1. CASE \E t \in Ticks : StampRun(t) /\ firing[t] = d
  <2>1. PICK t \in Ticks : StampRun(t) /\ firing[t] = d
    BY <1>1
  <2>2. lastRun'[d] = tickNow[t][d]
    BY <2>1 DEF StampRun
  <2>3. tickPc'[t] = "store" /\ firing'[t] = d /\ tickNow' = tickNow
    BY <2>1 DEF StampRun, TickGoto
  <2>4. QED
    BY <2>2, <2>3
<1>2. CASE ~\E t \in Ticks : StampRun(t) /\ firing[t] = d
  <2>1. lastRun'[d] = lastRun[d] /\ lastRun[d] \in Nat
    BY <1>2
       DEF Next, vars, TickStep, Acquire, LoadDefinitions, SkipDefinition, EndWalk, Unlock,
           InsertJob, StampRun, StoreEnvelope, PushJob, FaultInTick, FaultInAcquire,
           CrashInstance, ExpireLock, PassFireTime, SetEnabled, tableVars
  <2>2. CASE lastRun[d] = 0
    BY <2>1, <2>2
  <2>3. CASE WasPushed(d, lastRun[d])
    <3>1. \A n \in Nat : WasPushed(d, n) => WasPushed(d, n)'
      BY PushesStay
    <3>2. QED
      BY <2>1, <2>3, <3>1 DEF WasPushed
  <2>4. CASE lastRun[d] \in cut[d]
    <3>1. \A failing : CutShort(failing) => cut[d] \subseteq cut'[d]
      BY DEF CutShort
    <3>2. \/ cut' = cut
          \/ \E t \in Ticks : CutShort({t}) \/ CutShort({})
          \/ \E s \in Instances : CutShort({t \in Ticks : Owner[t] = s})
      BY DEF Next, vars, TickStep, Acquire, LoadDefinitions, SkipDefinition, EndWalk, Unlock,
             InsertJob, StampRun, StoreEnvelope, PushJob, FaultInTick, FaultInAcquire,
             CrashInstance, ExpireLock, PassFireTime, SetEnabled, historyVars
    <3>3. cut[d] \subseteq cut'[d]
      BY <3>1, <3>2, Zenon
    <3>4. QED
      BY <2>1, <2>4, <3>3
  <2>5. ASSUME NEW t \in Ticks, Answers(t, d)
        PROVE  Answers(t, d)' \/ WasPushed(d, lastRun[d])' \/ lastRun'[d] \in cut'[d]
    <3>1. CASE PushJob(t)
      <4>1. pushed'[d] = Append(pushed[d], lastRun[d]) /\ pushed[d] \in Seq(Nat)
        BY <2>5, <3>1 DEF PushJob
      <4>2. /\ Len(pushed[d]) + 1 \in 1..Len(pushed'[d])
            /\ pushed'[d][Len(pushed[d]) + 1] = lastRun[d]
        BY <2>1, <4>1
      <4>3. QED
        BY <2>1, <4>2 DEF WasPushed
    <3>2. CASE /\ ~PushJob(t)
               /\ \E u \in Ticks : TickStep(u)
      <4>1. PICK u \in Ticks : TickStep(u)
        BY <3>2
      <4>2. CASE Acquire(u) \/ Unlock(u) \/ StampRun(u) \/ StoreEnvelope(u)
        BY <2>1, <2>5, <4>2 DEF Acquire, Unlock, StampRun, StoreEnvelope, TickGoto
      <4>3. CASE LoadDefinitions(u)
        BY <2>1, <2>5, <4>3 DEF LoadDefinitions
      <4>4. CASE \E e \in Definitions : SkipDefinition(u, e) \/ InsertJob(u, e)
        BY <2>1, <2>5, <4>4 DEF SkipDefinition, InsertJob
      <4>5. CASE EndWalk(u)
        BY <2>1, <2>5, <4>5 DEF EndWalk, Leave
      <4>6. CASE PushJob(u)
        BY <2>1, <2>5, <3>2, <4>6 DEF PushJob
      <4>7. QED
        BY <4>1, <4>2, <4>3, <4>4, <4>5, <4>6 DEF TickStep
    <3>3. ASSUME NEW failing \in SUBSET Ticks, NEW to, CutShort(failing), Leave(failing, to)
          PROVE  Answers(t, d)' \/ lastRun'[d] \in cut'[d]
      <4>1. CASE t \in failing
        BY <2>1, <2>5, <3>3, <4>1 DEF CutShort, Unpushed
      <4>2. CASE t \notin failing
        BY <2>1, <2>5, <3>3, <4>2 DEF Leave
      <4>3. QED
        BY <4>1, <4>2
    <3>4. CASE \E u \in Ticks : FaultInTick(u)
      BY <3>3, <3>4 DEF FaultInTick
    <3>5. CASE \E s \in Instances : CrashInstance(s)
      <4>1. PICK s \in Instances : CrashInstance(s)
        BY <3>5
      <4>2. {u \in Ticks : Owner[u] = s} \in SUBSET Ticks
        OBVIOUS
      <4>3. QED
        BY <3>3, <4>1, <4>2 DEF CrashInstance
    <3>6. CASE UNCHANGED tickVars
      BY <2>1, <2>5, <3>6 DEF tickVars
    <3>7. QED
      BY <3>1, <3>2, <3>4, <3>5, <3>6
         DEF Next, vars, tickVars, FaultInAcquire, ExpireLock, PassFireTime, SetEnabled
  <2>6. QED
    BY <2>2, <2>3, <2>4, <2>5 DEF StampsAreAnswered
<1>3. QED
  BY <1>1, <1>2

\* The tick that stamped a fire time last is the one that pushes its job,
\* unless it fails in between, and that however long ticks outlast their locks.
THEOREM StampsStayAnswered == Spec => []StampsAreAnswered
<1>1. Init => TypeOK /\ StampsAreAnswered
  BY FireInit DEF Init, StampsAreAnswered
<1>2. TypeOK /\ StampsAreAnswered /\ [Next]_vars => TypeOK' /\ StampsAreAnswered'
  BY SchedulerTypeStep, AnswerStep
<1>3. QED
  BY <1>1, <1>2, PTL DEF Spec
=============================================================================
