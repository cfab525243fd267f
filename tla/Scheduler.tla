----------------------------- MODULE Scheduler -----------------------------
(***************************************************************************)
(* The scheduler (packages/scheduler) and the enabled flag its definitions *)
(* get from PATCH /schedules: every instance calls tick() once a second,   *)
(* and a tick that gets the lock fires the definitions that are due.       *)
(*                                                                         *)
(* Time is counted per definition in fire times of its cron expression:    *)
(* fires[d] of them have passed.  A definition is due if its latest fire   *)
(* time comes after last_run_at, which is to say that the number of fire   *)
(* times passed is larger now than it was at last_run_at; 0 stands for a   *)
(* last_run_at that is null.                                               *)
(***************************************************************************)
EXTENDS Naturals, Sequences, FiniteSets

CONSTANTS
  Definitions,         \* rows of scheduled_jobs
  Instances,           \* scheduler processes
  Ticks,               \* calls of tick() that may be in progress
  Owner,               \* the process of each tick
  Skew,                \* fire times by which a clock may be behind
  MaxFires,            \* bound: fire times that pass in a behaviour
  MaxFailures,         \* bound: calls that fail and processes that die
  MaxOverruns,         \* bound: locks that expire while their tick is in progress
  None

ASSUME OwnerAssumption == Owner \in [Ticks -> Instances]
ASSUME SchedulerBoundsAssumption ==
  Skew \in Nat /\ MaxFires \in Nat /\ MaxFailures \in Nat /\ MaxOverruns \in Nat
ASSUME SchedulerNoneAssumption == None \notin Instances \cup Definitions

VARIABLES
  fires,       \* fire times passed, per definition
  enabled,     \* scheduled_jobs.enabled
  lastRun,     \* fire times passed at last_run_at
  lock,        \* lock:scheduler, the instance that set it or None
  tickPc,      \* next call of each tick
  rows,        \* the definitions of its SELECT it has not dealt with
  seen,        \* last_run_at of the definitions in its SELECT
  tickNow,     \* fire times passed at its new Date(), per definition
  firing,      \* the definition of fireScheduledJob, or None
  pushed,      \* history: per definition, the fire times jobs were pushed for
  cut,         \* history: the fire times stamped by ticks that failed before the push
  overruns,    \* history: locks that expired while their tick was in progress
  failures     \* history: calls that failed and processes that died

tableVars == <<fires, enabled, lastRun>>
tickVars == <<tickPc, rows, seen, tickNow, firing>>
historyVars == <<pushed, cut, overruns, failures>>
vars == <<fires, enabled, lastRun, lock, tickPc, rows, seen, tickNow, firing,
          pushed, cut, overruns, failures>>

TickPcs == {"idle", "select", "walk", "stamp", "store", "push", "unlock"}
Firing == {"stamp", "store", "push"}

TypeOK ==
  /\ fires \in [Definitions -> Nat]
  /\ enabled \in [Definitions -> BOOLEAN]
  /\ lastRun \in [Definitions -> Nat]
  /\ lock \in Instances \cup {None}
  /\ tickPc \in [Ticks -> TickPcs]
  /\ rows \in [Ticks -> SUBSET Definitions]
  /\ seen \in [Ticks -> [Definitions -> Nat]]
  /\ tickNow \in [Ticks -> [Definitions -> Nat]]
  /\ firing \in [Ticks -> Definitions \cup {None}]
  /\ pushed \in [Definitions -> Seq(Nat)]
  /\ cut \in [Definitions -> SUBSET Nat]
  /\ overruns \in Nat
  /\ failures \in Nat
  /\ \A t \in Ticks : tickPc[t] \in Firing => firing[t] \in Definitions

Init ==
  /\ fires = [d \in Definitions |-> 1]
  /\ enabled \in [Definitions -> BOOLEAN]
  /\ lastRun = [d \in Definitions |-> 0]
  /\ lock = None
  /\ tickPc = [t \in Ticks |-> "idle"]
  /\ rows = [t \in Ticks |-> {}]
  /\ seen = [t \in Ticks |-> [d \in Definitions |-> 0]]
  /\ tickNow = [t \in Ticks |-> [d \in Definitions |-> 0]]
  /\ firing = [t \in Ticks |-> None]
  /\ pushed = [d \in Definitions |-> <<>>]
  /\ cut = [d \in Definitions |-> {}]
  /\ overruns = 0
  /\ failures = 0

\* A variant with a bug: a definition that has run once is not due again.
IsDueOnce(t, d) == seen[t][d] = 0

\* isDue
IsDue(t, d) == tickNow[t][d] > seen[t][d]

TickGoto(t, to) ==
  /\ tickPc' = [tickPc EXCEPT ![t] = to]
  /\ UNCHANGED <<rows, seen, tickNow, firing>>

Unread == [d \in Definitions |-> 0]

\* The ticks of a set leave the try block, or end, with their variables.
Leave(leaving, to) ==
  /\ tickPc' = [t \in Ticks |-> IF t \in leaving THEN to ELSE tickPc[t]]
  /\ rows' = [t \in Ticks |-> IF t \in leaving THEN {} ELSE rows[t]]
  /\ seen' = [t \in Ticks |-> IF t \in leaving THEN Unread ELSE seen[t]]
  /\ tickNow' = [t \in Ticks |-> IF t \in leaving THEN Unread ELSE tickNow[t]]
  /\ firing' = [t \in Ticks |-> IF t \in leaving THEN None ELSE firing[t]]

-----------------------------------------------------------------------------
(* tick *)

\* A variant with a bug: SET without NX.
AcquireRegardless(t) ==
  /\ tickPc[t] = "idle"
  /\ lock' = Owner[t]
  /\ TickGoto(t, "select")
  /\ UNCHANGED <<tableVars, historyVars>>

\* SET lock:scheduler <instance> NX PX; a tick that fails to is over
Acquire(t) ==
  /\ tickPc[t] = "idle"
  /\ lock = None
  /\ lock' = Owner[t]
  /\ TickGoto(t, "select")
  /\ UNCHANGED <<tableVars, historyVars>>

\* SELECT * FROM scheduled_jobs WHERE enabled, then new Date()
LoadDefinitions(t) ==
  /\ tickPc[t] = "select"
  /\ tickPc' = [tickPc EXCEPT ![t] = "walk"]
  /\ rows' = [rows EXCEPT ![t] = {d \in Definitions : enabled[d]}]
  /\ seen' = [seen EXCEPT ![t] = lastRun]
  /\ \E lag \in 0..Skew :
       tickNow' = [tickNow EXCEPT ![t] =
                     [d \in Definitions |-> IF lag < fires[d] THEN fires[d] - lag ELSE 1]]
  /\ UNCHANGED <<tableVars, lock, firing, historyVars>>

SkipDefinition(t, d) ==
  /\ tickPc[t] = "walk"
  /\ d \in rows[t]
  /\ ~IsDue(t, d)
  /\ rows' = [rows EXCEPT ![t] = @ \ {d}]
  /\ UNCHANGED <<tableVars, lock, tickPc, seen, tickNow, firing, historyVars>>

EndWalk(t) ==
  /\ tickPc[t] = "walk"
  /\ rows[t] = {}
  /\ Leave({t}, "unlock")
  /\ UNCHANGED <<tableVars, lock, historyVars>>


\* RELEASE_LOCK_LUA deletes the lock if this instance set it
Unlock(t) ==
  /\ tickPc[t] = "unlock"
  /\ lock' = IF lock = Owner[t] THEN None ELSE lock
  /\ TickGoto(t, "idle")
  /\ UNCHANGED <<tableVars, historyVars>>

-----------------------------------------------------------------------------
(* fireScheduledJob *)

\* INSERT INTO jobs, and the event of the new row
InsertJob(t, d) ==
  /\ tickPc[t] = "walk"
  /\ d \in rows[t]
  /\ IsDue(t, d)
  /\ tickPc' = [tickPc EXCEPT ![t] = "stamp"]
  /\ rows' = [rows EXCEPT ![t] = @ \ {d}]
  /\ firing' = [firing EXCEPT ![t] = d]
  /\ UNCHANGED <<tableVars, lock, seen, tickNow, historyVars>>

\* UPDATE scheduled_jobs SET last_run_at = now
StampRun(t) ==
  /\ tickPc[t] = "stamp"
  /\ lastRun' = [lastRun EXCEPT ![firing[t]] = tickNow[t][firing[t]]]
  /\ TickGoto(t, "store")
  /\ UNCHANGED <<fires, enabled, lock, historyVars>>

\* A variant with a bug: the job is stored and never pushed.
StoreEnvelopeOnly(t) ==
  /\ tickPc[t] = "store"
  /\ tickPc' = [tickPc EXCEPT ![t] = "walk"]
  /\ firing' = [firing EXCEPT ![t] = None]
  /\ UNCHANGED <<tableVars, lock, rows, seen, tickNow, historyVars>>

\* HSET jobs:data
StoreEnvelope(t) ==
  /\ tickPc[t] = "store"
  /\ TickGoto(t, "push")
  /\ UNCHANGED <<tableVars, lock, historyVars>>

\* LPUSH queue:<priority>
PushJob(t) ==
  /\ tickPc[t] = "push"
  /\ pushed' = [pushed EXCEPT ![firing[t]] = Append(@, tickNow[t][firing[t]])]
  /\ tickPc' = [tickPc EXCEPT ![t] = "walk"]
  /\ firing' = [firing EXCEPT ![t] = None]
  /\ UNCHANGED <<tableVars, lock, rows, seen, tickNow, cut, overruns, failures>>

-----------------------------------------------------------------------------
(* Failures, time, operators *)

\* The fire times that ticks of a set have stamped and not pushed yet.
Unpushed(failing, d) ==
  {tickNow[t][d] : t \in {t \in failing : tickPc[t] \in {"store", "push"} /\ firing[t] = d}}

CutShort(failing) ==
  /\ failures < MaxFailures
  /\ failures' = failures + 1
  /\ cut' = [d \in Definitions |-> cut[d] \cup Unpushed(failing, d)]
  /\ UNCHANGED <<pushed, overruns>>

\* A call in the try block throws: the lock is released, the tick is over.
FaultInTick(t) ==
  /\ tickPc[t] \notin {"idle", "unlock"}
  /\ CutShort({t})
  /\ Leave({t}, "unlock")
  /\ UNCHANGED <<tableVars, lock>>

\* The SET comes before the try block: when its reply is lost, the lock is taken
\* and nobody releases it.
FaultInAcquire(t) ==
  /\ tickPc[t] = "idle"
  /\ lock = None
  /\ lock' = Owner[t]
  /\ CutShort({})
  /\ UNCHANGED <<tableVars, tickVars>>

\* The process dies, or cannot release its lock, which is left to its TTL.  A
\* process that starts in its place has another id, which makes no difference
\* to a lock nobody deletes.
CrashInstance(s) ==
  LET dying == {t \in Ticks : Owner[t] = s} IN
  /\ CutShort(dying)
  /\ Leave(dying, "idle")
  /\ UNCHANGED <<tableVars, lock>>

\* The lock is that of a tick in progress.
Busy == \E t \in Ticks : Owner[t] = lock /\ tickPc[t] # "idle"

\* PX lockTtlMs elapses, five times the interval between ticks.  A tick whose
\* lock it was goes on: nothing tells it.
ExpireLock ==
  /\ lock # None
  /\ lock' = None
  /\ IF Busy THEN overruns < MaxOverruns /\ overruns' = overruns + 1
             ELSE UNCHANGED overruns
  /\ UNCHANGED <<tableVars, tickVars, pushed, cut, failures>>

\* A fire time of d passes.
PassFireTime(d) ==
  /\ fires[d] < MaxFires
  /\ fires' = [fires EXCEPT ![d] = @ + 1]
  /\ UNCHANGED <<enabled, lastRun, lock, tickVars, historyVars>>

\* PATCH /schedules/:id.  A definition that is not there yet, or no longer, is
\* one that is disabled: POST creates it with a last_run_at that is null.
SetEnabled(d) ==
  /\ enabled' = [enabled EXCEPT ![d] = ~@]
  /\ UNCHANGED <<fires, lastRun, lock, tickVars, historyVars>>

-----------------------------------------------------------------------------
TickStep(t) ==
  \/ Acquire(t) \/ LoadDefinitions(t)
  \/ \E d \in Definitions : SkipDefinition(t, d) \/ InsertJob(t, d)
  \/ EndWalk(t) \/ Unlock(t) \/ StampRun(t) \/ StoreEnvelope(t) \/ PushJob(t)

Next ==
  \/ \E t \in Ticks : TickStep(t) \/ FaultInTick(t) \/ FaultInAcquire(t)
  \/ \E s \in Instances : CrashInstance(s)
  \/ ExpireLock
  \/ \E d \in Definitions : PassFireTime(d) \/ SetEnabled(d)

Spec == Init /\ [][Next]_vars

Fairness ==
  /\ \A t \in Ticks : WF_vars(TickStep(t))
  /\ WF_vars(ExpireLock)

FairSpec == Spec /\ Fairness

-----------------------------------------------------------------------------
(* Properties *)

InOrder(d) == \A i, k \in 1..Len(pushed[d]) : i < k => pushed[d][i] < pushed[d][k]

WasPushed(d, n) == \E i \in 1..Len(pushed[d]) : pushed[d][i] = n

\* FR-5.2 (README): no fire time of a definition puts two jobs in the queue,
\* with any number of instances, with calls that fail at any point of a fire
\* and processes that die holding the lock.  It takes a tick that outlasts its
\* lock: nothing tells it that another one has begun.
NeverDoubleFires == overruns = 0 => \A d \in Definitions : InOrder(d)


\* FR-5.1 (README): after a fire time has passed, a job is pushed for it or for a
\* later one, by whichever instance, also after one has died with the lock or
\* in the middle of a fire; a slow clock can put off the last Skew of them.
\* Only a failure between UPDATE and LPUSH takes the place of a push.
FiresAreServed ==
  \A d \in Definitions : \A n \in 1..MaxFires :
    fires[d] >= n ~>
      \/ \E m \in 1..MaxFires : m + Skew >= n /\ (WasPushed(d, m) \/ m \in cut[d])
      \/ ~enabled[d]

-----------------------------------------------------------------------------
(* What NeverDoubleFires rests on *)

\* A tick in progress is alone and its lock is still there.
SoleTick ==
  /\ \A t \in Ticks : tickPc[t] # "idle" => lock = Owner[t]
  /\ \A t, u \in Ticks : tickPc[t] # "idle" /\ tickPc[u] # "idle" => t = u

\* What it read of the definitions it has not dealt with is still true.
SelectIsCurrent ==
  \A t \in Ticks :
    /\ tickPc[t] \in {"walk"} \cup Firing => \A d \in rows[t] : seen[t][d] = lastRun[d]
    /\ tickPc[t] \in Firing => firing[t] \notin rows[t]

\* A job is pushed for a fire time after those of all earlier pushes.
FiringIsNew ==
  \A t \in Ticks :
    /\ tickPc[t] = "stamp" => lastRun[firing[t]] < tickNow[t][firing[t]]
    /\ tickPc[t] \in {"store", "push"} =>
         /\ lastRun[firing[t]] = tickNow[t][firing[t]]
         /\ \A i \in 1..Len(pushed[firing[t]]) : pushed[firing[t]][i] < tickNow[t][firing[t]]

PushedAreStamped ==
  \A d \in Definitions : \A i \in 1..Len(pushed[d]) : pushed[d][i] <= lastRun[d]

PushesAreInOrder == \A d \in Definitions : InOrder(d)

Exclusive ==
  SoleTick /\ SelectIsCurrent /\ FiringIsNew /\ PushedAreStamped /\ PushesAreInOrder

\* The inductive invariant behind NeverDoubleFires.
FireInvariant == TypeOK /\ (overruns = 0 => Exclusive)

\* A fire time is marked as dealt with before its job is pushed.  The one in
\* last_run_at was pushed, or the very tick that stamped it is about to push it, or
\* failed in between; also when ticks outlast their locks and overlap.
StampsAreAnswered ==
  \A d \in Definitions :
    \/ lastRun[d] = 0
    \/ WasPushed(d, lastRun[d])
    \/ lastRun[d] \in cut[d]
    \/ \E t \in Ticks :
         tickPc[t] \in {"store", "push"} /\ firing[t] = d /\ tickNow[t][d] = lastRun[d]
=============================================================================
