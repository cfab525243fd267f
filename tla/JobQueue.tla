------------------------------ MODULE JobQueue ------------------------------
(***************************************************************************)
(* The running system: API server, promoters, workers and reapers around   *)
(* the shared store, interleaved one store call at a time.                 *)
(***************************************************************************)
EXTENDS ApiServer, Worker, Reaper

CONSTANT HeartbeatsTimely  \* FALSE: the beats of a live job may come too late

ASSUME HeartbeatsTimelyAssumption == HeartbeatsTimely \in BOOLEAN

VARIABLE dropped   \* history: jobs that were in the hands of a promoter or a
                   \* reaper tick when it failed

vars == <<storeVars, apiVars, workerVars, reaperVars, dropped>>

TypeOK ==
  /\ StoreTypeOK /\ ApiTypeOK /\ WorkerTypeOK /\ ReaperTypeOK
  /\ dropped \in SUBSET Jobs

Init == StoreInit /\ ApiInit /\ WorkerInit /\ ReaperInit /\ dropped = {}

\* An event loop blocked by a handler, or a BLMOVE that blocks the connection
\* the beats go through, can delay the beats of a live job.
BeatenBy(l, j) == claim[l] = j /\ lanePc[l] \in Beating \cup {"fetch"}

AgeHeartbeat(j) ==
  /\ HeartbeatsTimely => \A l \in Lanes : ~BeatenBy(l, j)
  /\ Age(j)

ApiNext ==
  /\ \/ /\ \/ \E j \in Jobs : Enqueue(j) \/ FailRequest(j)
           \/ \E p \in Promoters : Promote(p)
        /\ UNCHANGED dropped
     \/ \E p \in Promoters :
          FailPromotion(p) /\ dropped' = dropped \cup PromoterHand(p)
  /\ UNCHANGED <<workerVars, reaperVars>>

WorkerNext ==
  /\ \/ \E w \in Workers : WorkerStep(w) \/ CrashWorker(w)
     \/ \E l \in Lanes : LaneStep(l) \/ Heartbeat(l) \/ LaneFault(l)
  /\ UNCHANGED <<apiVars, reaperVars, dropped>>

ReaperNext ==
  /\ \/ /\ \/ \E r \in Reapers : Reap(r)
           \/ \E w \in Workers : ExpireLock(w)
        /\ UNCHANGED dropped
     \/ \E r \in Reapers :
          ReaperFault(r) /\ dropped' = dropped \cup ReaperHand(r)
  /\ UNCHANGED <<apiVars, workerVars>>

TimeNext ==
  /\ \/ (\E j \in Jobs : Ripen(j) \/ AgeHeartbeat(j)) /\ UNCHANGED apiVars
     \/ \E k \in IdempotencyKeys : ExpireKey(k)
  /\ UNCHANGED <<workerVars, reaperVars, dropped>>

Next == ApiNext \/ WorkerNext \/ ReaperNext \/ TimeNext

Spec == Init /\ [][Next]_vars

\* Timers fire, handlers return (their timeout sees to it), TTLs and scores
\* are reached, and a process that is not killed makes its next call.  Nothing
\* obliges a client to submit, a call to fail or a process to crash.
Fairness ==
  /\ \A p \in Promoters : WF_vars(Promote(p) /\ UNCHANGED <<workerVars, reaperVars, dropped>>)
  /\ \A w \in Workers :
       /\ WF_vars(StartWorker(w) /\ UNCHANGED <<apiVars, reaperVars, dropped>>)
       /\ WF_vars(ExitWorker(w) /\ UNCHANGED <<apiVars, reaperVars, dropped>>)
       /\ WF_vars(ExpireLock(w) /\ UNCHANGED <<apiVars, workerVars, dropped>>)
  /\ \A l \in Lanes : WF_vars(LaneStep(l) /\ UNCHANGED <<apiVars, reaperVars, dropped>>)
  /\ \A r \in Reapers : WF_vars(Reap(r) /\ UNCHANGED <<apiVars, workerVars, dropped>>)
  /\ \A j \in Jobs :
       /\ WF_vars(Ripen(j) /\ UNCHANGED <<apiVars, workerVars, reaperVars, dropped>>)
       /\ WF_vars(AgeHeartbeat(j) /\ UNCHANGED <<apiVars, workerVars, reaperVars, dropped>>)

FairSpec == Spec /\ Fairness

-----------------------------------------------------------------------------
(* Where an accepted job is *)

Accepted(j) == request[j] = "accepted"

\* A place from which some process still brings the job forward: a priority
\* list, the sorted set, the processing list of a registered worker, or the
\* hands of a promoter or a reaper.
InCustody(j) ==
  \/ InReady(j)
  \/ delayed[j] # "out"
  \/ \E w \in workersActive : j \in processing[w]
  \/ PromoterHolds(j)
  \/ ReaperHolds(j)

\* At-least-once delivery (README, NFR-3): an accepted job that has neither
\* completed nor been buried is somewhere the system still looks, unless a
\* promoter or a reaper failed with the job in hand.  Claims, promotions,
\* reschedules and reaps move a job in several calls each.
NoJobForgotten ==
  \A j \in Jobs : Accepted(j) => j \in settled \/ j \in dropped \/ InCustody(j)

\* Some process or queue knows the job, or its outcome is written.
Circulates(j) ==
  \/ InReady(j)
  \/ delayed[j] # "out"
  \/ \E w \in Workers : j \in processing[w]
  \/ \E p \in Promoters : j \in dueIds[p] \/ promoting[p] = j
  \/ \E l \in Lanes : claim[l] = j
  \/ \E r \in Reapers : j \in victims[r] \/ orphan[r] = j
  \/ j \in settled

\* A job is seen by nobody before the push that ends its POST, so no handler
\* runs, and no row is final, for a request that was not accepted.
AcceptedFirst == \A j \in Jobs : Circulates(j) => Accepted(j)

\* What NoJobForgotten rests on: lanes that share no list, and shutdowns, if
\* any, of workers whose calls do not fail and that have not come back from a
\* crash.  README.md describes how a job is forgotten in a system without it.
OneLaneEach == \A la, lb \in Lanes : Host[la] = Host[lb] => la = lb
CleanShutdown ==
  Sigtermed = {} \/ ("worker" \notin Fallible /\ Mortal \cap Returning \cap Sigtermed = {})

\* A worker is in the registry from before it claims until it has drained.
RegistryCoversWorkers ==
  /\ \A w \in Workers :
       /\ workerState[w] \in {"up", "draining", "crashed"} => w \in workersActive
       /\ workerState[w] = "draining" => w \in Sigtermed
  /\ \A l \in Lanes : lanePc[l] # "stopped" => workerState[Host[l]] \in {"up", "draining"}

\* The envelope of a submitted job is deleted only once its row is final.
EnvelopeUntilSettled ==
  /\ \A j \in Jobs :
       request[j] \in {"stored", "accepted"} /\ jobData[j] = None => j \in settled
  /\ \A l \in Lanes : lanePc[l] = "clear" => claim[l] \in settled
  /\ \A r \in Reapers : reaperPc[r] = "drop" => orphan[r] \in settled

\* The processing list entry of a lane that is about to remove it does not
\* count: by then the job must already be settled or somewhere else.
AboutToRelease(w, j) == \E l \in LanesOf(w) : claim[l] = j /\ lanePc[l] = "release"
InList(j) == \E w \in workersActive : j \in processing[w] /\ ~AboutToRelease(w, j)

InSafeCustody(j) ==
  InReady(j) \/ delayed[j] # "out" \/ InList(j) \/ PromoterHolds(j) \/ ReaperHolds(j)

AcceptedJobsKept ==
  \A j \in Jobs : Accepted(j) => j \in settled \/ j \in dropped \/ InSafeCustody(j)

\* The inductive invariant behind NoJobForgotten.
CustodyInvariant ==
  TypeOK /\ RegistryCoversWorkers /\ EnvelopeUntilSettled /\ AcceptedJobsKept

\* A lane that has claimed the job and neither settled nor rescheduled it.
Undecided == {"beat", "fetch", "activate", "run", "complete", "fail", "save", "delay"}
Holds(l, j) == claim[l] = j /\ lanePc[l] \in Undecided

Traceable(j) ==
  j \in settled \/ j \in dropped \/ InSafeCustody(j) \/ \E l \in Lanes : Holds(l, j)

\* No job lost on worker crash (README, NFR-3): even a crash of the lane that alone
\* knows an accepted job leaves the job where another process finds it.
JobsTraceable == \A j \in Jobs : Accepted(j) => Traceable(j)

\* The ways to lose an accepted job, with any number of lanes per process and
\* whatever crashes, fails or is shut down.  Either a lane forgets it, because
\* its process dies or a call fails, when its memory was all there was: a late
\* release by another lane has taken the entry out of the list they share, or
\* is about to.  Or a worker deregisters with the job in its list.  No
\* promotion, claim, reschedule, release or reap by itself loses a job.
LossesAreKnown ==
  [][\A j \in Jobs :
       Accepted(j) /\ Traceable(j) /\ ~Traceable(j)' =>
         \/ ~InSafeCustody(j) /\ \E l \in Lanes : Holds(l, j) /\ lanePc'[l] \in Jobless
         \/ \E w \in workersActive \ workersActive' : j \in processing[w]]_vars

\* The promise to the client, read off the state.
PromiseState(j) ==
  CASE j \in settled -> "settled"
    [] j \notin settled /\ ~Accepted(j) -> "none"
    [] j \notin settled /\ Accepted(j) /\ InCustody(j) -> "owed"
    [] OTHER -> "forgotten"

Promised == INSTANCE AtLeastOnce WITH promise <- [j \in Jobs |-> PromiseState(j)]

\* The system implements the contract: every accepted job stays owed until it
\* is settled, and under fair scheduling it is settled.
ImplementsContract == Promised!Contract

-----------------------------------------------------------------------------
(* How many copies of a job there are *)

\* A lane that has the job and may still run it or reschedule it.  After the
\* last UPDATE or the ZADD of handleFailure it will do neither.
Carries(l, j) ==
  /\ claim[l] = j
  /\ \/ lanePc[l] \in {"beat", "fetch", "activate", "run", "complete", "fail",
                       "save", "delay"}
     \/ lanePc[l] \in {"clear", "release", "unbeat"} /\ ~caught[l]

Queued(j) == UNION {{<<k, i>> : i \in {i \in 1..Len(ready[k]) : ready[k][i] = j}} : k \in Levels}

CopiesOf(j) ==
  Cardinality(Queued(j))
    + (IF delayed[j] = "out" THEN 0 ELSE 1)
    + Cardinality({p \in Promoters : promoterPc[p] \in {"load", "push"} /\ promoting[p] = j})
    + Cardinality({l \in Lanes : Carries(l, j)})

\* As long as no reaper takes jobs back, promoters that overlap, lanes that
\* share a processing list, and failing calls never multiply a job: there is
\* at most one reference to it that can lead to an execution.
AtMostOneCopy == \A j \in Jobs : CopiesOf(j) <= 1

\* FR-3 (README): no two lanes run the handler of one job at the same time.
ExclusiveExecution ==
  \A l1, l2 \in Lanes :
    l1 # l2 /\ Executing(l1) /\ Executing(l2) => claim[l1] # claim[l2]

\* Wherever a job waits to be claimed, and while it runs, the envelope in Redis
\* and the row in PostgreSQL agree on its attempt, which is within max_retries:
\* a job is run at most max_retries + 1 times.  The two are written by
\* different calls.
EnvelopeMatchesRow ==
  \A j \in Jobs :
    /\ InReady(j) \/ delayed[j] # "out" =>
         jobData[j] = attempt[j] /\ attempt[j] <= MaxRetries[j]
    /\ \A l \in Lanes : Executing(l) /\ claim[l] = j =>
         env[l] = attempt[j] /\ attempt[j] <= MaxRetries[j]

\* The references CopiesOf counts, told apart.
PromoterCarries(p, j) == promoterPc[p] \in {"load", "push"} /\ promoting[p] = j
QueuedOnce(j) ==
  \A k1, k2 \in Levels : \A i1 \in 1..Len(ready[k1]) : \A i2 \in 1..Len(ready[k2]) :
    ready[k1][i1] = j /\ ready[k2][i2] = j => k1 = k2 /\ i1 = i2
NoCopy(j) ==
  /\ ~InReady(j)
  /\ delayed[j] = "out"
  /\ \A p \in Promoters : ~PromoterCarries(p, j)
  /\ \A l \in Lanes : ~Carries(l, j)

\* At each moment one kind of place has the job, and one place of that kind.
InOnePlace(j) ==
  /\ QueuedOnce(j)
  /\ \A p, q \in Promoters : PromoterCarries(p, j) /\ PromoterCarries(q, j) => p = q
  /\ \A l, m \in Lanes : Carries(l, j) /\ Carries(m, j) => l = m
  /\ InReady(j) => delayed[j] = "out"
  /\ \A p \in Promoters : PromoterCarries(p, j) => ~InReady(j) /\ delayed[j] = "out"
  /\ \A l \in Lanes : Carries(l, j) =>
       /\ ~InReady(j)
       /\ delayed[j] = "out"
       /\ \A p \in Promoters : ~PromoterCarries(p, j)

\* A lane reschedules or buries only in handleFailure, and a job that was buried
\* is out of every queue while its envelope is deleted.
FailuresAreCaught == \A l \in Lanes : lanePc[l] \in {"fail", "save", "delay"} => caught[l]
BuriedAreGone == \A l \in Lanes : lanePc[l] = "clear" /\ caught[l] => NoCopy(claim[l])

\* The next one to read the envelope is the lane that claims or has claimed j.
Waiting(j) ==
  \/ InReady(j)
  \/ delayed[j] # "out"
  \/ \E p \in Promoters : PromoterCarries(p, j)
  \/ \E l \in Lanes : claim[l] = j /\ lanePc[l] \in {"beat", "fetch"}

\* Envelope and row, from the POST to the last retry: apart only between the
\* UPDATE of a reschedule and the HSET that follows it.
AttemptsAgree(j) ==
  /\ request[j] \in {"new", "missed", "inserted", "remembered", "stored"} => attempt[j] = 0
  /\ request[j] = "stored" => jobData[j] = 0
  /\ Waiting(j) => jobData[j] = attempt[j] /\ attempt[j] <= MaxRetries[j]
  /\ \A l \in Lanes : Carries(l, j) =>
       /\ attempt[j] <= MaxRetries[j]
       /\ lanePc[l] \in {"activate", "run", "complete", "fail", "clear", "release", "unbeat"} =>
            env[l] = attempt[j]
       /\ lanePc[l] \in {"save", "delay"} => env[l] + 1 = attempt[j]
       /\ lanePc[l] = "delay" => jobData[j] = attempt[j]

\* The inductive invariant behind the three, for a system without reapers.
CopyInvariant ==
  /\ TypeOK /\ AcceptedFirst /\ FailuresAreCaught /\ BuriedAreGone
  /\ \A j \in Jobs : InOnePlace(j) /\ AttemptsAgree(j)

-----------------------------------------------------------------------------
(* Shutdown *)

\* FR-7.1 (shutdown.js): a worker that was told to stop has finished its jobs when
\* it exits: the list it deregisters, which nobody will scan again, holds settled
\* ones only.  A claim in the middle of its calls when drain() finds nothing in
\* flight still comes back with a job.  That holds after the grace period too,
\* where README's shutdown section says that what is left is for the reaper.
DrainedCleanly ==
  \A w \in Workers : workerState[w] = "exited" => processing[w] \subseteq settled

\* What DrainedCleanly rests on: an unsettled job in the list of a worker that
\* may be told to drain is one a lane of it is still busy with.
BusyWith(l, j) ==
  claim[l] = j /\ lanePc[l] \in {"beat", "fetch", "activate", "run", "complete", "fail",
                                 "save", "delay", "clear", "release"}
ListsAreWorkedOff ==
  \A w \in Sigtermed : workerState[w] # "crashed" =>
    \A j \in processing[w] : j \in settled \/ \E l \in LanesOf(w) : BusyWith(l, j)

\* A lane that gives a job up for want of an envelope gives up a settled one.
OnlySettledConfound ==
  \A l \in Lanes : lanePc[l] \in {"activate", "run"} /\ env[l] = None => claim[l] \in settled

LivesAreAllowed ==
  \A w \in Workers :
    /\ workerState[w] = "exited" => w \in Sigtermed
    /\ workerState[w] = "crashed" => w \in Mortal

DrainInvariant ==
  /\ TypeOK /\ RegistryCoversWorkers /\ EnvelopeUntilSettled /\ AcceptedFirst
  /\ LivesAreAllowed /\ OnlySettledConfound /\ ListsAreWorkedOff

\* FR-7 (README): a drain comes to an end.
DrainEnds ==
  \A w \in Workers : workerState[w] = "draining" ~> workerState[w] \in {"exited", "crashed"}

-----------------------------------------------------------------------------
(* The row's history *)

\* README, section 4, has no transition out of completed.
CompletedIsFinal ==
  [][\A j \in Jobs : status[j] = "completed" => status'[j] = "completed"]_vars

\* The attempt of a row counts what happened to the job and never goes back.
AttemptsOnlyGrow ==
  [][\A j \in Jobs : attempt'[j] >= attempt[j]]_vars
=============================================================================
