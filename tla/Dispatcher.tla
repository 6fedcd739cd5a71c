----------------------------- MODULE Dispatcher -----------------------------
(***************************************************************************)
(* The durable dispatcher: the scheduling loop, the recovery passes and    *)
(* the worker fibers, over the job table (JobStore), the engine pool       *)
(* (EnginePool) and the engines themselves, which are external.            *)
(*                                                                         *)
(* Granularity.  SQLite is called synchronously and the pool is a Ref, so  *)
(* a fiber is overtaken only where it suspends: gateway and file-system    *)
(* calls and sleeps.  A worker's step here is at most one repository write *)
(* and one pool update, finer than that.  dispatchOne and a recovery pass  *)
(* suspend nowhere: a dispatch is one step, a pass one step per row.       *)
(*                                                                         *)
(* A claim submits at most once, so remote work is named by the attempt    *)
(* that submitted it: remote[j][a] is the engine's view of it.             *)
(***************************************************************************)
EXTENDS JobStore, EnginePool

CONSTANTS
  ModelOf,        \* request.model of each job
  MaxAttempts,    \* config.queue.maxAttempts
  Workers,        \* worker fibers: one per engine slot is enough
  Stalls,         \* phases of a worker that may outlast its lease
  FaultKinds,     \* the faults that may happen in this configuration
  MaxFaults       \* bound of the exploration: how many of them

ASSUME DispatcherAssumption ==
  /\ ModelOf \in [Jobs -> Models]
  /\ MaxAttempts \in Nat \ {0}
  /\ Workers \subseteq Nat
  /\ Remotes = 1..ClaimCap
  /\ Stalls \subseteq {"submit", "bind", "call", "save"}
  /\ MaxFaults \in Nat

VARIABLES
  remote,         \* the engines' jobs: [Jobs -> [Remotes -> RemoteStatus]]
  workers,        \* the worker fibers
  pending,        \* the rows the startup pass has listed and not yet handled
  phase,          \* of the process: down, recovering (at startup), serving
  faults          \* faults so far, and those that may orphan remote work

vars == <<jobs, results, pool, remote, workers, pending, phase, faults>>

RemoteStatus == {"none", "active", "succeeded", "failed", "cancelled", "gone"}

IdleWorker == [pc |-> "idle", job |-> None, attempt |-> 0, cancelSeen |-> FALSE,
               progressSeen |-> None, engine |-> None, remote |-> None,
               failures |-> 0, op |-> "poll"]

\* A worker works on its job until only its slot is left to give back.
Working(w) == workers[w].pc \notin {"idle", "release"}

JobOf(w) == workers[w].job

EngineOf(w) == workers[w].engine

RowOf(w) == jobs[JobOf(w)]

RemoteOf(w) == remote[JobOf(w)][workers[w].remote]

Goes(w, pc) == workers' = [workers EXCEPT ![w].pc = pc]

At(w, pc) == workers[w].pc = pc

\* The fiber that a fork starts.
NextIdle(w) ==
  /\ workers[w].pc = "idle"
  /\ \A v \in Workers : v < w => workers[v].pc # "idle"

\* The durable job as a worker or a recovery pass read it.
Started(w, pc, j, row, e, r) ==
  /\ NextIdle(w)
  /\ workers' = [workers EXCEPT ![w] =
       [pc |-> pc, job |-> j, attempt |-> row.attempt,
        cancelSeen |-> row.cancelRequested, progressSeen |-> row.progress,
        engine |-> e, remote |-> r, failures |-> 0, op |-> "poll"]]

NoFault == UNCHANGED faults

\* Only these may leave an engine with work that no row knows of: a stop or a
\* lost answer between acceptance and bind, and a bind that keeps failing.
Orphaning == {"crash", "reply", "bind"}

Fault(kind) ==
  /\ kind \in FaultKinds
  /\ faults.total < MaxFaults
  /\ faults' = [faults EXCEPT
       !.total = @ + 1,
       !.orphaning = IF kind \in Orphaning THEN @ + 1 ELSE @]

\* A repository write that only matches a running row.
IfRunning(j, Write) ==
  IF jobs[j].status = "running" THEN Write ELSE UNCHANGED storeVars

\* Slip: one attempt too many.
RetryOnceTooOften(j, attempt) ==
  IfRunning(j, IF attempt <= MaxAttempts THEN RequeueJob(j) ELSE FailJob(j))

\* Slip: a retry starts counting again.
RetryFromZero(j, attempt) ==
  IfRunning(j, /\ jobs' = [jobs EXCEPT ![j].status = "queued", ![j].attempt = 0]
               /\ UNCHANGED results)

\* Requeue below maxAttempts, else fail: decided on the attempt as it was read.
RetryOrFail(j, attempt) ==
  IfRunning(j, IF attempt < MaxAttempts THEN RequeueJob(j) ELSE FailJob(j))

-----------------------------------------------------------------------------
(* The HTTP handlers.  The startup pass is not interrupted, so handlers    *)
(* and workers act once the process is serving.                            *)

SubmitJob(j) ==
  /\ phase = "serving"
  /\ CreateJobIfCapacity(j)
  /\ UNCHANGED <<pool, remote, workers, pending, phase, faults>>

CancelJob(j) ==
  /\ phase = "serving"
  /\ RequestCancellation(j)
  /\ UNCHANGED <<pool, remote, workers, pending, phase, faults>>

\* The readiness endpoint asks every engine for its capabilities and reports
\* the answers to the same breakers the dispatcher uses.
ProbeEngine(e) ==
  /\ phase = "serving"
  /\ \/ NoFault /\ RecordSuccess(e)
     \/ Fault("engine") /\ RecordFailure(e)
  /\ UNCHANGED <<jobs, results, remote, workers, pending, phase>>

-----------------------------------------------------------------------------
(* The scheduling loop: peek, reserve, claim, fork.                        *)

QueueHead(j) == j \in Queued /\ \A i \in Queued : j <= i

\* A claim refused for maxRunningJobs gives its reservation back at once.
DispatchOne(j, e, w) ==
  /\ phase = "serving"
  /\ QueueHead(j)
  /\ Reserve(e, ModelOf[j])
  /\ ClaimQueued(j)
  /\ Started(w, "submit", j, jobs'[j], e, jobs'[j].attempt)
  /\ UNCHANGED <<remote, pending, phase, faults>>

\* A DatabaseError of claim leaves dispatchOne before any release.
DispatchClaimFails(j, e) ==
  /\ phase = "serving"
  /\ QueueHead(j)
  /\ Fault("claim")
  /\ Reserve(e, ModelOf[j])
  /\ UNCHANGED <<jobs, results, remote, workers, pending, phase>>

-----------------------------------------------------------------------------
(* Recovery: all running rows at startup, rows with a lapsed lease later.  *)

\* A failed listing recovers nothing; the dispatcher starts all the same.
StartupRecovery ==
  /\ phase = "down"
  /\ phase' = "recovering"
  /\ \/ NoFault /\ pending' = Running
     \/ Fault("store") /\ pending' = {}
  /\ UNCHANGED <<jobs, results, pool, remote, workers>>

StartupRecovered ==
  /\ phase = "recovering"
  /\ pending = {}
  /\ phase' = "serving"
  /\ UNCHANGED <<jobs, results, pool, remote, workers, pending, faults>>

\* Slip: the periodic pass takes every running row.
ShouldRecoverHeld(j) ==
  /\ jobs[j].status = "running"
  /\ phase = "recovering" => j \in pending /\ \A i \in pending : j <= i
  /\ phase # "down"

\* Slip: only the startup pass recovers.
ShouldRecoverAtStartup(j) ==
  /\ jobs[j].status = "running"
  /\ phase = "recovering" /\ j \in pending /\ \A i \in pending : j <= i

\* The startup pass takes the listed rows oldest first.  A later pass takes
\* the rows whose lease is not in force; a fiber forked by an earlier pass
\* has renewed the lease by then.
ShouldRecover(j) ==
  /\ jobs[j].status = "running"
  /\ \/ phase = "recovering" /\ j \in pending /\ \A i \in pending : j <= i
     \/ /\ phase = "serving"
        /\ jobs[j].lease # "held"
        /\ \A w \in Workers : workers[w].pc = "resume" => JobOf(w) # j

Recovered(j) == pending' = pending \ {j} /\ UNCHANGED <<remote, phase>>

\* Slip: work on an engine without a free slot counts as incomplete.
IsBoundAndFree(j) ==
  /\ jobs[j].engineId # None
  /\ CanReserve(jobs[j].engineId, ModelOf[j])

IsBound(j) == jobs[j].engineId # None /\ jobs[j].remoteJobId # None

RecoverIncomplete(j) ==
  /\ ShouldRecover(j)
  /\ ~IsBound(j)
  /\ \/ NoFault /\ RetryOrFail(j, jobs[j].attempt)
     \/ Fault("store") /\ UNCHANGED storeVars
  /\ Recovered(j)
  /\ UNCHANGED <<pool, workers>>

RecoverRemote(j, w) ==
  /\ ShouldRecover(j)
  /\ IsBound(j)
  /\ ReserveById(jobs[j].engineId, ModelOf[j])
  /\ Started(w, "resume", j, jobs[j], jobs[j].engineId, jobs[j].remoteJobId)
  /\ Recovered(j)
  /\ UNCHANGED <<jobs, results, faults>>

\* Without a free slot on its engine the row waits for a later pass.
RecoverDeferred(j) ==
  /\ phase = "recovering"
  /\ ShouldRecover(j)
  /\ IsBound(j)
  /\ ~CanReserve(jobs[j].engineId, ModelOf[j])
  /\ Recovered(j)
  /\ UNCHANGED <<jobs, results, pool, workers, faults>>

-----------------------------------------------------------------------------
(* A worker: submit, then bind the remote work to the row or cancel it.    *)

SetRemote(w, s) ==
  remote' = [remote EXCEPT ![JobOf(w)][workers[w].remote] = s]

SubmitAccepted(w) ==
  /\ At(w, "submit")
  /\ SetRemote(w, "active")
  /\ RecordSuccess(EngineOf(w))
  /\ Goes(w, "bind")
  /\ UNCHANGED <<jobs, results, pending, phase, faults>>

\* Rejected, busy or unreachable; or accepted, with the answer lost.
SubmitFails(w) ==
  /\ At(w, "submit")
  /\ \/ Fault("engine") /\ UNCHANGED remote
     \/ Fault("reply") /\ SetRemote(w, "active")
  /\ RecordFailure(EngineOf(w))
  /\ Goes(w, "retry")
  /\ UNCHANGED <<jobs, results, pending, phase>>

\* The worker goes on with the row as the bind returned it.
BindSubmitted(w) ==
  /\ At(w, "bind")
  /\ BindRemote(JobOf(w), EngineOf(w), workers[w].remote)
  /\ workers' = [workers EXCEPT
       ![w].pc = "fetch", ![w].attempt = RowOf(w).attempt,
       ![w].cancelSeen = RowOf(w).cancelRequested,
       ![w].progressSeen = RowOf(w).progress]
  /\ UNCHANGED <<pool, remote, pending, phase, faults>>

\* The row no longer runs, or the retries of a failing bind are used up.
BindImpossible(w) ==
  /\ At(w, "bind")
  /\ \/ NoFault /\ RowOf(w).status # "running"
     \/ Fault("bind")
  /\ Goes(w, "unbound")
  /\ UNCHANGED <<jobs, results, pool, remote, pending, phase>>

CancelAtEngine(w) ==
  IF RemoteOf(w) = "active" THEN SetRemote(w, "cancelled") ELSE UNCHANGED remote

CancelUnbound(w) ==
  /\ At(w, "unbound")
  /\ \/ /\ NoFault
        /\ RemoteOf(w) # "gone"
        /\ CancelAtEngine(w)
        /\ RecordSuccess(EngineOf(w))
     \/ /\ \/ Fault("engine") /\ (CancelAtEngine(w) \/ UNCHANGED remote)
           \/ NoFault /\ RemoteOf(w) = "gone" /\ UNCHANGED remote
        /\ RecordFailure(EngineOf(w))
  /\ Goes(w, "release")
  /\ UNCHANGED <<jobs, results, pending, phase>>

-----------------------------------------------------------------------------
(* A worker: poll until the remote work ends.                              *)

\* Slip: a renewal that fails ends the fiber without giving the slot back.
ResumeKeepingSlot(w) ==
  /\ At(w, "resume")
  /\ \/ /\ NoFault
        /\ IfRunning(JobOf(w), RenewLease(JobOf(w)))
        /\ Goes(w, IF RowOf(w).status = "running" THEN "fetch" ELSE "release")
     \/ /\ Fault("store")
        /\ workers' = [workers EXCEPT ![w] = IdleWorker]
        /\ UNCHANGED storeVars
  /\ UNCHANGED <<pool, remote, pending, phase>>

\* A resumed worker first renews the lease of the row it was given.
Resume(w) ==
  /\ At(w, "resume")
  /\ \/ /\ NoFault
        /\ IfRunning(JobOf(w), RenewLease(JobOf(w)))
        /\ Goes(w, IF RowOf(w).status = "running" THEN "fetch" ELSE "release")
     \/ Fault("store") /\ Goes(w, "release") /\ UNCHANGED storeVars
  /\ UNCHANGED <<pool, remote, pending, phase>>

\* Slip: the cancellation is read from the row the worker was forked with.
FetchStale(w) ==
  /\ At(w, "fetch")
  /\ RowOf(w).status = "running"
  /\ RenewLease(JobOf(w))
  /\ workers' = [workers EXCEPT
       ![w].pc = "call",
       ![w].op = IF workers[w].cancelSeen THEN "cancel" ELSE "poll"]
  /\ UNCHANGED <<pool, remote, pending, phase, faults>>

\* Read the row, stop unless it runs, renew its lease, choose the call.
Fetch(w) ==
  /\ At(w, "fetch")
  /\ RowOf(w).status = "running"
  /\ RenewLease(JobOf(w))
  /\ workers' = [workers EXCEPT
       ![w].pc = "call",
       ![w].op = IF RowOf(w).cancelRequested THEN "cancel" ELSE "poll"]
  /\ UNCHANGED <<pool, remote, pending, phase, faults>>

FetchStops(w) ==
  /\ At(w, "fetch")
  /\ \/ RowOf(w).status # "running" /\ NoFault
     \/ Fault("store")
  /\ Goes(w, "release")
  /\ UNCHANGED <<jobs, results, pool, remote, pending, phase>>

\* Progress is written only when it differs from what the worker first read.
PersistProgress(w) ==
  \E p \in Progress \cup {None} :
    IF p \in {None, workers[w].progressSeen}
      THEN UNCHANGED storeVars
      ELSE IfRunning(JobOf(w), RecordProgress(JobOf(w), p))

\* Where the worker goes with the status its call returned.
AfterAnswer(s) ==
  CASE s = "active"    -> "fetch"
    [] s = "succeeded" -> "save"
    [] s = "failed"    -> "fail"
    [] s = "cancelled" -> "cancel"

CallAnswered(w) ==
  /\ At(w, "call")
  /\ RemoteOf(w) # "gone"
  /\ IF workers[w].op = "cancel" THEN CancelAtEngine(w) ELSE UNCHANGED remote
  /\ RecordSuccess(EngineOf(w))
  /\ LET answer == remote'[JobOf(w)][workers[w].remote] IN
       \/ /\ NoFault
          /\ PersistProgress(w)
          /\ workers' = [workers EXCEPT
               ![w].pc = AfterAnswer(answer), ![w].failures = 0]
       \/ /\ Fault("store")
          /\ Goes(w, "release")
          /\ UNCHANGED storeVars
  /\ UNCHANGED <<pending, phase>>

\* Slip: work the engine lost is generated again, whatever is known.
CallNotFoundRetries(w) ==
  /\ At(w, "call")
  /\ RemoteOf(w) = "gone"
  /\ Goes(w, "retry")
  /\ UNCHANGED <<jobs, results, pool, remote, pending, phase, faults>>

\* The engine no longer knows the work: honour a cancellation the worker
\* knew of when it was given the job, otherwise retry.
CallNotFound(w) ==
  /\ At(w, "call")
  /\ RemoteOf(w) = "gone"
  /\ Goes(w, IF workers[w].cancelSeen THEN "cancel" ELSE "retry")
  /\ UNCHANGED <<jobs, results, pool, remote, pending, phase, faults>>

\* Slip: a busy engine counts as one that lost the work.
CallBusyRetries(w) ==
  /\ At(w, "call")
  /\ Fault("busy")
  /\ Goes(w, "retry")
  /\ UNCHANGED <<jobs, results, pool, remote, pending, phase>>

CallBusy(w) ==
  /\ At(w, "call")
  /\ Fault("busy")
  /\ Goes(w, "fetch")
  /\ UNCHANGED <<jobs, results, pool, remote, pending, phase>>

\* At the threshold the worker leaves the job to lease recovery.  The engine
\* may have carried out a cancellation it failed to answer.
CallFails(w) ==
  LET failed == workers[w].failures + 1 IN
  /\ At(w, "call")
  /\ Fault("engine")
  /\ \/ UNCHANGED remote
     \/ workers[w].op = "cancel" /\ CancelAtEngine(w)
  /\ RecordFailure(EngineOf(w))
  /\ workers' = [workers EXCEPT
       ![w].failures = failed,
       ![w].pc = IF failed >= FailureThreshold[EngineOf(w)]
                   THEN "release" ELSE "fetch"]
  /\ UNCHANGED <<jobs, results, pending, phase>>

-----------------------------------------------------------------------------
(* A worker: make the outcome durable, then give the slot back.            *)

\* Slip: a failed save is not noticed.
SaveOutcomeUnchecked(w) ==
  /\ At(w, "save")
  /\ \/ NoFault /\ SaveResults(JobOf(w))
     \/ Fault("storage") /\ UNCHANGED storeVars
  /\ Goes(w, "succeed")
  /\ UNCHANGED <<pool, remote, pending, phase>>

SaveOutcome(w) ==
  /\ At(w, "save")
  /\ \/ NoFault /\ SaveResults(JobOf(w)) /\ Goes(w, "succeed")
     \/ Fault("storage") /\ UNCHANGED storeVars /\ Goes(w, "failStorage")
     \/ Fault("store") /\ UNCHANGED storeVars /\ Goes(w, "release")
  /\ UNCHANGED <<pool, remote, pending, phase>>

OutcomeWrite(w) ==
  LET j == JobOf(w) IN
  CASE workers[w].pc = "succeed"     -> IfRunning(j, SucceedJob(j))
    [] workers[w].pc = "fail"        -> IfRunning(j, FailJob(j))
    [] workers[w].pc = "failStorage" -> IfRunning(j, FailStorageJob(j))
    [] workers[w].pc = "cancel"      -> IfRunning(j, CancelRemoteJob(j))
    [] workers[w].pc = "retry"       -> RetryOrFail(j, workers[w].attempt)

PersistOutcome(w) ==
  /\ workers[w].pc \in {"succeed", "fail", "failStorage", "cancel", "retry"}
  /\ \/ NoFault /\ OutcomeWrite(w)
     \/ Fault("store") /\ UNCHANGED storeVars
  /\ Goes(w, "release")
  /\ UNCHANGED <<pool, remote, pending, phase>>

\* Slip: every slot of the engine is given back.
ReleaseAllSlots(w) ==
  /\ At(w, "release")
  /\ pool' = [pool EXCEPT ![EngineOf(w)].running = 0]
  /\ workers' = [workers EXCEPT ![w] = IdleWorker]
  /\ UNCHANGED <<jobs, results, remote, pending, phase, faults>>

ReleaseSlot(w) ==
  /\ At(w, "release")
  /\ Release(EngineOf(w))
  /\ workers' = [workers EXCEPT ![w] = IdleWorker]
  /\ UNCHANGED <<jobs, results, remote, pending, phase, faults>>

-----------------------------------------------------------------------------
(* The engines, the clock and the process.                                 *)

RemoteEnds(j, r) ==
  /\ remote[j][r] = "active"
  /\ \E s \in {"succeeded", "failed"} : remote' = [remote EXCEPT ![j][r] = s]
  /\ UNCHANGED <<jobs, results, pool, workers, pending, phase, faults>>

\* The engine restarts or evicts the job.
RemoteLost(j, r) ==
  /\ remote[j][r] \notin {"none", "gone"}
  /\ Fault("lost")
  /\ remote' = [remote EXCEPT ![j][r] = "gone"]
  /\ UNCHANGED <<jobs, results, pool, workers, pending, phase>>

\* The lease outlives every phase of a worker that is not in Stalls.
TimeLapses(j) ==
  /\ \A w \in Workers :
       Working(w) /\ JobOf(w) = j => workers[w].pc \in Stalls
  /\ LeaseLapses(j)
  /\ UNCHANGED <<pool, remote, workers, pending, phase, faults>>

TimeCools(e) ==
  /\ CooldownElapses(e)
  /\ UNCHANGED <<jobs, results, remote, workers, pending, phase, faults>>

\* The process stops, at work or in its startup pass (a kill asks nobody).  A
\* submission in flight may or may not have reached the engine; an orderly
\* shutdown also tries to cancel what is not bound yet.
Stop ==
  /\ phase # "down"
  /\ Fault("crash")
  /\ phase' = "down"
  /\ PoolReset
  /\ \E S \in SUBSET {w \in Workers : workers[w].pc \in {"submit", "bind"}} :
       remote' = [j \in Jobs |-> [r \in Remotes |->
         LET stopped(pc) == \E w \in S :
               workers[w].pc = pc /\ JobOf(w) = j /\ workers[w].remote = r
         IN CASE stopped("submit") -> "active"
              [] stopped("bind") /\ remote[j][r] = "active" -> "cancelled"
              [] OTHER -> remote[j][r]]]
  /\ workers' = [w \in Workers |-> IdleWorker]
  /\ pending' = {}
  /\ UNCHANGED <<jobs, results>>

-----------------------------------------------------------------------------
Init ==
  /\ StoreInit
  /\ PoolInit
  /\ remote = [j \in Jobs |-> [r \in Remotes |-> "none"]]
  /\ workers = [w \in Workers |-> IdleWorker]
  /\ pending = {}
  /\ phase = "down"
  /\ faults = [total |-> 0, orphaning |-> 0]

Client ==
  \/ \E j \in Jobs : SubmitJob(j) \/ CancelJob(j)
  \/ \E e \in Engines : ProbeEngine(e)

Schedule ==
  \E j \in Jobs, e \in Engines :
    (\E w \in Workers : DispatchOne(j, e, w)) \/ DispatchClaimFails(j, e)

Recover ==
  \/ StartupRecovery
  \/ StartupRecovered
  \/ \E j \in Jobs :
       \/ RecoverIncomplete(j)
       \/ \E w \in Workers : RecoverRemote(j, w)
       \/ RecoverDeferred(j)

Work(w) ==
  \/ SubmitAccepted(w)
  \/ SubmitFails(w)
  \/ BindSubmitted(w)
  \/ BindImpossible(w)
  \/ CancelUnbound(w)
  \/ Resume(w)
  \/ Fetch(w)
  \/ FetchStops(w)
  \/ CallAnswered(w)
  \/ CallNotFound(w)
  \/ CallBusy(w)
  \/ CallFails(w)
  \/ SaveOutcome(w)
  \/ PersistOutcome(w)
  \/ ReleaseSlot(w)

Environment ==
  \/ \E j \in Jobs : TimeLapses(j)
  \/ \E j \in Jobs, r \in Remotes : RemoteEnds(j, r) \/ RemoteLost(j, r)
  \/ \E e \in Engines : TimeCools(e)
  \/ Stop

Next ==
  \/ Client
  \/ Schedule
  \/ Recover
  \/ phase = "serving" /\ \E w \in Workers : Work(w)
  \/ Environment

Spec == Init /\ [][Next]_vars

\* The two loops run for ever, fibers are scheduled, calls return, time passes
\* and a stopped process is started again.
ProcessFairness ==
  /\ WF_vars(Schedule) /\ WF_vars(StartupRecovery) /\ WF_vars(StartupRecovered)
  /\ \A j \in Jobs :
       /\ WF_vars(RecoverIncomplete(j) \/ RecoverDeferred(j))
       /\ WF_vars(\E w \in Workers : RecoverRemote(j, w))
       /\ WF_vars(TimeLapses(j))
  /\ \A w \in Workers : WF_vars(Work(w))
  /\ \A e \in Engines : WF_vars(TimeCools(e))

\* An engine that works on a job ends it.
EngineFairness ==
  \A j \in Jobs, r \in Remotes : WF_vars(RemoteEnds(j, r))

FairSpec == Spec /\ ProcessFairness /\ EngineFairness

\* The engines may compute for ever.
SlowSpec == Spec /\ ProcessFairness

-----------------------------------------------------------------------------
(* Properties.                                                             *)

\* A working fiber's snapshot of the row it was forked for or bound.
WorkerState ==
  [pc           : {"idle", "submit", "bind", "unbound", "resume", "fetch",
                   "call", "save", "succeed", "fail", "failStorage", "cancel",
                   "retry", "release"},
   job          : Jobs \cup {None},
   attempt      : Nat,
   cancelSeen   : BOOLEAN,
   progressSeen : Progress \cup {None},
   engine       : Engines \cup {None},
   remote       : Remotes \cup {None},
   failures     : Nat,
   op           : {"poll", "cancel"}]

\* Every variable of the dispatcher is well formed.
TypeOK ==
  /\ StoreTypeOK
  /\ PoolTypeOK
  /\ remote \in [Jobs -> [Remotes -> RemoteStatus]]
  /\ workers \in [Workers -> WorkerState]
  /\ pending \subseteq Jobs
  /\ phase \in {"down", "recovering", "serving"}
  /\ faults \in [total : Nat, orphaning : Nat]

Owners(j) == {w \in Workers : Working(w) /\ JobOf(w) = j}

\* While leases outlast the phases of a worker, no two fibers ever drive the
\* same job, and the one that does drives the attempt the row records: claims,
\* crashes, resumes and deferred jobs never overlap.
OneOwner ==
  \A j \in Jobs :
    /\ Cardinality(Owners(j)) <= 1
    /\ \A w \in Owners(j) :
         jobs[j].status = "running" /\ jobs[j].attempt = workers[w].attempt

SlotHolders(e) == {w \in Workers : EngineOf(w) = e}

\* Every slot counted in the pool is held by one fiber, on every path of every
\* worker: nothing leaks and nothing is given back twice ("Gives one
\* reserved slot back, whatever the outcome of the job", engine.interface.ts).
SlotsAccounted ==
  \A e \in Engines :
    pool[e].running = Cardinality(SlotHolders(e))

\* A job is published as succeeded only after its results were stored and
\* some remote work submitted for it did end.
SuccessIsBacked ==
  \A j \in Jobs : jobs[j].status = "succeeded" =>
    /\ j \in results
    /\ \E r \in Remotes : remote[j][r] \in {"succeeded", "gone"}

\* "Recovers durable running jobs without resubmitting existing remote work":
\* a bound job goes back to the queue only when its engine lost the work.
BoundWorkIsNotRedone ==
  [][\A j \in Jobs :
       jobs[j].remoteJobId # None /\ jobs'[j].status = "queued"
         => remote[j][jobs[j].remoteJobId] = "gone"]_vars

\* The engines work on at most one submission of a job, plus one for each stop,
\* lost answer or failed bind: no other fault, and no retry, makes an engine
\* generate what another is generating.
NoDuplicateWork ==
  \A j \in Jobs :
    Cardinality({r \in Remotes : remote[j][r] = "active"})
      <= 1 + faults.orphaning

\* A running job whose cancellation was accepted is not started again: the
\* request is persisted "for the dispatcher to honour"
\* (job-repository-write.helpers.ts).
CancelledIsNotRequeued ==
  [][\A j \in Jobs : jobs[j].status = "running" /\ jobs[j].cancelRequested
       => jobs'[j].status # "queued"]_vars

\* A cancellation accepted before the row was bound, or before a restart took
\* the row up again, outlives every fault: bound work whose fibers all know of
\* it, or that waits for one, is not generated anew, not even when the engine
\* loses it ("an unbound cancellation is honoured as terminal",
\* dispatcher-poll.service.ts).
KnownCancellationIsKept ==
  [][\A j \in Jobs :
       /\ jobs[j].status = "running" /\ jobs[j].cancelRequested
       /\ jobs[j].remoteJobId # None
       /\ \A w \in Owners(j) : workers[w].cancelSeen
       => jobs'[j].status # "queued"]_vars

\* Every admitted job comes to an end: no fault the code contains leaves a
\* job in the queue or in progress for ever.
EveryJobEnds ==
  \A j \in Jobs : jobs[j].status = "queued" ~> jobs[j].status \in Terminal

\* A cancellation accepted while the job runs stops the work, even work that
\* would never end by itself: the job ends and no engine goes on computing it.
CancelStopsWork ==
  \A j \in Jobs :
    jobs[j].status = "running" /\ jobs[j].cancelRequested
      ~> /\ jobs[j].status \in Terminal
         /\ \A r \in Remotes : remote[j][r] # "active"

\* The dispatcher keeps the promised life of a job, with the retry policy's
\* bound on the attempts.
JobLife ==
  INSTANCE JobLifecycle WITH
    phase        <- [j \in Jobs |-> jobs[j].status],
    attempts     <- [j \in Jobs |-> jobs[j].attempt],
    AttemptLimit <- MaxAttempts,
    RunningLimit <- MaxRunningJobs

KeepsJobLife == JobLife!Spec

\* Whatever its workers and passes do, the dispatcher changes the job table
\* only through the repository's operations, and the pool only through the
\* pool's: what those modules establish holds here.
UsesStoreOnly == StoreSpec

UsesPoolOnly == PoolSpec
=============================================================================
