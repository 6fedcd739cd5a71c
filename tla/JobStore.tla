------------------------------ MODULE JobStore ------------------------------
(***************************************************************************)
(* The durable job table and its repository.  One action per repository    *)
(* operation; each is one SQLite statement or one transaction in the code, *)
(* so each is one atomic step here.  Nothing is assumed about the callers: *)
(* StoreNext lets any operation be called on any job at any moment, and    *)
(* what is stated below holds for every caller (the dispatcher, its stale  *)
(* workers, the HTTP handlers).                                            *)
(*                                                                         *)
(* Abstractions.  Jobs are numbered in (createdAt, id) order.  A lease is  *)
(* the outcome of comparing leaseUntil with the clock: "held", "lapsed",   *)
(* or "none" for NULL; LeaseLapses is the passing of time.  Error codes,   *)
(* timestamps and the request are left out.  results holds the jobs whose  *)
(* result batch is stored.                                                 *)
(***************************************************************************)
EXTENDS PlatformNames, FiniteSets

CONSTANTS
  Jobs,             \* job identifiers, in creation order
  Remotes,          \* identifiers an engine gives to submitted work
  Progress,         \* progress values an engine may report
  MaxQueuedJobs,    \* config.queue.maxQueuedJobs
  MaxRunningJobs,   \* config.queue.maxRunningJobs
  ClaimCap          \* bound of the exploration: claims of one job

ASSUME StoreAssumption ==
  /\ Jobs \subseteq Nat
  /\ IsFiniteSet(Jobs)
  /\ MaxQueuedJobs \in Nat
  /\ MaxRunningJobs \in Nat
  /\ ClaimCap \in Nat
  /\ None \notin Remotes \cup Progress

VARIABLES
  jobs,             \* the jobs table
  results           \* the jobs with rows in the results table

storeVars == <<jobs, results>>

Terminal == {"succeeded", "failed", "cancelled"}

Status == {"absent", "queued", "running"} \cup Terminal

Lease == {"none", "held", "lapsed"}

Row == [status          : Status,
        attempt         : Nat,
        cancelRequested : BOOLEAN,
        engineId        : Engines \cup {None},
        remoteJobId     : Remotes \cup {None},
        lease           : Lease,
        progress        : Progress \cup {None}]

\* The state machine every transition is checked against.
JobTransitions ==
  [s \in Status |->
     CASE s = "queued"  -> {"cancelled", "running"}
       [] s = "running" -> {"cancelled", "failed", "queued", "succeeded"}
       [] OTHER         -> {}]

CanTransition(from, to) == to \in JobTransitions[from]

WithStatus(s) == {j \in Jobs : jobs[j].status = s}

Queued == WithStatus("queued")

Running == WithStatus("running")

\* A row that does not exist yet.
NoRow == [status |-> "absent", attempt |-> 0, cancelRequested |-> FALSE,
          engineId |-> None, remoteJobId |-> None, lease |-> "none",
          progress |-> None]

StoreInit == jobs = [j \in Jobs |-> NoRow] /\ results = {}

-----------------------------------------------------------------------------
(* Admission and cancellation: called by the HTTP handlers.                *)

\* Slip: admits one job too many.
CreateJobOneTooMany(j) ==
  /\ jobs[j].status = "absent"
  /\ Cardinality(Queued) <= MaxQueuedJobs
  /\ jobs' = [jobs EXCEPT ![j].status = "queued"]
  /\ UNCHANGED results

CreateJobIfCapacity(j) ==
  /\ jobs[j].status = "absent"
  /\ \A i \in Jobs : i < j => jobs[i].status # "absent"
  /\ Cardinality(Queued) < MaxQueuedJobs
  /\ jobs' = [jobs EXCEPT ![j].status = "queued"]
  /\ UNCHANGED results

\* One conditional UPDATE: queued rows end, running rows are only marked.
RequestCancellation(j) ==
  /\ jobs[j].status \in {"queued", "running"}
  /\ jobs' = [jobs EXCEPT
       ![j].cancelRequested = TRUE,
       ![j].status = IF @ = "queued" THEN "cancelled" ELSE @]
  /\ UNCHANGED results

-----------------------------------------------------------------------------
(* Dispatching: called by the scheduler and by the workers.                *)

\* Slip: the count of running jobs is compared off by one.
ClaimQueuedOneTooMany(j) ==
  /\ Cardinality(Running) <= MaxRunningJobs
  /\ jobs[j].status = "queued"
  /\ jobs[j].attempt < ClaimCap
  /\ jobs' = [jobs EXCEPT
       ![j].status = "running", ![j].attempt = @ + 1, ![j].lease = "held"]
  /\ UNCHANGED results

ClaimQueued(j) ==
  /\ Cardinality(Running) < MaxRunningJobs
  /\ jobs[j].status = "queued"
  /\ jobs[j].attempt < ClaimCap
  /\ jobs' = [jobs EXCEPT
       ![j].status = "running", ![j].attempt = @ + 1, ![j].lease = "held"]
  /\ UNCHANGED results

\* Slip: the two columns are swapped.
BindRemoteSwapped(j, e, r) ==
  /\ jobs[j].status = "running"
  /\ jobs' = [jobs EXCEPT
       ![j].engineId = r, ![j].remoteJobId = e, ![j].lease = "held"]
  /\ UNCHANGED results

\* Slip: the whole row is written as the worker was given it.
BindRemoteUnmarking(j, e, r) ==
  /\ jobs[j].status = "running"
  /\ jobs' = [jobs EXCEPT
       ![j].engineId = e, ![j].remoteJobId = r, ![j].lease = "held",
       ![j].cancelRequested = FALSE]
  /\ UNCHANGED results

\* Fenced by the status alone: any caller may bind or renew a running row.
BindRemote(j, e, r) ==
  /\ jobs[j].status = "running"
  /\ jobs' = [jobs EXCEPT
       ![j].engineId = e, ![j].remoteJobId = r, ![j].lease = "held"]
  /\ UNCHANGED results

\* Slip: no status in the WHERE clause.
RenewLeaseUnfenced(j) ==
  /\ jobs' = [jobs EXCEPT ![j].lease = "held"]
  /\ UNCHANGED results

RenewLease(j) ==
  /\ jobs[j].status = "running"
  /\ jobs' = [jobs EXCEPT ![j].lease = "held"]
  /\ UNCHANGED results

RecordProgress(j, p) ==
  /\ jobs[j].status = "running"
  /\ jobs' = [jobs EXCEPT ![j].progress = p]
  /\ UNCHANGED results

SaveResults(j) == results' = results \cup {j} /\ UNCHANGED jobs

\* Slip: the binding is left as it was (undefined instead of null).
TransitionJobKeepingBinding(j, to, cancel) ==
  /\ CanTransition("running", to)
  /\ jobs[j].status = "running"
  /\ jobs' = [jobs EXCEPT
       ![j].status = to, ![j].cancelRequested = cancel, ![j].lease = "none"]
  /\ UNCHANGED results

\* Slip: the expected status is not compared.
TransitionJobUnfenced(j, to, cancel) ==
  /\ CanTransition("running", to)
  /\ jobs' = [jobs EXCEPT
       ![j].status = to, ![j].cancelRequested = cancel,
       ![j].engineId = None, ![j].remoteJobId = None, ![j].lease = "none"]
  /\ UNCHANGED results

\* Every transition the code asks for starts at running and clears the
\* remote binding and the lease.
TransitionJob(j, to, cancel) ==
  /\ CanTransition("running", to)
  /\ jobs[j].status = "running"
  /\ jobs' = [jobs EXCEPT
       ![j].status = to, ![j].cancelRequested = cancel,
       ![j].engineId = None, ![j].remoteJobId = None, ![j].lease = "none"]
  /\ UNCHANGED results

\* The transitions requested by the persistence stage.
RequeueJob(j) == TransitionJob(j, "queued", FALSE)

SucceedJob(j) == TransitionJob(j, "succeeded", FALSE)

FailJob(j) == TransitionJob(j, "failed", FALSE)

FailStorageJob(j) == TransitionJob(j, "failed", jobs[j].cancelRequested)

CancelRemoteJob(j) == TransitionJob(j, "cancelled", TRUE)

\* The clock passes leaseUntil.
LeaseLapses(j) ==
  /\ jobs[j].lease = "held"
  /\ jobs' = [jobs EXCEPT ![j].lease = "lapsed"]
  /\ UNCHANGED results

StoreStep(j) ==
  \/ CreateJobIfCapacity(j)
  \/ RequestCancellation(j)
  \/ ClaimQueued(j)
  \/ \E e \in Engines, r \in Remotes : BindRemote(j, e, r)
  \/ RenewLease(j)
  \/ \E p \in Progress : RecordProgress(j, p)
  \/ SaveResults(j)
  \/ RequeueJob(j)
  \/ SucceedJob(j)
  \/ FailJob(j)
  \/ FailStorageJob(j)
  \/ CancelRemoteJob(j)
  \/ LeaseLapses(j)

StoreNext == \E j \in Jobs : StoreStep(j)

StoreSpec == StoreInit /\ [][StoreNext]_storeVars

-----------------------------------------------------------------------------
(* Properties.                                                             *)

\* Every row and the results table are well formed (job-repository.helpers.ts
\* decodes rows into exactly these shapes).
StoreTypeOK == jobs \in [Jobs -> Row] /\ results \subseteq Jobs

\* However claims, retries and cancellations interleave, no more jobs run
\* than maxRunningJobs allows: the claim counts inside its transaction.
RunningBound == Cardinality(Running) <= MaxRunningJobs

\* Admission counts queued rows only, and a retry puts a job back in the
\* queue without asking: the queue can outgrow maxQueuedJobs, but never by
\* more than the jobs that were running.
LiveBound ==
  Cardinality(Queued \cup Running) <= MaxQueuedJobs + MaxRunningJobs

\* A lease and a remote binding exist only while the job runs, and the two
\* columns of a binding are set and cleared together: recovery can tell
\* resumable work from incomplete work by looking at one row.
BindingOnlyWhileRunning ==
  \A j \in Jobs :
    /\ jobs[j].lease # "none" <=> jobs[j].status = "running"
    /\ jobs[j].engineId # None <=> jobs[j].remoteJobId # None
    /\ jobs[j].engineId # None => jobs[j].status = "running"

\* A request to cancel a running job lasts exactly as long as that run: no
\* bind, renewal or progress write of a worker that has not seen it takes it
\* away, and no later attempt starts with it.
CancelLastsTheRun ==
  [][\A j \in Jobs : jobs'[j].status = "running" =>
       CASE jobs[j].status = "running" ->
              jobs[j].cancelRequested => jobs'[j].cancelRequested
         [] OTHER -> ~jobs'[j].cancelRequested]_storeVars

\* Late calls of a worker that lost its job change nothing of a row that has
\* ended: each UPDATE repeats the status test in its WHERE clause.
TerminalIsFinal ==
  [][\A j \in Jobs : jobs[j].status \in Terminal => jobs'[j] = jobs[j]]_storeVars

\* The abstract life of a job, read off the table.
Lifecycle ==
  INSTANCE JobLifecycle WITH
    phase        <- [j \in Jobs |-> jobs[j].status],
    attempts     <- [j \in Jobs |-> jobs[j].attempt],
    AttemptLimit <- ClaimCap,
    RunningLimit <- MaxRunningJobs

\* The repository, whoever calls it, keeps the promised life of a job.
ImplementsLifecycle == Lifecycle!Spec
=============================================================================
