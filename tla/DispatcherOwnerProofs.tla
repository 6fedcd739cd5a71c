------------------------ MODULE DispatcherOwnerProofs ------------------------
(***************************************************************************)
(* Proofs about the dispatcher while leases outlast the phases of a worker *)
(* (Stalls = {}): the setting the lease is configured for.                 *)
(*                                                                         *)
(* The argument: a fiber at work on a job owns its row (Owns).  The row    *)
(* runs, records the fiber's attempt and its lease is in force, so no      *)
(* recovery pass takes it and no claim finds it queued; whoever takes a    *)
(* row owns it alone.  The owner also knows what the row is bound to, and  *)
(* hence on what ground a job may be queued again, and which of the        *)
(* engines' jobs nobody will ever ask about (Strays).                      *)
(*                                                                         *)
(* The last part, about cancellations, does without Stalls = {}.           *)
(***************************************************************************)
EXTENDS DispatcherProofs

Ended == {"succeeded", "failed", "cancelled", "gone"}

\* What a fiber at pc, that works on an attempt submitted under the name r,
\* knows of its row and of the engine's job.
OwnsAs(pc, attempt, r, row, cell) ==
  /\ row.status = "running"
  /\ row.attempt = attempt
  /\ pc # "resume" => row.lease = "held"
  /\ pc \in {"submit", "bind", "unbound"} => row.remoteJobId = None
  /\ pc \in {"resume", "fetch", "call", "save", "succeed", "fail", "failStorage",
             "cancel"} => row.remoteJobId = r
  /\ pc = "retry" =>
       row.remoteJobId = None \/ (row.remoteJobId = r /\ cell = "gone")
  /\ pc \in {"save", "succeed", "fail", "failStorage", "cancel"} => cell \in Ended

Owns(w) ==
  OwnsAs(workers[w].pc, workers[w].attempt, workers[w].remote, RowOf(w), RemoteOf(w))

OwnerInv ==
  /\ \A w \in Workers : Working(w) => Owns(w)
  /\ \A v, w \in Workers : Working(v) /\ Working(w) /\ JobOf(v) = JobOf(w) => v = w
  /\ phase = "down" => \A w \in Workers : ~Working(w)
  /\ phase = "recovering" => \A w \in Workers :
       Working(w) => At(w, "resume") /\ JobOf(w) \notin pending

-----------------------------------------------------------------------------
(* What others leave alone.                                                *)

\* A step that leaves a running row to its owner.
HoldsOn(j) ==
  /\ jobs'[j].status = "running"
  /\ jobs'[j].attempt = jobs[j].attempt
  /\ jobs'[j].remoteJobId = jobs[j].remoteJobId
  /\ jobs[j].lease = "held" => jobs'[j].lease = "held"

LEMMA GentleRows ==
  ASSUME StoreTypeOK, NEW i \in Jobs,
         \/ CreateJobIfCapacity(i) \/ RequestCancellation(i) \/ ClaimQueued(i)
         \/ RenewLease(i) \/ SaveResults(i) \/ UNCHANGED storeVars
         \/ \E p \in Progress : RecordProgress(i, p)
  PROVE  \A j \in Jobs : jobs[j].status = "running" => HoldsOn(j)
<1> SUFFICES ASSUME NEW j \in Jobs, jobs[j].status = "running" PROVE HoldsOn(j)
  OBVIOUS
<1> USE DEF StoreTypeOK, Row, HoldsOn
<1>1. CASE CreateJobIfCapacity(i) BY <1>1 DEF CreateJobIfCapacity
<1>2. CASE RequestCancellation(i) BY <1>2 DEF RequestCancellation
<1>3. CASE ClaimQueued(i) BY <1>3 DEF ClaimQueued
<1>4. CASE RenewLease(i) BY <1>4 DEF RenewLease
<1>5. CASE SaveResults(i) BY <1>5 DEF SaveResults
<1>6. CASE UNCHANGED storeVars BY <1>6 DEF storeVars
<1>7. CASE \E p \in Progress : RecordProgress(i, p) BY <1>7 DEF RecordProgress
<1> QED BY <1>1, <1>2, <1>3, <1>4, <1>5, <1>6, <1>7

\* What ended stays ended, what is gone stays gone.
LEMMA EndedStays ==
  ASSUME BaseInv, BackedInv, [Next]_vars, NEW j \in Jobs, NEW r \in Remotes
  PROVE  /\ remote[j][r] \in Ended => remote'[j][r] \in Ended
         /\ remote[j][r] = "gone" => remote'[j][r] = "gone"
<1>1. ASSUME remote[j][r] \in Ended
      PROVE  ~\E w \in Workers :
               workers[w].pc = "submit" /\ JobOf(w) = j /\ workers[w].remote = r
  BY <1>1 DEF BackedInv, Submissions, RemoteOf, Ended
<1> QED BY <1>1, StepCells DEF CellMoves, Ended

\* The owner that stays where it is, and whose row is left to it.
LEMMA KeptOwner ==
  ASSUME BaseInv, BackedInv, OwnerInv, [Next]_vars, NEW v \in Workers, Working(v),
         workers'[v] = workers[v], HoldsOn(JobOf(v))
  PROVE  Owns(v)'
<1>1. JobOf(v) \in Jobs /\ workers[v].remote \in Remotes
  BY BusyWorker DEF Working
<1>2. OwnsAs(workers[v].pc, workers[v].attempt, workers[v].remote, RowOf(v),
             RemoteOf(v))
  BY DEF OwnerInv, Owns
<1>3. /\ RemoteOf(v) \in Ended => remote'[JobOf(v)][workers[v].remote] \in Ended
      /\ RemoteOf(v) = "gone" => remote'[JobOf(v)][workers[v].remote] = "gone"
  BY <1>1, EndedStays DEF RemoteOf
<1>4. OwnsAs(workers[v].pc, workers[v].attempt, workers[v].remote, jobs'[JobOf(v)],
             remote'[JobOf(v)][workers[v].remote])
  BY <1>2, <1>3 DEF OwnsAs, HoldsOn, RowOf
<1> QED BY <1>4 DEF Owns, RowOf, RemoteOf, JobOf

\* A step that moves no fiber and leaves the owned rows alone.
LEMMA QuietOwners ==
  ASSUME BaseInv, BackedInv, OwnerInv, [Next]_vars, UNCHANGED workers,
         \A w \in Workers : Working(w) => HoldsOn(JobOf(w)),
         \/ UNCHANGED phase /\ pending' \subseteq pending
         \/ phase' = "serving"
  PROVE  OwnerInv'
<1>1. \A w \in Workers : Working(w)' <=> Working(w) BY DEF Working
<1>2. \A w \in Workers : Working(w)' => Owns(w)' BY <1>1, KeptOwner
<1> QED BY <1>1, <1>2 DEF OwnerInv, JobOf, At

\* The owned rows run.
LEMMA OwnedRuns ==
  ASSUME BaseInv, OwnerInv, NEW w \in Workers, Working(w)
  PROVE  JobOf(w) \in Jobs /\ jobs[JobOf(w)].status = "running"
BY BusyWorker DEF Working, OwnerInv, Owns, OwnsAs, RowOf

\* Nobody owns what a recovery pass takes.
LEMMA RecoveredIsFree ==
  ASSUME BaseInv, OwnerInv, NEW j \in Jobs, ShouldRecover(j)
  PROVE  \A w \in Workers : Working(w) => JobOf(w) # j
<1> SUFFICES ASSUME NEW w \in Workers, Working(w), JobOf(w) = j PROVE FALSE
  OBVIOUS
<1>1. CASE phase = "recovering" /\ j \in pending BY <1>1 DEF OwnerInv
<1>2. CASE /\ jobs[j].lease # "held"
           /\ \A v \in Workers : workers[v].pc = "resume" => JobOf(v) # j
  BY <1>2 DEF OwnerInv, Owns, OwnsAs, RowOf
<1> QED BY <1>1, <1>2 DEF ShouldRecover

-----------------------------------------------------------------------------
(* The steps that are not a worker's.                                      *)

\* The fork of a fiber for a row nobody owns.
LEMMA ForkedOwner ==
  ASSUME BaseInv, BackedInv, OwnerInv, [Next]_vars,
         NEW w \in Workers, NEW j \in Jobs, NEW pc \in {"submit", "resume"},
         workers[w] = IdleWorker,
         \A v \in Workers : v # w => workers'[v] = workers[v],
         workers'[w].pc = pc, workers'[w].job = j,
         workers'[w].attempt = jobs'[j].attempt,
         jobs'[j].status = "running",
         \/ pc = "submit" /\ jobs'[j].lease = "held" /\ jobs'[j].remoteJobId = None
         \/ pc = "resume" /\ jobs'[j].remoteJobId = workers'[w].remote,
         \A v \in Workers : Working(v) => HoldsOn(JobOf(v)) /\ JobOf(v) # j,
         \/ pc = "resume" /\ UNCHANGED phase /\ pending' = pending \ {j}
              /\ phase # "down"
         \/ phase' = "serving"
  PROVE  OwnerInv'
<1>1. \A v \in Workers : v # w => (Working(v)' <=> Working(v)) BY DEF Working
<1>2. \A v \in Workers : v # w /\ Working(v)' => Owns(v)' BY <1>1, KeptOwner
<1>3. OwnsAs(pc, workers'[w].attempt, workers'[w].remote, jobs'[j],
             remote'[j][workers'[w].remote])
  BY DEF OwnsAs
<1>4. Owns(w)' BY <1>3 DEF Owns, RowOf, RemoteOf, JobOf
<1>5. \A u, v \in Workers :
        Working(u)' /\ Working(v)' /\ JobOf(u)' = JobOf(v)' => u = v
  BY <1>1 DEF OwnerInv, JobOf
<1>6. phase' = "down" => \A v \in Workers : ~Working(v)' OBVIOUS
<1>7. phase' = "recovering" => \A v \in Workers :
        Working(v)' => At(v, "resume")' /\ JobOf(v)' \notin pending'
  BY <1>1 DEF OwnerInv, At, JobOf
<1> QED BY <1>2, <1>4, <1>5, <1>6, <1>7 DEF OwnerInv

LEMMA DispatchOwners ==
  ASSUME BaseInv, BackedInv, OwnerInv, [Next]_vars,
         NEW j \in Jobs, NEW e \in Engines, NEW w \in Workers, DispatchOne(j, e, w)
  PROVE  OwnerInv'
<1>1. /\ ClaimQueued(j) /\ StoreTypeOK /\ phase = "serving" /\ UNCHANGED phase
      /\ jobs[j].attempt \in Nat
  BY DEF DispatchOne, BaseInv, RowInv, StoreTypeOK, Row
<1>2. jobs[j].status = "queued" BY <1>1 DEF ClaimQueued
<1>3. jobs[j].remoteJobId = None
  BY <1>2 DEF BaseInv, RowInv, BindingOnlyWhileRunning
<1>4. /\ jobs'[j].status = "running" /\ jobs'[j].lease = "held"
      /\ jobs'[j].remoteJobId = None
      /\ jobs'[j].attempt = jobs[j].attempt + 1 /\ jobs[j].attempt < ClaimCap
  BY <1>1, <1>3 DEF ClaimQueued, StoreTypeOK, Row
<1>5. \A v \in Workers : Working(v) => HoldsOn(JobOf(v)) /\ JobOf(v) # j
  BY <1>1, <1>2, GentleRows, OwnedRuns
<1>6. jobs'[j] \in Row /\ jobs'[j].attempt \in Remotes
  <2>1. StoreTypeOK' BY <1>1, StepTypeOK DEF StoreStep
  <2> QED BY <1>1, <1>4, <2>1, DispatcherAssumption, StoreAssumption DEF StoreTypeOK
<1>7. /\ workers[w] = IdleWorker
      /\ \A v \in Workers : v # w => workers'[v] = workers[v]
      /\ workers'[w].pc = "submit" /\ workers'[w].job = j
      /\ workers'[w].attempt = jobs'[j].attempt
  BY <1>6, ForkedWorker DEF DispatchOne
<1> QED BY <1>1, <1>4, <1>5, <1>7, ForkedOwner

LEMMA ResumeOwners ==
  ASSUME BaseInv, BackedInv, OwnerInv, [Next]_vars,
         NEW j \in Jobs, NEW w \in Workers, RecoverRemote(j, w)
  PROVE  OwnerInv'
<1>1. /\ jobs[j] \in Row /\ jobs[j].engineId \in Engines
      /\ jobs[j].remoteJobId \in Remotes
      /\ ShouldRecover(j) /\ UNCHANGED <<jobs, results>>
      /\ UNCHANGED phase /\ pending' = pending \ {j}
  BY DEF RecoverRemote, Recovered, IsBound, BaseInv, RowInv, StoreTypeOK, Row
<1>2. /\ workers[w] = IdleWorker
      /\ \A v \in Workers : v # w => workers'[v] = workers[v]
      /\ workers'[w].pc = "resume" /\ workers'[w].job = j
      /\ workers'[w].attempt = jobs[j].attempt
      /\ workers'[w].remote = jobs[j].remoteJobId
  BY <1>1, ForkedWorker DEF RecoverRemote
<1>3. jobs[j].status = "running" /\ phase # "down" BY <1>1 DEF ShouldRecover
<1>4. \A v \in Workers : Working(v) => HoldsOn(JobOf(v)) /\ JobOf(v) # j
  BY <1>1, RecoveredIsFree, OwnedRuns DEF HoldsOn
<1> QED BY <1>1, <1>2, <1>3, <1>4, ForkedOwner

LEMMA RecoverOwners ==
  ASSUME BaseInv, BackedInv, OwnerInv, [Next]_vars, Recover
  PROVE  OwnerInv'
<1>1. CASE StartupRecovery
  <2>1. /\ \A w \in Workers : ~Working(w)
        /\ UNCHANGED workers /\ phase' = "recovering"
    BY <1>1 DEF StartupRecovery, OwnerInv
  <2>2. \A w \in Workers : ~Working(w)' BY <2>1 DEF Working
  <2> QED BY <2>1, <2>2 DEF OwnerInv
<1>2. CASE StartupRecovered
  BY <1>2, OwnedRuns, QuietOwners DEF StartupRecovered, HoldsOn
<1>3. ASSUME NEW j \in Jobs, RecoverIncomplete(j)
      PROVE  OwnerInv'
  <2>1. /\ ShouldRecover(j) /\ UNCHANGED <<workers, phase>>
        /\ pending' \subseteq pending
        /\ RetryOrFail(j, jobs[j].attempt) \/ UNCHANGED storeVars
    BY <1>3 DEF RecoverIncomplete, Recovered
  <2>2. \A i \in Jobs : i # j => jobs'[i] = jobs[i]
    <3>1. OtherStoreStep(j) \/ UNCHANGED storeVars BY <2>1, RetryIsStoreStep
    <3> QED BY <3>1, OneRow DEF OtherStoreStep, StoreStep, storeVars, BaseInv, RowInv
  <2>3. \A w \in Workers : Working(w) => HoldsOn(JobOf(w))
    BY <2>1, <2>2, RecoveredIsFree, OwnedRuns DEF HoldsOn
  <2> QED BY <2>1, <2>3, QuietOwners
<1>4. ASSUME NEW j \in Jobs, RecoverDeferred(j)
      PROVE  OwnerInv'
  <2>1. UNCHANGED <<jobs, workers, phase>> /\ pending' \subseteq pending
    BY <1>4 DEF RecoverDeferred, Recovered
  <2> QED BY <2>1, OwnedRuns, QuietOwners DEF HoldsOn
<1> QED BY <1>1, <1>2, <1>3, <1>4, ResumeOwners DEF Recover

\* The lease of an owned row does not lapse: nothing stalls.
LEMMA EnvironmentOwners ==
  ASSUME Stalls = {}, BaseInv, BackedInv, OwnerInv, [Next]_vars, Environment
  PROVE  OwnerInv'
<1>1. ASSUME NEW j \in Jobs, TimeLapses(j)
      PROVE  OwnerInv'
  <2>1. /\ \A w \in Workers : Working(w) => JobOf(w) # j
        /\ LeaseLapses(j) /\ UNCHANGED <<workers, phase, pending>>
    BY <1>1 DEF TimeLapses
  <2>2. \A w \in Workers : Working(w) => HoldsOn(JobOf(w))
    BY <2>1, OwnedRuns DEF LeaseLapses, HoldsOn, BaseInv, RowInv, StoreTypeOK, Row
  <2> QED BY <2>1, <2>2, QuietOwners
<1>2. CASE \/ \E j \in Jobs, r \in Remotes : RemoteEnds(j, r) \/ RemoteLost(j, r)
           \/ \E e \in Engines : TimeCools(e)
  <2>1. UNCHANGED <<jobs, workers, phase, pending>>
    BY <1>2 DEF RemoteEnds, RemoteLost, TimeCools
  <2> QED BY <2>1, OwnedRuns, QuietOwners DEF HoldsOn
<1>3. CASE Stop
  <2>1. \A w \in Workers : ~Working(w)' BY <1>3 DEF Stop, Working, IdleWorker
  <2> QED BY <2>1 DEF OwnerInv
<1> QED BY <1>1, <1>2, <1>3 DEF Environment

LEMMA ClientOwners ==
  ASSUME BaseInv, BackedInv, OwnerInv, [Next]_vars, Client
  PROVE  OwnerInv'
<1>1. UNCHANGED <<workers, phase, pending>>
  BY DEF Client, SubmitJob, CancelJob, ProbeEngine
<1>2. \/ UNCHANGED jobs
      \/ \E i \in Jobs : CreateJobIfCapacity(i) \/ RequestCancellation(i)
  BY DEF Client, SubmitJob, CancelJob, ProbeEngine
<1>3. \A w \in Workers : Working(w) => HoldsOn(JobOf(w))
  BY <1>2, GentleRows, OwnedRuns DEF BaseInv, RowInv, HoldsOn
<1> QED BY <1>1, <1>3, QuietOwners

-----------------------------------------------------------------------------
(* The steps of a worker.                                                  *)

\* Going to a label, the fiber keeps the rest.
LEMMA Went ==
  ASSUME BaseInv, NEW w \in Workers, NEW pc, Goes(w, pc)
  PROVE  /\ workers'[w].pc = pc
         /\ workers'[w].job = JobOf(w)
         /\ workers'[w].attempt = workers[w].attempt
         /\ workers'[w].remote = workers[w].remote
         /\ \A v \in Workers : v # w => workers'[v] = workers[v]
<1>1. workers \in [Workers -> WorkerState] /\ workers[w] \in WorkerState
  BY DEF BaseInv
<1> QED BY <1>1 DEF Goes, WorkerState, JobOf

\* An owner that goes on without writing, or with a write that leaves the row
\* to it, still owns it when its new label asks for no more than the old one.
LEMMA OwnerGoesOn ==
  ASSUME BaseInv, BackedInv, OwnerInv, [Next]_vars, NEW w \in Workers, Working(w),
         HoldsOn(JobOf(w)), NEW pc,
         /\ workers'[w].pc = pc
         /\ workers'[w].job = JobOf(w)
         /\ workers'[w].attempt = workers[w].attempt
         /\ workers'[w].remote = workers[w].remote,
         pc # "resume" => jobs'[JobOf(w)].lease = "held",
         pc \in {"bind", "unbound"} => RowOf(w).remoteJobId = None,
         pc \in {"fetch", "call", "save", "succeed", "fail", "failStorage", "cancel"}
           => RowOf(w).remoteJobId = workers[w].remote,
         pc = "retry" => \/ RowOf(w).remoteJobId = None
                         \/ RowOf(w).remoteJobId = workers[w].remote
                              /\ RemoteOf(w) = "gone",
         pc \in {"save", "succeed", "fail", "failStorage", "cancel"}
           => RemoteOf(w) \in Ended
                \/ remote'[JobOf(w)][workers[w].remote] \in Ended,
         pc \notin {"submit", "resume"}
  PROVE  Owns(w)'
<1>1. JobOf(w) \in Jobs /\ workers[w].remote \in Remotes
  BY BusyWorker DEF Working
<1>2. /\ RemoteOf(w) \in Ended => remote'[JobOf(w)][workers[w].remote] \in Ended
      /\ RemoteOf(w) = "gone" => remote'[JobOf(w)][workers[w].remote] = "gone"
  BY <1>1, EndedStays DEF RemoteOf
<1>3. RowOf(w).attempt = workers[w].attempt BY DEF OwnerInv, Owns, OwnsAs
<1>4. OwnsAs(pc, workers[w].attempt, workers[w].remote, jobs'[JobOf(w)],
             remote'[JobOf(w)][workers[w].remote])
  BY <1>2, <1>3 DEF OwnsAs, HoldsOn, RowOf
<1> QED BY <1>4 DEF Owns, RowOf, RemoteOf, JobOf

\* What a renewal leaves of a running row.
LEMMA RenewedRow ==
  ASSUME StoreTypeOK, NEW j \in Jobs, RenewLease(j)
  PROVE  HoldsOn(j) /\ jobs'[j].lease = "held"
BY DEF RenewLease, HoldsOn, StoreTypeOK, Row

\* An engine that knows the job answers with a status.
LEMMA AnswerIsKnown ==
  ASSUME BaseInv, NEW w \in Workers, CallAnswered(w)
  PROVE  remote'[JobOf(w)][workers[w].remote]
           \in {"active", "succeeded", "failed", "cancelled"}
<1>0. JobOf(w) \in Jobs /\ workers[w].remote \in Remotes
  BY BusyWorker DEF CallAnswered, At
<1>1. /\ RemoteOf(w) \in RemoteStatus \ {"none", "gone"}
      /\ UNCHANGED remote \/ SetRemote(w, "cancelled")
  BY <1>0 DEF CallAnswered, CancelAtEngine, BaseInv, At, Submitted, RemoteOf
<1>2. CASE UNCHANGED remote BY <1>1, <1>2 DEF RemoteOf, RemoteStatus
<1>3. CASE SetRemote(w, "cancelled") BY <1>0, <1>3 DEF SetRemote, BaseInv
<1> QED BY <1>1, <1>2, <1>3

\* Every step of an owner that is still at work afterwards.
LEMMA OwnerMoves ==
  ASSUME BaseInv, BackedInv, OwnerInv, [Next]_vars, NEW w \in Workers, Work(w),
         Working(w), Working(w)'
  PROVE  Owns(w)'
<1>0. /\ JobOf(w) \in Jobs /\ workers[w].remote \in Remotes
      /\ EngineOf(w) \in Engines
      /\ workers \in [Workers -> WorkerState] /\ workers[w] \in WorkerState
      /\ StoreTypeOK /\ RowOf(w).status = "running"
  BY BusyWorker, OwnedRuns DEF Working, BaseInv, RowInv, RowOf
<1>o. OwnsAs(workers[w].pc, workers[w].attempt, workers[w].remote, RowOf(w),
             RemoteOf(w))
  BY DEF OwnerInv, Owns
<1>j. UNCHANGED jobs => HoldsOn(JobOf(w)) /\ jobs'[JobOf(w)].lease = RowOf(w).lease
  BY <1>0 DEF HoldsOn, RowOf
<1>x. workers'[w].pc \notin {"idle", "release"} BY DEF Working
<1>1. CASE SubmitAccepted(w)
  <2>1. At(w, "submit") /\ UNCHANGED jobs /\ Goes(w, "bind")
    BY <1>1 DEF SubmitAccepted
  <2> QED BY <1>j, <1>o, <2>1, Went, OwnerGoesOn DEF At, OwnsAs
<1>2. CASE SubmitFails(w)
  <2>1. At(w, "submit") /\ UNCHANGED jobs /\ Goes(w, "retry")
    BY <1>2 DEF SubmitFails
  <2> QED BY <1>j, <1>o, <2>1, Went, OwnerGoesOn DEF At, OwnsAs
<1>3. CASE BindSubmitted(w)
  <2>1. /\ jobs'[JobOf(w)].status = "running"
        /\ jobs'[JobOf(w)].attempt = RowOf(w).attempt
        /\ jobs'[JobOf(w)].lease = "held"
        /\ jobs'[JobOf(w)].remoteJobId = workers[w].remote
    BY <1>0, <1>3 DEF BindSubmitted, BindRemote, StoreTypeOK, Row, RowOf
  <2>2. /\ workers'[w].pc = "fetch" /\ workers'[w].job = JobOf(w)
        /\ workers'[w].attempt = RowOf(w).attempt
        /\ workers'[w].remote = workers[w].remote
    BY <1>0, <1>3 DEF BindSubmitted, WorkerState, JobOf
  <2> QED BY <2>1, <2>2 DEF Owns, OwnsAs, RowOf, RemoteOf, JobOf
<1>4. CASE BindImpossible(w)
  <2>1. At(w, "bind") /\ UNCHANGED jobs /\ Goes(w, "unbound")
    BY <1>4 DEF BindImpossible
  <2> QED BY <1>j, <1>o, <2>1, Went, OwnerGoesOn DEF At, OwnsAs
<1>5. CASE CancelUnbound(w) BY <1>5, <1>x, Went DEF CancelUnbound
<1>6. CASE Resume(w)
  <2>1. At(w, "resume") /\ Goes(w, "fetch") /\ RenewLease(JobOf(w))
    BY <1>0, <1>6, <1>x, Went DEF Resume, IfRunning, RowOf
  <2> QED BY <1>0, <1>o, <2>1, Went, RenewedRow, OwnerGoesOn DEF At, OwnsAs
<1>7. CASE Fetch(w)
  <2>1. At(w, "fetch") /\ RenewLease(JobOf(w)) BY <1>7 DEF Fetch
  <2>2. /\ workers'[w].pc = "call" /\ workers'[w].job = JobOf(w)
        /\ workers'[w].attempt = workers[w].attempt
        /\ workers'[w].remote = workers[w].remote
    BY <1>0, <1>7 DEF Fetch, WorkerState, JobOf
  <2> QED BY <1>0, <1>o, <2>1, <2>2, RenewedRow, OwnerGoesOn DEF At, OwnsAs
<1>8. CASE FetchStops(w) BY <1>8, <1>x, Went DEF FetchStops
<1>9. CASE CallAnswered(w)
  <2> DEFINE answer == remote'[JobOf(w)][workers[w].remote]
  <2>1. /\ At(w, "call") /\ RemoteOf(w) # "gone"
        /\ PersistProgress(w)
        /\ workers' = [workers EXCEPT ![w].pc = AfterAnswer(answer), ![w].failures = 0]
    BY <1>9, <1>x, Went DEF CallAnswered
  <2>2. answer \in {"active", "succeeded", "failed", "cancelled"}
    BY <1>9, AnswerIsKnown
  <2>3. HoldsOn(JobOf(w)) /\ jobs'[JobOf(w)].lease = "held"
    <3>1. UNCHANGED storeVars \/ \E p \in Progress : RecordProgress(JobOf(w), p)
      BY <2>1 DEF PersistProgress, IfRunning
    <3>2. HoldsOn(JobOf(w)) BY <1>0, <3>1, GentleRows DEF RowOf
    <3> QED BY <1>o, <2>1, <3>2 DEF HoldsOn, OwnsAs, At, RowOf
  <2>4. answer # "active" => answer \in Ended BY <2>2 DEF Ended
  <2> HIDE DEF answer
  <2>5. /\ workers'[w].pc = AfterAnswer(answer)
        /\ workers'[w].job = JobOf(w)
        /\ workers'[w].attempt = workers[w].attempt
        /\ workers'[w].remote = workers[w].remote
    BY <1>0, <2>1 DEF WorkerState, JobOf
  <2>6. /\ AfterAnswer(answer) \in {"fetch", "save", "fail", "cancel"}
        /\ AfterAnswer(answer) # "fetch" => answer \in Ended
    BY <2>2, <2>4 DEF AfterAnswer
  <2>7. RowOf(w).remoteJobId = workers[w].remote BY <1>o, <2>1 DEF OwnsAs, At
  <2> QED BY <2>3, <2>5, <2>6, <2>7, OwnerGoesOn DEF answer
<1>10. CASE CallNotFound(w)
  <2>1. /\ At(w, "call") /\ RemoteOf(w) = "gone" /\ UNCHANGED jobs
        /\ Goes(w, "cancel") \/ Goes(w, "retry")
    BY <1>10 DEF CallNotFound
  <2>2. RemoteOf(w) \in Ended BY <2>1 DEF Ended
  <2>3. PICK pc \in {"cancel", "retry"} : Goes(w, pc) BY <2>1
  <2> QED BY <1>j, <1>o, <2>1, <2>2, <2>3, Went, OwnerGoesOn DEF At, OwnsAs
<1>11. CASE CallBusy(w)
  <2>1. At(w, "call") /\ UNCHANGED jobs /\ Goes(w, "fetch") BY <1>11 DEF CallBusy
  <2> QED BY <1>j, <1>o, <2>1, Went, OwnerGoesOn DEF At, OwnsAs
<1>12. CASE CallFails(w)
  <2> DEFINE n == workers[w].failures + 1
             pc == IF n >= FailureThreshold[EngineOf(w)] THEN "release" ELSE "fetch"
  <2>1. /\ At(w, "call") /\ UNCHANGED jobs
        /\ workers' = [workers EXCEPT ![w].failures = n, ![w].pc = pc]
        /\ pc \in {"release", "fetch"}
    BY <1>12 DEF CallFails
  <2> HIDE DEF n, pc
  <2>2. /\ workers'[w].pc = pc /\ workers'[w].job = JobOf(w)
        /\ workers'[w].attempt = workers[w].attempt
        /\ workers'[w].remote = workers[w].remote
    BY <1>0, <2>1 DEF WorkerState, JobOf
  <2>3. pc = "fetch" BY <1>x, <2>1, <2>2
  <2> QED BY <1>j, <1>o, <2>1, <2>2, <2>3, OwnerGoesOn DEF At, OwnsAs
<1>13. CASE SaveOutcome(w)
  <2>1. /\ At(w, "save") /\ UNCHANGED jobs
        /\ Goes(w, "succeed") \/ Goes(w, "failStorage")
    BY <1>13, <1>x, Went DEF SaveOutcome, SaveResults, storeVars
  <2>2. PICK pc \in {"succeed", "failStorage"} : Goes(w, pc) BY <2>1
  <2> QED BY <1>j, <1>o, <2>1, <2>2, Went, OwnerGoesOn DEF At, OwnsAs
<1>14. CASE PersistOutcome(w) BY <1>14, <1>x, Went DEF PersistOutcome
<1>15. CASE ReleaseSlot(w) BY <1>15 DEF ReleaseSlot, At, Working
<1> QED
  BY <1>1, <1>2, <1>3, <1>4, <1>5, <1>6, <1>7, <1>8, <1>9, <1>10, <1>11,
     <1>12, <1>13, <1>14, <1>15 DEF Work

\* A worker writes the row of its own job only, and none once it has let go.
LEMMA WorkRows ==
  ASSUME BaseInv, NEW w \in Workers, Work(w)
  PROVE  /\ UNCHANGED <<phase, pending>>
         /\ \A i \in Jobs : i # JobOf(w) \/ ~Working(w) => jobs'[i] = jobs[i]
         /\ ~Working(w) => ~Working(w)'
         /\ \A v \in Workers : v # w => workers'[v] = workers[v]
         /\ Working(w)' => JobOf(w)' = JobOf(w)
<1>0. JobOf(w) \in Jobs /\ StoreTypeOK /\ workers \in [Workers -> WorkerState]
  BY BusyWorker, IdleDoesNotWork DEF BaseInv, RowInv
<1>1. UNCHANGED <<phase, pending>>
  BY DEF Work, SubmitAccepted, SubmitFails, BindSubmitted, BindImpossible,
         CancelUnbound, Resume, Fetch, FetchStops, CallAnswered, CallNotFound,
         CallBusy, CallFails, SaveOutcome, PersistOutcome, ReleaseSlot
<1>2. ASSUME NEW i \in Jobs, i # JobOf(w) PROVE jobs'[i] = jobs[i]
  <2>1. CASE UNCHANGED storeVars BY <2>1 DEF storeVars
  <2>2. CASE BindSubmitted(w)
    BY <1>0, <1>2, <2>2 DEF BindSubmitted, BindRemote, StoreTypeOK
  <2>3. CASE OtherStoreStep(JobOf(w)) \/ SucceedJob(JobOf(w))
    <3>1. StoreStep(JobOf(w)) BY <2>3 DEF OtherStoreStep, StoreStep
    <3> QED BY <1>0, <1>2, <3>1, OneRow
  <2> QED BY <1>0, <2>1, <2>2, <2>3, WorkIsStoreStep
<1>3. PICK s : /\ workers' = [workers EXCEPT ![w] = s]
               /\ \/ Keeps(workers[w], s)
                  \/ workers[w].pc = "release" /\ s = IdleWorker /\ ReleaseSlot(w)
  BY WorkMovesWorker
<1>4. workers'[w] = s /\ \A v \in Workers : v # w => workers'[v] = workers[v]
  BY <1>0, <1>3
<1>5. Working(w)' => JobOf(w)' = JobOf(w)
  BY <1>3, <1>4 DEF Keeps, Working, IdleWorker, JobOf
<1>6. ASSUME ~Working(w) PROVE UNCHANGED jobs /\ ~Working(w)'
  <2>1. workers[w].pc = "release" BY <1>6, IdleDoesNotWork DEF Working
  <2>2. ReleaseSlot(w)
    BY <2>1 DEF Work, SubmitAccepted, SubmitFails, BindSubmitted, BindImpossible,
         CancelUnbound, Resume, Fetch, FetchStops, CallAnswered, CallNotFound,
         CallBusy, CallFails, SaveOutcome, PersistOutcome, At
  <2> QED BY <1>0, <2>2 DEF ReleaseSlot, Working, IdleWorker
<1> QED BY <1>1, <1>2, <1>4, <1>5, <1>6

LEMMA WorkOwners ==
  ASSUME BaseInv, BackedInv, OwnerInv, [Next]_vars, phase = "serving",
         NEW w \in Workers, Work(w)
  PROVE  OwnerInv'
<1>1. /\ phase' = "serving"
      /\ \A v \in Workers : v # w => workers'[v] = workers[v]
      /\ Working(w)' => Working(w) /\ JobOf(w)' = JobOf(w)
  BY WorkRows
<1>2. \A v \in Workers : v # w =>
        (Working(v)' <=> Working(v)) /\ JobOf(v)' = JobOf(v)
  BY <1>1 DEF Working, JobOf
<1>3. ASSUME NEW v \in Workers, v # w, Working(v)'
      PROVE  Owns(v)'
  <2>1. JobOf(v) \in Jobs /\ jobs[JobOf(v)].status = "running" /\ Working(v)
    BY <1>2, <1>3, OwnedRuns
  <2>2. JobOf(v) # JobOf(w) \/ ~Working(w) BY <1>3, <2>1 DEF OwnerInv
  <2>3. jobs'[JobOf(v)] = jobs[JobOf(v)] BY <2>1, <2>2, WorkRows
  <2> QED BY <1>1, <1>3, <2>1, <2>3, KeptOwner DEF HoldsOn
<1>4. Working(w)' => Owns(w)' BY <1>1, OwnerMoves
<1>5. \A u, v \in Workers :
        Working(u)' /\ Working(v)' /\ JobOf(u)' = JobOf(v)' => u = v
  BY <1>1, <1>2 DEF OwnerInv
<1> QED BY <1>1, <1>3, <1>4, <1>5 DEF OwnerInv

-----------------------------------------------------------------------------
(* One owner.                                                              *)

Inv == BaseInv /\ BackedInv /\ OwnerInv

LEMMA InitOwned == Init => Inv
<1> SUFFICES ASSUME Init PROVE OwnerInv
  BY InitBase, InitBacked DEF Inv
<1>1. \A w \in Workers : ~Working(w) BY DEF Init, IdleWorker, Working
<1> QED BY <1>1 DEF OwnerInv

LEMMA StepOwned ==
  ASSUME Stalls = {}, Inv, [Next]_vars
  PROVE  Inv'
<1> USE DEF Inv
<1> SUFFICES OwnerInv' BY StepBase, StepBacked
<1>2. CASE UNCHANGED vars
  BY <1>2, OwnedRuns, QuietOwners DEF vars, HoldsOn
<1>3. CASE Client BY <1>3, ClientOwners
<1>4. CASE Schedule
  <2>1. ASSUME NEW j \in Jobs, NEW e \in Engines, DispatchClaimFails(j, e)
        PROVE  OwnerInv'
    BY <2>1, OwnedRuns, QuietOwners DEF DispatchClaimFails, HoldsOn
  <2> QED BY <1>4, <2>1, DispatchOwners DEF Schedule
<1>5. CASE Recover BY <1>5, RecoverOwners
<1>6. CASE phase = "serving" /\ \E w \in Workers : Work(w) BY <1>6, WorkOwners
<1>7. CASE Environment BY <1>7, EnvironmentOwners
<1> QED BY <1>2, <1>3, <1>4, <1>5, <1>6, <1>7 DEF Next

\* However claims, resumed work, deferred work, cancellations, stops and every
\* fault interleave: while leases outlast the phases of a worker, a job has one
\* fiber at most, which drives the attempt its row records.
THEOREM JobsHaveOneOwner ==
  ASSUME Stalls = {}
  PROVE  Spec => []OneOwner
<1>1. Inv /\ [Next]_vars => Inv' BY StepOwned
<1>2. ASSUME Inv PROVE OneOwner
  <2> SUFFICES ASSUME NEW j \in Jobs
               PROVE  /\ Cardinality(Owners(j)) <= 1
                      /\ \A w \in Owners(j) : /\ jobs[j].status = "running"
                                              /\ jobs[j].attempt = workers[w].attempt
    BY DEF OneOwner
  <2>1. \A w \in Owners(j) : /\ jobs[j].status = "running"
                             /\ jobs[j].attempt = workers[w].attempt
    BY <1>2 DEF Inv, OwnerInv, Owners, Owns, OwnsAs, RowOf
  <2>2. CASE Owners(j) = {} BY <2>1, <2>2, FS_EmptySet
  <2>3. CASE Owners(j) # {}
    <3>1. PICK w : w \in Owners(j) BY <2>3
    <3>2. Owners(j) = {w} BY <1>2, <3>1 DEF Inv, OwnerInv, Owners
    <3> QED BY <2>1, <3>2, FS_Singleton
  <2> QED BY <2>2, <2>3
<1> QED BY <1>1, <1>2, InitOwned, PTL DEF Spec

-----------------------------------------------------------------------------
(* What a job is queued again for.                                         *)

\* The reasons to queue a running job again.
Requeued(j) ==
  /\ jobs[j].attempt < MaxAttempts
  /\ jobs[j].remoteJobId # None => remote[j][jobs[j].remoteJobId] = "gone"

\* Only a retry queues a running job: a pass asks for it, on finding the row
\* incomplete, or the fiber at work on the job does.
LEMMA WhoRequeues ==
  ASSUME BaseInv, [Next]_vars, NEW j \in Jobs,
         jobs[j].status = "running", jobs'[j].status = "queued"
  PROVE  \/ RecoverIncomplete(j) /\ RetryOrFail(j, jobs[j].attempt)
         \/ \E w \in Workers : /\ At(w, "retry") /\ JobOf(w) = j
                               /\ RetryOrFail(j, workers[w].attempt)
<1>0. StoreTypeOK /\ jobs[j] \in Row BY DEF BaseInv, RowInv, StoreTypeOK
<1>1. ASSUME NEW i \in Jobs,
             \/ CreateJobIfCapacity(i) \/ RequestCancellation(i) \/ ClaimQueued(i)
             \/ RenewLease(i) \/ SaveResults(i)
             \/ \E p \in Progress : RecordProgress(i, p)
      PROVE  FALSE
  BY <1>0, <1>1, GentleRows DEF HoldsOn
<1>2. ~UNCHANGED jobs OBVIOUS
<1>3. CASE Client BY <1>1, <1>2, <1>3 DEF Client, SubmitJob, CancelJob, ProbeEngine
<1>4. CASE Schedule BY <1>1, <1>2, <1>4 DEF Schedule, DispatchOne, DispatchClaimFails
<1>5. CASE Recover
  <2>1. PICK i \in Jobs : RecoverIncomplete(i)
    BY <1>2, <1>5 DEF Recover, StartupRecovery, StartupRecovered, RecoverRemote,
                     RecoverDeferred
  <2>2. RetryOrFail(i, jobs[i].attempt)
    BY <1>2, <2>1 DEF RecoverIncomplete, storeVars
  <2>3. i = j
    <3>1. OtherStoreStep(i) \/ UNCHANGED storeVars BY <2>2, RetryIsStoreStep
    <3> QED BY <1>0, <3>1, OneRow DEF OtherStoreStep, StoreStep, storeVars
  <2> QED BY <2>1, <2>2, <2>3
<1>6. CASE \E w \in Workers : Work(w)
  <2>1. PICK w \in Workers : Work(w) BY <1>6
  <2>2. j = JobOf(w) /\ Working(w) BY <2>1, WorkRows
  <2>4. CASE At(w, "retry") /\ PersistOutcome(w)
    <3>1. RetryOrFail(j, workers[w].attempt)
      BY <1>2, <2>2, <2>4 DEF PersistOutcome, OutcomeWrite, At, storeVars
    <3> QED BY <2>2, <2>4, <3>1
  <2>5. CASE ~(At(w, "retry") /\ PersistOutcome(w))
    <3>1. CASE PersistOutcome(w)
      <4>1. workers[w].pc \in {"succeed", "fail", "failStorage", "cancel"}
              /\ OutcomeWrite(w)
        BY <1>2, <2>5, <3>1 DEF PersistOutcome, At, storeVars
      <4>2. \/ IfRunning(j, SucceedJob(j)) \/ IfRunning(j, FailJob(j))
            \/ IfRunning(j, FailStorageJob(j)) \/ IfRunning(j, CancelRemoteJob(j))
        BY <2>2, <4>1 DEF OutcomeWrite
      <4> QED
        BY <1>0, <4>2 DEF IfRunning, SucceedJob, FailJob, FailStorageJob,
             CancelRemoteJob, TransitionJob, StoreTypeOK, Row, storeVars
    <3>2. CASE BindSubmitted(w)
      BY <1>0, <2>2, <3>2 DEF BindSubmitted, BindRemote, StoreTypeOK, Row
    <3>3. CASE Resume(w)
      BY <1>1, <1>2, <2>2, <3>3 DEF Resume, IfRunning, storeVars
    <3>4. CASE Fetch(w) BY <1>1, <2>2, <3>4 DEF Fetch
    <3>5. CASE CallAnswered(w)
      <4>1. PersistProgress(w) \/ UNCHANGED storeVars BY <3>5 DEF CallAnswered
      <4>2. \E p \in Progress : RecordProgress(j, p)
        BY <1>2, <2>2, <4>1 DEF PersistProgress, IfRunning, storeVars
      <4> QED BY <1>1, <4>2
    <3>6. CASE SaveOutcome(w)
      BY <1>2, <3>6 DEF SaveOutcome, SaveResults, storeVars
    <3> QED
      BY <1>2, <2>1, <3>1, <3>2, <3>3, <3>4, <3>5, <3>6
         DEF Work, SubmitAccepted, SubmitFails, BindImpossible, CancelUnbound,
             FetchStops, CallNotFound, CallBusy, CallFails, ReleaseSlot
  <2> QED BY <2>4, <2>5
<1>7. CASE Environment
  <2>1. PICK i \in Jobs : LeaseLapses(i)
    BY <1>2, <1>7 DEF Environment, TimeLapses, RemoteEnds, RemoteLost, TimeCools, Stop
  <2> QED BY <1>0, <2>1 DEF LeaseLapses, StoreTypeOK, Row
<1> QED BY <1>2, <1>3, <1>4, <1>5, <1>6, <1>7 DEF Next, vars

\* A retry is counted, and spares what an engine may still compute.
LEMMA RetryRequeues ==
  ASSUME Inv, [Next]_vars, NEW j \in Jobs,
         jobs[j].status = "running", jobs'[j].status = "queued"
  PROVE  Requeued(j)
<1>0. StoreTypeOK /\ jobs[j] \in Row BY DEF Inv, BaseInv, RowInv, StoreTypeOK
<1>1. ASSUME NEW attempt, RetryOrFail(j, attempt)
      PROVE  attempt < MaxAttempts
  BY <1>0, <1>1 DEF RetryOrFail, IfRunning, FailJob, TransitionJob, StoreTypeOK, Row
<1>2. CASE RecoverIncomplete(j) /\ RetryOrFail(j, jobs[j].attempt)
  BY <1>1, <1>2 DEF RecoverIncomplete, IsBound, Inv, BaseInv, RowInv,
                    BindingOnlyWhileRunning, Requeued
<1>3. ASSUME NEW w \in Workers, At(w, "retry"), JobOf(w) = j,
             RetryOrFail(j, workers[w].attempt)
      PROVE  Requeued(j)
  <2>1. workers[w].attempt < MaxAttempts BY <1>1, <1>3
  <2>2. Owns(w) BY <1>3 DEF Inv, OwnerInv, At, Working
  <2> QED BY <1>3, <2>1, <2>2 DEF Owns, OwnsAs, At, Requeued, RowOf, RemoteOf
<1> QED BY <1>2, <1>3, WhoRequeues DEF Inv

\* A retry of bound work is founded: the engine did lose it, whatever else
\* fails between two looks at it.
THEOREM BoundWorkIsKept ==
  ASSUME Stalls = {}
  PROVE  Spec => BoundWorkIsNotRedone
<1>1. Inv /\ [Next]_vars => Inv' BY StepOwned
<1>2. ASSUME Inv, [Next]_vars
      PROVE  [\A j \in Jobs :
                jobs[j].remoteJobId # None /\ jobs'[j].status = "queued"
                  => remote[j][jobs[j].remoteJobId] = "gone"]_vars
  <2> SUFFICES ASSUME NEW j \in Jobs, jobs[j].remoteJobId # None,
                      jobs'[j].status = "queued"
               PROVE  remote[j][jobs[j].remoteJobId] = "gone"
    OBVIOUS
  <2>1. jobs[j].status = "running"
    BY <1>2 DEF Inv, BaseInv, RowInv, BindingOnlyWhileRunning
  <2> QED BY <1>2, <2>1, RetryRequeues DEF Requeued
<1> QED BY <1>1, <1>2, InitOwned, PTL DEF Spec, BoundWorkIsNotRedone

-----------------------------------------------------------------------------
(* Work nobody will ask about.                                             *)

Active(j) == {r \in Remotes : remote[j][r] = "active"}

\* A fiber that is about to bind this submission.
Binds(w, j, r) == At(w, "bind") /\ JobOf(w) = j /\ workers[w].remote = r

\* What an engine computes for a job, and neither the row nor a fiber that is
\* about to bind it names.
Strays(j) ==
  {r \in Active(j) : /\ jobs[j].remoteJobId # r
                     /\ ~\E w \in Workers : Binds(w, j, r)}

StrayInv ==
  \A j \in Jobs :
    /\ IsFiniteSet(Strays(j))
    /\ Cardinality(Strays(j)) <= faults.orphaning

LEMMA FaultsGrow ==
  ASSUME BaseInv, [Next]_vars
  PROVE  /\ faults.orphaning \in Nat /\ faults'.orphaning \in Nat
         /\ faults'.orphaning >= faults.orphaning
<1>1. faults.orphaning \in Nat /\ faults'.orphaning \in Nat
  BY StepProcess DEF BaseInv
<1>2. ASSUME NEW kind, NoFault \/ Fault(kind)
      PROVE  faults'.orphaning \in {faults.orphaning, faults.orphaning + 1}
  BY <1>2 DEF NoFault, Fault, BaseInv
<1>3. faults'.orphaning \in {faults.orphaning, faults.orphaning + 1}
  <2>1. CASE Client BY <1>2, <2>1 DEF Client, SubmitJob, CancelJob, ProbeEngine
  <2>2. CASE Schedule
    BY <1>2, <2>2 DEF Schedule, DispatchOne, DispatchClaimFails
  <2>3. CASE Recover
    BY <1>2, <2>3 DEF Recover, StartupRecovery, StartupRecovered,
         RecoverIncomplete, RecoverRemote, RecoverDeferred
  <2>4. CASE \E w \in Workers : Work(w)
    BY <1>2, <2>4 DEF Work, SubmitAccepted, SubmitFails, BindSubmitted,
         BindImpossible, CancelUnbound, Resume, Fetch, FetchStops, CallAnswered,
         CallNotFound, CallBusy, CallFails, SaveOutcome, PersistOutcome,
         ReleaseSlot, NoFault
  <2>5. CASE Environment
    BY <1>2, <2>5 DEF Environment, TimeLapses, RemoteEnds, RemoteLost, TimeCools,
         Stop
  <2> QED BY <2>1, <2>2, <2>3, <2>4, <2>5 DEF Next, vars
<1> QED BY <1>1, <1>3

\* A fault that may orphan work is counted as one.
LEMMA OrphaningCounts ==
  ASSUME BaseInv, NEW kind \in Orphaning, Fault(kind)
  PROVE  faults'.orphaning = faults.orphaning + 1
BY DEF Fault, BaseInv

\* A row gives up its binding only to work that has ended.
LEMMA ActiveStaysBound ==
  ASSUME Inv, [Next]_vars, NEW j \in Jobs, NEW r \in Active(j),
         jobs[j].remoteJobId = r
  PROVE  jobs'[j].remoteJobId = r
<1> USE DEF Inv
<1>0. /\ r \in Remotes /\ remote[j][r] = "active"
      /\ StoreTypeOK /\ jobs[j] \in Row /\ r # None
      /\ jobs[j].status = "running"
  BY StoreAssumption
     DEF Active, BaseInv, RowInv, StoreTypeOK, BindingOnlyWhileRunning
<1>1. CASE UNCHANGED storeVars BY <1>1 DEF storeVars
<1>2. ASSUME NEW w \in Workers, Working(w), JobOf(w) = j
      PROVE  workers[w].pc \notin {"submit", "bind", "unbound", "save", "succeed",
                                   "fail", "failStorage", "cancel", "retry"}
  <2>1. Owns(w) BY <1>2 DEF OwnerInv
  <2> QED BY <1>0, <1>2, <2>1 DEF Owns, OwnsAs, RowOf, RemoteOf, Ended
<1>3. ASSUME NEW w \in Workers, BindSubmitted(w)
      PROVE  jobs'[j].remoteJobId = r
  <2>1. Working(w) /\ At(w, "bind") BY <1>3 DEF BindSubmitted, At, Working
  <2>2. JobOf(w) # j BY <1>2, <2>1 DEF At
  <2> QED BY <1>0, <1>3, <2>2 DEF BindSubmitted, BindRemote, StoreTypeOK
<1>4. ASSUME NEW w \in Workers, At(w, "succeed"), SucceedJob(JobOf(w))
      PROVE  jobs'[j].remoteJobId = r
  <2>1. Working(w) BY <1>4 DEF At, Working
  <2>2. JobOf(w) # j BY <1>2, <1>4, <2>1 DEF At
  <2> QED BY <1>0, <1>4, <2>2 DEF SucceedJob, TransitionJob, StoreTypeOK
<1>5. CASE jobs'[j].status = "running"
  <2>1. ASSUME NEW i \in Jobs, OtherStoreStep(i)
        PROVE  jobs'[j].remoteJobId = r
    <3>1. CASE i # j BY <1>0, <2>1, <3>1, OneRow DEF OtherStoreStep, StoreStep
    <3>2. CASE i = j
      BY <1>0, <1>5, <2>1, <3>2
         DEF OtherStoreStep, CreateJobIfCapacity, RequestCancellation, ClaimQueued,
             RenewLease, RecordProgress, SaveResults, RequeueJob, FailJob,
             FailStorageJob, CancelRemoteJob, TransitionJob, LeaseLapses,
             StoreTypeOK, Row
    <3> QED BY <3>1, <3>2
  <2> QED BY <1>1, <1>3, <1>4, <2>1, TableMoves
<1>6. CASE jobs'[j].status # "running"
  <2>1. PICK w \in Workers :
          /\ Working(w) /\ JobOf(w) = j
          /\ workers[w].pc \in {"succeed", "fail", "failStorage", "cancel", "retry"}
    <3>1. CASE \E i \in Jobs : RecoverIncomplete(i)
      <4>1. PICK i \in Jobs : RecoverIncomplete(i) BY <3>1
      <4>2. ~IsBound(i) BY <4>1 DEF RecoverIncomplete
      <4>3. OtherStoreStep(i) \/ UNCHANGED storeVars
        BY <4>1, RetryIsStoreStep DEF RecoverIncomplete
      <4>4. i = j
        BY <1>0, <1>6, <4>3, OneRow DEF OtherStoreStep, StoreStep, storeVars
      <4> QED
        BY <1>0, <4>2, <4>4 DEF IsBound, BaseInv, RowInv, BindingOnlyWhileRunning
    <3>2. CASE \E w \in Workers : Work(w)
      <4>1. PICK w \in Workers : Work(w) BY <3>2
      <4>2. Working(w) /\ JobOf(w) = j BY <1>0, <1>6, <4>1, WorkRows
      <4>3. PersistOutcome(w)
        <5>1. ASSUME \/ RenewLease(j) \/ SaveResults(j) \/ UNCHANGED storeVars
                     \/ \E p \in Progress : RecordProgress(j, p)
              PROVE  FALSE
          BY <1>0, <1>6, <5>1, GentleRows DEF HoldsOn
        <5>2. ~BindSubmitted(w)
          BY <1>0, <1>6, <4>2 DEF BindSubmitted, BindRemote, StoreTypeOK, Row
        <5> QED
          BY <4>1, <4>2, <5>1, <5>2
             DEF Work, SubmitAccepted, SubmitFails, BindImpossible, CancelUnbound,
                 Resume, Fetch, FetchStops, CallAnswered, PersistProgress,
                 CallNotFound, CallBusy, CallFails, SaveOutcome, ReleaseSlot,
                 IfRunning, storeVars
      <4> QED BY <4>2, <4>3 DEF PersistOutcome
    <3>3. CASE Client \/ Schedule \/ Environment
      <4>1. \/ UNCHANGED jobs
            \/ \E i \in Jobs : \/ CreateJobIfCapacity(i) \/ RequestCancellation(i)
                               \/ ClaimQueued(i) \/ LeaseLapses(i)
        BY <3>3 DEF Client, SubmitJob, CancelJob, ProbeEngine, Schedule, DispatchOne,
                    DispatchClaimFails, Environment, TimeLapses, RemoteEnds,
                    RemoteLost, TimeCools, Stop
      <4>2. ASSUME NEW i \in Jobs, LeaseLapses(i)
            PROVE  jobs'[j].status = "running"
        BY <1>0, <4>2 DEF LeaseLapses, StoreTypeOK, Row
      <4> QED BY <1>0, <1>6, <4>1, <4>2, GentleRows DEF HoldsOn
    <3>4. ~UNCHANGED jobs BY <1>0, <1>6
    <3> QED
      BY <3>1, <3>2, <3>3, <3>4 DEF Next, vars, Recover, StartupRecovery,
         StartupRecovered, RecoverRemote, RecoverDeferred
  <2> QED BY <1>2, <2>1
<1> QED BY <1>5, <1>6

\* What becomes a stray was its owner's, and a fault is counted for it.
LEMMA NewStray ==
  ASSUME Stalls = {}, Inv, [Next]_vars, NEW j \in Jobs, NEW r \in Strays(j)',
         r \notin Strays(j)
  PROVE  /\ faults'.orphaning = faults.orphaning + 1
         /\ \E w \in Workers : /\ Working(w) /\ JobOf(w) = j
                               /\ workers[w].remote = r
<1> USE DEF Inv
<1>0. /\ r \in Remotes /\ remote'[j][r] = "active" /\ jobs'[j].remoteJobId # r
      /\ ~\E w \in Workers : Binds(w, j, r)'
  BY DEF Strays, Active
<1>s. CASE Stop
  <2>1. faults'.orphaning = faults.orphaning + 1
    BY <1>s, OrphaningCounts DEF Stop, Orphaning
  <2>2. CASE remote[j][r] = "active"
    <3>1. jobs[j].remoteJobId # r BY <1>0, <2>2, ActiveStaysBound DEF Active
    <3>2. PICK w \in Workers : Binds(w, j, r) BY <1>0, <2>2, <3>1 DEF Strays, Active
    <3> QED BY <2>1, <3>2 DEF Binds, At, Working
  <2>3. CASE remote[j][r] # "active"
    <3>1. PICK w \in Workers :
            workers[w].pc = "submit" /\ JobOf(w) = j /\ workers[w].remote = r
      BY <1>0, <2>3, StepCells DEF CellMoves
    <3> QED BY <2>1, <3>1 DEF Working
  <2> QED BY <2>2, <2>3
<1>1. CASE remote[j][r] # "active" /\ ~Stop
  <2>1. PICK w \in Workers : Work(w)
    <3>1. ~UNCHANGED remote BY <1>0, <1>1
    <3>2. ASSUME NEW i \in Jobs, NEW q \in Remotes, RemoteEnds(i, q) \/ RemoteLost(i, q)
          PROVE  FALSE
      BY <1>0, <1>1, <3>2 DEF RemoteEnds, RemoteLost, BaseInv
    <3> QED
      BY <1>1, <3>1, <3>2
         DEF Next, vars, Client, SubmitJob, CancelJob, ProbeEngine, Schedule,
             DispatchOne, DispatchClaimFails, Recover, StartupRecovery,
             StartupRecovered, RecoverIncomplete, RecoverRemote, RecoverDeferred,
             Recovered, Environment, TimeLapses, TimeCools
  <2>2. j = JobOf(w) /\ r = workers[w].remote BY <1>0, <1>1, <2>1, WorkKeepsCells
  <2>3. workers[w].pc = "submit"
    <3>1. ~UNCHANGED remote BY <1>0, <1>1
    <3>2. RemoteOf(w) # "active" BY <1>1, <2>2 DEF RemoteOf
    <3> QED BY <2>1, <3>1, <3>2, WorkOnRemote
  <2>4. ~SubmitAccepted(w)
    <3> SUFFICES ASSUME SubmitAccepted(w) PROVE FALSE OBVIOUS
    <3>1. Goes(w, "bind") BY DEF SubmitAccepted
    <3>2. Binds(w, j, r)' BY <2>2, <3>1, Went DEF Binds, At, JobOf
    <3> QED BY <1>0, <3>2
  <2>5. SubmitFails(w)
    BY <2>1, <2>3, <2>4
       DEF Work, BindSubmitted, BindImpossible, CancelUnbound, Resume, Fetch,
           FetchStops, CallAnswered, CallNotFound, CallBusy, CallFails,
           SaveOutcome, PersistOutcome, ReleaseSlot, At
  <2>6. Fault("reply") BY <1>0, <1>1, <2>5 DEF SubmitFails
  <2> QED BY <2>2, <2>3, <2>6, OrphaningCounts DEF Orphaning, Working
<1>2. CASE remote[j][r] = "active" /\ ~Stop
  <2>1. jobs[j].remoteJobId # r BY <1>0, <1>2, ActiveStaysBound DEF Active
  <2>2. PICK v \in Workers : Binds(v, j, r)
    BY <1>0, <1>2, <2>1 DEF Strays, Active
  <2>3. Working(v) /\ workers[v].pc = "bind" BY <2>2 DEF Binds, At, Working
  <2>4. workers'[v] # workers[v] BY <1>0, <2>2 DEF Binds, At, JobOf
  <2>5. Work(v)
    <3>1. ASSUME NEW w \in Workers, Work(w) PROVE Work(v)
      BY <2>4, <3>1, WorkRows
    <3>2. ASSUME NEW w \in Workers, NEW s, NextIdle(w),
                 workers' = [workers EXCEPT ![w] = s]
          PROVE  FALSE
      BY <2>3, <2>4, <3>2 DEF NextIdle, BaseInv
    <3>3. ~UNCHANGED workers BY <2>4
    <3>4. ~Schedule
      BY <3>2, <3>3 DEF Schedule, DispatchOne, DispatchClaimFails, Started
    <3>5. ~Recover
      BY <3>2, <3>3 DEF Recover, StartupRecovery, StartupRecovered,
         RecoverIncomplete, RecoverRemote, RecoverDeferred, Started
    <3> QED
      BY <1>2, <3>1, <3>3, <3>4, <3>5
         DEF Next, vars, Client, SubmitJob, CancelJob, ProbeEngine, Environment,
             TimeLapses, RemoteEnds, RemoteLost, TimeCools
  <2>6. ~BindSubmitted(v)
    <3> SUFFICES ASSUME BindSubmitted(v) PROVE FALSE OBVIOUS
    <3>1. jobs'[j].remoteJobId = r
      BY <2>2 DEF BindSubmitted, BindRemote, Binds, BaseInv, RowInv, StoreTypeOK, Row
    <3> QED BY <1>0, <3>1
  <2>7. BindImpossible(v)
    BY <2>3, <2>5, <2>6
       DEF Work, SubmitAccepted, SubmitFails, CancelUnbound, Resume, Fetch,
           FetchStops, CallAnswered, CallNotFound, CallBusy, CallFails,
           SaveOutcome, PersistOutcome, ReleaseSlot, At
  <2>8. RowOf(v).status = "running" BY <2>3, OwnedRuns DEF RowOf
  <2>9. Fault("bind") BY <2>7, <2>8 DEF BindImpossible
  <2> QED BY <2>2, <2>3, <2>9, OrphaningCounts DEF Orphaning, Binds
<1> QED BY <1>s, <1>1, <1>2

LEMMA FiniteStrays ==
  \A j \in Jobs : IsFiniteSet(Strays(j)) /\ IsFiniteSet(Strays(j)')
<1>1. IsFiniteSet(Remotes)
  BY FS_Interval, DispatcherAssumption, StoreAssumption
<1> QED BY <1>1, FS_Subset DEF Strays, Active

LEMMA StepStrays ==
  ASSUME Stalls = {}, Inv, StrayInv, [Next]_vars
  PROVE  StrayInv'
<1> SUFFICES ASSUME NEW j \in Jobs
             PROVE  Cardinality(Strays(j)') <= faults'.orphaning
  BY FiniteStrays DEF StrayInv
<1>1. /\ Cardinality(Strays(j)) \in Nat /\ Cardinality(Strays(j)') \in Nat
      /\ Cardinality(Strays(j)) <= faults.orphaning
  BY FiniteStrays, FS_CardinalityType DEF StrayInv
<1>2. /\ faults.orphaning \in Nat /\ faults'.orphaning \in Nat
      /\ faults'.orphaning >= faults.orphaning
  BY FaultsGrow DEF Inv
<1>3. CASE Strays(j)' \subseteq Strays(j)
  <2>1. Cardinality(Strays(j)') <= Cardinality(Strays(j))
    BY <1>3, FiniteStrays, NoMore
  <2> QED BY <1>1, <1>2, <2>1
<1>4. CASE ~(Strays(j)' \subseteq Strays(j))
  <2>1. PICK r \in Strays(j)' : r \notin Strays(j) BY <1>4
  <2>2. faults'.orphaning = faults.orphaning + 1 BY <2>1, NewStray
  <2>3. Strays(j)' \subseteq Strays(j) \cup {r}
    BY <2>1, NewStray DEF Inv, OwnerInv
  <2>4. /\ Cardinality(Strays(j) \cup {r}) \in Nat
        /\ Cardinality(Strays(j) \cup {r}) <= Cardinality(Strays(j)) + 1
    BY FiniteStrays, OneMore
  <2>5. IsFiniteSet(Strays(j) \cup {r}) BY FiniteStrays, FS_AddElement
  <2>6. Cardinality(Strays(j)') <= Cardinality(Strays(j) \cup {r})
    BY <2>3, <2>5, NoMore
  <2> QED BY <1>1, <1>2, <2>2, <2>4, <2>6
<1> QED BY <1>3, <1>4

\* For every number of jobs, engines, slots, claims and faults: the engines
\* compute a job once, plus once for each stop, lost answer and failed bind.
\* Retries, resumed and deferred work, cancellations and every other fault add
\* nothing.
THEOREM WorkIsNotDuplicated ==
  ASSUME Stalls = {}
  PROVE  Spec => []NoDuplicateWork
<1>1. Init => Inv /\ StrayInv
  <2> SUFFICES ASSUME Init PROVE StrayInv BY InitOwned
  <2>1. \A j \in Jobs : Strays(j) = {} BY DEF Init, Strays, Active
  <2> QED BY <2>1, FS_EmptySet DEF StrayInv, Init
<1>2. Inv /\ StrayInv /\ [Next]_vars => Inv' /\ StrayInv' BY StepOwned, StepStrays
<1>3. ASSUME Inv, StrayInv PROVE NoDuplicateWork
  <2> SUFFICES ASSUME NEW j \in Jobs
               PROVE  Cardinality(Active(j)) <= 1 + faults.orphaning
    BY DEF NoDuplicateWork, Active
  <2>1. /\ IsFiniteSet(Strays(j)) /\ Cardinality(Strays(j)) \in Nat
        /\ Cardinality(Strays(j)) <= faults.orphaning
        /\ faults.orphaning \in Nat
    BY <1>3, FS_CardinalityType DEF StrayInv, Inv, BaseInv
  <2>2. PICK r : Active(j) \subseteq Strays(j) \cup {r}
    <3>1. CASE \E w \in Workers : At(w, "bind") /\ JobOf(w) = j
      <4>1. PICK w \in Workers : At(w, "bind") /\ JobOf(w) = j BY <3>1
      <4>2. Working(w) /\ Owns(w) BY <1>3, <4>1 DEF At, Working, Inv, OwnerInv
      <4>3. jobs[j].remoteJobId = None BY <4>1, <4>2 DEF Owns, OwnsAs, At, RowOf
      <4>4. \A v \in Workers : At(v, "bind") /\ JobOf(v) = j => v = w
        BY <1>3, <4>1 DEF At, Working, Inv, OwnerInv
      <4>5. \A q \in Active(j) : q # workers[w].remote => q \in Strays(j)
        BY <4>3, <4>4, StoreAssumption DEF Strays, Active, Binds
      <4> QED BY <4>5
    <3>2. CASE ~\E w \in Workers : At(w, "bind") /\ JobOf(w) = j
      <4>1. \A q \in Active(j) : q # jobs[j].remoteJobId => q \in Strays(j)
        BY <3>2 DEF Strays, Binds
      <4> QED BY <4>1
    <3> QED BY <3>1, <3>2
  <2>3. /\ IsFiniteSet(Strays(j) \cup {r})
        /\ Cardinality(Strays(j) \cup {r}) \in Nat
        /\ Cardinality(Strays(j) \cup {r}) <= Cardinality(Strays(j)) + 1
    BY <2>1, FS_AddElement, OneMore
  <2>4. /\ Cardinality(Active(j)) \in Nat
        /\ Cardinality(Active(j)) <= Cardinality(Strays(j) \cup {r})
    BY <2>2, <2>3, NoMore
  <2> QED BY <2>1, <2>3, <2>4
<1> QED BY <1>1, <1>2, <1>3, PTL DEF Spec

-----------------------------------------------------------------------------
(* The life of a job.                                                      *)

\* Whoever waits may be attempted once more.
AttemptInv ==
  \A j \in Jobs :
    /\ jobs[j].status = "absent" => jobs[j].attempt = 0
    /\ jobs[j].status = "queued" => jobs[j].attempt < MaxAttempts

LEMMA StepWaiting ==
  ASSUME Inv, AttemptInv, [Next]_vars
  PROVE  AttemptInv'
<1> SUFFICES ASSUME NEW j \in Jobs
             PROVE  /\ jobs'[j].status = "absent" => jobs'[j].attempt = 0
                    /\ jobs'[j].status = "queued" => jobs'[j].attempt < MaxAttempts
  BY DEF AttemptInv
<1>1. StoreTypeOK BY DEF Inv, BaseInv, RowInv
<1>2. CASE jobs'[j] = jobs[j] BY <1>2 DEF AttemptInv
<1>3. ASSUME StoreStep(j)
      PROVE  /\ jobs'[j].status = "absent" => jobs'[j].attempt = 0
             /\ jobs'[j].status = "queued" => jobs'[j].attempt < MaxAttempts
  <2>1. CASE jobs'[j].status \in {"absent", "queued"}
    <3>1. ~ClaimQueued(j)
      BY <1>1, <2>1 DEF ClaimQueued, StoreTypeOK, Row
    <3>2. jobs'[j].attempt = jobs[j].attempt BY <1>1, <1>3, <3>1, StepAttempts
    <3>3. CASE jobs'[j].status = jobs[j].status BY <3>2, <3>3 DEF AttemptInv
    <3>4. CASE jobs[j].status = "absent" /\ jobs'[j].status = "queued"
      BY <3>2, <3>4, DispatcherAssumption DEF AttemptInv
    <3>5. CASE jobs[j].status = "running" /\ jobs'[j].status = "queued"
      BY <3>2, <3>5, RetryRequeues DEF Requeued
    <3> QED BY <1>1, <1>3, <2>1, <3>3, <3>4, <3>5, RowMoves DEF Terminal
  <2> QED BY <2>1
<1>4. CASE UNCHANGED storeVars BY <1>2, <1>4 DEF storeVars
<1>5. CASE StoreNext
  <2>1. PICK i \in Jobs : StoreStep(i) BY <1>5 DEF StoreNext
  <2> QED BY <1>1, <1>2, <1>3, <2>1, OneRow
<1> QED BY <1>4, <1>5, StepIsStoreStep DEF Inv

\* The dispatcher keeps the promised life of a job: one end, and no more starts
\* than the retry policy allows, over any crashes, resumptions and retries.
THEOREM DispatcherKeepsJobLife ==
  ASSUME Stalls = {}
  PROVE  Spec => KeepsJobLife
<1>1. Init => Inv /\ AttemptInv
  <2>1. Init => AttemptInv BY DEF Init, StoreInit, NoRow, AttemptInv
  <2> QED BY <2>1, InitOwned
<1>2. Inv /\ AttemptInv /\ [Next]_vars => Inv' /\ AttemptInv'
  BY StepOwned, StepWaiting
<1>3. Init => JobLife!Init
  BY DEF Init, StoreInit, NoRow, JobLife!Init
<1> DEFINE phases == [j \in Jobs |-> jobs[j].status]
           attempts == [j \in Jobs |-> jobs[j].attempt]
<1>4. ASSUME Inv, AttemptInv, [Next]_vars
      PROVE  [JobLife!Next]_<<phases, attempts>>
  <2>1. [Lifecycle!Next]_<<phases, attempts>>
    BY <1>4, StepIsStoreStep, StepLifecycle DEF Inv, BaseInv
  <2> SUFFICES ASSUME Lifecycle!Next PROVE JobLife!Next
    BY <2>1
  <2>2. PICK j \in Jobs :
          \/ Lifecycle!Submit(j) \/ Lifecycle!Start(j) \/ Lifecycle!Retry(j)
          \/ Lifecycle!Succeed(j) \/ Lifecycle!Fail(j) \/ Lifecycle!Cancel(j)
    BY DEF Lifecycle!Next
  <2>3. ASSUME Lifecycle!Start(j) PROVE JobLife!Start(j)
    <3>1. jobs[j].status = "queued"
      BY <2>3 DEF Lifecycle!Start, Lifecycle!Moves
    <3>2. attempts[j] < MaxAttempts BY <1>4, <3>1 DEF AttemptInv
    <3>3. Cardinality(JobLife!InProgress) < MaxRunningJobs
      BY <2>3 DEF Lifecycle!Start, Lifecycle!InProgress, JobLife!InProgress,
                  Lifecycle!Cardinality, Cardinality
    <3> QED BY <2>3, <3>2, <3>3
            DEF Lifecycle!Start, JobLife!Start, Lifecycle!Moves, JobLife!Moves,
                JobLife!Cardinality, Cardinality
  <2> QED
    BY <2>2, <2>3
       DEF JobLife!Next, JobLife!Moves, JobLife!Submit, JobLife!Retry,
           JobLife!Succeed, JobLife!Fail, JobLife!Cancel, Lifecycle!Moves,
           Lifecycle!Submit, Lifecycle!Retry, Lifecycle!Succeed, Lifecycle!Fail,
           Lifecycle!Cancel
<1> QED BY <1>1, <1>2, <1>3, <1>4, PTL DEF Spec, KeepsJobLife, JobLife!Spec
-----------------------------------------------------------------------------
(* Cancellations.                                                          *)

\* A fiber that asks for a retry knows of no cancellation: claims take rows
\* that carry none, and the engine's loss of a job is looked up beside it.
UnawareInv ==
  \A w \in Workers : workers[w].pc \in {"submit", "retry"} => ~workers[w].cancelSeen

LEMMA WorkStaysUnaware ==
  ASSUME BaseInv, UnawareInv, NEW w \in Workers, Work(w),
         workers'[w].pc \in {"submit", "retry"}
  PROVE  ~workers'[w].cancelSeen
<1>0. workers \in [Workers -> WorkerState] /\ workers[w] \in WorkerState
  BY DEF BaseInv
<1>1. ASSUME NEW pc, Goes(w, pc)
      PROVE  workers'[w].pc = pc /\ workers'[w].cancelSeen = workers[w].cancelSeen
  BY <1>0, <1>1 DEF Goes, WorkerState
<1>2. CASE SubmitFails(w)
  BY <1>1, <1>2 DEF SubmitFails, At, UnawareInv
<1>3. CASE CallNotFound(w)
  BY <1>1, <1>3 DEF CallNotFound
<1>4. CASE CallAnswered(w)
  <2> DEFINE answer == remote'[JobOf(w)][workers[w].remote]
  <2>1. \/ Goes(w, "release")
        \/ workers' = [workers EXCEPT ![w].pc = AfterAnswer(answer),
                                      ![w].failures = 0]
    BY <1>4 DEF CallAnswered
  <2>2. answer \in {"active", "succeeded", "failed", "cancelled"}
    BY <1>4, AnswerIsKnown
  <2> HIDE DEF answer
  <2>3. AfterAnswer(answer) \notin {"submit", "retry"} BY <2>2 DEF AfterAnswer
  <2>4. workers'[w].pc \in {"release", AfterAnswer(answer)}
    BY <1>0, <1>1, <2>1 DEF WorkerState
  <2> QED BY <2>3, <2>4
<1>5. CASE CallFails(w)
  BY <1>0, <1>5 DEF CallFails, WorkerState
<1>6. CASE BindSubmitted(w) \/ Fetch(w) \/ ReleaseSlot(w)
  BY <1>0, <1>6 DEF BindSubmitted, Fetch, ReleaseSlot, IdleWorker, WorkerState
<1>7. CASE Resume(w)
  <2>1. Goes(w, "fetch") \/ Goes(w, "release") BY <1>7 DEF Resume
  <2> QED BY <1>1, <2>1
<1>8. CASE SaveOutcome(w)
  <2>1. Goes(w, "succeed") \/ Goes(w, "failStorage") \/ Goes(w, "release")
    BY <1>8 DEF SaveOutcome
  <2> QED BY <1>1, <2>1
<1> QED
  BY <1>1, <1>2, <1>3, <1>4, <1>5, <1>6, <1>7, <1>8
     DEF Work, SubmitAccepted, BindImpossible, CancelUnbound, FetchStops,
         CallBusy, PersistOutcome

LEMMA StepUnaware ==
  ASSUME BaseInv, UnawareInv, [Next]_vars
  PROVE  UnawareInv'
<1> SUFFICES ASSUME NEW w \in Workers, workers'[w].pc \in {"submit", "retry"}
             PROVE  ~workers'[w].cancelSeen
  BY DEF UnawareInv
<1>0. workers \in [Workers -> WorkerState] BY DEF BaseInv
<1>1. CASE workers'[w] = workers[w] BY <1>1 DEF UnawareInv
<1>2. ASSUME NEW v \in Workers, Work(v) PROVE ~workers'[w].cancelSeen
  BY <1>1, <1>2, WorkRows, WorkStaysUnaware
<1>3. ASSUME NEW j \in Jobs, NEW e \in Engines, NEW v \in Workers,
             DispatchOne(j, e, v)
      PROVE  ~workers'[w].cancelSeen
  <2>1. ~jobs'[j].cancelRequested
    BY <1>3 DEF DispatchOne, ClaimQueued, BaseInv, RowInv, StoreTypeOK, Row,
                RunsAreClaimed
  <2> QED BY <1>0, <1>1, <1>3, <2>1 DEF DispatchOne, Started
<1>4. ASSUME NEW j \in Jobs, NEW v \in Workers, RecoverRemote(j, v)
      PROVE  ~workers'[w].cancelSeen
  BY <1>0, <1>1, <1>4 DEF RecoverRemote, Started
<1>5. CASE Stop BY <1>5 DEF Stop, IdleWorker
<1> QED
  BY <1>1, <1>2, <1>3, <1>4, <1>5
     DEF Next, vars, Client, SubmitJob, CancelJob, ProbeEngine, Schedule,
         DispatchClaimFails, Recover, StartupRecovery, StartupRecovered,
         RecoverIncomplete, RecoverDeferred, Environment, TimeLapses, RemoteEnds,
         RemoteLost, TimeCools

\* Over every fault, stop and delay, leases outlasted or not: bound work is not
\* generated anew against a cancellation that all its fibers know of.  What is
\* left are rows that were not bound yet, and cancellations that come later
\* than the fiber's copy of the row.
THEOREM KnownCancellationsAreKept == Spec => KnownCancellationIsKept
<1>1. Init => UnawareInv BY DEF Init, IdleWorker, UnawareInv
<1>2. BaseInv /\ UnawareInv /\ [Next]_vars => UnawareInv' BY StepUnaware
<1>3. ASSUME BaseInv, UnawareInv, [Next]_vars
      PROVE  [\A j \in Jobs :
                /\ jobs[j].status = "running" /\ jobs[j].cancelRequested
                /\ jobs[j].remoteJobId # None
                /\ \A w \in Owners(j) : workers[w].cancelSeen
                => jobs'[j].status # "queued"]_vars
  <2> SUFFICES ASSUME NEW j \in Jobs, jobs[j].status = "running",
                      jobs[j].remoteJobId # None,
                      \A w \in Owners(j) : workers[w].cancelSeen,
                      jobs'[j].status = "queued"
               PROVE  FALSE
    OBVIOUS
  <2>1. ~RecoverIncomplete(j)
    BY <1>3 DEF RecoverIncomplete, IsBound, BaseInv, RowInv, BindingOnlyWhileRunning
  <2>2. PICK w \in Workers : At(w, "retry") /\ JobOf(w) = j
    BY <1>3, <2>1, WhoRequeues
  <2> QED BY <1>3, <2>2 DEF UnawareInv, Owners, Working, At
<1> QED BY <1>1, <1>2, <1>3, InitBase, StepBase, PTL DEF Spec, KnownCancellationIsKept
=============================================================================
