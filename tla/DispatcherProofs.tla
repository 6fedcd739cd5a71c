-------------------------- MODULE DispatcherProofs --------------------------
(***************************************************************************)
(* Proofs about the dispatcher, for any jobs, engines, fibers and faults,  *)
(* whatever may outlast a lease.                                           *)
(*                                                                         *)
(* The argument: a step moves the table by one operation (TableMoves), the *)
(* pool by one operation (StepIsPoolStep), the engines' jobs in four ways  *)
(* (CellMoves) and one fiber, which goes on with what it holds or ends     *)
(* (WorkMovesWorker).  BaseInv, the shape of the fibers, is inductive by   *)
(* that; SlotInv and BackedInv rest on it.  What needs leases that hold is *)
(* in DispatcherOwnerProofs.                                               *)
(***************************************************************************)
EXTENDS Dispatcher, JobStoreProofs, EnginePoolProofs

\* A fiber that is not idle has a job, a slot and a name for its submission.
GoodWorker(s) ==
  /\ s \in WorkerState
  /\ IF s.pc = "idle"
       THEN s = IdleWorker
       ELSE s.job \in Jobs /\ s.engine \in Engines /\ s.remote \in Remotes

\* Where a fiber knows that the engine has taken its submission.
Submitted(s) == s.pc \notin {"idle", "submit", "retry", "release"}

\* The inductive invariant every other one rests on.
BaseInv ==
  /\ RowInv
  /\ PoolInv
  /\ workers \in [Workers -> WorkerState]
  /\ \A w \in Workers : GoodWorker(workers[w])
  /\ remote \in [Jobs -> [Remotes -> RemoteStatus]]
  /\ \A w \in Workers : Submitted(workers[w]) => RemoteOf(w) # "none"
  /\ \A j \in Jobs : jobs[j].remoteJobId # None =>
       remote[j][jobs[j].remoteJobId] # "none"
  /\ pending \subseteq Jobs
  /\ phase \in {"down", "recovering", "serving"}
  /\ faults \in [total : Nat, orphaning : Nat]

-----------------------------------------------------------------------------
(* The table and the pool are moved by their own operations.               *)

\* The operations of the repository that neither bind nor publish.
OtherStoreStep(j) ==
  \/ CreateJobIfCapacity(j)
  \/ RequestCancellation(j)
  \/ ClaimQueued(j)
  \/ RenewLease(j)
  \/ \E p \in Progress : RecordProgress(j, p)
  \/ SaveResults(j)
  \/ RequeueJob(j)
  \/ FailJob(j)
  \/ FailStorageJob(j)
  \/ CancelRemoteJob(j)
  \/ LeaseLapses(j)

LEMMA RetryIsStoreStep ==
  ASSUME NEW j \in Jobs, NEW a, RetryOrFail(j, a)
  PROVE  OtherStoreStep(j) \/ UNCHANGED storeVars
BY DEF RetryOrFail, IfRunning, OtherStoreStep

LEMMA OutcomeIsStoreStep ==
  ASSUME NEW w, JobOf(w) \in Jobs,
         workers[w].pc \in {"succeed", "fail", "failStorage", "cancel", "retry"},
         OutcomeWrite(w)
  PROVE  \/ OtherStoreStep(JobOf(w))
         \/ At(w, "succeed") /\ SucceedJob(JobOf(w))
         \/ UNCHANGED storeVars
<1> DEFINE j == JobOf(w)
<1>1. CASE workers[w].pc = "succeed"
  BY <1>1 DEF OutcomeWrite, IfRunning, At
<1>2. CASE workers[w].pc = "fail"
  BY <1>2 DEF OutcomeWrite, IfRunning, OtherStoreStep
<1>3. CASE workers[w].pc = "failStorage"
  BY <1>3 DEF OutcomeWrite, IfRunning, OtherStoreStep
<1>4. CASE workers[w].pc = "cancel"
  BY <1>4 DEF OutcomeWrite, IfRunning, OtherStoreStep
<1>5. CASE workers[w].pc = "retry"
  <2>1. RetryOrFail(j, workers[w].attempt) BY <1>5 DEF OutcomeWrite
  <2> QED BY <2>1, RetryIsStoreStep
<1> QED BY <1>1, <1>2, <1>3, <1>4, <1>5

\* A worker writes the row of its own job, binds and publishes in one place.
LEMMA WorkIsStoreStep ==
  ASSUME NEW w, Work(w), workers[w].pc # "idle" => JobOf(w) \in Jobs
  PROVE  \/ OtherStoreStep(JobOf(w))
         \/ BindSubmitted(w)
         \/ At(w, "succeed") /\ SucceedJob(JobOf(w))
         \/ UNCHANGED storeVars
<1>1. CASE SubmitAccepted(w) BY <1>1 DEF SubmitAccepted, storeVars
<1>2. CASE SubmitFails(w) BY <1>2 DEF SubmitFails, storeVars
<1>4. CASE BindImpossible(w) BY <1>4 DEF BindImpossible, storeVars
<1>5. CASE CancelUnbound(w) BY <1>5 DEF CancelUnbound, storeVars
<1>6. CASE Resume(w) BY <1>6 DEF Resume, IfRunning, OtherStoreStep
<1>7. CASE Fetch(w) BY <1>7 DEF Fetch, OtherStoreStep
<1>8. CASE FetchStops(w) BY <1>8 DEF FetchStops, storeVars
<1>9. CASE CallAnswered(w)
  <2>1. PersistProgress(w) \/ UNCHANGED storeVars BY <1>9 DEF CallAnswered
  <2>2. ASSUME NEW p \in Progress, RecordProgress(JobOf(w), p)
        PROVE  OtherStoreStep(JobOf(w))
    BY <2>2 DEF OtherStoreStep
  <2> QED BY <2>1, <2>2 DEF PersistProgress, IfRunning
<1>10. CASE CallNotFound(w) BY <1>10 DEF CallNotFound, storeVars
<1>11. CASE CallBusy(w) BY <1>11 DEF CallBusy, storeVars
<1>12. CASE CallFails(w) BY <1>12 DEF CallFails, storeVars
<1>13. CASE SaveOutcome(w) BY <1>13 DEF SaveOutcome, OtherStoreStep
<1>14. CASE PersistOutcome(w)
  BY <1>14, OutcomeIsStoreStep DEF PersistOutcome
<1>15. CASE ReleaseSlot(w) BY <1>15 DEF ReleaseSlot, storeVars
<1> QED
  BY <1>1, <1>2, <1>4, <1>5, <1>6, <1>7, <1>8, <1>9, <1>10, <1>11,
     <1>12, <1>13, <1>14, <1>15 DEF Work

\* A worker moves the state of its own engine.
LEMMA WorkIsPoolStep ==
  ASSUME NEW w, Work(w)
  PROVE  PoolStep(EngineOf(w)) \/ UNCHANGED pool
<1>1. CASE SubmitAccepted(w) BY <1>1 DEF SubmitAccepted, PoolStep
<1>2. CASE SubmitFails(w) BY <1>2 DEF SubmitFails, PoolStep
<1>3. CASE BindSubmitted(w) BY <1>3 DEF BindSubmitted
<1>4. CASE BindImpossible(w) BY <1>4 DEF BindImpossible
<1>5. CASE CancelUnbound(w) BY <1>5 DEF CancelUnbound, PoolStep
<1>6. CASE Resume(w) BY <1>6 DEF Resume
<1>7. CASE Fetch(w) BY <1>7 DEF Fetch
<1>8. CASE FetchStops(w) BY <1>8 DEF FetchStops
<1>9. CASE CallAnswered(w) BY <1>9 DEF CallAnswered, PoolStep
<1>10. CASE CallNotFound(w) BY <1>10 DEF CallNotFound
<1>11. CASE CallBusy(w) BY <1>11 DEF CallBusy
<1>12. CASE CallFails(w) BY <1>12 DEF CallFails, PoolStep
<1>13. CASE SaveOutcome(w) BY <1>13 DEF SaveOutcome
<1>14. CASE PersistOutcome(w) BY <1>14 DEF PersistOutcome
<1>15. CASE ReleaseSlot(w) BY <1>15 DEF ReleaseSlot, PoolStep
<1> QED
  BY <1>1, <1>2, <1>3, <1>4, <1>5, <1>6, <1>7, <1>8, <1>9, <1>10, <1>11,
     <1>12, <1>13, <1>14, <1>15 DEF Work

\* What a fiber carries.
LEMMA BusyWorker ==
  ASSUME BaseInv, NEW w \in Workers, workers[w].pc # "idle"
  PROVE  /\ JobOf(w) \in Jobs
         /\ EngineOf(w) \in Engines
         /\ workers[w].remote \in Remotes
         /\ workers[w] \in WorkerState
BY DEF BaseInv, GoodWorker, JobOf, EngineOf

LEMMA IdleDoesNotWork ==
  ASSUME NEW w, Work(w)
  PROVE  workers[w].pc # "idle"
BY DEF Work, SubmitAccepted, SubmitFails, BindSubmitted, BindImpossible,
       CancelUnbound, Resume, Fetch, FetchStops, CallAnswered, CallNotFound,
       CallBusy, CallFails, SaveOutcome, PersistOutcome, ReleaseSlot, At

\* Every way the dispatcher moves the table.
LEMMA TableMoves ==
  ASSUME BaseInv, [Next]_vars
  PROVE  \/ UNCHANGED storeVars
         \/ \E j \in Jobs : OtherStoreStep(j)
         \/ \E w \in Workers : BindSubmitted(w)
         \/ \E w \in Workers : At(w, "succeed") /\ SucceedJob(JobOf(w))
<1> SUFFICES ASSUME Next, ~UNCHANGED storeVars
             PROVE  \/ \E j \in Jobs : OtherStoreStep(j)
                    \/ \E w \in Workers : BindSubmitted(w)
                    \/ \E w \in Workers : At(w, "succeed") /\ SucceedJob(JobOf(w))
  BY DEF vars, storeVars
<1>1. CASE Client
  BY <1>1 DEF Client, SubmitJob, CancelJob, ProbeEngine, OtherStoreStep, storeVars
<1>2. CASE Schedule
  BY <1>2 DEF Schedule, DispatchOne, DispatchClaimFails, OtherStoreStep, storeVars
<1>3. CASE Recover
  <2>1. ASSUME NEW j \in Jobs, RecoverIncomplete(j)
        PROVE  OtherStoreStep(j)
    BY <2>1, RetryIsStoreStep DEF RecoverIncomplete
  <2> QED
    BY <1>3, <2>1 DEF Recover, StartupRecovery, StartupRecovered, RecoverRemote,
                     RecoverDeferred, storeVars
<1>4. CASE \E w \in Workers : Work(w)
  <2>1. PICK w \in Workers : Work(w) BY <1>4
  <2>2. JobOf(w) \in Jobs BY <2>1, BusyWorker, IdleDoesNotWork
  <2> QED BY <1>4, <2>1, <2>2, WorkIsStoreStep
<1>5. CASE Environment
  BY <1>5 DEF Environment, TimeLapses, RemoteEnds, RemoteLost, TimeCools, Stop,
              OtherStoreStep, storeVars
<1> QED BY <1>1, <1>2, <1>3, <1>4, <1>5 DEF Next

LEMMA StepIsStoreStep ==
  ASSUME BaseInv, [Next]_vars
  PROVE  [StoreNext]_storeVars
<1>1. ASSUME NEW j \in Jobs, OtherStoreStep(j)
      PROVE  StoreStep(j)
  BY <1>1 DEF OtherStoreStep, StoreStep
<1>2. ASSUME NEW w \in Workers, BindSubmitted(w)
      PROVE  JobOf(w) \in Jobs /\ StoreStep(JobOf(w))
  <2>1. workers[w].pc # "idle" BY <1>2 DEF BindSubmitted, At
  <2> QED BY <1>2, <2>1, BusyWorker DEF BindSubmitted, StoreStep
<1>3. ASSUME NEW w \in Workers, At(w, "succeed"), SucceedJob(JobOf(w))
      PROVE  JobOf(w) \in Jobs /\ StoreStep(JobOf(w))
  <2>1. workers[w].pc # "idle" BY <1>3 DEF At
  <2> QED BY <1>3, <2>1, BusyWorker DEF StoreStep
<1> QED BY <1>1, <1>2, <1>3, TableMoves DEF StoreNext

LEMMA StepIsPoolStep ==
  ASSUME BaseInv, [Next]_vars
  PROVE  [PoolNext]_pool
<1>1. CASE UNCHANGED vars BY <1>1 DEF vars
<1>2. \A j \in Jobs : ModelOf[j] \in Models BY DispatcherAssumption
<1>3. CASE Client
  BY <1>3 DEF Client, SubmitJob, CancelJob, ProbeEngine, PoolNext, PoolStep
<1>4. CASE Schedule
  BY <1>2, <1>4 DEF Schedule, DispatchOne, DispatchClaimFails, PoolNext, PoolStep
<1>5. CASE Recover
  <2>1. ASSUME NEW j \in Jobs, NEW w \in Workers, RecoverRemote(j, w)
        PROVE  PoolStep(jobs[j].engineId) /\ jobs[j].engineId \in Engines
    <3>1. jobs[j].engineId \in Engines
      BY <2>1 DEF RecoverRemote, IsBound, BaseInv, RowInv, StoreTypeOK, Row
    <3> QED BY <1>2, <2>1, <3>1 DEF RecoverRemote, PoolStep
  <2> QED
    BY <1>5, <2>1 DEF Recover, StartupRecovery, StartupRecovered,
                     RecoverIncomplete, RecoverDeferred, PoolNext
<1>6. CASE \E w \in Workers : Work(w)
  <2>1. PICK w \in Workers : Work(w) BY <1>6
  <2>2. EngineOf(w) \in Engines BY <2>1, BusyWorker, IdleDoesNotWork
  <2> QED BY <2>1, <2>2, WorkIsPoolStep DEF PoolNext
<1>7. CASE Environment
  BY <1>7 DEF Environment, TimeLapses, RemoteEnds, RemoteLost, TimeCools, Stop,
              PoolNext, PoolStep
<1> QED BY <1>1, <1>3, <1>4, <1>5, <1>6, <1>7 DEF Next

-----------------------------------------------------------------------------
(* What a worker's step does to the fibers and to the engines' jobs.       *)

\* A worker makes its submission active, or cancels what is active.
LEMMA WorkOnRemote ==
  ASSUME NEW w, Work(w)
  PROVE  \/ UNCHANGED remote
         \/ workers[w].pc = "submit" /\ SetRemote(w, "active")
         \/ RemoteOf(w) = "active" /\ SetRemote(w, "cancelled")
<1> USE DEF CancelAtEngine
<1>1. CASE SubmitAccepted(w) BY <1>1 DEF SubmitAccepted, At
<1>2. CASE SubmitFails(w) BY <1>2 DEF SubmitFails, At
<1>3. CASE BindSubmitted(w) BY <1>3 DEF BindSubmitted
<1>4. CASE BindImpossible(w) BY <1>4 DEF BindImpossible
<1>5. CASE CancelUnbound(w) BY <1>5 DEF CancelUnbound
<1>6. CASE Resume(w) BY <1>6 DEF Resume
<1>7. CASE Fetch(w) BY <1>7 DEF Fetch
<1>8. CASE FetchStops(w) BY <1>8 DEF FetchStops
<1>9. CASE CallAnswered(w) BY <1>9 DEF CallAnswered
<1>10. CASE CallNotFound(w) BY <1>10 DEF CallNotFound
<1>11. CASE CallBusy(w) BY <1>11 DEF CallBusy
<1>12. CASE CallFails(w) BY <1>12 DEF CallFails
<1>13. CASE SaveOutcome(w) BY <1>13 DEF SaveOutcome
<1>14. CASE PersistOutcome(w) BY <1>14 DEF PersistOutcome
<1>15. CASE ReleaseSlot(w) BY <1>15 DEF ReleaseSlot
<1> QED
  BY <1>1, <1>2, <1>3, <1>4, <1>5, <1>6, <1>7, <1>8, <1>9, <1>10, <1>11,
     <1>12, <1>13, <1>14, <1>15 DEF Work

\* The engines forget, they do not unlearn: no worker makes a cell "none", and
\* none touches the submission of another.
LEMMA WorkKeepsCells ==
  ASSUME BaseInv, NEW w \in Workers, Work(w)
  PROVE  /\ remote' \in [Jobs -> [Remotes -> RemoteStatus]]
         /\ \A j \in Jobs, r \in Remotes :
              /\ remote[j][r] # "none" => remote'[j][r] # "none"
              /\ j # JobOf(w) \/ r # workers[w].remote =>
                   remote'[j][r] = remote[j][r]
<1>1. JobOf(w) \in Jobs /\ workers[w].remote \in Remotes
  BY BusyWorker, IdleDoesNotWork
<1>2. remote \in [Jobs -> [Remotes -> RemoteStatus]] BY DEF BaseInv
<1>3. ASSUME NEW s \in RemoteStatus \ {"none"}, SetRemote(w, s)
      PROVE  /\ remote' \in [Jobs -> [Remotes -> RemoteStatus]]
             /\ \A j \in Jobs, r \in Remotes :
                  remote'[j][r] = IF j = JobOf(w) /\ r = workers[w].remote
                                    THEN s ELSE remote[j][r]
  BY <1>1, <1>2, <1>3 DEF SetRemote
<1>4. CASE UNCHANGED remote BY <1>2, <1>4
<1>5. CASE \E s \in {"active", "cancelled"} : SetRemote(w, s)
  BY <1>3, <1>5 DEF RemoteStatus
<1> QED BY <1>4, <1>5, WorkOnRemote

\* A fiber that moves on keeps what it holds.
Keeps(s, t) ==
  /\ t \in WorkerState
  /\ t.pc \notin {"idle", "submit", "resume"}
  /\ t.job = s.job /\ t.engine = s.engine /\ t.remote = s.remote

\* Going to a label changes nothing else.
LEMMA GoingKeeps ==
  ASSUME BaseInv, NEW w \in Workers, workers[w].pc # "idle",
         NEW pc \in {"bind", "unbound", "fetch", "call", "save", "succeed", "fail",
                     "failStorage", "cancel", "retry", "release"},
         Goes(w, pc)
  PROVE  /\ workers' = [workers EXCEPT ![w] = [workers[w] EXCEPT !.pc = pc]]
         /\ Keeps(workers[w], [workers[w] EXCEPT !.pc = pc])
<1>1. workers \in [Workers -> WorkerState] /\ workers[w] \in WorkerState
  BY DEF BaseInv
<1>2. Keeps(workers[w], [workers[w] EXCEPT !.pc = pc])
  BY <1>1 DEF Keeps, WorkerState
<1> QED BY <1>1, <1>2 DEF Goes

\* Only its own fiber, which goes on with what it holds or, from "release",
\* ends.
LEMMA WorkMovesWorker ==
  ASSUME BaseInv, NEW w \in Workers, Work(w)
  PROVE  \E s : /\ workers' = [workers EXCEPT ![w] = s]
                /\ \/ Keeps(workers[w], s)
                   \/ workers[w].pc = "release" /\ s = IdleWorker /\ ReleaseSlot(w)
<1>0. /\ workers[w].pc # "idle"
      /\ workers[w] \in WorkerState
      /\ workers \in [Workers -> WorkerState]
      /\ JobOf(w) \in Jobs /\ EngineOf(w) \in Engines
      /\ workers[w].remote \in Remotes
      /\ JobOf(w) = workers[w].job
  BY BusyWorker, IdleDoesNotWork DEF BaseInv, JobOf
<1> DEFINE To(pc) == pc \in {"bind", "unbound", "fetch", "call", "save", "succeed",
                "fail", "failStorage", "cancel", "retry", "release"} /\ Goes(w, pc)
           Goal == \E s : /\ workers' = [workers EXCEPT ![w] = s]
                          /\ \/ Keeps(workers[w], s)
                             \/ workers[w].pc = "release" /\ s = IdleWorker
                                  /\ ReleaseSlot(w)
<1>a. ASSUME NEW pc, To(pc) PROVE Goal BY <1>0, <1>a, GoingKeeps
<1>b. RowOf(w) \in Row /\ RowOf(w).attempt \in Nat
        /\ RowOf(w).cancelRequested \in BOOLEAN
        /\ RowOf(w).progress \in Progress \cup {None}
  BY <1>0 DEF BaseInv, RowInv, StoreTypeOK, RowOf, Row
<1>1. CASE SubmitAccepted(w) BY <1>1, <1>a DEF SubmitAccepted
<1>2. CASE SubmitFails(w) BY <1>2, <1>a DEF SubmitFails
<1>3. CASE BindSubmitted(w)
  <2> DEFINE s == [workers[w] EXCEPT
                     !.pc = "fetch", !.attempt = RowOf(w).attempt,
                     !.cancelSeen = RowOf(w).cancelRequested,
                     !.progressSeen = RowOf(w).progress]
  <2>1. workers' = [workers EXCEPT ![w] = s] BY <1>0, <1>3 DEF BindSubmitted
  <2>2. Keeps(workers[w], s) BY <1>0, <1>b DEF Keeps, WorkerState
  <2> QED BY <2>1, <2>2
<1>4. CASE BindImpossible(w) BY <1>4, <1>a DEF BindImpossible
<1>5. CASE CancelUnbound(w) BY <1>5, <1>a DEF CancelUnbound
<1>6. CASE Resume(w)
  <2>1. Goes(w, "fetch") \/ Goes(w, "release") BY <1>6 DEF Resume
  <2> QED BY <2>1, <1>a
<1>7. CASE Fetch(w)
  <2>1. PICK op \in {"poll", "cancel"} :
          workers' = [workers EXCEPT ![w].pc = "call", ![w].op = op]
    BY <1>7 DEF Fetch
  <2> DEFINE s == [workers[w] EXCEPT !.pc = "call", !.op = op]
  <2>2. workers' = [workers EXCEPT ![w] = s] BY <1>0, <2>1
  <2>3. Keeps(workers[w], s) BY <1>0 DEF Keeps, WorkerState
  <2> QED BY <2>2, <2>3
<1>8. CASE FetchStops(w) BY <1>8, <1>a DEF FetchStops
<1>9. CASE CallAnswered(w)
  <2>1. CASE Goes(w, "release") BY <2>1, <1>a
  <2> DEFINE answer == remote'[JobOf(w)][workers[w].remote]
  <2>2. CASE workers' = [workers EXCEPT ![w].pc = AfterAnswer(answer),
                                        ![w].failures = 0]
    <3>1. answer \in {"active", "succeeded", "failed", "cancelled"}
      <4>1. At(w, "call") /\ RemoteOf(w) # "gone" BY <1>9 DEF CallAnswered
      <4>2. RemoteOf(w) \in RemoteStatus \ {"none", "gone"}
        BY <1>0, <4>1 DEF BaseInv, At, Submitted, RemoteOf
      <4>3. CASE UNCHANGED remote BY <4>2, <4>3 DEF RemoteOf, RemoteStatus
      <4>4. CASE SetRemote(w, "cancelled")
        BY <1>0, <4>4 DEF SetRemote, BaseInv
      <4> QED BY <4>3, <4>4, <4>1, WorkOnRemote DEF At
    <3>2. PICK pc \in {"fetch", "save", "fail", "cancel"} : pc = AfterAnswer(answer)
      BY <3>1 DEF AfterAnswer
    <3> HIDE DEF answer
    <3> DEFINE s == [workers[w] EXCEPT !.pc = pc, !.failures = 0]
    <3>3. workers' = [workers EXCEPT ![w] = s] BY <1>0, <2>2, <3>2
    <3>4. Keeps(workers[w], s) BY <1>0 DEF Keeps, WorkerState
    <3> QED BY <3>3, <3>4
  <2> QED BY <1>9, <2>1, <2>2 DEF CallAnswered
<1>10. CASE CallNotFound(w)
  <2>1. Goes(w, "cancel") \/ Goes(w, "retry") BY <1>10 DEF CallNotFound
  <2> QED BY <2>1, <1>a
<1>11. CASE CallBusy(w) BY <1>11, <1>a DEF CallBusy
<1>12. CASE CallFails(w)
  <2> DEFINE n == workers[w].failures + 1
             pc == IF n >= FailureThreshold[EngineOf(w)] THEN "release" ELSE "fetch"
  <2>1. /\ workers' = [workers EXCEPT ![w].failures = n, ![w].pc = pc]
        /\ n \in Nat /\ pc \in {"release", "fetch"}
    BY <1>0, <1>12 DEF CallFails, WorkerState
  <2> HIDE DEF n, pc
  <2> DEFINE s == [workers[w] EXCEPT !.failures = n, !.pc = pc]
  <2>2. workers' = [workers EXCEPT ![w] = s] BY <1>0, <2>1
  <2>3. Keeps(workers[w], s) BY <1>0, <2>1 DEF Keeps, WorkerState
  <2> QED BY <2>2, <2>3
<1>13. CASE SaveOutcome(w) BY <1>13, <1>a DEF SaveOutcome
<1>14. CASE PersistOutcome(w) BY <1>14, <1>a DEF PersistOutcome
<1>15. CASE ReleaseSlot(w) BY <1>15, <1>0 DEF ReleaseSlot, At
<1> QED
  BY <1>1, <1>2, <1>3, <1>4, <1>5, <1>6, <1>7, <1>8, <1>9, <1>10, <1>11,
     <1>12, <1>13, <1>14, <1>15 DEF Work

-----------------------------------------------------------------------------
(* The base invariant.                                                     *)

LEMMA InitBase == Init => BaseInv
<1> SUFFICES ASSUME Init PROVE BaseInv OBVIOUS
<1>1. RowInv /\ PoolInv BY InitRowInv, InitInv DEF Init
<1>2. IdleWorker \in WorkerState BY DEF IdleWorker, WorkerState
<1> QED
  BY <1>1, <1>2 DEF Init, StoreInit, NoRow, BaseInv, GoodWorker, Submitted,
                    IdleWorker, RemoteStatus

\* The fiber a fork starts, and the only one it changes.
LEMMA ForkedWorker ==
  ASSUME BaseInv, NEW w \in Workers, NEW j \in Jobs, NEW row \in Row,
         NEW e \in Engines, NEW r \in Remotes, NEW pc \in {"submit", "resume"},
         Started(w, pc, j, row, e, r)
  PROVE  /\ workers[w] = IdleWorker
         /\ workers' \in [Workers -> WorkerState]
         /\ \A v \in Workers : v # w => workers'[v] = workers[v]
         /\ workers'[w].pc = pc /\ workers'[w].job = j
         /\ workers'[w].engine = e /\ workers'[w].remote = r
         /\ workers'[w].attempt = row.attempt
         /\ GoodWorker(workers'[w])
<1> DEFINE s == [pc |-> pc, job |-> j, attempt |-> row.attempt,
                 cancelSeen |-> row.cancelRequested, progressSeen |-> row.progress,
                 engine |-> e, remote |-> r, failures |-> 0, op |-> "poll"]
<1>1. workers' = [workers EXCEPT ![w] = s] BY DEF Started
<1>2. s \in WorkerState BY DEF Row, WorkerState
<1>3. workers[w] = IdleWorker BY DEF Started, NextIdle, BaseInv, GoodWorker
<1>4. workers \in [Workers -> WorkerState] BY DEF BaseInv
<1> QED BY <1>1, <1>2, <1>3, <1>4 DEF GoodWorker

\* The part of the base invariant about fibers and the engines' jobs.
FibersInv ==
  /\ workers \in [Workers -> WorkerState]
  /\ \A w \in Workers : GoodWorker(workers[w])
  /\ remote \in [Jobs -> [Remotes -> RemoteStatus]]
  /\ \A w \in Workers : Submitted(workers[w]) => RemoteOf(w) # "none"

\* Fibers that stay where they are stay good when no cell becomes "none".
LEMMA QuietFibers ==
  ASSUME BaseInv, UNCHANGED workers,
         remote' \in [Jobs -> [Remotes -> RemoteStatus]],
         \A j \in Jobs, r \in Remotes : remote[j][r] # "none" => remote'[j][r] # "none"
  PROVE  FibersInv'
<1>1. ASSUME NEW w \in Workers, Submitted(workers[w])
      PROVE  RemoteOf(w)' # "none"
  <2>1. JobOf(w) \in Jobs /\ workers[w].remote \in Remotes /\ RemoteOf(w) # "none"
    BY <1>1, BusyWorker DEF Submitted, BaseInv
  <2> QED BY <2>1 DEF RemoteOf, JobOf
<1>2. \A w \in Workers : GoodWorker(workers'[w])
  BY DEF BaseInv
<1> QED BY <1>1, <1>2 DEF FibersInv, BaseInv, Submitted, GoodWorker

LEMMA ForkFibers ==
  ASSUME BaseInv, NEW w \in Workers, NEW j \in Jobs, NEW row \in Row,
         NEW e \in Engines, NEW r \in Remotes, NEW pc \in {"submit", "resume"},
         Started(w, pc, j, row, e, r), UNCHANGED remote,
         pc = "resume" => remote[j][r] # "none"
  PROVE  FibersInv'
<1>1. /\ workers' \in [Workers -> WorkerState]
      /\ \A v \in Workers : v # w => workers'[v] = workers[v]
      /\ workers'[w].pc = pc /\ workers'[w].job = j /\ workers'[w].remote = r
      /\ GoodWorker(workers'[w])
  BY ForkedWorker
<1>2. \A v \in Workers : GoodWorker(workers'[v]) BY <1>1 DEF BaseInv
<1>3. \A v \in Workers : Submitted(workers'[v]) =>
        remote'[workers'[v].job][workers'[v].remote] # "none"
  BY <1>1 DEF BaseInv, Submitted, RemoteOf, JobOf
<1> QED BY <1>1, <1>2, <1>3 DEF FibersInv, BaseInv, RemoteOf, JobOf, GoodWorker, Submitted

LEMMA WorkFibers ==
  ASSUME BaseInv, NEW w \in Workers, Work(w)
  PROVE  FibersInv'
<1>1. PICK s : /\ workers' = [workers EXCEPT ![w] = s]
               /\ \/ Keeps(workers[w], s)
                  \/ workers[w].pc = "release" /\ s = IdleWorker
  BY WorkMovesWorker
<1>2. /\ remote' \in [Jobs -> [Remotes -> RemoteStatus]]
      /\ \A j \in Jobs, r \in Remotes :
           remote[j][r] # "none" => remote'[j][r] # "none"
  BY WorkKeepsCells
<1>3. /\ workers[w].pc # "idle" /\ workers[w].job \in Jobs
      /\ workers[w].engine \in Engines /\ workers[w].remote \in Remotes
  BY BusyWorker, IdleDoesNotWork DEF JobOf, EngineOf
<1>4. GoodWorker(s)
  <2>1. CASE Keeps(workers[w], s) BY <1>3, <2>1 DEF Keeps, GoodWorker
  <2>2. CASE s = IdleWorker BY <2>2 DEF GoodWorker, IdleWorker, WorkerState
  <2> QED BY <1>1, <2>1, <2>2
<1>5. /\ workers' \in [Workers -> WorkerState]
      /\ \A v \in Workers : v # w => workers'[v] = workers[v]
      /\ workers'[w] = s
  BY <1>1, <1>4 DEF BaseInv, GoodWorker
<1>6. ASSUME NEW v \in Workers, Submitted(workers'[v])
      PROVE  remote'[workers'[v].job][workers'[v].remote] # "none"
  <2>1. CASE v # w
    <3>1. JobOf(v) \in Jobs /\ workers[v].remote \in Remotes /\ RemoteOf(v) # "none"
      BY <1>5, <1>6, <2>1, BusyWorker DEF Submitted, BaseInv
    <3> QED BY <1>2, <1>5, <2>1, <3>1 DEF RemoteOf, JobOf
  <2>2. CASE v = w /\ Submitted(workers[w])
    <3>1. RemoteOf(w) # "none" /\ RemoteOf(w) = remote[workers[w].job][workers[w].remote]
      BY <2>2 DEF BaseInv, RemoteOf, JobOf
    <3>2. s.job = workers[w].job /\ s.remote = workers[w].remote
      BY <1>1, <2>2 DEF Keeps, Submitted
    <3> QED BY <1>2, <1>3, <1>5, <2>2, <3>1, <3>2
  <2>3. CASE v = w /\ workers[w].pc \in {"submit", "retry", "release"}
    <3>1. s.job = workers[w].job /\ s.remote = workers[w].remote /\ s.pc # "idle"
      BY <1>1, <1>5, <1>6, <2>3 DEF Keeps, Submitted, IdleWorker
    <3>2. SubmitAccepted(w)
      <4> USE <1>1, <1>3, <1>5, <1>6, <2>3 DEF At, Submitted, Goes
      <4>1. workers[w] \in WorkerState BY DEF BaseInv
      <4>2. CASE SubmitFails(w)
        <5>1. s.pc = "retry" BY <4>1, <4>2 DEF SubmitFails, WorkerState, BaseInv
        <5> QED BY <5>1
      <4>3. CASE PersistOutcome(w)
        <5>1. s.pc = "release" BY <4>1, <4>3 DEF PersistOutcome, WorkerState, BaseInv
        <5> QED BY <5>1
      <4>4. CASE ReleaseSlot(w)
        <5>1. s = IdleWorker BY <4>1, <4>4 DEF ReleaseSlot, BaseInv
        <5> QED BY <5>1 DEF IdleWorker
      <4> QED
        BY <4>2, <4>3, <4>4
           DEF Work, BindSubmitted, BindImpossible, CancelUnbound, Resume, Fetch,
               FetchStops, CallAnswered, CallNotFound, CallBusy, CallFails,
               SaveOutcome
    <3>3. remote'[workers[w].job][workers[w].remote] = "active"
      BY <1>3, <3>2 DEF SubmitAccepted, SetRemote, JobOf, BaseInv
    <3> QED BY <1>5, <2>3, <3>1, <3>3
  <2> QED BY <1>3, <2>1, <2>2, <2>3 DEF Submitted
<1>7. \A v \in Workers : GoodWorker(workers'[v]) BY <1>4, <1>5 DEF BaseInv
<1> QED BY <1>2, <1>5, <1>6, <1>7 DEF FibersInv, RemoteOf, JobOf, GoodWorker, Submitted

\* The clock, the engines and a stop leave no cell "none" that was not.
LEMMA EnvironmentFibers ==
  ASSUME BaseInv, Environment
  PROVE  FibersInv'
<1>0. remote \in [Jobs -> [Remotes -> RemoteStatus]] BY DEF BaseInv
<1>1. CASE \E j \in Jobs : TimeLapses(j)
  BY <1>0, <1>1, QuietFibers DEF TimeLapses
<1>2. CASE \E e \in Engines : TimeCools(e)
  BY <1>0, <1>2, QuietFibers DEF TimeCools
<1>3. ASSUME NEW j \in Jobs, NEW r \in Remotes, RemoteEnds(j, r) \/ RemoteLost(j, r)
      PROVE  FibersInv'
  <2>1. /\ UNCHANGED workers
        /\ \E s \in RemoteStatus \ {"none"} : remote' = [remote EXCEPT ![j][r] = s]
    BY <1>3 DEF RemoteEnds, RemoteLost, RemoteStatus
  <2> QED BY <1>0, <2>1, QuietFibers
<1>4. CASE Stop
  <2> DEFINE At0(S, j, r, pc) == \E w \in S :
               workers[w].pc = pc /\ JobOf(w) = j /\ workers[w].remote = r
             Cell(S, j, r) ==
               CASE At0(S, j, r, "submit") -> "active"
                 [] At0(S, j, r, "bind") /\ remote[j][r] = "active" -> "cancelled"
                 [] OTHER -> remote[j][r]
  <2>1. PICK S : remote' = [j \in Jobs |-> [r \in Remotes |-> Cell(S, j, r)]]
    BY <1>4 DEF Stop
  <2>2. \A j \in Jobs, r \in Remotes : Cell(S, j, r) \in RemoteStatus
    BY <1>0 DEF RemoteStatus
  <2> HIDE DEF Cell
  <2>3. remote' \in [Jobs -> [Remotes -> RemoteStatus]] BY <2>1, <2>2
  <2>4. workers' = [w \in Workers |-> IdleWorker] BY <1>4 DEF Stop
  <2>5. IdleWorker \in WorkerState BY DEF IdleWorker, WorkerState
  <2> QED BY <2>3, <2>4, <2>5 DEF FibersInv, GoodWorker, Submitted, IdleWorker
<1> QED BY <1>1, <1>2, <1>3, <1>4 DEF Environment

LEMMA StepFibers ==
  ASSUME BaseInv, [Next]_vars
  PROVE  FibersInv'
<1>0. remote \in [Jobs -> [Remotes -> RemoteStatus]] BY DEF BaseInv
<1>1. CASE UNCHANGED vars BY <1>0, <1>1, QuietFibers DEF vars
<1>2. CASE Client
  BY <1>0, <1>2, QuietFibers DEF Client, SubmitJob, CancelJob, ProbeEngine
<1>3. CASE Schedule
  <2>1. ASSUME NEW j \in Jobs, NEW e \in Engines, NEW w \in Workers,
               DispatchOne(j, e, w)
        PROVE  FibersInv'
    <3>1. jobs'[j] \in Row /\ jobs[j].attempt + 1 \in Remotes
            /\ jobs'[j].attempt = jobs[j].attempt + 1
      <4>1. ClaimQueued(j) /\ StoreTypeOK /\ jobs[j].attempt \in Nat
        BY <2>1 DEF DispatchOne, BaseInv, RowInv, StoreTypeOK, Row
      <4>2. StoreTypeOK' BY <4>1, StepTypeOK DEF StoreStep
      <4>3. jobs'[j].attempt = jobs[j].attempt + 1 /\ jobs[j].attempt < ClaimCap
        BY <4>1 DEF ClaimQueued, StoreTypeOK
      <4> QED
        BY <4>1, <4>2, <4>3, DispatcherAssumption, StoreAssumption DEF StoreTypeOK
    <3> QED BY <2>1, <3>1, ForkFibers DEF DispatchOne
  <2>2. ASSUME NEW j \in Jobs, NEW e \in Engines, DispatchClaimFails(j, e)
        PROVE  FibersInv'
    BY <1>0, <2>2, QuietFibers DEF DispatchClaimFails
  <2> QED BY <1>3, <2>1, <2>2 DEF Schedule
<1>4. CASE Recover
  <2>1. ASSUME NEW j \in Jobs, NEW w \in Workers, RecoverRemote(j, w)
        PROVE  FibersInv'
    <3>1. jobs[j] \in Row /\ jobs[j].engineId \in Engines
            /\ jobs[j].remoteJobId \in Remotes
            /\ remote[j][jobs[j].remoteJobId] # "none"
      BY <2>1 DEF RecoverRemote, IsBound, BaseInv, RowInv, StoreTypeOK, Row
    <3> QED BY <2>1, <3>1, ForkFibers DEF RecoverRemote, Recovered
  <2> QED
    BY <1>0, <1>4, <2>1, QuietFibers
       DEF Recover, StartupRecovery, StartupRecovered, RecoverIncomplete,
           RecoverDeferred, Recovered
<1>5. CASE \E w \in Workers : Work(w) BY <1>5, WorkFibers
<1>6. CASE Environment BY <1>6, EnvironmentFibers
<1> QED BY <1>1, <1>2, <1>3, <1>4, <1>5, <1>6 DEF Next

\* A row other than the one just bound keeps its binding or loses it.
LEMMA BindingMoves ==
  ASSUME StoreTypeOK, NEW j \in Jobs, OtherStoreStep(j) \/ SucceedJob(j)
  PROVE  \A i \in Jobs : jobs'[i].remoteJobId \in {jobs[i].remoteJobId, None}
<1>1. StoreStep(j) BY DEF OtherStoreStep, StoreStep
<1>2. \A i \in Jobs : i # j => jobs'[i] = jobs[i] BY <1>1, OneRow
<1>3. jobs'[j].remoteJobId \in {jobs[j].remoteJobId, None}
  <2> USE DEF StoreTypeOK
  <2>1. CASE CreateJobIfCapacity(j) BY <2>1 DEF CreateJobIfCapacity
  <2>2. CASE RequestCancellation(j) BY <2>2 DEF RequestCancellation
  <2>3. CASE ClaimQueued(j) BY <2>3 DEF ClaimQueued
  <2>4. CASE RenewLease(j) BY <2>4 DEF RenewLease
  <2>5. CASE \E p \in Progress : RecordProgress(j, p) BY <2>5 DEF RecordProgress
  <2>6. CASE SaveResults(j) BY <2>6 DEF SaveResults
  <2>7. CASE LeaseLapses(j) BY <2>7 DEF LeaseLapses
  <2>8. CASE RequeueJob(j) BY <2>8 DEF RequeueJob, TransitionJob
  <2>10. CASE FailJob(j) BY <2>10 DEF FailJob, TransitionJob
  <2>11. CASE FailStorageJob(j) BY <2>11 DEF FailStorageJob, TransitionJob
  <2>12. CASE CancelRemoteJob(j) BY <2>12 DEF CancelRemoteJob, TransitionJob
  <2>9. CASE SucceedJob(j) BY <2>9 DEF SucceedJob, TransitionJob
  <2> QED
    BY <2>1, <2>2, <2>3, <2>4, <2>5, <2>6, <2>7, <2>8, <2>9, <2>10, <2>11,
       <2>12 DEF OtherStoreStep
<1> QED BY <1>2, <1>3

\* All that ever happens to a job of an engine.
CellMoves(j, r) ==
  \/ remote'[j][r] = remote[j][r]
  \/ remote[j][r] = "active" /\ remote'[j][r] \in {"succeeded", "failed", "cancelled"}
  \/ remote[j][r] # "none" /\ remote'[j][r] = "gone"
  \/ /\ remote'[j][r] = "active"
     /\ \E w \in Workers :
          workers[w].pc = "submit" /\ JobOf(w) = j /\ workers[w].remote = r

LEMMA StepCells ==
  ASSUME BaseInv, [Next]_vars, NEW j \in Jobs, NEW r \in Remotes
  PROVE  CellMoves(j, r)
<1>0. remote \in [Jobs -> [Remotes -> RemoteStatus]] BY DEF BaseInv
<1>1. CASE UNCHANGED remote BY <1>1 DEF CellMoves
<1>2. CASE \E w \in Workers : Work(w)
  <2>1. PICK w \in Workers : Work(w) BY <1>2
  <2>2. JobOf(w) \in Jobs /\ workers[w].remote \in Remotes
    BY <2>1, BusyWorker, IdleDoesNotWork
  <2>3. ASSUME NEW s, SetRemote(w, s)
        PROVE  remote'[j][r] = IF j = JobOf(w) /\ r = workers[w].remote
                                 THEN s ELSE remote[j][r]
    BY <1>0, <2>2, <2>3 DEF SetRemote
  <2>4. CASE workers[w].pc = "submit" /\ SetRemote(w, "active")
    BY <2>3, <2>4 DEF CellMoves
  <2>5. CASE RemoteOf(w) = "active" /\ SetRemote(w, "cancelled")
    BY <2>3, <2>5 DEF CellMoves, RemoteOf
  <2> QED BY <1>1, <2>1, <2>4, <2>5, WorkOnRemote
<1>3. ASSUME NEW i \in Jobs, NEW q \in Remotes, RemoteEnds(i, q) \/ RemoteLost(i, q)
      PROVE  CellMoves(j, r)
  BY <1>0, <1>3 DEF RemoteEnds, RemoteLost, CellMoves
<1>4. CASE Stop
  <2>1. PICK S \in SUBSET {w \in Workers : workers[w].pc \in {"submit", "bind"}} :
          remote' = [i \in Jobs |-> [q \in Remotes |->
            LET stopped(pc) == \E w \in S :
                  workers[w].pc = pc /\ JobOf(w) = i /\ workers[w].remote = q
            IN CASE stopped("submit") -> "active"
                 [] stopped("bind") /\ remote[i][q] = "active" -> "cancelled"
                 [] OTHER -> remote[i][q]]]
    BY <1>4 DEF Stop
  <2> DEFINE stopped(pc) == \E w \in S :
               workers[w].pc = pc /\ JobOf(w) = j /\ workers[w].remote = r
  <2>2. remote'[j][r] = CASE stopped("submit") -> "active"
                 [] stopped("bind") /\ remote[j][r] = "active" -> "cancelled"
                 [] OTHER -> remote[j][r]
    BY <2>1
  <2>3. stopped("submit") => \E w \in Workers :
          workers[w].pc = "submit" /\ JobOf(w) = j /\ workers[w].remote = r
    BY <2>1
  <2>4. \/ stopped("submit") /\ remote'[j][r] = "active"
        \/ remote[j][r] = "active" /\ remote'[j][r] = "cancelled"
        \/ remote'[j][r] = remote[j][r]
        \/ stopped("submit") /\ stopped("bind") /\ remote[j][r] = "active"
             /\ remote'[j][r] \in {"active", "cancelled"}
    <3> HIDE DEF stopped
    <3> QED BY <2>2
  <2> QED BY <2>3, <2>4 DEF CellMoves
<1>5. CASE Client BY <1>1, <1>5 DEF Client, SubmitJob, CancelJob, ProbeEngine
<1>6. CASE Schedule
  BY <1>1, <1>6 DEF Schedule, DispatchOne, DispatchClaimFails
<1>7. CASE Recover
  BY <1>1, <1>7 DEF Recover, StartupRecovery, StartupRecovered, RecoverIncomplete,
                    RecoverRemote, RecoverDeferred, Recovered
<1>8. CASE Environment
  BY <1>1, <1>3, <1>4, <1>8 DEF Environment, TimeLapses, TimeCools
<1> QED BY <1>1, <1>2, <1>5, <1>6, <1>7, <1>8 DEF Next, vars

\* A binding names work its engine has taken.
LEMMA StepBindings ==
  ASSUME BaseInv, [Next]_vars, NEW i \in Jobs, jobs'[i].remoteJobId # None
  PROVE  remote'[i][jobs'[i].remoteJobId] # "none"
<1>0. /\ StoreTypeOK
      /\ jobs[i].remoteJobId \in Remotes \cup {None}
      /\ jobs[i].remoteJobId # None => remote[i][jobs[i].remoteJobId] # "none"
  BY DEF BaseInv, RowInv, StoreTypeOK, Row
<1>1. ASSUME NEW q \in Remotes, remote[i][q] # "none"
      PROVE  remote'[i][q] # "none"
  BY <1>1, StepCells DEF CellMoves
<1>2. CASE jobs'[i].remoteJobId = jobs[i].remoteJobId BY <1>0, <1>1, <1>2
<1>3. CASE UNCHANGED storeVars BY <1>2, <1>3 DEF storeVars
<1>4. CASE \E j \in Jobs : OtherStoreStep(j)
  <2>1. jobs'[i].remoteJobId \in {jobs[i].remoteJobId, None}
    BY <1>0, <1>4, BindingMoves
  <2> QED BY <1>2, <2>1
<1>5. ASSUME NEW w \in Workers, BindSubmitted(w)
      PROVE  remote'[i][jobs'[i].remoteJobId] # "none"
  <2>1. workers[w].pc = "bind" BY <1>5 DEF BindSubmitted, At
  <2>2. JobOf(w) \in Jobs /\ workers[w].remote \in Remotes /\ RemoteOf(w) # "none"
    BY <2>1, BusyWorker DEF BaseInv, Submitted
  <2>3. \/ i # JobOf(w) /\ jobs'[i] = jobs[i]
        \/ i = JobOf(w) /\ jobs'[i].remoteJobId = workers[w].remote
    BY <1>0, <1>5, <2>2 DEF BindSubmitted, BindRemote, StoreTypeOK, Row
  <2> QED BY <1>1, <1>2, <2>2, <2>3 DEF RemoteOf
<1>6. ASSUME NEW w \in Workers, At(w, "succeed"), SucceedJob(JobOf(w))
      PROVE  jobs'[i].remoteJobId = jobs[i].remoteJobId
  <2>1. JobOf(w) \in Jobs BY <1>6, BusyWorker DEF At
  <2>2. jobs'[i].remoteJobId \in {jobs[i].remoteJobId, None}
    BY <1>0, <1>6, <2>1, BindingMoves
  <2> QED BY <2>2
<1> QED BY <1>2, <1>3, <1>4, <1>5, <1>6, TableMoves

LEMMA StepProcess ==
  ASSUME BaseInv, [Next]_vars
  PROVE  /\ pending' \subseteq Jobs
         /\ phase' \in {"down", "recovering", "serving"}
         /\ faults' \in [total : Nat, orphaning : Nat]
<1>0. /\ pending \subseteq Jobs
      /\ phase \in {"down", "recovering", "serving"}
      /\ faults \in [total : Nat, orphaning : Nat]
  BY DEF BaseInv
<1>f. ASSUME NEW kind, NoFault \/ Fault(kind)
      PROVE  faults' \in [total : Nat, orphaning : Nat]
  <2>1. CASE NoFault BY <1>0, <2>1 DEF NoFault
  <2>2. CASE Fault(kind)
    <3> DEFINE t == faults.total + 1
               o == IF kind \in Orphaning THEN faults.orphaning + 1
                                         ELSE faults.orphaning
    <3>1. t \in Nat /\ o \in Nat BY <1>0
    <3>2. faults' = [faults EXCEPT !.total = t, !.orphaning = o]
      BY <1>0, <2>2 DEF Fault
    <3> HIDE DEF t, o
    <3> QED BY <1>0, <3>1, <3>2
  <2> QED BY <1>f, <2>1, <2>2
<1>1. CASE UNCHANGED vars BY <1>0, <1>1 DEF vars
<1>2. CASE Client
  BY <1>0, <1>f, <1>2 DEF Client, SubmitJob, CancelJob, ProbeEngine
<1>3. CASE Schedule
  BY <1>0, <1>f, <1>3 DEF Schedule, DispatchOne, DispatchClaimFails
<1>4. CASE Recover
  BY <1>0, <1>f, <1>4 DEF Recover, StartupRecovery, StartupRecovered,
       RecoverIncomplete, RecoverRemote, RecoverDeferred, Recovered, Running,
       WithStatus
<1>5. CASE \E w \in Workers : Work(w)
  BY <1>0, <1>f, <1>5 DEF Work, SubmitAccepted, SubmitFails, BindSubmitted,
       BindImpossible, CancelUnbound, Resume, Fetch, FetchStops, CallAnswered,
       CallNotFound, CallBusy, CallFails, SaveOutcome, PersistOutcome, ReleaseSlot,
       NoFault
<1>6. CASE Environment
  BY <1>0, <1>f, <1>6 DEF Environment, TimeLapses, RemoteEnds, RemoteLost,
       TimeCools, Stop
<1> QED BY <1>1, <1>2, <1>3, <1>4, <1>5, <1>6 DEF Next

LEMMA StepBase ==
  ASSUME BaseInv, [Next]_vars
  PROVE  BaseInv'
<1>1. RowInv' BY StepIsStoreStep, StepRowInv DEF BaseInv
<1>2. PoolInv' BY StepIsPoolStep, StepInv DEF BaseInv
<1>3. FibersInv' BY StepFibers
<1>4. \A j \in Jobs : jobs'[j].remoteJobId # None =>
        remote'[j][jobs'[j].remoteJobId] # "none"
  BY StepBindings
<1> QED BY <1>1, <1>2, <1>3, <1>4, StepProcess DEF BaseInv, FibersInv

\* The dispatcher is always well formed: every fiber, also one that acts on old
\* news, is at a step of the code with a job, a slot and an attempt that exist,
\* and only work that was submitted is ever polled.
THEOREM DispatcherIsWellFormed == Spec => []TypeOK
<1>1. Init => BaseInv BY InitBase
<1>2. BaseInv /\ [Next]_vars => BaseInv' BY StepBase
<1>3. BaseInv => TypeOK BY InvImplies DEF BaseInv, RowInv, TypeOK
<1> QED BY <1>1, <1>2, <1>3, PTL DEF Spec

\* The dispatcher, whatever fails, moves the table only by the operations of the
\* repository: what JobStoreProofs proves of every caller holds of it.
THEOREM DispatcherUsesStore == Spec => UsesStoreOnly
<1>1. Init => BaseInv /\ StoreInit BY InitBase DEF Init
<1>2. BaseInv /\ [Next]_vars => BaseInv' BY StepBase
<1>3. BaseInv /\ [Next]_vars => [StoreNext]_storeVars BY StepIsStoreStep
<1> QED BY <1>1, <1>2, <1>3, PTL DEF Spec, UsesStoreOnly, StoreSpec

\* Likewise it, and the readiness probes beside it, move the pool only by the
\* pool's operations.
THEOREM DispatcherUsesPool == Spec => UsesPoolOnly
<1>1. Init => BaseInv /\ PoolInit BY InitBase DEF Init
<1>2. BaseInv /\ [Next]_vars => BaseInv' BY StepBase
<1>3. BaseInv /\ [Next]_vars => [PoolNext]_pool BY StepIsPoolStep
<1> QED BY <1>1, <1>2, <1>3, PTL DEF Spec, UsesPoolOnly, PoolSpec

\* What is proved of every caller of the repository and of the pool is so for
\* the dispatcher, whatever fails: the limits hold, ends are final, a request to
\* cancel lasts the run, an engine is chosen whenever one is free, an open one
\* rests.
THEOREM DispatcherKeepsLimits ==
  Spec => /\ [](RunningBound /\ LiveBound)
          /\ [](CapacityRespected /\ SelectionIsTotal)
          /\ TerminalIsFinal
          /\ CancelLastsTheRun
          /\ OpenEngineRests
<1>1. Spec => StoreSpec BY DispatcherUsesStore DEF UsesStoreOnly
<1>2. Spec => PoolSpec BY DispatcherUsesPool DEF UsesPoolOnly
<1> QED
  BY <1>1, <1>2, RunningIsBounded, LiveIsBounded, RequestsLastTheRun,
     CapacityIsRespected, OneEngineIsChosen, EndedRowsStay, OpenEnginesRest, PTL

-----------------------------------------------------------------------------
(* The slots.  The count of an engine and the set of the fibers that hold  *)
(* one of its slots only change together, in three ways.                   *)

SlotInv ==
  \A e \in Engines :
    /\ IsFiniteSet(SlotHolders(e))
    /\ pool[e].running = Cardinality(SlotHolders(e))

LEMMA InitSlots == Init => SlotInv
<1> SUFFICES ASSUME Init PROVE SlotInv OBVIOUS
<1>1. \A e \in Engines : SlotHolders(e) = {}
  BY NamesAssumption DEF Init, SlotHolders, EngineOf, IdleWorker
<1> QED BY <1>1, FS_EmptySet DEF SlotInv, Init, PoolInit, FreshEngine

\* Nobody takes or leaves a slot.
LEMMA SlotsKept ==
  ASSUME SlotInv, \A w \in Workers : workers'[w].engine = workers[w].engine,
         \A e \in Engines : pool'[e].running = pool[e].running
  PROVE  SlotInv'
<1>1. \A e \in Engines : SlotHolders(e)' = SlotHolders(e)
  BY DEF SlotHolders, EngineOf
<1> QED BY <1>1 DEF SlotInv

\* A reservation and the fork of the fiber that holds it.
LEMMA SlotTaken ==
  ASSUME BaseInv, SlotInv, NEW w \in Workers, NEW e \in Engines,
         workers[w] = IdleWorker, workers'[w].engine = e,
         \A v \in Workers : v # w => workers'[v] = workers[v],
         TakeSlot(e)
  PROVE  SlotInv'
<1>0. None \notin Engines BY NamesAssumption
<1>1. SlotHolders(e)' = SlotHolders(e) \cup {w} BY DEF SlotHolders, EngineOf
<1>2. w \notin SlotHolders(e)
  BY <1>0 DEF SlotHolders, EngineOf, IdleWorker
<1>3. \A d \in Engines \ {e} : SlotHolders(d)' = SlotHolders(d)
  BY <1>0 DEF SlotHolders, EngineOf, IdleWorker
<1>4. /\ pool'[e].running = pool[e].running + 1
      /\ \A d \in Engines \ {e} : pool'[d].running = pool[d].running
  BY DEF TakeSlot, BaseInv, PoolInv, EngineState
<1>5. /\ IsFiniteSet(SlotHolders(e) \cup {w})
      /\ Cardinality(SlotHolders(e) \cup {w}) = Cardinality(SlotHolders(e)) + 1
  BY <1>2, FS_AddElement DEF SlotInv
<1> QED BY <1>1, <1>3, <1>4, <1>5 DEF SlotInv

\* The last step of a fiber, and the slot it gives back.
LEMMA SlotReleased ==
  ASSUME BaseInv, SlotInv, NEW w \in Workers, ReleaseSlot(w)
  PROVE  SlotInv'
<1>1. PICK e \in Engines : e = EngineOf(w) BY BusyWorker DEF ReleaseSlot, At
<1>2. workers' = [workers EXCEPT ![w] = IdleWorker] /\ Release(e)
  BY <1>1 DEF ReleaseSlot
<1>w. workers \in [Workers -> WorkerState] BY DEF BaseInv
<1>3. SlotHolders(e)' = SlotHolders(e) \ {w}
  BY <1>1, <1>2, <1>w, NamesAssumption DEF SlotHolders, EngineOf, IdleWorker
<1>4. \A d \in Engines \ {e} : SlotHolders(d)' = SlotHolders(d)
  BY <1>1, <1>2, <1>w, NamesAssumption DEF SlotHolders, EngineOf, IdleWorker
<1>5. w \in SlotHolders(e) BY <1>1 DEF SlotHolders
<1>6. /\ IsFiniteSet(SlotHolders(e) \ {w})
      /\ Cardinality(SlotHolders(e) \ {w}) = Cardinality(SlotHolders(e)) - 1
      /\ Cardinality(SlotHolders(e)) \in Nat
      /\ Cardinality(SlotHolders(e) \ {w}) \in Nat
  BY <1>1, <1>5, FS_RemoveElement, FS_CardinalityType DEF SlotInv
<1>7. pool[e].running > 0 BY <1>1, <1>6 DEF SlotInv
<1>8. /\ pool'[e].running = pool[e].running - 1
      /\ \A d \in Engines \ {e} : pool'[d].running = pool[d].running
  BY <1>1, <1>2, <1>7 DEF Release, BaseInv, PoolInv, EngineState
<1> QED BY <1>1, <1>3, <1>4, <1>6, <1>8 DEF SlotInv

\* Breakers do not count slots.
LEMMA BreakersKeepSlots ==
  ASSUME BaseInv, NEW e \in Engines,
         RecordSuccess(e) \/ RecordFailure(e) \/ CooldownElapses(e)
  PROVE  \A d \in Engines : pool'[d].running = pool[d].running
<1>1. pool \in [Engines -> EngineState] BY DEF BaseInv, PoolInv
<1>2. CASE RecordSuccess(e) BY <1>1, <1>2 DEF RecordSuccess, EngineState
<1>3. CASE RecordFailure(e)
  <2> DEFINE reached == pool[e].failures + 1 >= FailureThreshold[e]
             f == IF reached THEN FailureThreshold[e] ELSE pool[e].failures + 1
             h == IF reached THEN "offline" ELSE "degraded"
             o == pool[e].open \/ reached
  <2>1. pool' = [pool EXCEPT ![e].failures = f, ![e].health = h, ![e].open = o]
    BY <1>1, <1>3 DEF RecordFailure
  <2> HIDE DEF f, h, o
  <2> QED BY <1>1, <2>1 DEF EngineState
<1>4. CASE CooldownElapses(e) BY <1>1, <1>4 DEF CooldownElapses, EngineState
<1> QED BY <1>2, <1>3, <1>4

LEMMA WorkSlots ==
  ASSUME BaseInv, SlotInv, NEW w \in Workers, Work(w)
  PROVE  SlotInv'
<1>1. PICK s : /\ workers' = [workers EXCEPT ![w] = s]
               /\ \/ Keeps(workers[w], s)
                  \/ ReleaseSlot(w)
  BY WorkMovesWorker
<1>2. CASE ReleaseSlot(w) BY <1>2, SlotReleased
<1>3. CASE Keeps(workers[w], s) /\ ~ReleaseSlot(w)
  <2>1. \A v \in Workers : workers'[v].engine = workers[v].engine
    BY <1>1, <1>3 DEF Keeps, BaseInv
  <2>2. EngineOf(w) \in Engines BY BusyWorker, IdleDoesNotWork
  <2>3. \A e \in Engines : pool'[e].running = pool[e].running
    <3>1. CASE UNCHANGED pool BY <3>1
    <3>2. CASE RecordSuccess(EngineOf(w)) \/ RecordFailure(EngineOf(w))
      BY <2>2, <3>2, BreakersKeepSlots
    <3> QED
      BY <1>3, <3>1, <3>2
         DEF Work, SubmitAccepted, SubmitFails, BindSubmitted, BindImpossible,
             CancelUnbound, Resume, Fetch, FetchStops, CallAnswered, CallNotFound,
             CallBusy, CallFails, SaveOutcome, PersistOutcome
  <2> QED BY <2>1, <2>3, SlotsKept
<1> QED BY <1>1, <1>2, <1>3

LEMMA StepSlots ==
  ASSUME "claim" \notin FaultKinds, BaseInv, SlotInv, [Next]_vars
  PROVE  SlotInv'
<1>1. CASE UNCHANGED <<pool, workers>> BY <1>1, SlotsKept
<1>2. CASE \E e \in Engines : ProbeEngine(e)
  <2>1. PICK e \in Engines : RecordSuccess(e) \/ RecordFailure(e)
    BY <1>2 DEF ProbeEngine
  <2>2. UNCHANGED workers BY <1>2 DEF ProbeEngine
  <2> QED BY <2>1, <2>2, BreakersKeepSlots, SlotsKept
<1>3. CASE Schedule
  <2>1. PICK j \in Jobs, e \in Engines, w \in Workers : DispatchOne(j, e, w)
    BY <1>3 DEF Schedule, DispatchClaimFails, Fault
  <2>2. jobs'[j] \in Row /\ jobs'[j].attempt \in Remotes
    <3>1. ClaimQueued(j) /\ StoreTypeOK /\ jobs[j].attempt \in Nat
      BY <2>1 DEF DispatchOne, BaseInv, RowInv, StoreTypeOK, Row
    <3>2. StoreTypeOK' BY <3>1, StepTypeOK DEF StoreStep
    <3>3. jobs'[j].attempt = jobs[j].attempt + 1 /\ jobs[j].attempt < ClaimCap
      BY <3>1 DEF ClaimQueued, StoreTypeOK
    <3> QED BY <3>1, <3>2, <3>3, DispatcherAssumption, StoreAssumption
            DEF StoreTypeOK
  <2>3. Started(w, "submit", j, jobs'[j], e, jobs'[j].attempt) /\ TakeSlot(e)
    BY <2>1 DEF DispatchOne, Reserve
  <2> QED BY <2>2, <2>3, ForkedWorker, SlotTaken
<1>4. CASE Recover
  <2>1. ASSUME NEW j \in Jobs, NEW w \in Workers, RecoverRemote(j, w)
        PROVE  SlotInv'
    <3>1. jobs[j] \in Row /\ jobs[j].engineId \in Engines
            /\ jobs[j].remoteJobId \in Remotes
      BY <2>1 DEF RecoverRemote, IsBound, BaseInv, RowInv, StoreTypeOK, Row
    <3>2. /\ Started(w, "resume", j, jobs[j], jobs[j].engineId, jobs[j].remoteJobId)
          /\ TakeSlot(jobs[j].engineId)
      BY <2>1 DEF RecoverRemote, ReserveById
    <3> QED BY <3>1, <3>2, ForkedWorker, SlotTaken
  <2> QED
    BY <1>1, <1>4, <2>1 DEF Recover, StartupRecovery, StartupRecovered,
                            RecoverIncomplete, RecoverDeferred
<1>5. CASE \E w \in Workers : Work(w) BY <1>5, WorkSlots
<1>6. CASE \E e \in Engines : TimeCools(e)
  <2>1. PICK e \in Engines : CooldownElapses(e) BY <1>6 DEF TimeCools
  <2>2. UNCHANGED workers BY <1>6 DEF TimeCools
  <2> QED BY <2>1, <2>2, BreakersKeepSlots, SlotsKept
<1>7. CASE Stop
  <2>1. \A e \in Engines : pool'[e].running = 0 /\ SlotHolders(e)' = {}
    BY <1>7, NamesAssumption
       DEF Stop, PoolReset, FreshEngine, SlotHolders, EngineOf, IdleWorker
  <2> QED BY <2>1, FS_EmptySet DEF SlotInv
<1>8. CASE Environment
  BY <1>1, <1>6, <1>7, <1>8 DEF Environment, TimeLapses, RemoteEnds, RemoteLost
<1>9. CASE Client BY <1>1, <1>2, <1>9 DEF Client, SubmitJob, CancelJob
<1> QED BY <1>1, <1>3, <1>4, <1>5, <1>8, <1>9 DEF Next, vars

\* Whatever crashes, fails, is lost or comes late, and however long calls take:
\* the slots counted for an engine are those its fibers hold, none is leaked and
\* none is given back twice, provided that a claim never fails with a database
\* error, the one way out of the dispatcher that forgets its slot.
THEOREM SlotsBalance ==
  ASSUME "claim" \notin FaultKinds
  PROVE  Spec => []SlotsAccounted
<1>1. Init => BaseInv /\ SlotInv BY InitBase, InitSlots
<1>2. BaseInv /\ SlotInv /\ [Next]_vars => BaseInv' /\ SlotInv'
  BY StepBase, StepSlots
<1>3. SlotInv => SlotsAccounted BY DEF SlotInv, SlotsAccounted
<1> QED BY <1>1, <1>2, <1>3, PTL DEF Spec

-----------------------------------------------------------------------------
(* What a success rests on.                                                *)

Done == {"succeeded", "gone"}

\* Two fibers never make the same submission, and no submission is made twice:
\* its name is the number of a claim, and claims only count upwards.
Submissions ==
  /\ \A j \in Jobs, r \in Remotes : r > jobs[j].attempt => remote[j][r] = "none"
  /\ \A w \in Workers : workers[w].pc = "submit" =>
       /\ RemoteOf(w) = "none"
       /\ workers[w].remote <= RowOf(w).attempt
  /\ \A v, w \in Workers :
       /\ workers[v].pc = "submit" /\ workers[w].pc = "submit"
       /\ JobOf(v) = JobOf(w) /\ workers[v].remote = workers[w].remote
       => v = w

\* A fiber saves and publishes only what its engine has ended.
Outcomes ==
  \A w \in Workers :
    /\ workers[w].pc \in {"save", "succeed"} => RemoteOf(w) \in Done
    /\ workers[w].pc = "succeed" => JobOf(w) \in results

BackedInv == Submissions /\ Outcomes /\ SuccessIsBacked

LEMMA InitBacked == Init => BackedInv
<1> SUFFICES ASSUME Init PROVE BackedInv OBVIOUS
<1>1. \A w \in Workers : workers[w].pc = "idle" BY DEF Init, IdleWorker
<1>2. \A j \in Jobs : jobs[j].status = "absent" BY DEF Init, StoreInit, NoRow
<1>3. \A j \in Jobs, r \in Remotes : remote[j][r] = "none" BY DEF Init
<1> QED
  BY <1>1, <1>2, <1>3 DEF BackedInv, Submissions, Outcomes, SuccessIsBacked

\* Claims count upwards and results stay.
LEMMA TableGrows ==
  ASSUME BaseInv, [Next]_vars
  PROVE  /\ results \subseteq results'
         /\ \A i \in Jobs : /\ jobs[i].attempt \in Nat
                            /\ jobs'[i].attempt \in Nat
                            /\ jobs'[i].attempt >= jobs[i].attempt
<1>0. StoreTypeOK /\ StoreTypeOK' BY StepBase DEF BaseInv, RowInv
<1>1. \A i \in Jobs : jobs[i].attempt \in Nat /\ jobs'[i].attempt \in Nat
  BY <1>0 DEF StoreTypeOK, Row
<1>2. CASE UNCHANGED storeVars BY <1>1, <1>2 DEF storeVars
<1>3. ASSUME NEW j \in Jobs, StoreStep(j)
      PROVE  /\ results \subseteq results'
             /\ \A i \in Jobs : jobs'[i].attempt >= jobs[i].attempt
  <2>1. results \subseteq results'
    BY <1>3 DEF StoreStep, CreateJobIfCapacity, RequestCancellation, ClaimQueued,
         BindRemote, RenewLease, RecordProgress, SaveResults, RequeueJob, SucceedJob,
         FailJob, FailStorageJob, CancelRemoteJob, TransitionJob, LeaseLapses
  <2>2. jobs'[j].attempt \in {jobs[j].attempt, jobs[j].attempt + 1}
    BY <1>0, <1>3, StepAttempts
  <2>3. \A i \in Jobs : i # j => jobs'[i] = jobs[i] BY <1>0, <1>3, OneRow
  <2> QED BY <1>1, <2>1, <2>2, <2>3
<1> QED BY <1>1, <1>2, <1>3, StepIsStoreStep DEF StoreNext

\* What ended stays ended: only a submission makes work active, and its cell is
\* "none" until then.
LEMMA DoneStays ==
  ASSUME BaseInv, BackedInv, [Next]_vars, NEW j \in Jobs, NEW r \in Remotes,
         remote[j][r] \in Done
  PROVE  remote'[j][r] \in Done
<1>1. ~\E w \in Workers :
        workers[w].pc = "submit" /\ JobOf(w) = j /\ workers[w].remote = r
  BY DEF BackedInv, Submissions, RemoteOf, Done
<1> QED BY <1>1, StepCells DEF CellMoves, Done

\* The claims to come find their cells empty.
LEMMA FutureStaysEmpty ==
  ASSUME BaseInv, BackedInv, [Next]_vars, NEW j \in Jobs, NEW r \in Remotes,
         r > jobs'[j].attempt
  PROVE  remote'[j][r] = "none"
<1>1. r > jobs[j].attempt /\ jobs[j].attempt \in Nat /\ r \in Nat
  BY TableGrows, DispatcherAssumption, StoreAssumption
<1>2. remote[j][r] = "none" BY <1>1 DEF BackedInv, Submissions
<1>3. ~\E w \in Workers :
        workers[w].pc = "submit" /\ JobOf(w) = j /\ workers[w].remote = r
  BY <1>1 DEF BackedInv, Submissions, RowOf
<1> QED BY <1>2, <1>3, StepCells DEF CellMoves

\* The two entries of a fiber into the labels Outcomes speaks of.
LEMMA NewLabel ==
  ASSUME BaseInv, NEW w \in Workers, Work(w)
  PROVE  /\ workers'[w].pc = "save" =>
              remote'[JobOf(w)][workers[w].remote] = "succeeded"
         /\ workers'[w].pc = "succeed" =>
              workers[w].pc = "save" /\ JobOf(w) \in results' /\ UNCHANGED remote
<1>0. /\ workers \in [Workers -> WorkerState]
      /\ JobOf(w) \in Jobs /\ workers[w].remote \in Remotes
      /\ workers[w] \in WorkerState
  BY BusyWorker, IdleDoesNotWork DEF BaseInv
<1>g. ASSUME NEW pc, Goes(w, pc) PROVE workers'[w].pc = pc
  BY <1>0, <1>g DEF Goes, WorkerState
<1>1. CASE CallAnswered(w)
  <2> DEFINE answer == remote'[JobOf(w)][workers[w].remote]
  <2>1. CASE Goes(w, "release") BY <1>g, <2>1
  <2>2. CASE workers' = [workers EXCEPT ![w].pc = AfterAnswer(answer),
                                        ![w].failures = 0]
    <3>1. answer \in {"active", "succeeded", "failed", "cancelled"}
      <4>1. At(w, "call") /\ RemoteOf(w) # "gone" BY <1>1 DEF CallAnswered
      <4>2. RemoteOf(w) \in RemoteStatus \ {"none", "gone"}
        BY <1>0, <4>1 DEF BaseInv, At, Submitted, RemoteOf
      <4>3. CASE UNCHANGED remote BY <4>2, <4>3 DEF RemoteOf, RemoteStatus
      <4>4. CASE SetRemote(w, "cancelled") BY <1>0, <4>4 DEF SetRemote, BaseInv
      <4> QED BY <4>1, <4>3, <4>4, WorkOnRemote DEF At
    <3> HIDE DEF answer
    <3>2. workers'[w].pc = AfterAnswer(answer) BY <1>0, <2>2 DEF WorkerState
    <3>3. /\ workers'[w].pc # "succeed"
          /\ workers'[w].pc = "save" => answer = "succeeded"
      BY <3>1, <3>2 DEF AfterAnswer
    <3> QED BY <3>3 DEF answer
  <2> QED BY <1>1, <2>1, <2>2 DEF CallAnswered
<1>2. CASE BindSubmitted(w)
  <2>1. workers'[w].pc = "fetch" BY <1>0, <1>2 DEF BindSubmitted, WorkerState
  <2> QED BY <2>1
<1>3. CASE Fetch(w)
  <2>1. workers'[w].pc = "call" BY <1>0, <1>3 DEF Fetch, WorkerState
  <2> QED BY <2>1
<1>4. CASE CallFails(w)
  <2>1. PICK n : workers' = [workers EXCEPT ![w].failures = n,
          ![w].pc = IF n >= FailureThreshold[EngineOf(w)] THEN "release" ELSE "fetch"]
    BY <1>4 DEF CallFails
  <2> DEFINE to == IF n >= FailureThreshold[EngineOf(w)] THEN "release" ELSE "fetch"
  <2>2. to \notin {"save", "succeed"} OBVIOUS
  <2>3. workers' = [workers EXCEPT ![w].failures = n, ![w].pc = to] BY <2>1
  <2> HIDE DEF to
  <2>4. workers'[w].pc = to BY <1>0, <2>3 DEF WorkerState
  <2> QED BY <2>2, <2>4
<1>5. CASE ReleaseSlot(w)
  <2>1. workers'[w].pc = "idle" BY <1>0, <1>5 DEF ReleaseSlot, IdleWorker
  <2> QED BY <2>1
<1>6. CASE SaveOutcome(w) BY <1>6, <1>g DEF SaveOutcome, SaveResults, At
<1> QED
  BY <1>1, <1>2, <1>3, <1>4, <1>5, <1>6, <1>g
     DEF Work, SubmitAccepted, SubmitFails, BindImpossible, CancelUnbound, Resume,
         FetchStops, CallNotFound, CallBusy, PersistOutcome


LEMMA StepSubmissions ==
  ASSUME BaseInv, BackedInv, [Next]_vars
  PROVE  Submissions'
<1>1. \A j \in Jobs, r \in Remotes : r > jobs'[j].attempt => remote'[j][r] = "none"
  BY FutureStaysEmpty
<1> DEFINE Fresh(v) == /\ remote'[workers'[v].job][workers'[v].remote] = "none"
                       /\ workers'[v].remote <= jobs'[workers'[v].job].attempt
           Waits(v) == workers[v].pc = "submit"
           Same(u, v) == workers'[u].job = workers'[v].job
                           /\ workers'[u].remote = workers'[v].remote
\* A fiber that stays where it is keeps its empty cell.
<1>2. ASSUME NEW v \in Workers, Waits(v), workers'[v] = workers[v],
             remote'[JobOf(v)][workers[v].remote] = RemoteOf(v)
      PROVE  Fresh(v)
  <2>1. JobOf(v) \in Jobs /\ workers[v].remote \in Nat
    BY <1>2, BusyWorker, DispatcherAssumption, StoreAssumption
  <2>2. RemoteOf(v) = "none" /\ workers[v].remote <= jobs[JobOf(v)].attempt
    BY <1>2 DEF BackedInv, Submissions, RowOf
  <2> QED BY <1>2, <2>1, <2>2, TableGrows DEF JobOf
<1>3. ASSUME \A v \in Workers : workers'[v].pc = "submit" =>
               /\ Waits(v) /\ workers'[v] = workers[v]
               /\ remote'[JobOf(v)][workers[v].remote] = RemoteOf(v)
      PROVE  Submissions'
  <2>1. \A v \in Workers : workers'[v].pc = "submit" => Fresh(v) BY <1>2, <1>3
  <2>2. \A u, v \in Workers :
          workers'[u].pc = "submit" /\ workers'[v].pc = "submit" /\ Same(u, v)
            => u = v
    BY <1>3 DEF BackedInv, Submissions, JobOf
  <2> QED BY <1>1, <2>1, <2>2 DEF Submissions, RemoteOf, RowOf, JobOf
<1>4. CASE UNCHANGED <<workers, remote>> BY <1>3, <1>4 DEF RemoteOf, JobOf
<1>5. ASSUME NEW j \in Jobs, NEW e \in Engines, NEW w \in Workers,
             DispatchOne(j, e, w)
      PROVE  Submissions'
  <2>1. /\ ClaimQueued(j) /\ StoreTypeOK /\ jobs[j].attempt \in Nat
        /\ UNCHANGED remote
    BY <1>5 DEF DispatchOne, BaseInv, RowInv, StoreTypeOK, Row
  <2>2. StoreTypeOK' BY <2>1, StepTypeOK DEF StoreStep
  <2>3. jobs'[j].attempt = jobs[j].attempt + 1 /\ jobs[j].attempt < ClaimCap
    BY <2>1 DEF ClaimQueued, StoreTypeOK
  <2>4. jobs'[j] \in Row /\ jobs'[j].attempt \in Remotes
    BY <2>1, <2>2, <2>3, DispatcherAssumption, StoreAssumption DEF StoreTypeOK
  <2>5. /\ \A v \in Workers : v # w => workers'[v] = workers[v]
        /\ workers'[w].job = j /\ workers'[w].remote = jobs'[j].attempt
    BY <1>5, <2>4, ForkedWorker DEF DispatchOne
  <2>6. remote[j][jobs'[j].attempt] = "none"
    BY <2>1, <2>3, <2>4 DEF BackedInv, Submissions
  <2>7. Fresh(w) BY <2>1, <2>3, <2>5, <2>6
  <2>8. \A v \in Workers : v # w /\ workers'[v].pc = "submit" => Fresh(v)
    BY <1>2, <2>1, <2>5 DEF RemoteOf
  <2>9. ASSUME NEW v \in Workers, v # w, workers'[v].pc = "submit", workers'[v].job = j
        PROVE  workers'[v].remote # jobs'[j].attempt
    <3>1. Waits(v) /\ JobOf(v) = j /\ workers'[v] = workers[v]
      BY <2>5, <2>9 DEF JobOf
    <3>2. workers[v].remote <= jobs[j].attempt /\ workers[v].remote \in Nat
      BY <3>1, BusyWorker, DispatcherAssumption, StoreAssumption
         DEF BackedInv, Submissions, RowOf
    <3> QED BY <2>1, <2>3, <3>1, <3>2
  <2>10. \A u, v \in Workers :
           workers'[u].pc = "submit" /\ workers'[v].pc = "submit" /\ Same(u, v)
             => u = v
    BY <2>5, <2>9 DEF BackedInv, Submissions, JobOf
  <2> QED BY <1>1, <2>7, <2>8, <2>10 DEF Submissions, RemoteOf, RowOf, JobOf
<1>6. ASSUME NEW j \in Jobs, NEW w \in Workers, RecoverRemote(j, w)
      PROVE  Submissions'
  <2>1. jobs[j] \in Row /\ jobs[j].engineId \in Engines
          /\ jobs[j].remoteJobId \in Remotes
    BY <1>6 DEF RecoverRemote, IsBound, BaseInv, RowInv, StoreTypeOK, Row
  <2>2. /\ \A v \in Workers : v # w => workers'[v] = workers[v]
        /\ workers'[w].pc = "resume"
    BY <1>6, <2>1, ForkedWorker DEF RecoverRemote
  <2>3. UNCHANGED remote BY <1>6 DEF RecoverRemote, Recovered
  <2> QED BY <1>3, <2>2, <2>3 DEF RemoteOf
<1>7. ASSUME NEW w \in Workers, Work(w)
      PROVE  Submissions'
  <2>1. PICK s : /\ workers' = [workers EXCEPT ![w] = s]
                 /\ Keeps(workers[w], s) \/ s = IdleWorker
    BY <1>7, WorkMovesWorker
  <2>2. s.pc # "submit" BY <2>1 DEF Keeps, IdleWorker
  <2>3. workers \in [Workers -> WorkerState] BY DEF BaseInv
  <2>4. ASSUME NEW v \in Workers, workers'[v].pc = "submit"
        PROVE  /\ Waits(v) /\ workers'[v] = workers[v]
               /\ remote'[JobOf(v)][workers[v].remote] = RemoteOf(v)
    <3>1. v # w /\ workers'[v] = workers[v] BY <2>1, <2>2, <2>3, <2>4
    <3>2. Waits(v) BY <2>4, <3>1
    <3>3. /\ JobOf(v) \in Jobs /\ workers[v].remote \in Remotes
          /\ JobOf(w) \in Jobs /\ workers[w].remote \in Remotes
          /\ RemoteOf(v) = "none"
      BY <1>7, <3>2, BusyWorker, IdleDoesNotWork DEF BackedInv, Submissions
    <3>4. CASE JobOf(v) # JobOf(w) \/ workers[v].remote # workers[w].remote
      BY <1>7, <3>1, <3>2, <3>3, <3>4, WorkKeepsCells DEF RemoteOf
    <3>5. CASE JobOf(v) = JobOf(w) /\ workers[v].remote = workers[w].remote
      <4>1. workers[w].pc # "submit"
        BY <3>1, <3>2, <3>5 DEF BackedInv, Submissions
      <4>2. RemoteOf(w) # "active" BY <3>3, <3>5 DEF RemoteOf
      <4>3. UNCHANGED remote BY <1>7, <4>1, <4>2, WorkOnRemote
      <4> QED BY <3>1, <3>2, <4>3 DEF RemoteOf
    <3> QED BY <3>4, <3>5
  <2> QED BY <1>3, <2>4
<1>8. ASSUME NEW j \in Jobs, NEW r \in Remotes, RemoteEnds(j, r) \/ RemoteLost(j, r)
      PROVE  Submissions'
  <2>1. /\ UNCHANGED workers /\ remote[j][r] # "none"
        /\ \A i \in Jobs, q \in Remotes : i # j \/ q # r => remote'[i][q] = remote[i][q]
    BY <1>8 DEF RemoteEnds, RemoteLost, BaseInv
  <2>2. ASSUME NEW v \in Workers, workers'[v].pc = "submit"
        PROVE  /\ Waits(v) /\ workers'[v] = workers[v]
               /\ remote'[JobOf(v)][workers[v].remote] = RemoteOf(v)
    <3>1. JobOf(v) \in Jobs /\ workers[v].remote \in Remotes /\ RemoteOf(v) = "none"
      BY <2>1, <2>2, BusyWorker DEF BackedInv, Submissions
    <3> QED BY <2>1, <2>2, <3>1 DEF RemoteOf
  <2> QED BY <1>3, <2>2
<1>9. CASE Stop
  <2>1. \A v \in Workers : workers'[v].pc # "submit" BY <1>9 DEF Stop, IdleWorker
  <2> QED BY <1>3, <2>1
<1> QED
  BY <1>4, <1>5, <1>6, <1>7, <1>8, <1>9
     DEF Next, vars, Client, SubmitJob, CancelJob, ProbeEngine, Schedule,
         DispatchClaimFails, Recover, StartupRecovery, StartupRecovered,
         RecoverIncomplete, RecoverDeferred, Recovered, Environment, TimeLapses,
         TimeCools

LEMMA StepOutcomes ==
  ASSUME BaseInv, BackedInv, [Next]_vars
  PROVE  Outcomes'
<1> DEFINE Good(v) ==
             /\ workers'[v].pc \in {"save", "succeed"} =>
                  remote'[workers'[v].job][workers'[v].remote] \in Done
             /\ workers'[v].pc = "succeed" => workers'[v].job \in results'
<1>1. ASSUME NEW v \in Workers, workers'[v] = workers[v]
      PROVE  Good(v)
  <2>1. CASE workers[v].pc \in {"save", "succeed"}
    <3>1. JobOf(v) \in Jobs /\ workers[v].remote \in Remotes BY <2>1, BusyWorker
    <3> QED BY <1>1, <2>1, <3>1, DoneStays, TableGrows
            DEF BackedInv, Outcomes, RemoteOf, JobOf
  <2> QED BY <1>1, <2>1
<1>2. CASE UNCHANGED workers
  BY <1>1, <1>2 DEF Outcomes, RemoteOf, JobOf
<1>3. ASSUME NEW w \in Workers, NEW pc \in {"submit", "resume"},
             workers'[w].pc = pc,
             \A v \in Workers : v # w => workers'[v] = workers[v]
      PROVE  Outcomes'
  <2>1. \A v \in Workers : Good(v) BY <1>1, <1>3
  <2> QED BY <2>1 DEF Outcomes, RemoteOf, JobOf
<1>4. ASSUME NEW j \in Jobs, NEW e \in Engines, NEW w \in Workers,
             DispatchOne(j, e, w)
      PROVE  Outcomes'
  <2>1. workers' = [workers EXCEPT ![w] = workers'[w]] /\ workers'[w].pc = "submit"
    BY <1>4 DEF DispatchOne, Started, BaseInv
  <2> QED BY <1>3, <2>1 DEF BaseInv
<1>5. ASSUME NEW j \in Jobs, NEW w \in Workers, RecoverRemote(j, w)
      PROVE  Outcomes'
  <2>1. workers' = [workers EXCEPT ![w] = workers'[w]] /\ workers'[w].pc = "resume"
    BY <1>5 DEF RecoverRemote, Started, BaseInv
  <2> QED BY <1>3, <2>1 DEF BaseInv
<1>6. ASSUME NEW w \in Workers, Work(w)
      PROVE  Outcomes'
  <2>1. PICK s : /\ workers' = [workers EXCEPT ![w] = s]
                 /\ Keeps(workers[w], s) \/ s = IdleWorker
    BY <1>6, WorkMovesWorker
  <2>2. /\ workers'[w] = s
        /\ \A v \in Workers : v # w => workers'[v] = workers[v]
    BY <2>1 DEF BaseInv
  <2>3. CASE s = IdleWorker
    <3>1. workers'[w].pc = "idle" BY <2>2, <2>3 DEF IdleWorker
    <3>2. \A v \in Workers : Good(v) BY <1>1, <2>2, <3>1
    <3> QED BY <3>2 DEF Outcomes, RemoteOf, JobOf
  <2>4. CASE Keeps(workers[w], s)
    <3>1. workers'[w].job = JobOf(w) /\ workers'[w].remote = workers[w].remote
      BY <2>2, <2>4 DEF Keeps, JobOf
    <3>2. ASSUME workers'[w].pc = "save"
          PROVE  remote'[JobOf(w)][workers[w].remote] \in Done
      BY <1>6, <3>2, NewLabel DEF Done
    <3>3. ASSUME workers'[w].pc = "succeed"
          PROVE  /\ remote'[JobOf(w)][workers[w].remote] \in Done
                 /\ JobOf(w) \in results'
      BY <1>6, <3>3, NewLabel DEF BackedInv, Outcomes, RemoteOf
    <3>4. Good(w) BY <3>1, <3>2, <3>3
    <3>5. \A v \in Workers : Good(v) BY <1>1, <2>2, <3>4
    <3> QED BY <3>5 DEF Outcomes, RemoteOf, JobOf
  <2> QED BY <2>1, <2>3, <2>4
<1>7. CASE Stop
  <2>1. \A v \in Workers : workers'[v].pc = "idle" BY <1>7 DEF Stop, IdleWorker
  <2> QED BY <2>1 DEF Outcomes
<1> QED
  BY <1>2, <1>4, <1>5, <1>6, <1>7
     DEF Next, vars, Client, SubmitJob, CancelJob, ProbeEngine, Schedule,
         DispatchClaimFails, Recover, StartupRecovery, StartupRecovered,
         RecoverIncomplete, RecoverDeferred, Environment, TimeLapses, RemoteEnds,
         RemoteLost, TimeCools

\* Only the transition of the fiber at "succeed" publishes.
LEMMA OnlyOnePublishes ==
  ASSUME BaseInv, [Next]_vars, NEW i \in Jobs, jobs'[i].status = "succeeded"
  PROVE  \/ jobs[i].status = "succeeded"
         \/ \E w \in Workers : At(w, "succeed") /\ JobOf(w) = i
<1>0. StoreTypeOK BY DEF BaseInv, RowInv
<1>1. CASE UNCHANGED storeVars BY <1>1 DEF storeVars
<1>2. ASSUME NEW j \in Jobs, OtherStoreStep(j)
      PROVE  jobs[i].status = "succeeded"
  <2>1. CASE i # j
    BY <1>0, <1>2, <2>1, OneRow DEF OtherStoreStep, StoreStep
  <2>2. CASE i = j
    BY <1>0, <1>2, <2>2
       DEF OtherStoreStep, CreateJobIfCapacity, RequestCancellation, ClaimQueued,
           RenewLease, RecordProgress, SaveResults, RequeueJob, FailJob,
           FailStorageJob, CancelRemoteJob, TransitionJob, LeaseLapses, StoreTypeOK,
           Row
  <2> QED BY <2>1, <2>2
<1>3. ASSUME NEW w \in Workers, BindSubmitted(w)
      PROVE  jobs[i].status = "succeeded"
  BY <1>0, <1>3 DEF BindSubmitted, BindRemote, StoreTypeOK, Row
<1>4. ASSUME NEW w \in Workers, At(w, "succeed"), SucceedJob(JobOf(w))
      PROVE  jobs[i].status = "succeeded" \/ JobOf(w) = i
  BY <1>0, <1>4 DEF SucceedJob, TransitionJob, StoreTypeOK, Row
<1> QED BY <1>1, <1>2, <1>3, <1>4, TableMoves

LEMMA StepBacked ==
  ASSUME BaseInv, BackedInv, [Next]_vars
  PROVE  BackedInv'
<1>1. ASSUME NEW i \in Jobs, jobs'[i].status = "succeeded"
      PROVE  i \in results' /\ \E r \in Remotes : remote'[i][r] \in Done
  <2>1. CASE jobs[i].status = "succeeded"
    <3>1. i \in results /\ \E r \in Remotes : remote[i][r] \in Done
      BY <2>1 DEF BackedInv, SuccessIsBacked, Done
    <3> QED BY <3>1, DoneStays, TableGrows
  <2>2. CASE \E w \in Workers : At(w, "succeed") /\ JobOf(w) = i
    <3>1. PICK w \in Workers : At(w, "succeed") /\ JobOf(w) = i BY <2>2
    <3>2. /\ workers[w].remote \in Remotes
          /\ remote[i][workers[w].remote] \in Done /\ i \in results
      BY <3>1, BusyWorker DEF At, BackedInv, Outcomes, RemoteOf
    <3> QED BY <3>2, DoneStays, TableGrows
  <2> QED BY <1>1, <2>1, <2>2, OnlyOnePublishes
<1> QED
  BY <1>1, StepSubmissions, StepOutcomes DEF BackedInv, SuccessIsBacked, Done

\* Whatever fails, is lost, is slow or is done twice: a job is published as
\* succeeded only with its results stored, after the engine ended some work
\* that was submitted for that very job.
THEOREM SuccessesAreBacked == Spec => []SuccessIsBacked
<1>1. Init => BaseInv /\ BackedInv BY InitBase, InitBacked
<1>2. BaseInv /\ BackedInv /\ [Next]_vars => BaseInv' /\ BackedInv'
  BY StepBase, StepBacked
<1> QED BY <1>1, <1>2, PTL DEF Spec, BackedInv
=============================================================================
