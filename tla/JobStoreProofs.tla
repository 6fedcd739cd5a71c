--------------------------- MODULE JobStoreProofs ---------------------------
(***************************************************************************)
(* Proofs about the job table, for any number of jobs and any limits.      *)
(*                                                                         *)
(* The argument: every operation touches one row (OneRow), and what it may *)
(* do to the status of that row is a short list of moves, each with the    *)
(* count that guards it (RowMoves).  The bounds follow by counting the     *)
(* rows that enter and leave a status.                                     *)
(***************************************************************************)
EXTENDS JobStore, FiniteSetTheorems, TLAPS

\* A row runs, succeeds or fails only after a claim, and none is claimed more
\* often than the exploration allows; no request to cancel waits in the queue.
RunsAreClaimed ==
  \A j \in Jobs :
    /\ jobs[j].attempt <= ClaimCap
    /\ jobs[j].status \in {"running", "succeeded", "failed"}
         => jobs[j].attempt > 0
    /\ jobs[j].status \in {"absent", "queued"} => ~jobs[j].cancelRequested

\* The inductive invariant of the rows, one row at a time.
RowInv == StoreTypeOK /\ BindingOnlyWhileRunning /\ RunsAreClaimed

\* An operation on a job leaves the rows of all the others alone.
LEMMA OneRow ==
  ASSUME StoreTypeOK, NEW j \in Jobs, StoreStep(j)
  PROVE  \A i \in Jobs : i # j => jobs'[i] = jobs[i]
<1> USE DEF StoreTypeOK
<1>1. CASE CreateJobIfCapacity(j) BY <1>1 DEF CreateJobIfCapacity
<1>2. CASE RequestCancellation(j) BY <1>2 DEF RequestCancellation
<1>3. CASE ClaimQueued(j) BY <1>3 DEF ClaimQueued
<1>4. CASE \E e \in Engines, r \in Remotes : BindRemote(j, e, r)
  BY <1>4 DEF BindRemote
<1>5. CASE RenewLease(j) BY <1>5 DEF RenewLease
<1>6. CASE \E p \in Progress : RecordProgress(j, p) BY <1>6 DEF RecordProgress
<1>7. CASE SaveResults(j) BY <1>7 DEF SaveResults
<1>8. CASE RequeueJob(j) BY <1>8 DEF RequeueJob, TransitionJob
<1>9. CASE SucceedJob(j) BY <1>9 DEF SucceedJob, TransitionJob
<1>10. CASE FailJob(j) BY <1>10 DEF FailJob, TransitionJob
<1>11. CASE FailStorageJob(j) BY <1>11 DEF FailStorageJob, TransitionJob
<1>12. CASE CancelRemoteJob(j) BY <1>12 DEF CancelRemoteJob, TransitionJob
<1>13. CASE LeaseLapses(j) BY <1>13 DEF LeaseLapses
<1> QED
  BY <1>1, <1>2, <1>3, <1>4, <1>5, <1>6, <1>7, <1>8, <1>9, <1>10, <1>11,
     <1>12, <1>13 DEF StoreStep

-----------------------------------------------------------------------------
\* The row a transition leaves behind.
LEMMA TransitionedRow ==
  ASSUME StoreTypeOK, NEW j \in Jobs, NEW to \in Terminal \cup {"queued"},
         NEW cancel \in BOOLEAN, TransitionJob(j, to, cancel)
  PROVE  /\ jobs[j].status = "running"
         /\ StoreTypeOK'
         /\ jobs'[j].status = to
         /\ jobs'[j].attempt = jobs[j].attempt
         /\ jobs'[j].cancelRequested = cancel
         /\ jobs'[j].engineId = None
         /\ jobs'[j].remoteJobId = None
         /\ jobs'[j].lease = "none"
<1> DEFINE row == [jobs[j] EXCEPT
                     !.status = to, !.cancelRequested = cancel,
                     !.engineId = None, !.remoteJobId = None, !.lease = "none"]
<1>1. jobs \in [Jobs -> Row] /\ jobs[j] \in Row BY DEF StoreTypeOK
<1>2. to \in Status BY DEF Status, Terminal
<1>3. row \in Row /\ row.attempt = jobs[j].attempt
  BY <1>1, <1>2 DEF Row, Lease
<1>4. jobs' = [jobs EXCEPT ![j] = row] BY <1>1 DEF TransitionJob, Row
<1>5. jobs'[j] = row BY <1>1, <1>4
<1>6. StoreTypeOK'
  BY <1>1, <1>3, <1>4 DEF TransitionJob, StoreTypeOK
<1>7. /\ row.status = to
      /\ row.cancelRequested = cancel
      /\ row.engineId = None
      /\ row.remoteJobId = None
      /\ row.lease = "none"
  BY <1>1 DEF Row
<1> QED BY <1>3, <1>5, <1>6, <1>7 DEF TransitionJob

\* Every operation keeps the table well formed.
LEMMA StepTypeOK ==
  ASSUME StoreTypeOK, NEW j \in Jobs, StoreStep(j)
  PROVE  StoreTypeOK'
<1>0. jobs[j].cancelRequested \in BOOLEAN BY DEF StoreTypeOK, Row
<1>1. CASE CreateJobIfCapacity(j)
  BY <1>1 DEF CreateJobIfCapacity, StoreTypeOK, Row, Status
<1>2. CASE RequestCancellation(j)
  <2> DEFINE row == [jobs[j] EXCEPT
        !.cancelRequested = TRUE,
        !.status = IF @ = "queued" THEN "cancelled" ELSE @]
  <2>1. jobs[j] \in Row BY DEF StoreTypeOK
  <2>2. row \in Row BY <2>1 DEF Row, Status, Terminal
  <2>3. jobs' = [jobs EXCEPT ![j] = row] /\ UNCHANGED results
    BY <1>2, <2>1 DEF RequestCancellation, StoreTypeOK, Row
  <2> QED BY <2>2, <2>3 DEF StoreTypeOK
<1>3. CASE ClaimQueued(j)
  BY <1>3 DEF ClaimQueued, StoreTypeOK, Row, Status, Lease
<1>4. CASE \E e \in Engines, r \in Remotes : BindRemote(j, e, r)
  <2>1. PICK e \in Engines, r \in Remotes : BindRemote(j, e, r) BY <1>4
  <2> DEFINE row == [jobs[j] EXCEPT
        !.engineId = e, !.remoteJobId = r, !.lease = "held"]
  <2>2. jobs[j] \in Row BY DEF StoreTypeOK
  <2>3. row \in Row BY <2>2 DEF Row, Lease
  <2>4. jobs' = [jobs EXCEPT ![j] = row] /\ UNCHANGED results
    BY <2>1, <2>2 DEF BindRemote, StoreTypeOK, Row
  <2> QED BY <2>3, <2>4 DEF StoreTypeOK
<1>5. CASE RenewLease(j) BY <1>5 DEF RenewLease, StoreTypeOK, Row, Lease
<1>6. CASE \E p \in Progress : RecordProgress(j, p)
  BY <1>6 DEF RecordProgress, StoreTypeOK, Row
<1>7. CASE SaveResults(j) BY <1>7 DEF SaveResults, StoreTypeOK
<1>8. CASE RequeueJob(j) BY <1>8, TransitionedRow DEF RequeueJob
<1>9. CASE SucceedJob(j) BY <1>9, TransitionedRow DEF SucceedJob, Terminal
<1>10. CASE FailJob(j) BY <1>10, TransitionedRow DEF FailJob, Terminal
<1>11. CASE FailStorageJob(j)
  BY <1>0, <1>11, TransitionedRow DEF FailStorageJob, Terminal
<1>12. CASE CancelRemoteJob(j)
  BY <1>12, TransitionedRow DEF CancelRemoteJob, Terminal
<1>13. CASE LeaseLapses(j) BY <1>13 DEF LeaseLapses, StoreTypeOK, Row, Lease
<1> QED
  BY <1>1, <1>2, <1>3, <1>4, <1>5, <1>6, <1>7, <1>8, <1>9, <1>10, <1>11,
     <1>12, <1>13 DEF StoreStep

\* The moves of one row's status, each with the count that allows it.
LEMMA RowMoves ==
  ASSUME StoreTypeOK, NEW j \in Jobs, StoreStep(j)
  PROVE  \/ jobs'[j].status = jobs[j].status
         \/ /\ jobs[j].status = "absent"
            /\ jobs'[j].status = "queued"
            /\ Cardinality(Queued) < MaxQueuedJobs
         \/ /\ jobs[j].status = "queued"
            /\ jobs'[j].status = "running"
            /\ Cardinality(Running) < MaxRunningJobs
         \/ /\ jobs[j].status = "queued"
            /\ jobs'[j].status = "cancelled"
         \/ /\ jobs[j].status = "running"
            /\ jobs'[j].status \in {"queued"} \cup Terminal
<1> USE DEF StoreTypeOK, Row
<1>1. CASE CreateJobIfCapacity(j) BY <1>1 DEF CreateJobIfCapacity
<1>2. CASE RequestCancellation(j) BY <1>2 DEF RequestCancellation
<1>3. CASE ClaimQueued(j) BY <1>3 DEF ClaimQueued
<1>4. CASE \E e \in Engines, r \in Remotes : BindRemote(j, e, r)
  BY <1>4 DEF BindRemote
<1>5. CASE RenewLease(j) BY <1>5 DEF RenewLease
<1>6. CASE \E p \in Progress : RecordProgress(j, p) BY <1>6 DEF RecordProgress
<1>7. CASE SaveResults(j) BY <1>7 DEF SaveResults
<1>8. CASE \/ RequeueJob(j) \/ SucceedJob(j) \/ FailJob(j)
           \/ FailStorageJob(j) \/ CancelRemoteJob(j)
  BY <1>8 DEF RequeueJob, SucceedJob, FailJob, FailStorageJob, CancelRemoteJob,
              TransitionJob, Terminal
<1>9. CASE LeaseLapses(j) BY <1>9 DEF LeaseLapses
<1> QED
  BY <1>1, <1>2, <1>3, <1>4, <1>5, <1>6, <1>7, <1>8, <1>9 DEF StoreStep

-----------------------------------------------------------------------------
LEMMA InitRowInv == StoreInit => RowInv
BY NamesAssumption, StoreAssumption
   DEF StoreInit, NoRow, RowInv, StoreTypeOK, Row, Status, Lease, Terminal,
       BindingOnlyWhileRunning, RunsAreClaimed

\* What RowInv says of one row.
GoodRow(row) ==
  /\ row.lease # "none" <=> row.status = "running"
  /\ row.engineId # None <=> row.remoteJobId # None
  /\ row.engineId # None => row.status = "running"
  /\ row.attempt <= ClaimCap
  /\ row.status \in {"running", "succeeded", "failed"} => row.attempt > 0
  /\ row.status \in {"absent", "queued"} => ~row.cancelRequested

LEMMA GoodRows ==
  BindingOnlyWhileRunning /\ RunsAreClaimed
    <=> \A j \in Jobs : GoodRow(jobs[j])
BY DEF BindingOnlyWhileRunning, RunsAreClaimed, GoodRow

\* A transition leaves a good row behind when its flag fits its target.
LEMMA TransitionedGoodRow ==
  ASSUME RowInv, NEW j \in Jobs, NEW to \in Terminal \cup {"queued"},
         NEW cancel \in BOOLEAN, TransitionJob(j, to, cancel),
         to = "queued" => ~cancel
  PROVE  GoodRow(jobs'[j])
<1>1. /\ jobs[j].status = "running"
      /\ jobs'[j].status = to
      /\ jobs'[j].attempt = jobs[j].attempt
      /\ jobs'[j].cancelRequested = cancel
      /\ jobs'[j].engineId = None
      /\ jobs'[j].remoteJobId = None
      /\ jobs'[j].lease = "none"
  BY TransitionedRow DEF RowInv
<1>2. jobs[j].attempt > 0 /\ jobs[j].attempt <= ClaimCap
  BY <1>1 DEF RowInv, RunsAreClaimed
<1>3. to # "running" /\ to # "absent" BY DEF Terminal
<1> QED BY <1>1, <1>2, <1>3 DEF GoodRow

\* Every operation leaves a good row behind.
LEMMA StepGoodRow ==
  ASSUME RowInv, NEW j \in Jobs, StoreStep(j)
  PROVE  GoodRow(jobs'[j])
<1>1. /\ StoreTypeOK
      /\ GoodRow(jobs[j])
      /\ jobs \in [Jobs -> Row]
      /\ jobs[j] \in Row
      /\ jobs[j].attempt \in Nat
      /\ ClaimCap \in Nat
  BY GoodRows, StoreAssumption DEF RowInv, StoreTypeOK, Row
<1>2. CASE CreateJobIfCapacity(j)
  BY <1>1, <1>2 DEF CreateJobIfCapacity, GoodRow, Row
<1>3. CASE RequestCancellation(j)
  <2>1. /\ jobs[j].status \in {"queued", "running"}
        /\ jobs'[j] = [jobs[j] EXCEPT
             !.cancelRequested = TRUE,
             !.status = IF @ = "queued" THEN "cancelled" ELSE @]
    BY <1>1, <1>3 DEF RequestCancellation, Row
  <2>2. /\ jobs'[j].cancelRequested
        /\ jobs'[j].status =
             IF jobs[j].status = "queued" THEN "cancelled" ELSE jobs[j].status
        /\ jobs'[j].lease = jobs[j].lease
        /\ jobs'[j].engineId = jobs[j].engineId
        /\ jobs'[j].remoteJobId = jobs[j].remoteJobId
        /\ jobs'[j].attempt = jobs[j].attempt
    BY <1>1, <2>1 DEF Row
  <2> QED BY <1>1, <2>1, <2>2 DEF GoodRow
<1>4. CASE ClaimQueued(j)
  BY <1>1, <1>4 DEF ClaimQueued, GoodRow, Row
<1>5. CASE \E e \in Engines, r \in Remotes : BindRemote(j, e, r)
  BY <1>1, <1>5, NamesAssumption, StoreAssumption DEF BindRemote, GoodRow, Row
<1>6. CASE RenewLease(j)
  BY <1>1, <1>6 DEF RenewLease, GoodRow, Row
<1>7. CASE \E p \in Progress : RecordProgress(j, p)
  BY <1>1, <1>7 DEF RecordProgress, GoodRow, Row
<1>8. CASE SaveResults(j)
  BY <1>1, <1>8 DEF SaveResults, GoodRow, Row
<1>9. CASE RequeueJob(j)
  BY <1>9, TransitionedGoodRow DEF RequeueJob
<1>10. CASE SucceedJob(j)
  <2>1. TransitionJob(j, "succeeded", FALSE) BY <1>10 DEF SucceedJob
  <2>2. "succeeded" \in Terminal BY DEF Terminal
  <2> QED BY <2>1, <2>2, TransitionedGoodRow
<1>11. CASE FailJob(j)
  <2>1. TransitionJob(j, "failed", FALSE) BY <1>11 DEF FailJob
  <2>2. "failed" \in Terminal BY DEF Terminal
  <2> QED BY <2>1, <2>2, TransitionedGoodRow
<1>12. CASE FailStorageJob(j)
  <2>1. TransitionJob(j, "failed", jobs[j].cancelRequested)
    BY <1>12 DEF FailStorageJob
  <2>2. "failed" \in Terminal /\ jobs[j].cancelRequested \in BOOLEAN
    BY <1>1 DEF Row, Terminal
  <2> QED BY <2>1, <2>2, TransitionedGoodRow
<1>13. CASE CancelRemoteJob(j)
  <2>1. TransitionJob(j, "cancelled", TRUE) BY <1>13 DEF CancelRemoteJob
  <2>2. "cancelled" \in Terminal BY DEF Terminal
  <2> QED BY <2>1, <2>2, TransitionedGoodRow
<1>14. CASE LeaseLapses(j)
  BY <1>1, <1>14 DEF LeaseLapses, GoodRow, Row
<1> QED
  BY <1>2, <1>3, <1>4, <1>5, <1>6, <1>7, <1>8, <1>9, <1>10, <1>11, <1>12,
     <1>13, <1>14 DEF StoreStep

LEMMA StepRowInv ==
  ASSUME RowInv, [StoreNext]_storeVars
  PROVE  RowInv'
<1>1. CASE UNCHANGED storeVars
  BY <1>1 DEF RowInv, StoreTypeOK, BindingOnlyWhileRunning, RunsAreClaimed,
              storeVars
<1>2. CASE StoreNext
  <2>1. PICK j \in Jobs : StoreStep(j) BY <1>2 DEF StoreNext
  <2>2. StoreTypeOK' BY <2>1, StepTypeOK DEF RowInv
  <2>3. \A i \in Jobs : GoodRow(jobs'[i])
    BY <2>1, OneRow, StepGoodRow, GoodRows DEF RowInv
  <2>4. (BindingOnlyWhileRunning /\ RunsAreClaimed)'
    BY <2>3 DEF BindingOnlyWhileRunning, RunsAreClaimed, GoodRow
  <2> QED BY <2>2, <2>4 DEF RowInv
<1> QED BY <1>1, <1>2

LEMMA RowInvAlways == StoreSpec => []RowInv
<1>1. StoreInit => RowInv BY InitRowInv
<1>2. RowInv /\ [StoreNext]_storeVars => RowInv' BY StepRowInv
<1> QED BY <1>1, <1>2, PTL DEF StoreSpec

\* For any jobs, engines and identifiers, rows and results stay well formed,
\* whoever calls the repository.
THEOREM RowsAreWellFormed == StoreSpec => []StoreTypeOK
<1>1. RowInv => StoreTypeOK BY DEF RowInv
<1> QED BY <1>1, RowInvAlways, PTL

\* A lease and a binding belong to a running job, in whatever order claims,
\* binds, renewals and transitions of different callers arrive.
THEOREM BindingsEndWithTheRun == StoreSpec => []BindingOnlyWhileRunning
<1>1. RowInv => BindingOnlyWhileRunning BY DEF RowInv
<1> QED BY <1>1, RowInvAlways, PTL

-----------------------------------------------------------------------------
(* The counts.                                                             *)

CountInv == StoreTypeOK /\ RunningBound /\ LiveBound

LEMMA FiniteRows ==
  /\ IsFiniteSet(Queued) /\ IsFiniteSet(Running)
  /\ IsFiniteSet(Queued \cup Running)
  /\ Cardinality(Queued) \in Nat /\ Cardinality(Running) \in Nat
  /\ Cardinality(Queued \cup Running) \in Nat
<1>1. Queued \subseteq Jobs /\ Running \subseteq Jobs
  BY DEF Queued, Running, WithStatus
<1>2. IsFiniteSet(Queued) /\ IsFiniteSet(Running)
      /\ IsFiniteSet(Queued \cup Running)
  BY <1>1, StoreAssumption, FS_Subset
<1> QED BY <1>2, FS_CardinalityType

\* One more element adds at most one to a count.
LEMMA OneMore ==
  ASSUME NEW S, NEW x, IsFiniteSet(S)
  PROVE  /\ Cardinality(S \cup {x}) \in Nat
         /\ Cardinality(S \cup {x}) <= Cardinality(S) + 1
<1>1. IsFiniteSet(S \cup {x}) BY FS_AddElement
<1>2. Cardinality(S) \in Nat /\ Cardinality(S \cup {x}) \in Nat
  BY <1>1, FS_CardinalityType
<1>3. CASE x \in S
  <2>1. S \cup {x} = S BY <1>3
  <2>2. Cardinality(S \cup {x}) = Cardinality(S) BY <2>1, Zenon
  <2> QED BY <1>2, <2>2
<1>4. CASE x \notin S
  <2>1. Cardinality(S \cup {x}) = Cardinality(S) + 1 BY <1>4, FS_AddElement
  <2> QED BY <1>2, <2>1
<1> QED BY <1>3, <1>4

\* A part of a finite set is not larger than the set.
LEMMA NoMore ==
  ASSUME NEW S, IsFiniteSet(S), NEW T, T \subseteq S
  PROVE  Cardinality(T) \in Nat /\ Cardinality(T) <= Cardinality(S)
BY FS_Subset, FS_CardinalityType

LEMMA InitCountInv == StoreInit => CountInv
<1> SUFFICES ASSUME StoreInit PROVE CountInv OBVIOUS
<1>1. StoreTypeOK BY InitRowInv DEF RowInv
<1>2. Queued = {} /\ Running = {}
  BY DEF StoreInit, NoRow, Queued, Running, WithStatus
<1>3. Cardinality({}) = 0 BY FS_EmptySet
<1> QED
  BY <1>1, <1>2, <1>3, StoreAssumption DEF CountInv, RunningBound, LiveBound

LEMMA StepCountInv ==
  ASSUME CountInv, [StoreNext]_storeVars
  PROVE  CountInv'
<1>1. CASE UNCHANGED storeVars
  BY <1>1 DEF CountInv, StoreTypeOK, RunningBound, LiveBound, Queued, Running,
              WithStatus, storeVars
<1>2. CASE StoreNext
  <2>1. PICK j \in Jobs : StoreStep(j) BY <1>2 DEF StoreNext
  <2>2. StoreTypeOK /\ StoreTypeOK' BY <2>1, StepTypeOK DEF CountInv
  <2>3. \A i \in Jobs : i # j => jobs'[i] = jobs[i] BY <2>1, <2>2, OneRow
  <2>4. \A s : \A i \in Jobs : i # j =>
          (i \in WithStatus(s)' <=> i \in WithStatus(s))
    BY <2>3 DEF WithStatus
  <2>5. \A s : j \in WithStatus(s)' <=> jobs'[j].status = s BY DEF WithStatus
  <2>6. \A s : j \in WithStatus(s) <=> jobs[j].status = s BY DEF WithStatus
  <2>7. \A s : WithStatus(s) \subseteq Jobs /\ WithStatus(s)' \subseteq Jobs
    BY DEF WithStatus
  <2> USE FiniteRows, StoreAssumption
  <2>8. Cardinality(Running') <= MaxRunningJobs
    <3>1. CASE /\ jobs[j].status = "queued" /\ jobs'[j].status = "running"
               /\ Cardinality(Running) < MaxRunningJobs
      <4>1. Running' = Running \cup {j}
        BY <3>1, <2>4, <2>5, <2>7 DEF Running
      <4>2. /\ Cardinality(Running') \in Nat
            /\ Cardinality(Running') <= Cardinality(Running) + 1
        BY <4>1, OneMore
      <4> QED BY <3>1, <4>2
    <3>2. CASE jobs'[j].status # "running" \/ jobs[j].status = "running"
      <4>1. Running' \subseteq Running
        BY <3>2, <2>4, <2>5, <2>6, <2>7 DEF Running
      <4>2. /\ Cardinality(Running') \in Nat
            /\ Cardinality(Running') <= Cardinality(Running)
        BY <4>1, NoMore
      <4> QED BY <4>2 DEF CountInv, RunningBound
    <3> QED BY <2>1, <2>2, <3>1, <3>2, RowMoves DEF Terminal
  <2>9. Cardinality(Queued' \cup Running') <= MaxQueuedJobs + MaxRunningJobs
    <3>1. CASE /\ jobs[j].status = "absent" /\ jobs'[j].status = "queued"
               /\ Cardinality(Queued) < MaxQueuedJobs
      <4>1. Queued' \cup Running' = Queued \cup Running \cup {j}
        BY <3>1, <2>4, <2>5, <2>6, <2>7 DEF Queued, Running
      <4>2. /\ Cardinality(Queued' \cup Running') \in Nat
            /\ Cardinality(Queued' \cup Running')
                 <= Cardinality(Queued \cup Running) + 1
        BY <4>1, OneMore
      <4>3. Cardinality(Queued \cup Running)
              <= Cardinality(Queued) + Cardinality(Running)
        <5>1. /\ Cardinality(Queued \cup Running) = Cardinality(Queued)
                   + Cardinality(Running) - Cardinality(Queued \cap Running)
          BY FS_Union
        <5>2. IsFiniteSet(Queued \cap Running) BY FS_Subset
        <5>3. Cardinality(Queued \cap Running) \in Nat
          BY <5>2, FS_CardinalityType
        <5> QED BY <5>1, <5>3
      <4>4. Cardinality(Running) <= MaxRunningJobs BY DEF CountInv, RunningBound
      <4> QED BY <3>1, <4>2, <4>3, <4>4
    <3>2. CASE \/ jobs'[j].status \notin {"queued", "running"}
               \/ jobs[j].status \in {"queued", "running"}
      <4>1. Queued' \cup Running' \subseteq Queued \cup Running
        BY <3>2, <2>4, <2>5, <2>6, <2>7 DEF Queued, Running
      <4>2. /\ Cardinality(Queued' \cup Running') \in Nat
            /\ Cardinality(Queued' \cup Running')
                 <= Cardinality(Queued \cup Running)
        BY <4>1, NoMore
      <4> QED BY <4>2 DEF CountInv, LiveBound
    <3> QED BY <2>1, <2>2, <3>1, <3>2, RowMoves DEF Terminal
  <2> QED BY <2>2, <2>8, <2>9 DEF CountInv, RunningBound, LiveBound
<1> QED BY <1>1, <1>2

LEMMA CountInvAlways == StoreSpec => []CountInv
<1>1. StoreInit => CountInv BY InitCountInv
<1>2. CountInv /\ [StoreNext]_storeVars => CountInv' BY StepCountInv
<1> QED BY <1>1, <1>2, PTL DEF StoreSpec

\* No more jobs run than maxRunningJobs, whoever claims.
THEOREM RunningIsBounded == StoreSpec => []RunningBound
<1>1. CountInv => RunningBound BY DEF CountInv
<1> QED BY <1>1, CountInvAlways, PTL

\* No more jobs are alive than both limits together: a requeued job may exceed
\* the limit of the queue, but only by as many as were running.
THEOREM LiveIsBounded == StoreSpec => []LiveBound
<1>1. CountInv => LiveBound BY DEF CountInv
<1> QED BY <1>1, CountInvAlways, PTL

-----------------------------------------------------------------------------
(* Ended rows, and the abstract life.                                      *)

\* No call, however late, changes a row that has ended.
LEMMA EndedRowStays ==
  ASSUME RowInv, [StoreNext]_storeVars, NEW i \in Jobs,
         jobs[i].status \in Terminal
  PROVE  jobs'[i] = jobs[i]
<1>1. CASE UNCHANGED storeVars BY <1>1 DEF storeVars
<1>2. CASE StoreNext
  <2>1. PICK j \in Jobs : StoreStep(j) BY <1>2 DEF StoreNext
  <2>2. CASE i # j BY <2>1, <2>2, OneRow DEF RowInv
  <2>3. CASE i = j
    <3>1. jobs[j].status \notin {"absent", "queued", "running"}
      BY <2>3 DEF Terminal
    <3>2. jobs[j].lease = "none"
      BY <3>1 DEF RowInv, BindingOnlyWhileRunning
    <3>3. SaveResults(j)
      BY <2>1, <3>1, <3>2
         DEF StoreStep, CreateJobIfCapacity, RequestCancellation, ClaimQueued,
             BindRemote, RenewLease, RecordProgress, RequeueJob, SucceedJob,
             FailJob, FailStorageJob, CancelRemoteJob, TransitionJob,
             LeaseLapses
    <3> QED BY <2>3, <3>3 DEF SaveResults
  <2> QED BY <2>2, <2>3
<1> QED BY <1>1, <1>2

\* An ended row is final.
THEOREM EndedRowsStay == StoreSpec => TerminalIsFinal
<1>1. ASSUME RowInv, [StoreNext]_storeVars
      PROVE  [\A j \in Jobs : jobs[j].status \in Terminal
                => jobs'[j] = jobs[j]]_storeVars
  BY <1>1, EndedRowStays
<1>2. StoreInit => RowInv BY InitRowInv
<1>3. RowInv /\ [StoreNext]_storeVars => RowInv' BY StepRowInv
<1> QED BY <1>1, <1>2, <1>3, PTL DEF StoreSpec, TerminalIsFinal

\* A request to cancel lasts as long as the run it was accepted in, whoever
\* writes the row meanwhile.
THEOREM RequestsLastTheRun == StoreSpec => CancelLastsTheRun
<1> DEFINE Kept(j) ==
      jobs'[j].status = "running" =>
        CASE jobs[j].status = "running" ->
               jobs[j].cancelRequested => jobs'[j].cancelRequested
          [] OTHER -> ~jobs'[j].cancelRequested
<1>1. ASSUME RowInv, StoreNext, NEW i \in Jobs PROVE Kept(i)
  <2>1. PICK j \in Jobs : StoreStep(j) BY <1>1 DEF StoreNext
  <2>2. /\ jobs \in [Jobs -> Row] /\ StoreTypeOK
        /\ GoodRow(jobs[i])
        /\ jobs'[i].status \in {"absent", "queued"} => ~jobs'[i].cancelRequested
    BY <1>1, StepRowInv, GoodRows DEF RowInv, StoreTypeOK, RunsAreClaimed
  <2>3. CASE i # j
    <3>1. jobs'[i] = jobs[i] BY <2>1, <2>2, <2>3, OneRow
    <3> QED BY <3>1
  <2>4. CASE i = j
    <3>1. CASE CreateJobIfCapacity(j)
      BY <2>2, <2>4, <3>1 DEF CreateJobIfCapacity, Row
    <3>2. CASE RequestCancellation(j)
      <4>1. /\ jobs'[j].cancelRequested
            /\ jobs'[j].status =
                 IF jobs[j].status = "queued" THEN "cancelled" ELSE jobs[j].status
            /\ jobs[j].status \in {"queued", "running"}
        BY <2>2, <3>2 DEF RequestCancellation, Row
      <4> QED BY <2>4, <4>1
    <3>3. CASE ClaimQueued(j)
      BY <2>2, <2>4, <3>3 DEF ClaimQueued, GoodRow, Row
    <3>4. CASE \E e \in Engines, r \in Remotes : BindRemote(j, e, r)
      BY <2>2, <2>4, <3>4 DEF BindRemote, Row
    <3>5. CASE RenewLease(j) \/ LeaseLapses(j)
      <4>1. /\ jobs'[j].status = jobs[j].status
            /\ jobs'[j].cancelRequested = jobs[j].cancelRequested
            /\ jobs[j].lease # "none" \/ jobs[j].status = "running"
        BY <2>2, <3>5 DEF RenewLease, LeaseLapses, Row
      <4>2. jobs[j].status = "running" BY <2>2, <2>4, <4>1 DEF GoodRow
      <4> QED BY <2>4, <4>1, <4>2
    <3>6. CASE \E p \in Progress : RecordProgress(j, p)
      BY <2>2, <2>4, <3>6 DEF RecordProgress, Row
    <3>7. CASE SaveResults(j)
      <4>1. jobs' = jobs BY <3>7 DEF SaveResults
      <4> QED BY <2>2, <2>4, <4>1 DEF GoodRow
    <3>8. CASE \/ RequeueJob(j) \/ SucceedJob(j) \/ FailJob(j)
               \/ FailStorageJob(j) \/ CancelRemoteJob(j)
      <4>1. jobs'[j].status # "running"
        BY <2>2, <3>8
           DEF RequeueJob, SucceedJob, FailJob, FailStorageJob, CancelRemoteJob,
               TransitionJob, Row
      <4> QED BY <2>4, <4>1
    <3> QED
      BY <2>1, <3>1, <3>2, <3>3, <3>4, <3>5, <3>6, <3>7, <3>8 DEF StoreStep
  <2> QED BY <2>3, <2>4
<1>2. ASSUME RowInv, [StoreNext]_storeVars
      PROVE  [\A j \in Jobs : Kept(j)]_storeVars
  BY <1>1, <1>2
<1>3. StoreInit => RowInv BY InitRowInv
<1>4. RowInv /\ [StoreNext]_storeVars => RowInv' BY StepRowInv
<1> QED BY <1>2, <1>3, <1>4, PTL DEF StoreSpec, CancelLastsTheRun

\* The row's status and attempt count move as the abstract job's do.
LEMMA StepAttempts ==
  ASSUME StoreTypeOK, NEW j \in Jobs, StoreStep(j)
  PROVE  \/ /\ ClaimQueued(j)
            /\ jobs'[j].attempt = jobs[j].attempt + 1
         \/ /\ ~(jobs[j].status = "queued" /\ jobs'[j].status = "running")
            /\ jobs'[j].attempt = jobs[j].attempt
<1> USE DEF StoreTypeOK, Row
<1>1. CASE CreateJobIfCapacity(j) BY <1>1 DEF CreateJobIfCapacity
<1>2. CASE RequestCancellation(j) BY <1>2 DEF RequestCancellation
<1>3. CASE ClaimQueued(j) BY <1>3 DEF ClaimQueued
<1>4. CASE \E e \in Engines, r \in Remotes : BindRemote(j, e, r)
  BY <1>4 DEF BindRemote
<1>5. CASE RenewLease(j) BY <1>5 DEF RenewLease
<1>6. CASE \E p \in Progress : RecordProgress(j, p) BY <1>6 DEF RecordProgress
<1>7. CASE SaveResults(j) BY <1>7 DEF SaveResults
<1>8. CASE \/ RequeueJob(j) \/ SucceedJob(j) \/ FailJob(j)
           \/ FailStorageJob(j) \/ CancelRemoteJob(j)
  BY <1>8 DEF RequeueJob, SucceedJob, FailJob, FailStorageJob, CancelRemoteJob,
              TransitionJob
<1>9. CASE LeaseLapses(j) BY <1>9 DEF LeaseLapses
<1> QED
  BY <1>1, <1>2, <1>3, <1>4, <1>5, <1>6, <1>7, <1>8, <1>9 DEF StoreStep

\* A step of the repository is a step in the promised life of a job, or none.
LEMMA StepLifecycle ==
  ASSUME RowInv, [StoreNext]_storeVars
  PROVE  [Lifecycle!Next]_<<[j \in Jobs |-> jobs[j].status],
                            [j \in Jobs |-> jobs[j].attempt]>>
<1> DEFINE phase == [j \in Jobs |-> jobs[j].status]
           attempts == [j \in Jobs |-> jobs[j].attempt]
<1>1. CASE UNCHANGED storeVars BY <1>1 DEF storeVars
<1>2. CASE StoreNext
  <2>1. PICK j \in Jobs : StoreStep(j) BY <1>2 DEF StoreNext
  <2>2. StoreTypeOK /\ StoreTypeOK'
    BY <2>1, StepTypeOK DEF RowInv
  <2>3. \A i \in Jobs : i # j => jobs'[i] = jobs[i] BY <2>1, <2>2, OneRow
  <2>4. phase' = [phase EXCEPT ![j] = jobs'[j].status]
    BY <2>3
  <2>5. attempts' = [attempts EXCEPT ![j] = jobs'[j].attempt]
    BY <2>3
  <2>6. phase[j] = jobs[j].status /\ attempts[j] = jobs[j].attempt
    OBVIOUS
  <2>7. Lifecycle!InProgress = Running
    BY DEF Lifecycle!InProgress, Running, WithStatus
  <2> HIDE DEF phase, attempts
  <2>8. CASE ClaimQueued(j) /\ jobs'[j].attempt = jobs[j].attempt + 1
    <3>1. /\ jobs[j].status = "queued" /\ jobs'[j].status = "running"
          /\ Cardinality(Running) < MaxRunningJobs
          /\ jobs[j].attempt < ClaimCap
      BY <2>2, <2>8 DEF ClaimQueued, StoreTypeOK, Row
    <3>2. Lifecycle!Moves(j, {"queued"}, "running")
      BY <2>4, <2>6, <3>1 DEF Lifecycle!Moves, phase
    <3>3. Lifecycle!Cardinality(Lifecycle!InProgress) < MaxRunningJobs
      <4>1. Lifecycle!Cardinality(Running) = Cardinality(Running)
        BY DEF Lifecycle!Cardinality, Cardinality
      <4> QED BY <2>7, <3>1, <4>1
    <3>4. /\ attempts[j] < ClaimCap
          /\ attempts' = [attempts EXCEPT ![j] = @ + 1]
      BY <2>5, <2>6, <2>8, <3>1
    <3>5. Lifecycle!Start(j)
      BY <3>2, <3>3, <3>4 DEF Lifecycle!Start, attempts
    <3> QED BY <3>5 DEF Lifecycle!Next
  <2>9. CASE /\ ~(jobs[j].status = "queued" /\ jobs'[j].status = "running")
             /\ jobs'[j].attempt = jobs[j].attempt
    <3>1. UNCHANGED attempts BY <2>5, <2>6, <2>9 DEF attempts
    <3>2. CASE jobs'[j].status = jobs[j].status
      <4>1. UNCHANGED phase BY <2>4, <2>6, <3>2 DEF phase
      <4> QED BY <3>1, <4>1 DEF phase, attempts
    <3>3. CASE jobs[j].status = "absent" /\ jobs'[j].status = "queued"
      <4>1. Lifecycle!Submit(j)
        BY <2>4, <2>6, <3>1, <3>3
           DEF Lifecycle!Submit, Lifecycle!Moves, phase, attempts
      <4> QED BY <4>1 DEF Lifecycle!Next
    <3>4. CASE jobs[j].status = "queued" /\ jobs'[j].status = "cancelled"
      <4>1. Lifecycle!Cancel(j)
        BY <2>4, <2>6, <3>1, <3>4
           DEF Lifecycle!Cancel, Lifecycle!Moves, phase, attempts
      <4> QED BY <4>1 DEF Lifecycle!Next
    <3>5. CASE /\ jobs[j].status = "running"
               /\ jobs'[j].status \in {"queued"} \cup Terminal
      <4>1. \/ Lifecycle!Retry(j) \/ Lifecycle!Succeed(j)
            \/ Lifecycle!Fail(j) \/ Lifecycle!Cancel(j)
        BY <2>4, <2>6, <3>1, <3>5
           DEF Lifecycle!Retry, Lifecycle!Succeed, Lifecycle!Fail,
               Lifecycle!Cancel, Lifecycle!Moves, Terminal, phase, attempts
      <4> QED BY <4>1 DEF Lifecycle!Next
    <3> QED BY <2>1, <2>2, <2>9, <3>2, <3>3, <3>4, <3>5, RowMoves
  <2> QED BY <2>1, <2>2, <2>8, <2>9, StepAttempts
<1> QED BY <1>1, <1>2

\* The repository implements the promised life of a job, for every caller.
THEOREM StoreImplementsLifecycle == StoreSpec => ImplementsLifecycle
<1>1. StoreInit => Lifecycle!Init
  BY DEF StoreInit, NoRow, Lifecycle!Init
<1>2. RowInv /\ [StoreNext]_storeVars =>
        [Lifecycle!Next]_<<[j \in Jobs |-> jobs[j].status],
                           [j \in Jobs |-> jobs[j].attempt]>>
  BY StepLifecycle
<1>3. StoreInit => RowInv BY InitRowInv
<1>4. RowInv /\ [StoreNext]_storeVars => RowInv' BY StepRowInv
<1> QED
  BY <1>1, <1>2, <1>3, <1>4, PTL
     DEF StoreSpec, ImplementsLifecycle, Lifecycle!Spec

=============================================================================
