----------------------------- MODULE EnginePool -----------------------------
(***************************************************************************)
(* The in-memory scheduler state of the engines: one slot counter and one  *)
(* circuit breaker per engine.  Every operation of the code is one         *)
(* Ref.modify or Ref.update, hence one atomic step here.                   *)
(*                                                                         *)
(* Abstractions.  Engine identifiers are numbers, in the localeCompare     *)
(* order that breaks ties.  openUntilEpochMs is compared with a clock that *)
(* moves forward: open says whether it lies ahead, and CooldownElapses is  *)
(* the passing of the cooldown.  The failure count is only ever compared   *)
(* with the threshold, so it saturates there.                              *)
(***************************************************************************)
EXTENDS PlatformNames

CONSTANTS
  Models,             \* public model aliases
  Serves,             \* engine.models
  MaxConcurrent,      \* engine.maxConcurrent
  FailureThreshold    \* engine.circuitBreaker.failureThreshold

ASSUME PoolAssumption ==
  /\ Serves \in [Engines -> SUBSET Models]
  /\ MaxConcurrent \in [Engines -> Nat \ {0}]
  /\ FailureThreshold \in [Engines -> Nat \ {0}]

VARIABLE pool

Health == {"healthy", "degraded", "offline"}

EngineState ==
  [running : Nat, failures : Nat, health : Health, open : BOOLEAN]

FreshEngine ==
  [running |-> 0, failures |-> 0, health |-> "healthy", open |-> FALSE]

PoolInit == pool = [e \in Engines |-> FreshEngine]

\* Slip: one slot too many.
CanReserveOneTooMany(e, m) ==
  m \in Serves[e] /\ pool[e].running <= MaxConcurrent[e] /\ ~pool[e].open

\* Slip: the breaker is not consulted.
CanReserveOpen(e, m) ==
  m \in Serves[e] /\ pool[e].running < MaxConcurrent[e]

\* What both reservations require of an engine.
CanReserve(e, m) ==
  /\ m \in Serves[e]
  /\ pool[e].running < MaxConcurrent[e]
  /\ ~pool[e].open

\* running / maxConcurrent, compared without dividing.
LessLoaded(d, e) ==
  pool[d].running * MaxConcurrent[e] < pool[e].running * MaxConcurrent[d]

\* Slip: the comparison has no tie-break.
SelectedWithoutTieBreak(e, m) ==
  /\ CanReserve(e, m)
  /\ \A d \in Engines \ {e} : CanReserve(d, m) => ~LessLoaded(d, e)

\* The first engine of the sorted list: least relative load, then least id.
Selected(e, m) ==
  /\ CanReserve(e, m)
  /\ \A d \in Engines \ {e} : CanReserve(d, m) =>
       \/ LessLoaded(e, d)
       \/ ~LessLoaded(d, e) /\ e < d

TakeSlot(e) == pool' = [pool EXCEPT ![e].running = @ + 1]

Reserve(e, m) == Selected(e, m) /\ TakeSlot(e)

ReserveById(e, m) == CanReserve(e, m) /\ TakeSlot(e)

\* Slip: no floor.
ReleaseBelowZero(e) == pool' = [pool EXCEPT ![e].running = @ - 1]

Release(e) ==
  pool' = [pool EXCEPT ![e].running = IF @ > 0 THEN @ - 1 ELSE 0]

RecordSuccess(e) ==
  pool' = [pool EXCEPT
    ![e].failures = 0, ![e].health = "healthy", ![e].open = FALSE]

\* Slip: the threshold is compared before counting this failure.
RecordFailureLate(e) ==
  LET reached == pool[e].failures >= FailureThreshold[e]
  IN pool' = [pool EXCEPT
       ![e].failures = IF reached THEN FailureThreshold[e] ELSE @ + 1,
       ![e].health = IF reached THEN "offline" ELSE "degraded",
       ![e].open = @ \/ reached]

\* Slip: opening the breaker forgets the failures.
RecordFailureForgetting(e) ==
  LET reached == pool[e].failures + 1 >= FailureThreshold[e]
  IN pool' = [pool EXCEPT
       ![e].failures = IF reached THEN 0 ELSE @ + 1,
       ![e].health = IF reached THEN "offline" ELSE "degraded",
       ![e].open = @ \/ reached]

RecordFailure(e) ==
  LET reached == pool[e].failures + 1 >= FailureThreshold[e]
  IN pool' = [pool EXCEPT
       ![e].failures = IF reached THEN FailureThreshold[e] ELSE @ + 1,
       ![e].health = IF reached THEN "offline" ELSE "degraded",
       ![e].open = @ \/ reached]

\* The clock passes openUntilEpochMs.
CooldownElapses(e) ==
  /\ pool[e].open
  /\ pool' = [pool EXCEPT ![e].open = FALSE]

\* The process starts again with a new pool.
PoolReset == pool' = [e \in Engines |-> FreshEngine]

PoolStep(e) ==
  \/ \E m \in Models : Reserve(e, m)
  \/ \E m \in Models : ReserveById(e, m)
  \/ Release(e)
  \/ RecordSuccess(e)
  \/ RecordFailure(e)
  \/ CooldownElapses(e)

PoolNext == PoolReset \/ \E e \in Engines : PoolStep(e)

PoolSpec == PoolInit /\ [][PoolNext]_pool

-----------------------------------------------------------------------------
(* Properties.                                                             *)

PoolTypeOK == pool \in [Engines -> EngineState]

\* No engine is ever given more jobs than it was configured for, whoever
\* reserves and however often a slot is released.
CapacityRespected ==
  \A e \in Engines : pool[e].running <= MaxConcurrent[e]

\* The public health of an engine tells the truth about its breaker: offline
\* exactly from the threshold on, and a closed or elapsed breaker with
\* failures left is half-open, never healthy.
HealthMatchesBreaker ==
  \A e \in Engines :
    /\ pool[e].health = "healthy" <=> pool[e].failures = 0
    /\ pool[e].health = "offline" <=> pool[e].failures >= FailureThreshold[e]
    /\ pool[e].open => pool[e].health = "offline"

\* While a breaker is open its engine gets no new work.
OpenEngineRests ==
  [][\A e \in Engines : pool[e].open => pool'[e].running <= pool[e].running]_pool

\* Whenever some engine could take a job, exactly one is chosen: the load
\* comparison with the id as tie-break is a total order, so dispatching
\* neither stalls beside a free engine nor depends on configuration order.
SelectionIsTotal ==
  \A m \in Models :
    (\E e \in Engines : CanReserve(e, m)) =>
      \E e \in Engines : \A d \in Engines : Selected(d, m) <=> d = e

\* The cooldown half-opens a breaker: the failures are kept, so the first
\* failure after it opens the breaker again at once.
HalfOpenReopens ==
  [][\A e \in Engines :
       pool[e].health = "offline" /\ RecordFailure(e) => pool'[e].open]_pool
=============================================================================
