-------------------------- MODULE EnginePoolProofs --------------------------
(***************************************************************************)
(* Proofs about the engine pool, for any engines, models, slot counts and  *)
(* thresholds.  Every operation rewrites the state of one engine, so the   *)
(* invariant is proved of one engine at a time.                            *)
(***************************************************************************)
EXTENDS EnginePool, FiniteSetTheorems, TLAPS

\* What the pool's invariants say of one engine.
GoodEngine(e, s) ==
  /\ s \in EngineState
  /\ s.running <= MaxConcurrent[e]
  /\ s.failures <= FailureThreshold[e]
  /\ s.health = "healthy" <=> s.failures = 0
  /\ s.health = "offline" <=> s.failures >= FailureThreshold[e]
  /\ s.open => s.health = "offline"

\* The inductive invariant: the stated ones and the saturation of the failures.
PoolInv ==
  /\ pool \in [Engines -> EngineState]
  /\ \A e \in Engines : GoodEngine(e, pool[e])

LEMMA InvImplies ==
  PoolInv => PoolTypeOK /\ CapacityRespected /\ HealthMatchesBreaker
BY DEF PoolInv, GoodEngine, PoolTypeOK, CapacityRespected, HealthMatchesBreaker

LEMMA FreshIsGood == \A e \in Engines : GoodEngine(e, FreshEngine)
BY PoolAssumption DEF GoodEngine, FreshEngine, EngineState, Health

\* Replacing the state of one engine by a good one keeps the invariant.
LEMMA OneEngine ==
  ASSUME PoolInv, NEW e \in Engines, NEW s, GoodEngine(e, s),
         pool' = [pool EXCEPT ![e] = s]
  PROVE  PoolInv'
BY DEF PoolInv, GoodEngine

LEMMA TakeSlotKeeps ==
  ASSUME PoolInv, NEW e \in Engines, NEW m, CanReserve(e, m), TakeSlot(e)
  PROVE  PoolInv'
<1> DEFINE s == [pool[e] EXCEPT !.running = @ + 1]
<1>1. GoodEngine(e, pool[e]) /\ pool[e] \in EngineState BY DEF PoolInv
<1>2. MaxConcurrent[e] \in Nat BY PoolAssumption
<1>3. GoodEngine(e, s)
  BY <1>1, <1>2 DEF CanReserve, GoodEngine, EngineState
<1>4. pool' = [pool EXCEPT ![e] = s] BY DEF TakeSlot, PoolInv
<1> QED BY <1>3, <1>4, OneEngine

LEMMA ReleaseKeeps ==
  ASSUME PoolInv, NEW e \in Engines, Release(e)
  PROVE  PoolInv'
<1> DEFINE s == [pool[e] EXCEPT !.running = IF @ > 0 THEN @ - 1 ELSE 0]
<1>1. GoodEngine(e, pool[e]) /\ pool[e] \in EngineState BY DEF PoolInv
<1>2. MaxConcurrent[e] \in Nat BY PoolAssumption
<1>3. GoodEngine(e, s) BY <1>1, <1>2 DEF GoodEngine, EngineState
<1>4. pool' = [pool EXCEPT ![e] = s] BY DEF Release, PoolInv
<1> QED BY <1>3, <1>4, OneEngine

LEMMA SuccessKeeps ==
  ASSUME PoolInv, NEW e \in Engines, RecordSuccess(e)
  PROVE  PoolInv'
<1> DEFINE s == [pool[e] EXCEPT
                   !.failures = 0, !.health = "healthy", !.open = FALSE]
<1>1. GoodEngine(e, pool[e]) /\ pool[e] \in EngineState BY DEF PoolInv
<1>2. FailureThreshold[e] \in Nat \ {0} BY PoolAssumption
<1>3. GoodEngine(e, s)
  <2>1. s \in EngineState BY <1>1 DEF EngineState, Health
  <2>2. /\ s.failures = 0 /\ s.health = "healthy" /\ s.open = FALSE
        /\ s.running = pool[e].running
    BY <1>1 DEF EngineState
  <2> HIDE DEF s
  <2> QED BY <1>1, <1>2, <2>1, <2>2 DEF GoodEngine
<1>4. pool' = [pool EXCEPT ![e] = s]
  BY <1>1 DEF RecordSuccess, PoolInv, EngineState
<1> QED BY <1>3, <1>4, OneEngine

LEMMA FailureKeeps ==
  ASSUME PoolInv, NEW e \in Engines, RecordFailure(e)
  PROVE  PoolInv' /\ (pool[e].failures = FailureThreshold[e] => pool'[e].open)
<1> DEFINE reached == pool[e].failures + 1 >= FailureThreshold[e]
           s == [pool[e] EXCEPT
                   !.failures = IF reached THEN FailureThreshold[e] ELSE @ + 1,
                   !.health = IF reached THEN "offline" ELSE "degraded",
                   !.open = @ \/ reached]
<1>1. GoodEngine(e, pool[e]) /\ pool[e] \in EngineState BY DEF PoolInv
<1>2. FailureThreshold[e] \in Nat \ {0} BY PoolAssumption
<1>3. pool' = [pool EXCEPT ![e] = s]
  BY <1>1 DEF RecordFailure, PoolInv, EngineState
<1>4. CASE reached
  <2>1. s = [pool[e] EXCEPT !.failures = FailureThreshold[e],
                            !.health = "offline", !.open = TRUE]
    BY <1>1, <1>4 DEF EngineState
  <2> HIDE DEF s
  <2>2. GoodEngine(e, s)
    <3>1. s \in EngineState BY <1>1, <1>2, <2>1 DEF EngineState, Health
    <3>2. /\ s.failures = FailureThreshold[e] /\ s.health = "offline"
          /\ s.running = pool[e].running
      BY <1>1, <2>1 DEF EngineState
    <3> QED BY <1>1, <1>2, <3>1, <3>2 DEF GoodEngine
  <2>3. s.open /\ pool'[e] = s BY <1>1, <1>3, <2>1 DEF EngineState, PoolInv
  <2> QED BY <1>3, <2>2, <2>3, OneEngine
<1>5. CASE ~reached
  <2>1. s = [pool[e] EXCEPT !.failures = @ + 1, !.health = "degraded"]
    BY <1>1, <1>5 DEF EngineState
  <2>2. /\ pool[e].failures \in Nat
        /\ pool[e].failures + 1 < FailureThreshold[e]
        /\ ~pool[e].open
    BY <1>1, <1>2, <1>5 DEF GoodEngine, EngineState
  <2> HIDE DEF s
  <2>3. GoodEngine(e, s)
    <3>1. s \in EngineState
      <4>1. pool[e].failures + 1 \in Nat /\ "degraded" \in Health
        BY <2>2 DEF Health
      <4> QED BY <1>1, <2>1, <4>1 DEF EngineState
    <3>2. /\ s.failures = pool[e].failures + 1 /\ s.health = "degraded"
          /\ s.running = pool[e].running /\ s.open = pool[e].open
      BY <1>1, <2>1 DEF EngineState
    <3> QED BY <1>1, <1>2, <2>2, <3>1, <3>2 DEF GoodEngine
  <2>4. PoolInv' BY <1>3, <2>3, OneEngine
  <2>5. pool[e].failures # FailureThreshold[e] BY <1>2, <2>2
  <2> QED BY <2>4, <2>5
<1> QED BY <1>4, <1>5

LEMMA CooldownKeeps ==
  ASSUME PoolInv, NEW e \in Engines, CooldownElapses(e)
  PROVE  PoolInv'
<1> DEFINE s == [pool[e] EXCEPT !.open = FALSE]
<1>1. GoodEngine(e, pool[e]) /\ pool[e] \in EngineState BY DEF PoolInv
<1>2. GoodEngine(e, s) BY <1>1 DEF GoodEngine, EngineState
<1>3. pool' = [pool EXCEPT ![e] = s] BY DEF CooldownElapses, PoolInv
<1> QED BY <1>2, <1>3, OneEngine

LEMMA ResetKeeps == PoolReset => PoolInv'
<1>1. \A e \in Engines : FreshEngine \in EngineState
  BY FreshIsGood DEF GoodEngine
<1> QED BY <1>1, FreshIsGood DEF PoolReset, PoolInv, GoodEngine

LEMMA StepInv ==
  ASSUME PoolInv, [PoolNext]_pool
  PROVE  PoolInv'
<1>1. CASE UNCHANGED pool BY <1>1 DEF PoolInv
<1>2. CASE PoolReset BY <1>2, ResetKeeps
<1>3. CASE \E e \in Engines : PoolStep(e)
  <2>1. PICK e \in Engines : PoolStep(e) BY <1>3
  <2>2. CASE \E m \in Models : Reserve(e, m)
    BY <2>2, TakeSlotKeeps DEF Reserve, Selected
  <2>3. CASE \E m \in Models : ReserveById(e, m)
    BY <2>3, TakeSlotKeeps DEF ReserveById
  <2>4. CASE Release(e) BY <2>4, ReleaseKeeps
  <2>5. CASE RecordSuccess(e) BY <2>5, SuccessKeeps
  <2>6. CASE RecordFailure(e) BY <2>6, FailureKeeps
  <2>7. CASE CooldownElapses(e) BY <2>7, CooldownKeeps
  <2> QED BY <2>1, <2>2, <2>3, <2>4, <2>5, <2>6, <2>7 DEF PoolStep
<1> QED BY <1>1, <1>2, <1>3 DEF PoolNext

\* The pool starts well.
LEMMA InitInv == PoolInit => PoolInv
BY FreshIsGood DEF PoolInit, PoolInv, GoodEngine, FreshEngine

LEMMA PoolInvAlways == PoolSpec => []PoolInv
<1>1. PoolInit => PoolInv BY InitInv
<1>2. PoolInv /\ [PoolNext]_pool => PoolInv' BY StepInv
<1> QED BY <1>1, <1>2, PTL DEF PoolSpec

\* For any engines, models, slots and thresholds the pool stays well formed.
THEOREM PoolIsWellFormed == PoolSpec => []PoolTypeOK
<1> QED BY PoolInvAlways, InvImplies, PTL

\* No engine is given more jobs than it was configured for, whoever reserves
\* and however often a slot is released.
THEOREM CapacityIsRespected == PoolSpec => []CapacityRespected
<1> QED BY PoolInvAlways, InvImplies, PTL

\* The health an engine shows is that of its breaker, whoever reports.
THEOREM HealthIsTruthful == PoolSpec => []HealthMatchesBreaker
<1> QED BY PoolInvAlways, InvImplies, PTL

\* No operation of anyone gives work to an engine whose breaker is open.
THEOREM OpenEnginesRest == PoolSpec => OpenEngineRests
<1>1. ASSUME PoolInv, [PoolNext]_pool
      PROVE  [\A e \in Engines : pool[e].open
                => pool'[e].running <= pool[e].running]_pool
  <2> SUFFICES ASSUME PoolNext, NEW d \in Engines, pool[d].open
               PROVE  pool'[d].running <= pool[d].running
    BY <1>1
  <2>1. pool[d] \in EngineState /\ pool[d].running \in Nat
    BY <1>1 DEF PoolInv, EngineState
  <2>2. CASE PoolReset
    BY <2>1, <2>2 DEF PoolReset, FreshEngine
  <2>3. CASE \E e \in Engines : PoolStep(e)
    <3>1. PICK e \in Engines : PoolStep(e) BY <2>3
    <3>2. CASE \/ \E m \in Models : Reserve(e, m)
               \/ \E m \in Models : ReserveById(e, m)
      <4>1. ~pool[e].open /\ TakeSlot(e)
        BY <3>2 DEF Reserve, Selected, ReserveById, CanReserve
      <4>2. e # d BY <4>1
      <4> QED BY <1>1, <2>1, <4>1, <4>2 DEF TakeSlot, PoolInv
    <3>3. CASE Release(e)
      BY <1>1, <2>1, <3>3 DEF Release, PoolInv, EngineState
    <3>4. CASE RecordSuccess(e)
      BY <1>1, <2>1, <3>4 DEF RecordSuccess, PoolInv, EngineState
    <3>5. CASE RecordFailure(e)
      BY <1>1, <2>1, <3>5 DEF RecordFailure, PoolInv, EngineState
    <3>6. CASE CooldownElapses(e)
      BY <1>1, <2>1, <3>6 DEF CooldownElapses, PoolInv, EngineState
    <3> QED BY <3>1, <3>2, <3>3, <3>4, <3>5, <3>6 DEF PoolStep
  <2> QED BY <2>2, <2>3 DEF PoolNext
<1>2. PoolInit => PoolInv BY InitInv
<1>3. PoolInv /\ [PoolNext]_pool => PoolInv' BY StepInv
<1> QED BY <1>1, <1>2, <1>3, PTL DEF PoolSpec, OpenEngineRests

\* A half-open engine that fails once is shut out again at once.
THEOREM HalfOpenEnginesReopen == PoolSpec => HalfOpenReopens
<1>1. ASSUME PoolInv
      PROVE  [\A e \in Engines : pool[e].health = "offline" /\ RecordFailure(e)
                => pool'[e].open]_pool
  <2> SUFFICES ASSUME NEW e \in Engines, pool[e].health = "offline",
                      RecordFailure(e)
               PROVE  pool'[e].open
    OBVIOUS
  <2>1. FailureThreshold[e] \in Nat /\ pool[e].failures \in Nat
    BY <1>1, PoolAssumption DEF PoolInv, EngineState
  <2>2. pool[e].failures = FailureThreshold[e]
    BY <1>1, <2>1 DEF PoolInv, GoodEngine
  <2> QED BY <1>1, <2>2, FailureKeeps
<1>2. PoolInit => PoolInv BY InitInv
<1>3. PoolInv /\ [PoolNext]_pool => PoolInv' BY StepInv
<1> QED BY <1>1, <1>2, <1>3, PTL DEF PoolSpec, HalfOpenReopens

-----------------------------------------------------------------------------
(* The choice of an engine.                                                *)

\* A finite set that a relation orders totally has a least element.  Were
\* there sets without one, some set without one would have no smaller such
\* set inside it; but without one of its elements it has a least, and of that
\* and the element taken away one is the least of all.
LEMMA LeastElement ==
  ASSUME NEW S, IsFiniteSet(S), S # {}, NEW R,
         \A x, y \in S : x = y \/ <<x, y>> \in R \/ <<y, x>> \in R,
         \A x, y, z \in S : <<x, y>> \in R /\ <<y, z>> \in R => <<x, z>> \in R
  PROVE  \E x \in S : \A y \in S \ {x} : <<x, y>> \in R
<1> DEFINE HasLeast(T) == \E x \in T : \A y \in T \ {x} : <<x, y>> \in R
           Bad == {T \in SUBSET S : T # {} /\ ~HasLeast(T)}
<1> SUFFICES ASSUME Bad # {} PROVE FALSE
  OBVIOUS
<1>1. IsWellFoundedOn(StrictSubsetOrdering(S), SUBSET S)
  <2>1. FiniteSubsetsOf(S) = SUBSET S BY FS_FiniteSubsetsOfFinite
  <2>2. IsWellFoundedOn(StrictSubsetOrdering(S), FiniteSubsetsOf(S))
    BY FS_StrictSubsetOrderingWellFounded
  <2> QED BY <2>1, <2>2
<1>2. Bad \subseteq SUBSET S OBVIOUS
<1>3. PICK T \in Bad : \A U \in Bad : <<U, T>> \notin StrictSubsetOrdering(S)
  <2> HIDE DEF Bad
  <2> QED BY <1>1, <1>2, WFMin, Zenon
<1>4. T \subseteq S /\ T # {} /\ ~HasLeast(T) OBVIOUS
<1>5. PICK x \in T : TRUE BY <1>4
<1> DEFINE U == T \ {x}
<1>6. U \in SUBSET S /\ <<U, T>> \in StrictSubsetOrdering(S)
  BY <1>4, <1>5 DEF StrictSubsetOrdering
<1>7. CASE U = {}
  <2>1. HasLeast(T) BY <1>5, <1>7
  <2> QED BY <2>1, <1>4
<1>8. CASE U # {}
  <2>1. HasLeast(U) BY <1>3, <1>6, <1>8
  <2>2. PICK y \in U : \A z \in U \ {y} : <<y, z>> \in R BY <2>1
  <2>3. x # y /\ x \in S /\ y \in S /\ y \in T BY <1>4, <1>5, <2>2
  <2>4. CASE <<x, y>> \in R
    <3>1. \A z \in T \ {x} : <<x, z>> \in R
      BY <1>4, <2>2, <2>3, <2>4
    <3>2. HasLeast(T) BY <1>5, <3>1
    <3> QED BY <3>2, <1>4
  <2>5. CASE <<y, x>> \in R
    <3>1. \A z \in T \ {y} : <<y, z>> \in R BY <1>5, <2>2, <2>5
    <3>2. HasLeast(T) BY <2>3, <3>1
    <3> QED BY <3>2, <1>4
  <2> QED BY <2>3, <2>4, <2>5
<1> QED BY <1>7, <1>8

\* Fractions are compared by multiplying crosswise; that is transitive.
LEMMA CrosswiseTransitive ==
  ASSUME NEW a \in Nat, NEW b \in Nat, NEW c \in Nat,
         NEW p \in Nat \ {0}, NEW q \in Nat \ {0}, NEW r \in Nat \ {0},
         a * q <= b * p, b * r <= c * q
  PROVE  /\ a * r <= c * p
         /\ a * q < b * p \/ b * r < c * q => a * r < c * p
<1>1. (a * q) * r <= (b * p) * r
  OBVIOUS
<1>2. (b * r) * p <= (c * q) * p
  OBVIOUS
<1>3. (b * p) * r = (b * r) * p OBVIOUS
<1>4. (a * r) * q = (a * q) * r /\ (c * p) * q = (c * q) * p OBVIOUS
<1>5. /\ a * r \in Nat /\ c * p \in Nat
      /\ (a * q) * r \in Nat /\ (b * p) * r \in Nat /\ (c * q) * p \in Nat
  OBVIOUS
<1>6. (a * r) * q <= (c * p) * q BY <1>1, <1>2, <1>3, <1>4, <1>5
<1>7. \A m, n \in Nat : m > n => m * q > n * q
  OBVIOUS
<1>8. a * r <= c * p BY <1>4, <1>5, <1>6, <1>7
<1>9. ASSUME a * q < b * p \/ b * r < c * q PROVE a * r < c * p
  <2>1. (a * q) * r < (b * p) * r \/ (b * r) * p < (c * q) * p
    BY <1>9
  <2>2. (a * r) * q < (c * p) * q BY <1>1, <1>2, <1>3, <1>4, <1>5, <2>1
  <2>3. a * r # c * p BY <2>2, <1>5
  <2> QED BY <1>5, <1>8, <2>3
<1> QED BY <1>8, <1>9
\* The order in which the sorted list of engines has them.
Before(d, e) == LessLoaded(d, e) \/ (~LessLoaded(e, d) /\ d < e)

LEMMA LoadsAreNumbers ==
  ASSUME PoolTypeOK, NEW e \in Engines
  PROVE  /\ e \in Nat /\ pool[e].running \in Nat
         /\ MaxConcurrent[e] \in Nat \ {0}
BY NamesAssumption, PoolAssumption DEF PoolTypeOK, EngineState

LEMMA BeforeIsTotal ==
  ASSUME PoolTypeOK, NEW d \in Engines, NEW e \in Engines, d # e
  PROVE  Before(d, e) <=> ~Before(e, d)
<1> DEFINE x == pool[d].running * MaxConcurrent[e]
           y == pool[e].running * MaxConcurrent[d]
<1>1. x \in Nat /\ y \in Nat /\ d \in Nat /\ e \in Nat BY LoadsAreNumbers
<1>2. /\ Before(d, e) <=> x < y \/ (~(y < x) /\ d < e)
      /\ Before(e, d) <=> y < x \/ (~(x < y) /\ e < d)
  BY DEF Before, LessLoaded
<1> HIDE DEF x, y
<1> QED BY <1>1, <1>2

LEMMA BeforeIsTransitive ==
  ASSUME PoolTypeOK, NEW c \in Engines, NEW d \in Engines, NEW e \in Engines,
         Before(c, d), Before(d, e)
  PROVE  Before(c, e)
<1> DEFINE a == pool[c].running
           b == pool[d].running
           f == pool[e].running
           p == MaxConcurrent[c]
           q == MaxConcurrent[d]
           r == MaxConcurrent[e]
<1>1. /\ a \in Nat /\ b \in Nat /\ f \in Nat
      /\ p \in Nat \ {0} /\ q \in Nat \ {0} /\ r \in Nat \ {0}
      /\ c \in Nat /\ d \in Nat /\ e \in Nat
  BY LoadsAreNumbers
<1>2. /\ Before(c, d) <=> a * q < b * p \/ (~(b * p < a * q) /\ c < d)
      /\ Before(d, e) <=> b * r < f * q \/ (~(f * q < b * r) /\ d < e)
      /\ Before(c, e) <=> a * r < f * p \/ (~(f * p < a * r) /\ c < e)
  BY DEF Before, LessLoaded
<1>3. /\ a * q \in Nat /\ b * p \in Nat /\ b * r \in Nat /\ f * q \in Nat
      /\ a * r \in Nat /\ f * p \in Nat
  BY <1>1
<1> HIDE DEF a, b, f, p, q, r
<1>4. a * q <= b * p /\ b * r <= f * q BY <1>2, <1>3
<1>5. /\ a * r <= f * p
      /\ a * q < b * p \/ b * r < f * q => a * r < f * p
  BY <1>1, <1>4, CrosswiseTransitive
<1>6. CASE a * q < b * p \/ b * r < f * q BY <1>2, <1>5, <1>6
<1>7. CASE ~(a * q < b * p \/ b * r < f * q)
  <2>1. c < d /\ d < e BY <1>2, <1>7
  <2>2. c < e BY <1>1, <2>1
  <2>3. ~(f * p < a * r) BY <1>3, <1>5
  <2> QED BY <1>2, <2>2, <2>3
<1> QED BY <1>6, <1>7

LEMMA OneIsSelected == PoolInv => SelectionIsTotal
<1> SUFFICES ASSUME PoolInv, NEW m \in Models,
                    NEW free \in Engines, CanReserve(free, m)
             PROVE  \E e \in Engines : \A d \in Engines : Selected(d, m) <=> d = e
  BY DEF SelectionIsTotal
<1>1. PoolTypeOK BY InvImplies
<1> DEFINE Free == {e \in Engines : CanReserve(e, m)}
           Order == {ed \in Engines \X Engines : Before(ed[1], ed[2])}
<1>2. IsFiniteSet(Free) /\ Free # {} BY NamesAssumption, FS_Subset
<1>3. \A x, y \in Free : x = y \/ <<x, y>> \in Order \/ <<y, x>> \in Order
  BY <1>1, BeforeIsTotal
<1>4. \A x, y, z \in Free :
        <<x, y>> \in Order /\ <<y, z>> \in Order => <<x, z>> \in Order
  BY <1>1, BeforeIsTransitive
<1>5. PICK e \in Free : \A d \in Free \ {e} : <<e, d>> \in Order
  <2> HIDE DEF Free, Order
  <2> QED BY <1>2, <1>3, <1>4, LeastElement
<1>6. \A d \in Free \ {e} : Before(e, d) /\ ~Before(d, e)
  BY <1>1, <1>5, BeforeIsTotal
<1>7. ASSUME NEW d \in Engines
      PROVE  Selected(d, m) <=> d \in Free /\ \A c \in Free \ {d} : Before(d, c)
  <2>1. Selected(d, m) <=>
          /\ CanReserve(d, m)
          /\ \A c \in Engines \ {d} : CanReserve(c, m) => Before(d, c)
    BY DEF Selected, Before
  <2> QED BY <2>1
<1>8. \A d \in Engines : Selected(d, m) <=> d = e BY <1>5, <1>6, <1>7
<1> QED BY <1>5, <1>8

\* For any finite set of engines, with any slots and loads: whenever one of
\* them could take a job, exactly one is chosen.
THEOREM OneEngineIsChosen == PoolSpec => []SelectionIsTotal
<1> QED BY PoolInvAlways, OneIsSelected, PTL
=============================================================================
