--------------------------- MODULE HttpApiProofs ---------------------------
(***************************************************************************)
(* Proofs about the HTTP interface, for any deployments, bodies, keys,     *)
(* jobs and limits.                                                        *)
(*                                                                         *)
(* The argument: whatever happens is a step of the process under the       *)
(* requests, or none, and an operation of the repository, or none          *)
(* (StepIsLocal).  What those keep, a client who was told of it can rely   *)
(* on; what an answer says of the moment it is given follows from the      *)
(* guard of the action that gives it.                                      *)
(***************************************************************************)
EXTENDS HttpApi, StartupProofs, JobStoreProofs

\* What every loaded configuration satisfies.
Configured ==
  phase # "down" =>
    /\ EngineUrlsUsable(config)
    /\ config.auth = "none" \/ config.apiKey \notin {None, ""}

\* A job that was accepted exists, one whose result was served has it.
ServedIsKept ==
  /\ served \in [accepted : SUBSET Jobs, results : SUBSET Jobs]
  /\ \A j \in served.accepted : jobs[j].status # "absent"
  /\ \A j \in served.results : jobs[j].status = "succeeded" /\ j \in results

\* The delay last advertised does not end before the window it was about.
PromiseCovers ==
  /\ limiter = None \/ limiter \in [age : Nat, left : Nat, count : Nat]
  /\ promise = None \/ promise \in Nat
  /\ promise # None => limiter = None \/ limiter.left <= promise

\* What an answer says of the moment it is given: AnswersTellTheTruth without
\* the results that were served.
Honest ==
  answer # None =>
    /\ answer.status = 201 =>
         /\ jobs[answer.job].status = "queued"
         /\ \E e \in EnginesOf(config) :
              answer.model \in e.models /\ e.url \in {"http", "https"}
    /\ answer.route \in {"get", "cancel"} /\ answer.status = 404 =>
         answer.job \notin served.accepted
    /\ answer.status = 202 => jobs[answer.job].cancelRequested
    /\ answer.status = 409 => jobs[answer.job].status \in Terminal

HttpInv ==
  /\ RowInv
  /\ Configured
  /\ ServedIsKept
  /\ Honest

-----------------------------------------------------------------------------
(* Statuses.                                                               *)

LEMMA ErrorStatuses ==
  ASSUME NEW tag
  PROVE  /\ MapErrorToHttp(tag) \in {400, 401, 404, 409, 422, 429, 500, 503}
         /\ MapErrorToHttp(tag) = 401 <=> tag = "unauthorized"
         /\ MapErrorToHttp(tag) = 404 <=> tag = "jobNotFound"
         /\ MapErrorToHttp(tag) = 409 <=> tag = "jobNotCancellable"
BY DEF MapErrorToHttp

LEMMA ErrorCodes ==
  /\ MapErrorToHttp("unauthorized") = 401 /\ MapErrorToHttp("jobNotFound") = 404
  /\ MapErrorToHttp("jobNotCancellable") = 409 /\ MapErrorToHttp("defect") = 500
  /\ MapErrorToHttp("invalidRequest") = 400 /\ MapErrorToHttp("limitExceeded") = 422
  /\ MapErrorToHttp("queueFull") = 429 /\ MapErrorToHttp("rateLimited") = 429
  /\ MapErrorToHttp("database") = 503 /\ MapErrorToHttp("storage") = 503
  /\ MapErrorToHttp("engineUnavailable") = 503
BY DEF MapErrorToHttp

LEMMA SuccessStatuses ==
  /\ Success("create") = 201 /\ Success("cancel") = 202
  /\ \A route \in Routes \ {"create", "cancel"} : Success(route) = 200
BY DEF Success, Routes

-----------------------------------------------------------------------------
(* The table and the process under the requests.                           *)

\* What the repository never undoes.
LEMMA TableKeeps ==
  ASSUME RowInv, [StoreNext]_storeVars
  PROVE  /\ \A j \in Jobs : jobs[j].status # "absent" => jobs'[j].status # "absent"
         /\ \A j \in Jobs :
              jobs[j].status = "succeeded" => jobs'[j].status = "succeeded"
         /\ results \subseteq results'
<1>1. CASE UNCHANGED storeVars BY <1>1 DEF storeVars
<1>2. CASE StoreNext
  <2>1. PICK j \in Jobs : StoreStep(j) BY <1>2 DEF StoreNext
  <2>2. StoreTypeOK BY DEF RowInv
  <2>3. \A i \in Jobs : i # j => jobs'[i] = jobs[i] BY <2>1, <2>2, OneRow
  <2>4. /\ jobs[j].status # "absent" => jobs'[j].status # "absent"
        /\ jobs[j].status = "succeeded" => jobs'[j].status = "succeeded"
    BY <2>1, <2>2, RowMoves DEF Terminal
  <2>5. results \subseteq results'
    BY <2>1 DEF StoreStep, CreateJobIfCapacity, RequestCancellation, ClaimQueued,
                BindRemote, RenewLease, RecordProgress, SaveResults, RequeueJob,
                SucceedJob, FailJob, FailStorageJob, CancelRemoteJob,
                TransitionJob, LeaseLapses
  <2> QED BY <2>3, <2>4, <2>5
<1> QED BY <1>1, <1>2

LEMMA ConfigKeeps ==
  ASSUME Configured, [StartupStep]_startupVars
  PROVE  Configured'
<1>1. ASSUME NEW d \in Deployments, Start(d) PROVE Configured'
  <2>1. /\ config' = MergeConfig(d) /\ ApiKeyAccepted(d)
        /\ EngineUrlsUsable(MergeConfig(d))
    BY <1>1 DEF Start, Loadable
  <2>2. config'.auth = d.auth /\ (d.auth # "none" => config'.apiKey = d.apiKey)
    BY <2>1 DEF MergeConfig
  <2> QED BY <2>1, <2>2 DEF Configured, ApiKeyAccepted, EngineUrlsUsable
<1>2. CASE phase' = "down" BY <1>2 DEF Configured
<1>3. ASSUME UNCHANGED config, phase # "down" PROVE Configured'
  BY <1>3 DEF Configured, EngineUrlsUsable, EnginesOf
<1>4. ASSUME NEW m \in Declarations, Fetch(m) PROVE Configured'
  BY <1>2, <1>3, <1>4
     DEF Fetch, CheckTarget, OpenPartial, WriteBody, Verify, Publish, Step,
         FetchFails, Exits
<1>5. CASE Stop BY <1>2, <1>5 DEF Stop, Exits
<1>6. CASE Listen BY <1>3, <1>6 DEF Listen
<1>7. CASE EnsureRuntime BY <1>3, <1>7 DEF EnsureRuntime
<1>8. CASE UNCHANGED startupVars
  BY <1>8 DEF startupVars, Configured, EngineUrlsUsable, EnginesOf
<1> QED BY <1>1, <1>4, <1>5, <1>6, <1>7, <1>8 DEF StartupStep, StartupNext

\* What every step does to the process and to the table.
Local == [StartupStep]_startupVars /\ [StoreNext]_storeVars

LEMMA StoreSteps ==
  ASSUME NEW j \in Jobs
  PROVE  /\ CreateJobIfCapacity(j) => StoreNext
         /\ RequestCancellation(j) => StoreNext
BY DEF StoreNext, StoreStep

LEMMA RequestIsLocal == Request => Local
<1>1. Create => EnsureRuntime /\ [StoreNext]_storeVars
  BY StoreSteps
     DEF Create, CreateMalformed, CreateLimited, CreateRejected, CreateFull,
         CreateAccepted, Admissible, Admitted
<1>2. ASSUME NEW key \in Keys, NEW j \in Jobs,
             GetJob(key, j) \/ CancelJob(key, j) \/ GetResult(key, j)
      PROVE  EnsureRuntime /\ [StoreNext]_storeVars
  BY <1>2, StoreSteps
     DEF GetJob, CancelJob, GetResult, ServeResult, Admitted
<1>3. ASSUME NEW key \in Keys, NEW route,
             \/ Refused(route, key) \/ DatabaseFails(route, key)
             \/ ReadState(key, route)
      PROVE  EnsureRuntime /\ [StoreNext]_storeVars
  BY <1>3 DEF Refused, DatabaseFails, ReadState, Admitted
<1>4. Guarded => EnsureRuntime /\ [StoreNext]_storeVars
  BY <1>2, <1>3 DEF Guarded
<1>5. Live => UNCHANGED startupVars /\ [StoreNext]_storeVars BY DEF Live
<1>6. Ready => EnsureRuntime /\ [StoreNext]_storeVars BY DEF Ready
<1>7. ASSUME NEW route, NEW status, Unreadable(route, status)
      PROVE  UNCHANGED startupVars /\ [StoreNext]_storeVars
  BY <1>7 DEF Unreadable
<1> QED BY <1>1, <1>4, <1>5, <1>6, <1>7 DEF Request, Local, StartupStep

LEMMA SilentIsLocal == Silent => Local
<1>1. ASSUME NEW j \in Jobs, Dispatch(j) PROVE Local
  BY <1>1 DEF Dispatch, Local, StoreNext, StoreStep
<1>2. Tick => Local BY DEF Tick, Local
<1>3. Evict => Local BY DEF Evict, Local
<1>4. Process => Local BY DEF Process, AroundTheTable, Local, StartupStep
<1> QED BY <1>1, <1>2, <1>3, <1>4 DEF Silent

LEMMA StepIsLocal == [Next]_httpVars => Local
<1>1. UNCHANGED httpVars => Local BY DEF httpVars, Local
<1> QED BY <1>1, RequestIsLocal, SilentIsLocal DEF Next

-----------------------------------------------------------------------------
\* For any deployments in which, and between which, no two declarations share
\* a file name: once the listener is open every declared model is on disk,
\* whole and with its digest, whatever failed, stopped or was left behind.
THEOREM NamesApartModelsOnDisk ==
  ASSUME NamesApart
  PROVE  Spec => []DeclaredModelsOnDisk
<1>1. Init => StartupInv BY StartupInitInv DEF Init
<1>2. StartupInv /\ [Next]_httpVars => StartupInv'
  BY StepIsLocal, StartupStepInv DEF Local
<1>3. StartupInv => DeclaredModelsOnDisk BY StartupInvDisk
<1> QED BY <1>1, <1>2, <1>3, PTL DEF Spec

-----------------------------------------------------------------------------
(* The rate limiter.                                                       *)

LEMMA CeilingCovers ==
  ASSUME NEW n \in Nat, NEW t \in Nat \ {0}
  PROVE  /\ (n + t - 1) \div t \in Nat
         /\ ((n + t - 1) \div t) * t \in Nat
         /\ ((n + t - 1) \div t) * t >= n
<1> DEFINE a == n + t - 1
           q == a \div t
<1>1. a \in Nat OBVIOUS
<1>2. q \in Nat BY <1>1
<1>3. a = (q * t) + (a % t) /\ a % t \in 0..(t - 1) BY <1>1
<1>4. q * t \in Nat BY <1>2
<1> HIDE DEF q
<1>5. q * t >= n BY <1>3, <1>4
<1> QED BY <1>2, <1>4, <1>5 DEF q

LEMMA EntryIsTyped ==
  ASSUME PromiseCovers
  PROVE  /\ Consumed \in [age : Nat, left : Nat, count : Nat]
         /\ promise = 0 => ~RateLimited
<1>1. Entry \in [age : Nat, left : Nat, count : Nat]
  BY DEF PromiseCovers, Entry, NewEntry
<1>2. Window \in Nat BY HttpAssumption DEF Window
<1>3. CurrentWindow \in [age : Nat, left : Nat, count : Nat]
  BY <1>1, <1>2 DEF CurrentWindow
<1>4. Consumed \in [age : Nat, left : Nat, count : Nat]
  BY <1>3, HttpAssumption DEF Consumed
<1>5. ASSUME promise = 0 PROVE ~RateLimited
  <2>1. promise # None BY <1>5, NamesAssumption
  <2>2. Entry.left = 0
    BY <1>1, <1>5, <2>1 DEF PromiseCovers, Entry, NewEntry
  <2>3. CurrentWindow.count = 0
    BY <1>1, <2>2 DEF CurrentWindow
  <2>4. Consumed.count = 1
    BY <1>3, <2>3, HttpAssumption DEF Consumed
  <2> QED BY <2>4, HttpAssumption DEF RateLimited
<1> QED BY <1>4, <1>5

\* The delay advertised covers what is left of the window it was computed from.
LEMMA RefusedIsCovered ==
  ASSUME PromiseCovers, NEW key, ConsumeRefused(key)
  PROVE  PromiseCovers'
<1>1. PICK w \in [age : Nat, left : Nat, count : Nat] :
        w = Consumed /\ limiter' = w /\ promise' = RetryAfter(w) * TicksPerSecond
  BY EntryIsTyped DEF ConsumeRefused
<1> DEFINE t == TicksPerSecond
           s == (w.left + t - 1) \div t
<1>2. w.left \in Nat /\ t \in Nat \ {0} BY HttpAssumption
<1>3. s \in Nat /\ s * t \in Nat /\ s * t >= w.left BY <1>2, CeilingCovers
<1>4. promise' = (IF s < 1 THEN 1 ELSE s) * t
  BY <1>1 DEF RetryAfter
<1> HIDE DEF s, t
<1>5. CASE s < 1
  <2>1. s = 0 BY <1>3, <1>5
  <2>2. w.left = 0 BY <1>2, <1>3, <2>1
  <2>3. promise' = t BY <1>2, <1>4, <1>5
  <2> QED BY <1>1, <1>2, <2>2, <2>3 DEF PromiseCovers
<1>6. CASE ~(s < 1)
  <2>1. promise' = s * t BY <1>4, <1>6
  <2> QED BY <1>1, <1>3, <2>1 DEF PromiseCovers
<1> QED BY <1>5, <1>6

LEMMA TickKeepsPromise ==
  ASSUME PromiseCovers, Tick
  PROVE  PromiseCovers'
<1>1. CASE limiter' = None
  BY <1>1, NamesAssumption DEF Tick, PromiseCovers
<1>2. CASE limiter' # None
  <2>1. /\ limiter # None
        /\ limiter' = [limiter EXCEPT !.age = @ + 1,
                                      !.left = IF @ = 0 THEN 0 ELSE @ - 1]
    BY <1>2 DEF Tick
  <2>2. limiter \in [age : Nat, left : Nat, count : Nat]
    BY <2>1 DEF PromiseCovers
  <2>3. /\ limiter' \in [age : Nat, left : Nat, count : Nat]
        /\ limiter'.left = IF limiter.left = 0 THEN 0 ELSE limiter.left - 1
    <3> DEFINE left == IF limiter.left = 0 THEN 0 ELSE limiter.left - 1
    <3>1. limiter.age + 1 \in Nat /\ left \in Nat BY <2>2
    <3>2. limiter' = [limiter EXCEPT !.age = limiter.age + 1, !.left = left]
      BY <2>1
    <3> HIDE DEF left
    <3>3. limiter' \in [age : Nat, left : Nat, count : Nat] /\ limiter'.left = left
      BY <2>2, <3>1, <3>2
    <3> QED BY <3>3 DEF left
  <2>4. promise' = IF promise \in {None, 0} THEN promise ELSE promise - 1
    BY DEF Tick
  <2>5. promise = None => promise' = None BY <2>4
  <2>6. promise # None => promise' \in Nat /\ limiter'.left <= promise'
    BY <2>1, <2>2, <2>3, <2>4 DEF PromiseCovers
  <2> QED BY <2>3, <2>5, <2>6 DEF PromiseCovers
<1> QED BY <1>1, <1>2

\* What a step does to the limiter, and what it leaves alone.
LEMMA LimiterSteps ==
  [Next]_httpVars =>
    \/ UNCHANGED limiterVars
    \/ \E key \in Keys : ConsumeRefused(key)
    \/ ConsumeAllowed
    \/ Tick
    \/ Forgotten
<1>1. Create => UNCHANGED limiterVars \/ ConsumeAllowed
                  \/ \E key \in Keys : ConsumeRefused(key)
  BY DEF Create, CreateMalformed, CreateLimited, CreateRejected, CreateFull,
         CreateAccepted, Admissible
<1>2. Guarded => UNCHANGED limiterVars
  BY DEF Guarded, Refused, DatabaseFails, GetJob, CancelJob, GetResult,
         ServeResult, ReadState, Untouched
<1>3. Live \/ Ready => UNCHANGED limiterVars BY DEF Live, Ready, Untouched
<1>4. Silent => UNCHANGED limiterVars \/ Tick \/ Forgotten
  BY DEF Silent, Dispatch, Evict, Process, AroundTheTable
<1>5. UNCHANGED httpVars => UNCHANGED limiterVars BY DEF httpVars, limiterVars
<1>6. ASSUME NEW route, NEW status, Unreadable(route, status)
      PROVE  UNCHANGED limiterVars
  BY <1>6 DEF Unreadable
<1> QED BY <1>1, <1>2, <1>3, <1>4, <1>5, <1>6 DEF Next, Request

LEMMA PromiseKeeps ==
  ASSUME PromiseCovers, [Next]_httpVars
  PROVE  PromiseCovers' /\ (promise = 0 => promise' \in {0, None})
<1>1. CASE UNCHANGED limiterVars BY <1>1 DEF limiterVars, PromiseCovers
<1>2. ASSUME NEW key \in Keys, ConsumeRefused(key)
      PROVE  PromiseCovers' /\ promise # 0
  BY <1>2, RefusedIsCovered, EntryIsTyped DEF ConsumeRefused
<1>3. CASE ConsumeAllowed
  BY <1>3, EntryIsTyped DEF ConsumeAllowed, PromiseCovers
<1>4. CASE Tick
  BY <1>4, TickKeepsPromise DEF Tick
<1>5. CASE Forgotten BY <1>5 DEF Forgotten, PromiseCovers
<1> QED BY <1>1, <1>2, <1>3, <1>4, <1>5, LimiterSteps

\* For every limit, window and resolution of the clock: a client that waits as
\* long as Retry-After says is not refused again.
THEOREM WaitingSuffices == Spec => RetryAfterSuffices
<1>1. Init => PromiseCovers BY DEF Init, PromiseCovers
<1>2. PromiseCovers /\ [Next]_httpVars => PromiseCovers' BY PromiseKeeps
<1>3. ASSUME PromiseCovers, [Next]_httpVars
      PROVE  [promise = 0 => promise' \in {0, None}]_httpVars
  BY <1>3, PromiseKeeps
<1> QED BY <1>1, <1>2, <1>3, PTL DEF Spec, RetryAfterSuffices

-----------------------------------------------------------------------------
(* The budget.                                                             *)

\* The variables of the limiter, and of what is counted about it.
LimiterTyped ==
  /\ limiter \in LimiterEntry \cup {None}
  /\ promise \in 0..Window \cup {None}
  /\ admitted \in [0..(Window - 1) -> Nat]

LEMMA WindowIsPositive == Window \in Nat \ {0} /\ TicksPerSecond <= Window
<1> DEFINE s == WindowSeconds
           t == TicksPerSecond
<1>1. s \in Nat /\ t \in Nat /\ s >= 1 /\ t >= 1 BY HttpAssumption
<1>2. s * t \in Nat /\ s * t >= t BY <1>1
<1> QED BY <1>1, <1>2 DEF Window

LEMMA NoneIsNoEntry == None \notin LimiterEntry
<1>1. LimiterEntry \subseteq [age : Nat, left : Nat, count : Nat]
  BY WindowIsPositive, HttpAssumption DEF LimiterEntry
<1> QED BY <1>1, HttpAssumption

\* The entry that a request finds or makes, once it is counted.
LEMMA ConsumedIsTyped ==
  ASSUME LimiterTyped
  PROVE  Consumed \in LimiterEntry
<1> DEFINE Loose == [age : 0..Window, left : 0..Window, count : 0..(MaxRequests + 1)]
<1>1. Window \in Nat /\ MaxRequests \in Nat \ {0}
  BY WindowIsPositive, HttpAssumption
<1>2. Entry \in Loose
  BY <1>1 DEF LimiterTyped, LimiterEntry, Entry, NewEntry
<1>3. CurrentWindow \in Loose
  <2>1. [Entry EXCEPT !.left = Window, !.count = 0] \in Loose
    <3>1. Window \in 0..Window /\ 0 \in 0..(MaxRequests + 1) BY <1>1
    <3> QED BY <1>2, <3>1
  <2> QED BY <1>2, <2>1 DEF CurrentWindow
<1> DEFINE count == CurrentWindow.count
           n == IF count > MaxRequests THEN count ELSE count + 1
<1>4. n \in 1..(MaxRequests + 1) BY <1>1, <1>3
<1>5. Consumed = [CurrentWindow EXCEPT !.count = n] BY DEF Consumed
<1> HIDE DEF n
<1> QED BY <1>3, <1>4, <1>5 DEF LimiterEntry

\* Rounding up to seconds stays within the window, which is whole seconds.
LEMMA RetryAfterFits ==
  ASSUME NEW w \in LimiterEntry
  PROVE  RetryAfter(w) * TicksPerSecond \in 0..Window
<1> DEFINE t == TicksPerSecond
           q == (w.left + t - 1) \div t
<1>1. /\ t \in Nat \ {0} /\ WindowSeconds \in Nat /\ Window = WindowSeconds * t
      /\ Window \in Nat /\ t <= Window /\ w.left \in 0..Window
  BY HttpAssumption, WindowIsPositive DEF LimiterEntry, Window
<1>2. q \in Nat /\ q * t <= w.left + t - 1
  <2> DEFINE a == w.left + t - 1
  <2>1. a \in Nat BY <1>1
  <2>2. a = (q * t) + (a % t) /\ a % t \in 0..(t - 1) /\ q \in Nat BY <1>1, <2>1
  <2> QED BY <1>1, <2>1, <2>2
<1> HIDE DEF q
<1>3. q <= WindowSeconds
  <2> SUFFICES ASSUME q >= WindowSeconds + 1 PROVE FALSE BY <1>1, <1>2
  <2>1. q * t >= (WindowSeconds + 1) * t BY <1>1, <1>2
  <2>2. (WindowSeconds + 1) * t = Window + t BY <1>1
  <2> QED BY <1>1, <1>2, <2>1, <2>2
<1>4. q * t \in Nat /\ q * t <= Window BY <1>1, <1>2, <1>3
<1>5. RetryAfter(w) = IF q < 1 THEN 1 ELSE q BY DEF RetryAfter, q
<1>6. CASE q < 1 BY <1>1, <1>5, <1>6
<1>7. CASE ~(q < 1) BY <1>1, <1>4, <1>5, <1>7
<1> QED BY <1>6, <1>7

LEMMA AgedEntry ==
  ASSUME LimiterTyped, Tick, limiter' # None
  PROVE  /\ limiter # None /\ limiter \in LimiterEntry /\ limiter.age < Window
         /\ limiter' \in LimiterEntry
         /\ limiter'.age = limiter.age + 1
         /\ limiter'.left = IF limiter.left = 0 THEN 0 ELSE limiter.left - 1
         /\ limiter'.count = limiter.count
<1>1. /\ limiter # None
      /\ ~(limiter.age >= Window)
      /\ limiter' = [limiter EXCEPT !.age = @ + 1,
                                    !.left = IF @ = 0 THEN 0 ELSE @ - 1]
  BY DEF Tick, Entry
<1>2. limiter \in LimiterEntry BY <1>1 DEF LimiterTyped
<1>3. /\ Window \in Nat /\ limiter.age \in 0..Window /\ limiter.left \in 0..Window
  BY <1>2, WindowIsPositive DEF LimiterEntry
<1> DEFINE left == IF limiter.left = 0 THEN 0 ELSE limiter.left - 1
<1>4. left \in 0..Window /\ limiter.age + 1 \in 0..Window BY <1>1, <1>3
<1>5. limiter' = [limiter EXCEPT !.age = limiter.age + 1, !.left = left]
  BY <1>1
<1> HIDE DEF left
<1>6. /\ limiter' \in LimiterEntry /\ limiter'.age = limiter.age + 1
      /\ limiter'.left = left /\ limiter'.count = limiter.count
  BY <1>2, <1>4, <1>5 DEF LimiterEntry
<1> QED BY <1>1, <1>2, <1>3, <1>6 DEF left

LEMMA StepLimiterTyped ==
  ASSUME LimiterTyped, [Next]_httpVars
  PROVE  LimiterTyped'
<1>1. CASE UNCHANGED limiterVars BY <1>1 DEF limiterVars, LimiterTyped
<1>2. ASSUME NEW key \in Keys, ConsumeRefused(key) PROVE LimiterTyped'
  BY <1>2, ConsumedIsTyped, RetryAfterFits DEF ConsumeRefused, LimiterTyped
<1>3. CASE ConsumeAllowed
  <2>1. admitted' \in [0..(Window - 1) -> Nat]
    BY <1>3 DEF ConsumeAllowed, LimiterTyped
  <2> QED BY <1>3, <2>1, ConsumedIsTyped DEF ConsumeAllowed, LimiterTyped
<1>4. CASE Tick
  <2>1. admitted' \in [0..(Window - 1) -> Nat]
    BY <1>4, WindowIsPositive DEF Tick, LimiterTyped
  <2>2. limiter' \in LimiterEntry \cup {None} BY <1>4, AgedEntry
  <2>3. promise' \in 0..Window \cup {None}
    BY <1>4, WindowIsPositive DEF Tick, LimiterTyped
  <2> QED BY <2>1, <2>2, <2>3 DEF LimiterTyped
<1>5. CASE Forgotten BY <1>5 DEF Forgotten, LimiterTyped
<1> QED BY <1>1, <1>2, <1>3, <1>4, <1>5, LimiterSteps

\* Of the requests counted in a window, those that were let through.
LetThrough == IF limiter.count > MaxRequests THEN MaxRequests ELSE limiter.count

\* No entry is cached, and whatever was is older than this instant.
NothingCached ==
  /\ limiter = None
  /\ admitted[0] = 0
  /\ admitted[Window - 1] <= 2 * MaxRequests - 1

\* The first window of an entry is as old as the entry; what was let through
\* since then is what it counted, and some of it as long ago as that.
FirstWindow ==
  /\ limiter # None
  /\ limiter.age < Window
  /\ limiter.left = Window - limiter.age
  /\ admitted[limiter.age] = LetThrough
  /\ limiter.age > 0 => admitted[limiter.age - 1] < LetThrough
  /\ admitted[Window - 1] - LetThrough <= 2 * MaxRequests - 1

\* That window has just ended, and its first request is out of sight.
WindowEnded ==
  /\ limiter # None
  /\ limiter.age = Window
  /\ limiter.left = 0
  /\ admitted[0] = 0
  /\ admitted[Window - 1] <= MaxRequests - 1

\* It rolled over at that very instant; the entry is dropped at the next.
RolledOver ==
  /\ limiter # None
  /\ limiter.age = Window
  /\ limiter.left = Window
  /\ admitted[0] = LetThrough
  /\ admitted[Window - 1] - LetThrough <= MaxRequests - 1

\* The inductive invariant of the budget.
BudgetInv ==
  /\ LimiterTyped
  /\ \A s, t \in 0..(Window - 1) : s <= t => admitted[s] <= admitted[t]
  /\ NothingCached \/ FirstWindow \/ WindowEnded \/ RolledOver

LEMMA BudgetNumbers ==
  ASSUME BudgetInv
  PROVE  /\ Window \in Nat /\ Window > 0 /\ MaxRequests \in Nat /\ MaxRequests > 0
         /\ 0 \in 0..(Window - 1) /\ Window - 1 \in 0..(Window - 1)
         /\ \A t \in 0..(Window - 1) :
              /\ admitted[t] \in Nat
              /\ admitted[0] <= admitted[t] /\ admitted[t] <= admitted[Window - 1]
         /\ limiter # None =>
              /\ limiter.age \in 0..Window /\ limiter.left \in 0..Window
              /\ limiter.count \in 1..(MaxRequests + 1)
              /\ LetThrough \in 1..MaxRequests
<1>1. Window \in Nat /\ Window > 0 /\ MaxRequests \in Nat /\ MaxRequests > 0
  BY WindowIsPositive, HttpAssumption
<1>2. 0 \in 0..(Window - 1) /\ Window - 1 \in 0..(Window - 1) BY <1>1
<1>3. \A t \in 0..(Window - 1) :
        /\ admitted[t] \in Nat
        /\ admitted[0] <= admitted[t] /\ admitted[t] <= admitted[Window - 1]
  BY <1>1, <1>2 DEF BudgetInv, LimiterTyped
<1>4. limiter # None =>
        /\ limiter.age \in 0..Window /\ limiter.left \in 0..Window
        /\ limiter.count \in 1..(MaxRequests + 1)
  BY DEF BudgetInv, LimiterTyped, LimiterEntry
<1> QED BY <1>1, <1>2, <1>3, <1>4 DEF LetThrough

LEMMA BudgetInvBound == BudgetInv => BudgetBound
<1> SUFFICES ASSUME BudgetInv PROVE BudgetBound OBVIOUS
<1>1. NothingCached \/ FirstWindow \/ WindowEnded \/ RolledOver BY DEF BudgetInv
<1> QED
  BY <1>1, BudgetNumbers
     DEF BudgetBound, NothingCached, FirstWindow, WindowEnded, RolledOver

LEMMA AllowedKeepsBudget ==
  ASSUME BudgetInv, LimiterTyped', ConsumeAllowed
  PROVE  BudgetInv'
<1> DEFINE last == Window - 1
<1>1. /\ admitted' = [t \in 0..last |-> admitted[t] + 1]
      /\ limiter' = Consumed
  BY DEF ConsumeAllowed, BudgetInv, LimiterTyped
<1>2. \A t \in 0..last : admitted'[t] = admitted[t] + 1 BY <1>1
<1>3. \A s, t \in 0..last : s <= t => admitted'[s] <= admitted'[t]
  <2> TAKE s, t \in 0..last
  <2> HAVE s <= t
  <2>1. admitted[s] <= admitted[t] BY DEF BudgetInv
  <2>2. admitted[s] \in Nat /\ admitted[t] \in Nat BY BudgetNumbers
  <2> QED BY <1>2, <2>1, <2>2
<1>4. limiter' \in LimiterEntry /\ limiter' # None
  BY <1>1, ConsumedIsTyped, NoneIsNoEntry DEF BudgetInv
<1>5. CASE NothingCached
  <2>1. /\ CurrentWindow = [NewEntry EXCEPT !.left = Window, !.count = 0]
    BY <1>5 DEF NothingCached, CurrentWindow, Entry, NewEntry
  <2>2. limiter'.age = 0 /\ limiter'.left = Window /\ limiter'.count = 1
    BY <1>1, <2>1, BudgetNumbers DEF Consumed, NewEntry
  <2>3. LetThrough' = 1 BY <2>2, BudgetNumbers DEF LetThrough
  <2>4. FirstWindow'
    BY <1>2, <1>4, <1>5, <2>2, <2>3, BudgetNumbers
       DEF FirstWindow, NothingCached
  <2> QED BY <1>3, <2>4 DEF BudgetInv
<1>6. CASE limiter # None /\ limiter.left > 0
  <2>1. CurrentWindow = limiter
    BY <1>6 DEF CurrentWindow, Entry
  <2>2. /\ limiter.count < MaxRequests
        /\ limiter'.age = limiter.age /\ limiter'.left = limiter.left
        /\ limiter'.count = limiter.count + 1
    <3>1. limiter \in LimiterEntry BY <1>6 DEF BudgetInv, LimiterTyped
    <3>2. Consumed.count <= MaxRequests
      BY <1>1, <1>4, BudgetNumbers DEF ConsumeAllowed, RateLimited, LimiterEntry
    <3>3. Consumed = [limiter EXCEPT !.count =
             IF limiter.count > MaxRequests THEN limiter.count ELSE limiter.count + 1]
      BY <2>1 DEF Consumed
    <3>4. limiter.count <= MaxRequests
      BY <1>6, <3>1, <3>2, <3>3, BudgetNumbers DEF LimiterEntry
    <3>5. Consumed = [limiter EXCEPT !.count = limiter.count + 1]
      BY <1>6, <3>3, <3>4, BudgetNumbers
    <3> QED BY <1>1, <1>6, <3>1, <3>2, <3>5, BudgetNumbers DEF LimiterEntry
  <2>3. LetThrough = limiter.count /\ LetThrough' = LetThrough + 1
    BY <1>6, <2>2, BudgetNumbers DEF LetThrough
  <2>4. CASE FirstWindow
    <3>1. /\ limiter.age \in 0..last
          /\ limiter.age > 0 => limiter.age - 1 \in 0..last
      BY <1>6, <2>4, BudgetNumbers DEF FirstWindow
    <3>2. /\ admitted'[limiter.age] = admitted[limiter.age] + 1
          /\ limiter.age > 0 => admitted'[limiter.age - 1] = admitted[limiter.age - 1] + 1
          /\ admitted'[last] = admitted[last] + 1
      BY <1>2, <3>1, BudgetNumbers
    <3>3. /\ admitted[limiter.age] \in Nat /\ admitted[last] \in Nat
          /\ limiter.age > 0 => admitted[limiter.age - 1] \in Nat
      BY <3>1, BudgetNumbers
    <3>4. FirstWindow'
      BY <1>4, <1>6, <2>2, <2>3, <2>4, <3>2, <3>3, BudgetNumbers DEF FirstWindow
    <3> QED BY <1>3, <3>4 DEF BudgetInv
  <2>5. CASE RolledOver
    <3>1. RolledOver'
      BY <1>2, <1>4, <1>6, <2>2, <2>3, <2>5, BudgetNumbers DEF RolledOver
    <3> QED BY <1>3, <3>1 DEF BudgetInv
  <2> QED
    BY <1>6, <2>4, <2>5, BudgetNumbers DEF BudgetInv, NothingCached, WindowEnded
<1>7. CASE WindowEnded
  <2>1. CurrentWindow = [limiter EXCEPT !.left = Window, !.count = 0]
    BY <1>7, BudgetNumbers DEF WindowEnded, CurrentWindow, Entry
  <2>2. limiter \in LimiterEntry
    BY <1>7 DEF WindowEnded, BudgetInv, LimiterTyped
  <2>3. limiter'.age = Window /\ limiter'.left = Window /\ limiter'.count = 1
    BY <1>1, <1>7, <2>1, <2>2, BudgetNumbers DEF Consumed, WindowEnded, LimiterEntry
  <2>4. LetThrough' = 1 BY <2>3, BudgetNumbers DEF LetThrough
  <2>5. RolledOver'
    BY <1>2, <1>4, <1>7, <2>3, <2>4, BudgetNumbers DEF RolledOver, WindowEnded
  <2> QED BY <1>3, <2>5 DEF BudgetInv
<1>8. FirstWindow \/ RolledOver => limiter # None /\ limiter.left > 0
  BY BudgetNumbers DEF FirstWindow, RolledOver
<1> QED BY <1>5, <1>6, <1>7, <1>8 DEF BudgetInv

LEMMA RefusedKeepsBudget ==
  ASSUME BudgetInv, LimiterTyped', NEW key, ConsumeRefused(key)
  PROVE  BudgetInv'
<1>1. limiter' = Consumed /\ UNCHANGED admitted BY DEF ConsumeRefused
<1>2. limiter' \in LimiterEntry /\ limiter' # None
  BY <1>1, ConsumedIsTyped, NoneIsNoEntry DEF BudgetInv
<1>3. Consumed.count > MaxRequests BY DEF ConsumeRefused, RateLimited
<1>4. limiter # None /\ limiter.left > 0
  <2> SUFFICES ASSUME Entry.left = 0 PROVE FALSE
    BY BudgetNumbers DEF Entry, NewEntry
  <2>1. CurrentWindow = [Entry EXCEPT !.left = Window, !.count = 0]
    BY DEF CurrentWindow
  <2>2. Entry \in [age : Nat, left : Nat, count : Nat]
    BY BudgetNumbers DEF Entry, NewEntry, BudgetInv, LimiterTyped, LimiterEntry
  <2>3. Consumed.count = 1 BY <2>1, <2>2, BudgetNumbers DEF Consumed
  <2> QED BY <1>3, <2>3, BudgetNumbers
<1>5. limiter \in LimiterEntry BY <1>4 DEF BudgetInv, LimiterTyped
<1>6. Consumed = [limiter EXCEPT !.count =
         IF limiter.count > MaxRequests THEN limiter.count ELSE limiter.count + 1]
  BY <1>4 DEF Consumed, CurrentWindow, Entry
<1>7. /\ limiter'.age = limiter.age /\ limiter'.left = limiter.left
      /\ limiter'.count =
           IF limiter.count > MaxRequests THEN limiter.count ELSE limiter.count + 1
  BY <1>1, <1>5, <1>6 DEF LimiterEntry
<1>8. LetThrough' = LetThrough
  BY <1>1, <1>3, <1>4, <1>7, BudgetNumbers DEF LetThrough
<1>9. FirstWindow \/ RolledOver
  BY <1>4, BudgetNumbers DEF BudgetInv, NothingCached, WindowEnded
<1>10. FirstWindow' \/ RolledOver'
  BY <1>1, <1>2, <1>7, <1>8, <1>9 DEF FirstWindow, RolledOver
<1> QED BY <1>1, <1>10 DEF BudgetInv

LEMMA TickKeepsBudget ==
  ASSUME BudgetInv, LimiterTyped', Tick
  PROVE  BudgetInv'
<1> DEFINE last == Window - 1
<1>1. /\ Window \in Nat /\ Window > 0 /\ last \in Nat
      /\ MaxRequests \in Nat /\ MaxRequests > 0
      /\ 0 \in 0..last /\ last \in 0..last
  BY BudgetNumbers
<1>2. admitted' = [t \in 0..last |-> IF t = 0 THEN 0 ELSE admitted[t - 1]]
  BY DEF Tick, BudgetInv, LimiterTyped
<1>3. /\ admitted'[0] = 0
      /\ \A t \in 0..last : t # 0 => t - 1 \in 0..last /\ admitted'[t] = admitted[t - 1]
  BY <1>1, <1>2
<1>4. \A t \in 0..last : admitted[t] \in Nat BY BudgetNumbers
<1>5. \A s, t \in 0..last : s <= t => admitted'[s] <= admitted'[t]
  <2> TAKE s, t \in 0..last
  <2> HAVE s <= t
  <2>1. CASE s = 0
    <3>1. admitted'[t] \in Nat BY <1>3, <1>4
    <3> QED BY <1>3, <2>1, <3>1
  <2>2. CASE s # 0
    <3>1. t # 0 /\ s - 1 \in 0..last /\ t - 1 \in 0..last /\ s - 1 <= t - 1
      BY <1>1, <2>2
    <3>2. admitted[s - 1] <= admitted[t - 1] BY <3>1 DEF BudgetInv
    <3> QED BY <1>3, <2>2, <3>1, <3>2
  <2> QED BY <2>1, <2>2
<1>6. admitted'[last] \in Nat /\ admitted'[last] <= admitted[last]
  <2>1. CASE last = 0 BY <1>3, <1>4, <2>1
  <2>2. CASE last # 0
    <3>1. last - 1 \in 0..last /\ admitted'[last] = admitted[last - 1]
      BY <1>1, <1>3, <2>2
    <3>2. admitted[last - 1] <= admitted[last] BY <3>1, BudgetNumbers
    <3> QED BY <1>4, <3>1, <3>2
  <2> QED BY <2>1, <2>2
<1>7. CASE limiter = None
  <2>1. limiter' = None /\ NothingCached
    BY <1>7 DEF Tick, BudgetInv, FirstWindow, WindowEnded, RolledOver
  <2>2. NothingCached'
    BY <1>1, <1>3, <1>4, <1>6, <2>1 DEF NothingCached
  <2> QED BY <1>5, <2>2 DEF BudgetInv
<1>8. CASE limiter # None /\ limiter.age >= Window
  <2>1. limiter' = None BY <1>8 DEF Tick, Entry
  <2>2. WindowEnded \/ RolledOver
    BY <1>1, <1>8, BudgetNumbers DEF BudgetInv, NothingCached, FirstWindow
  <2>3. admitted[last] <= 2 * MaxRequests - 1
    BY <1>1, <1>4, <2>2, BudgetNumbers DEF WindowEnded, RolledOver
  <2>4. NothingCached'
    BY <1>1, <1>3, <1>4, <1>6, <2>1, <2>3 DEF NothingCached
  <2> QED BY <1>5, <2>4 DEF BudgetInv
<1>9. CASE limiter # None /\ limiter.age < Window
  <2>0. limiter.age \in Nat /\ limiter.left \in Nat /\ LetThrough \in 1..MaxRequests
    BY <1>9, BudgetNumbers
  <2>1. limiter' # None
    <3>1. limiter' = [limiter EXCEPT !.age = @ + 1,
                                     !.left = IF @ = 0 THEN 0 ELSE @ - 1]
      BY <1>1, <1>9, <2>0 DEF Tick, Entry
    <3>2. limiter \in [age : Nat, left : Nat, count : Nat]
      BY <1>9, BudgetNumbers DEF BudgetInv, LimiterTyped, LimiterEntry
    <3>3. limiter' \in [age : Nat, left : Nat, count : Nat]
      <4> DEFINE left == IF limiter.left = 0 THEN 0 ELSE limiter.left - 1
      <4>1. left \in Nat /\ limiter.age + 1 \in Nat BY <2>0
      <4>2. limiter' = [limiter EXCEPT !.age = limiter.age + 1, !.left = left]
        BY <3>1
      <4> HIDE DEF left
      <4> QED BY <3>2, <4>1, <4>2
    <3> QED BY <3>3, HttpAssumption
  <2>2. /\ limiter'.age = limiter.age + 1
        /\ limiter'.left = IF limiter.left = 0 THEN 0 ELSE limiter.left - 1
        /\ limiter'.count = limiter.count
    BY <2>1, AgedEntry DEF BudgetInv
  <2>3. LetThrough' = LetThrough BY <2>2 DEF LetThrough
  <2>4. FirstWindow
    BY <1>1, <1>9, <2>0 DEF BudgetInv, NothingCached, WindowEnded, RolledOver
  <2>5. /\ limiter.left = Window - limiter.age
        /\ admitted[limiter.age] = LetThrough
        /\ limiter.age > 0 => admitted[limiter.age - 1] < LetThrough
        /\ admitted[last] - LetThrough <= 2 * MaxRequests - 1
    BY <2>4 DEF FirstWindow
  <2> DEFINE g == limiter.age
  <2>6. limiter'.left = Window - (g + 1)
    BY <1>1, <1>9, <2>0, <2>2, <2>5
  <2>7. CASE g + 1 < Window
    <3>1. g + 1 \in 0..last /\ g + 1 # 0 /\ (g + 1) - 1 = g /\ g \in 0..last
      BY <1>1, <2>0, <2>7
    <3>2. admitted'[g + 1] = LetThrough BY <1>3, <2>5, <3>1
    <3>3. admitted'[g] < LetThrough
      BY <1>3, <1>4, <2>0, <2>5, <3>1
    <3>4. admitted'[last] - LetThrough <= 2 * MaxRequests - 1
      BY <1>1, <1>4, <1>6, <2>0, <2>5
    <3>5. FirstWindow'
      BY <2>0, <2>1, <2>2, <2>3, <2>6, <2>7, <3>1, <3>2, <3>3, <3>4 DEF FirstWindow
    <3> QED BY <1>5, <3>5 DEF BudgetInv
  <2>8. CASE ~(g + 1 < Window)
    <3>1. g = last /\ limiter'.age = Window /\ limiter'.left = 0
      BY <1>1, <1>9, <2>0, <2>2, <2>6, <2>8
    <3>2. admitted'[last] <= MaxRequests - 1
      <4>1. CASE last = 0 BY <1>1, <1>3, <4>1
      <4>2. CASE last # 0
        BY <1>1, <1>3, <1>4, <2>0, <2>5, <3>1, <4>2
      <4> QED BY <4>1, <4>2
    <3>3. WindowEnded' BY <1>3, <2>1, <3>1, <3>2 DEF WindowEnded
    <3> QED BY <1>5, <3>3 DEF BudgetInv
  <2> QED BY <2>7, <2>8
<1> QED
  BY <1>7, <1>8, <1>9, BudgetNumbers

LEMMA ForgottenKeepsBudget ==
  ASSUME BudgetInv, LimiterTyped', Forgotten
  PROVE  BudgetInv'
<1>1. /\ limiter' = None
      /\ \A t \in 0..(Window - 1) : admitted'[t] = 0
  BY DEF Forgotten, BudgetInv, LimiterTyped
<1>2. NothingCached' BY <1>1, BudgetNumbers DEF NothingCached
<1> QED BY <1>1, <1>2 DEF BudgetInv

LEMMA StepBudgetInv ==
  ASSUME BudgetInv, [Next]_httpVars
  PROVE  BudgetInv'
<1>1. LimiterTyped' BY StepLimiterTyped DEF BudgetInv
<1>2. CASE UNCHANGED limiterVars
  BY <1>2 DEF limiterVars, BudgetInv, LimiterTyped, NothingCached, FirstWindow,
              WindowEnded, RolledOver, LetThrough
<1> QED
  BY <1>1, <1>2, RefusedKeepsBudget, AllowedKeepsBudget, TickKeepsBudget,
     ForgottenKeepsBudget, LimiterSteps

LEMMA InitBudgetInv == Init => BudgetInv
<1> SUFFICES ASSUME Init PROVE BudgetInv OBVIOUS
<1>1. /\ Window \in Nat /\ Window > 0 /\ MaxRequests \in Nat /\ MaxRequests > 0
  BY WindowIsPositive, HttpAssumption
<1>2. /\ limiter = None /\ promise = None
      /\ admitted = [t \in 0..(Window - 1) |-> 0]
  BY DEF Init
<1>3. LimiterTyped BY <1>2 DEF LimiterTyped
<1>4. NothingCached BY <1>1, <1>2 DEF NothingCached
<1> QED BY <1>2, <1>3, <1>4 DEF BudgetInv

\* For every limit, every length of the window and every resolution of time,
\* however requests are timed: no length of time as long as a window, between
\* two restarts or evictions of the client, sees three full budgets let through.
THEOREM BudgetIsBounded == Spec => []BudgetBound
<1>1. Init => BudgetInv BY InitBudgetInv
<1>2. BudgetInv /\ [Next]_httpVars => BudgetInv' BY StepBudgetInv
<1> QED BY <1>1, <1>2, BudgetInvBound, PTL DEF Spec

-----------------------------------------------------------------------------
(* What clients are told.                                                  *)

LEMMA ServedStays ==
  ASSUME HttpInv, Local, UNCHANGED served
  PROVE  ServedIsKept'
BY TableKeeps DEF HttpInv, Local, ServedIsKept

\* An answer that neither accepts, nor marks, nor denies anything.
LEMMA Noncommittal ==
  ASSUME answer'.status \notin {201, 202, 409},
         answer'.status = 404 => answer'.route \notin {"get", "cancel"}
  PROVE  Honest'
BY DEF Honest

LEMMA AcceptedIsKept ==
  ASSUME HttpInv, NEW key \in Keys, NEW body \in Bodies, NEW j \in Jobs,
         CreateAccepted(key, body, j)
  PROVE  ServedIsKept' /\ Honest'
<1>1. /\ jobs' = [jobs EXCEPT ![j].status = "queued"] /\ UNCHANGED results
      /\ served' = [served EXCEPT !.accepted = @ \cup {j}]
  BY DEF CreateAccepted, CreateJobIfCapacity
<1>2. jobs'[j].status = "queued" /\ \A i \in Jobs : i # j => jobs'[i] = jobs[i]
  BY <1>1 DEF HttpInv, RowInv, StoreTypeOK, Row
<1>3. jobs[j].status = "absent" BY DEF CreateAccepted, CreateJobIfCapacity
<1>4. ServedIsKept'
  <2>1. /\ served' \in [accepted : SUBSET Jobs, results : SUBSET Jobs]
        /\ served'.accepted = served.accepted \cup {j}
        /\ served'.results = served.results
    BY <1>1 DEF HttpInv, ServedIsKept
  <2> QED BY <1>1, <1>2, <1>3, <2>1 DEF HttpInv, ServedIsKept
<1>5. /\ answer'.status = 201 /\ answer'.route = "create" /\ answer'.job = j
      /\ answer'.model = body.model
  BY SuccessStatuses DEF CreateAccepted, Answers
<1>6. ModelServed(body.model)
  BY HttpAssumption DEF CreateAccepted, Admissible, AdmissionError
<1>7. phase = "listening" /\ UNCHANGED config
  BY DEF CreateAccepted, Admissible, Admitted, EnsureRuntime
<1>8. PICK e \in EnginesOf(config) : body.model \in e.models BY <1>6 DEF ModelServed
<1>9. e.url \in {"http", "https"}
  BY <1>7 DEF HttpInv, Configured, EngineUrlsUsable
<1>10. e \in EnginesOf(config)' BY <1>7 DEF EnginesOf
<1> QED BY <1>2, <1>4, <1>5, <1>8, <1>9, <1>10 DEF Honest

LEMMA CreateIsHonest ==
  ASSUME HttpInv, Create
  PROVE  ServedIsKept' /\ Honest'
<1> PICK key \in Keys, body \in Bodies :
      \/ CreateMalformed(key, body)
      \/ CreateLimited(key, body)
      \/ CreateRejected(key, body)
      \/ CreateFull(key, body)
      \/ \E j \in Jobs : CreateAccepted(key, body, j)
  BY DEF Create
<1>1. CASE \E j \in Jobs : CreateAccepted(key, body, j) BY <1>1, AcceptedIsKept
<1>2. CASE ~ \E j \in Jobs : CreateAccepted(key, body, j)
  <2>1. UNCHANGED served
    BY <1>2 DEF CreateMalformed, CreateLimited, CreateRejected, CreateFull
  <2>2. answer'.route = "create"
    BY <1>2 DEF CreateMalformed, CreateLimited, CreateRejected, CreateFull,
                ConsumeRefused, Fails, Answers
  <2>3. answer'.status \in {400, 422, 429, 503}
    <3>1. CASE CreateMalformed(key, body)
      BY <3>1, ErrorCodes DEF CreateMalformed, Fails, Answers
    <3>2. CASE CreateLimited(key, body)
      BY <3>2, ErrorCodes DEF CreateLimited, ConsumeRefused, Answers
    <3>3. CASE CreateRejected(key, body)
      <4>1. AdmissionError(body) \in {"invalidRequest", "limitExceeded"}
        BY <3>3 DEF CreateRejected, AdmissionError
      <4> QED BY <3>3, <4>1, ErrorCodes DEF CreateRejected, Fails, Answers
    <3>4. CASE CreateFull(key, body)
      BY <3>4, ErrorCodes DEF CreateFull, Fails, Answers
    <3> QED BY <1>2, <3>1, <3>2, <3>3, <3>4
  <2>4. Local BY RequestIsLocal DEF Request
  <2> QED BY <2>1, <2>2, <2>3, <2>4, ServedStays, Noncommittal
<1> QED BY <1>1, <1>2

LEMMA JobIsHonest ==
  ASSUME HttpInv, NEW key \in Keys, NEW j \in Jobs,
         GetJob(key, j) \/ CancelJob(key, j) \/ GetResult(key, j)
  PROVE  ServedIsKept' /\ Honest'
<1>1. Local BY RequestIsLocal DEF Request, Guarded
<1>2. ~Exists(j) => j \notin served.accepted
  BY DEF HttpInv, ServedIsKept, Exists
<1>3. CASE GetJob(key, j)
  <2>1. /\ UNCHANGED served /\ answer'.route = "get" /\ answer'.job = j
        /\ \/ answer'.status = 200
           \/ answer'.status = 404 /\ ~Exists(j)
    BY <1>3, ErrorCodes, SuccessStatuses
       DEF GetJob, Untouched, Fails, Answers, Routes
  <2> QED BY <1>1, <1>2, <2>1, ServedStays DEF Honest
<1>4. CASE CancelJob(key, j)
  <2>1. /\ UNCHANGED served /\ answer'.route = "cancel" /\ answer'.job = j
        /\ \/ answer'.status = 202 /\ RequestCancellation(j)
           \/ answer'.status = 409 /\ jobs[j].status \in Terminal
                /\ UNCHANGED storeVars
           \/ answer'.status = 404 /\ ~Exists(j)
    BY <1>4, ErrorCodes, SuccessStatuses
       DEF CancelJob, Untouched, Fails, Answers
  <2>2. RequestCancellation(j) => jobs'[j].cancelRequested
    BY DEF RequestCancellation, HttpInv, RowInv, StoreTypeOK, Row
  <2>3. UNCHANGED storeVars => jobs' = jobs BY DEF storeVars
  <2> QED BY <1>1, <1>2, <2>1, <2>2, <2>3, ServedStays DEF Honest
<1>5. CASE GetResult(key, j)
  <2>1. answer'.route = "result" /\ answer'.status \in {200, 400, 404, 503}
    BY <1>5, ErrorCodes, SuccessStatuses
       DEF GetResult, ServeResult, Fails, Answers, Routes
  <2>2. ServedIsKept'
    <3>1. CASE UNCHANGED served BY <1>1, <3>1, ServedStays
    <3>2. CASE /\ served' = [served EXCEPT !.results = @ \cup {j}]
               /\ UNCHANGED storeVars
               /\ jobs[j].status = "succeeded" /\ j \in results
      <4>1. /\ served' \in [accepted : SUBSET Jobs, results : SUBSET Jobs]
            /\ served'.accepted = served.accepted
            /\ served'.results = served.results \cup {j}
        BY <3>2 DEF HttpInv, ServedIsKept
      <4> QED BY <3>2, <4>1 DEF HttpInv, ServedIsKept, storeVars
    <3> QED BY <1>5, <3>1, <3>2 DEF GetResult, ServeResult, Untouched
  <2> QED BY <2>1, <2>2, Noncommittal
<1> QED BY <1>3, <1>4, <1>5

LEMMA OtherIsHonest ==
  ASSUME HttpInv,
         \/ Live \/ Ready
         \/ \E route \in {"create", "cancel"}, status \in TransportRefusals :
              Unreadable(route, status)
         \/ \E key \in Keys, route \in Routes :
              \/ route \notin Public /\ Refused(route, key)
              \/ route \in {"get", "cancel", "result", "metrics"}
                   /\ DatabaseFails(route, key)
              \/ ReadState(key, route)
  PROVE  ServedIsKept' /\ Honest'
<1>1. Local BY RequestIsLocal DEF Request, Guarded
<1>2. UNCHANGED served
  BY DEF Live, Ready, Unreadable, Refused, DatabaseFails, ReadState, Untouched
<1>3. answer'.status \in {200, 400, 401, 413, 415, 500, 503}
  BY ErrorCodes, SuccessStatuses
     DEF Live, Ready, Unreadable, TransportRefusals, Refused, DatabaseFails,
         ReadState, Fails, Answers, Routes
<1> QED BY <1>1, <1>2, <1>3, ServedStays, Noncommittal

LEMMA HttpInitInv == Init => HttpInv
BY InitRowInv DEF Init, HttpInv, Configured, ServedIsKept, Honest, StartupInit

LEMMA HttpStepInv ==
  ASSUME HttpInv, [Next]_httpVars
  PROVE  HttpInv'
<1>1. Local BY StepIsLocal
<1>2. RowInv' BY <1>1, StepRowInv DEF Local, HttpInv
<1>3. Configured' BY <1>1, ConfigKeeps DEF Local, HttpInv
<1>4. ServedIsKept' /\ Honest'
  <2>1. CASE Create BY <2>1, CreateIsHonest
  <2>2. CASE Guarded BY <2>2, JobIsHonest, OtherIsHonest DEF Guarded, Routes
  <2>3. CASE \/ Live \/ Ready
             \/ \E route \in {"create", "cancel"}, status \in TransportRefusals :
                  Unreadable(route, status)
    BY <2>3, OtherIsHonest
  <2>4. CASE Silent
    <3>1. UNCHANGED served
      BY <2>4 DEF Silent, Dispatch, Tick, Evict, Process, AroundTheTable
    <3>2. Honest' BY <2>4 DEF Silent, Honest
    <3> QED BY <1>1, <3>1, <3>2, ServedStays
  <2>5. CASE UNCHANGED httpVars
    <3>1. Honest'
      BY <2>5 DEF httpVars, storeVars, startupVars, HttpInv, Honest, EnginesOf
    <3> QED BY <1>1, <2>5, <3>1, ServedStays DEF httpVars
  <2> QED BY <2>1, <2>2, <2>3, <2>4, <2>5 DEF Next, Request
<1> QED BY <1>2, <1>3, <1>4 DEF HttpInv

\* For any deployments, jobs and requests, across restarts: what a client is
\* told of a job is so, and a job accepted or a result served stays there.
THEOREM ClientsAreToldTheTruth == Spec => []AnswersTellTheTruth
<1>1. HttpInv => AnswersTellTheTruth
  BY DEF HttpInv, ServedIsKept, Honest, AnswersTellTheTruth
<1> QED BY <1>1, HttpInitInv, HttpStepInv, PTL DEF Spec

-----------------------------------------------------------------------------
(* What refusals leave alone.                                              *)

\* Whoever holds the key of this process, or needs none.
Entitled(key) ==
  \/ config.auth = "none"
  \/ key = config.apiKey /\ key \notin {None, ""}

\* What RefusalsChangeNothing asks of the step that gives an answer.
Inert ==
  /\ answer'.status >= 400 => UNCHANGED storeVars
  /\ answer'.status \in {401, 413, 415} => UNCHANGED limiterVars
  /\ answer'.route \notin Public /\ answer'.status \notin {401, 500} =>
       \/ Entitled(answer'.key)
       \/ answer'.key = None /\ answer'.status \in TransportRefusals

LEMMA AdmittedIsEntitled ==
  ASSUME HttpInv, NEW key, Admitted(key)
  PROVE  Entitled(key)
BY DEF HttpInv, Configured, Admitted, Authorized, EnsureRuntime, Entitled

\* An answer given after the guard let the request through.
LEMMA Answered ==
  ASSUME HttpInv, NEW key, Admitted(key), answer'.key = key,
         answer'.status \in {200, 201, 202, 400, 404, 409, 422, 429, 503},
         answer'.status \in {200, 201, 202} \/ UNCHANGED storeVars
  PROVE  Inert
BY AdmittedIsEntitled DEF Inert

LEMMA CreateIsInert ==
  ASSUME HttpInv, Create
  PROVE  Inert
<1> PICK key \in Keys, body \in Bodies :
      \/ CreateMalformed(key, body)
      \/ CreateLimited(key, body)
      \/ CreateRejected(key, body)
      \/ CreateFull(key, body)
      \/ \E j \in Jobs : CreateAccepted(key, body, j)
  BY DEF Create
<1>1. CASE CreateMalformed(key, body)
  <2>1. /\ answer'.key = key /\ answer'.status = 400 /\ UNCHANGED storeVars
        /\ Admitted(key)
    BY <1>1, ErrorCodes DEF CreateMalformed, Fails, Answers
  <2> QED BY <2>1, Answered
<1>2. CASE CreateLimited(key, body)
  <2>1. /\ answer'.key = key /\ answer'.status = 429 /\ UNCHANGED storeVars
        /\ Admitted(key)
    BY <1>2, ErrorCodes DEF CreateLimited, ConsumeRefused, Answers
  <2> QED BY <2>1, Answered
<1>3. CASE CreateRejected(key, body)
  <2>1. AdmissionError(body) \in {"invalidRequest", "limitExceeded"}
    BY <1>3 DEF CreateRejected, AdmissionError
  <2>2. /\ answer'.key = key /\ answer'.status \in {400, 422}
        /\ UNCHANGED storeVars /\ Admitted(key)
    BY <1>3, <2>1, ErrorCodes DEF CreateRejected, Fails, Answers
  <2> QED BY <2>2, Answered
<1>4. CASE CreateFull(key, body)
  <2>1. /\ answer'.key = key /\ answer'.status \in {429, 503}
        /\ UNCHANGED storeVars /\ Admitted(key)
    BY <1>4, ErrorCodes DEF CreateFull, Admissible, Fails, Answers
  <2> QED BY <2>1, Answered
<1>5. ASSUME NEW j \in Jobs, CreateAccepted(key, body, j) PROVE Inert
  <2>1. answer'.key = key /\ answer'.status = 201 /\ Admitted(key)
    BY <1>5, SuccessStatuses DEF CreateAccepted, Admissible, Answers
  <2> QED BY <2>1, Answered
<1> QED BY <1>1, <1>2, <1>3, <1>4, <1>5

LEMMA JobIsInert ==
  ASSUME HttpInv, NEW key \in Keys, NEW j \in Jobs,
         GetJob(key, j) \/ CancelJob(key, j) \/ GetResult(key, j)
  PROVE  Inert
<1>1. /\ Admitted(key) /\ answer'.key = key
      /\ answer'.status \in {200, 202, 400, 404, 409, 503}
      /\ answer'.status \in {200, 202} \/ UNCHANGED storeVars
  <2>1. CASE GetJob(key, j)
    BY <2>1, ErrorCodes, SuccessStatuses DEF GetJob, Fails, Answers, Routes
  <2>2. CASE CancelJob(key, j)
    BY <2>2, ErrorCodes, SuccessStatuses DEF CancelJob, Fails, Answers
  <2>3. CASE GetResult(key, j)
    BY <2>3, ErrorCodes, SuccessStatuses
       DEF GetResult, ServeResult, Fails, Answers, Routes
  <2> QED BY <2>1, <2>2, <2>3
<1> QED BY <1>1, Answered

LEMMA GuardIsInert ==
  ASSUME NEW key \in Keys, NEW route \in Routes \ Public, Refused(route, key)
  PROVE  Inert
<1>1. answer'.status \in {401, 500} /\ UNCHANGED <<storeVars, limiterVars>>
  BY ErrorCodes DEF Refused, Fails, Answers
<1> QED BY <1>1 DEF Inert

LEMMA ReadIsInert ==
  ASSUME HttpInv, NEW key \in Keys, NEW route \in Routes,
         \/ route \in {"get", "cancel", "result", "metrics"}
              /\ DatabaseFails(route, key)
         \/ ReadState(key, route)
  PROVE  Inert
<1>1. /\ Admitted(key) /\ answer'.key = key /\ answer'.status \in {200, 503}
      /\ UNCHANGED storeVars
  BY ErrorCodes, SuccessStatuses
     DEF DatabaseFails, ReadState, Fails, Answers, Routes
<1> QED BY <1>1, Answered

LEMMA ProbeIsInert == ASSUME Live \/ Ready PROVE Inert
<1>1. answer'.route \in Public /\ UNCHANGED <<storeVars, limiterVars>>
  BY DEF Live, Ready, Untouched, Fails, Answers, Public
<1> QED BY <1>1 DEF Inert

LEMMA UnreadableIsInert ==
  ASSUME NEW route, NEW status \in TransportRefusals, Unreadable(route, status)
  PROVE  Inert
<1>1. /\ answer'.key = None /\ answer'.status = status
      /\ UNCHANGED <<storeVars, limiterVars>>
  BY DEF Unreadable, Answers
<1> QED BY <1>1 DEF Inert

\* For any configuration and key: a refused request leaves the table alone, one
\* refused for its credentials spends nothing, and nobody else gets an answer.
THEOREM RefusalsAreInert == Spec => RefusalsChangeNothing
<1>1. ASSUME HttpInv, [Next]_httpVars
      PROVE  [answer' # None =>
                /\ answer'.status >= 400 => UNCHANGED storeVars
                /\ answer'.status \in {401, 413, 415} => UNCHANGED limiterVars
                /\ answer'.route \notin Public /\ answer'.status \notin {401, 500} =>
                     \/ config.auth = "none"
                     \/ answer'.key = config.apiKey
                          /\ answer'.key \notin {None, ""}
                     \/ answer'.key = None
                          /\ answer'.status \in TransportRefusals]_httpVars
  <2> SUFFICES ASSUME Next, answer' # None PROVE Inert
    BY <1>1 DEF Inert, Entitled
  <2>1. Request BY DEF Next, Silent
  <2>2. CASE Create BY <1>1, <2>2, CreateIsInert
  <2>3. CASE Guarded
    <3> PICK key \in Keys :
          \/ \E route \in Routes \ Public : Refused(route, key)
          \/ \E route \in {"get", "cancel", "result", "metrics"} :
               DatabaseFails(route, key)
          \/ \E j \in Jobs :
               GetJob(key, j) \/ CancelJob(key, j) \/ GetResult(key, j)
          \/ \E route \in Routes : ReadState(key, route)
      BY <2>3 DEF Guarded
    <3>1. CASE \E route \in Routes \ Public : Refused(route, key)
      BY <3>1, GuardIsInert
    <3>2. CASE \E j \in Jobs :
                 GetJob(key, j) \/ CancelJob(key, j) \/ GetResult(key, j)
      BY <1>1, <3>2, JobIsInert
    <3>3. CASE \/ \E route \in {"get", "cancel", "result", "metrics"} :
                    DatabaseFails(route, key)
               \/ \E route \in Routes : ReadState(key, route)
      BY <1>1, <3>3, ReadIsInert DEF Routes
    <3> QED BY <3>1, <3>2, <3>3
  <2>4. CASE Live \/ Ready BY <2>4, ProbeIsInert
  <2>5. ASSUME NEW route, NEW status \in TransportRefusals,
               Unreadable(route, status)
        PROVE  Inert
    BY <2>5, UnreadableIsInert
  <2> QED BY <2>1, <2>2, <2>3, <2>4, <2>5 DEF Request
<1> QED BY <1>1, HttpInitInv, HttpStepInv, PTL DEF Spec, RefusalsChangeNothing
-----------------------------------------------------------------------------
(* Types.                                                                  *)

\* For any deployments, jobs, keys and limits the whole state stays well formed.
THEOREM HttpIsWellFormed == Spec => []HttpTypeOK
<1>1. Init => StartupTypeOK BY StartupInitTypeOK DEF Init
<1>2. StartupTypeOK /\ [Next]_httpVars => StartupTypeOK'
  BY StepIsLocal, StartupStepTypeOK DEF Local
<1>3. StartupTypeOK /\ HttpInv /\ BudgetInv => HttpTypeOK
  BY DEF HttpInv, RowInv, ServedIsKept, BudgetInv, LimiterTyped, HttpTypeOK
<1> QED
  BY <1>1, <1>2, <1>3, HttpInitInv, HttpStepInv, InitBudgetInv, StepBudgetInv,
     PTL DEF Spec
=============================================================================
