------------------------------- MODULE HttpApi -------------------------------
(***************************************************************************)
(* The HTTP interface as one client sees it: the bearer guard, the rate    *)
(* limiter, the admission rules, the job routes over the job table, the    *)
(* probes, and the mapping of errors to statuses; over the process of      *)
(* Startup, which starts, stops and is configured anew around the table.   *)
(*                                                                         *)
(* A request is one step: after its guard it suspends only on engine and   *)
(* file-system calls, which read here and write nothing.  The rest of the  *)
(* dispatcher moves the table by the repository's operations.              *)
(*                                                                         *)
(* Time passes in ticks, TicksPerSecond to the second, and is only counted *)
(* where the limiter's window compares it.                                 *)
(***************************************************************************)
EXTENDS JobStore, Startup

CONSTANTS
  Bodies,           \* request bodies: [decodes, model, exceeds]
  Keys,             \* what the authorization header may carry, or None
  MaxRequests,      \* config.rateLimit.maxRequests
  WindowSeconds,    \* config.rateLimit.windowSeconds
  TicksPerSecond

ASSUME HttpAssumption ==
  /\ MaxRequests \in Nat \ {0}
  /\ WindowSeconds \in Nat \ {0}
  /\ TicksPerSecond \in Nat \ {0}
  /\ None \notin {"invalidRequest", "limitExceeded"}
  /\ None \notin [age : Nat, left : Nat, count : Nat]

VARIABLES
  limiter,          \* the client's cached window, or None
  answer,           \* the response just sent, None after any other step
  admitted,         \* history: requests let through at most so many ticks ago
  promise,          \* history: ticks left of the delay last advertised, or None
  served            \* history: jobs accepted, and jobs whose result was served

limiterVars == <<limiter, admitted, promise>>

httpVars == <<startupVars, storeVars, limiterVars, answer, served>>

Window == WindowSeconds * TicksPerSecond

Routes == {"create", "get", "cancel", "result", "engines", "metrics", "live", "ready"}

Public == {"live", "ready"}

-----------------------------------------------------------------------------
(* Errors and statuses.                                                    *)

\* Every error of the application a route can meet; anything else is a
\* redacted 500.  What the transport throws keeps the status it has.
MapErrorToHttp(tag) ==
  CASE tag = "invalidRequest"    -> 400
    [] tag = "unauthorized"      -> 401
    [] tag = "jobNotFound"       -> 404
    [] tag = "jobNotCancellable" -> 409
    [] tag = "limitExceeded"     -> 422
    [] tag \in {"queueFull", "rateLimited"} -> 429
    [] tag \in {"database", "engineUnavailable", "storage"} -> 503
    [] OTHER -> 500

Success(route) ==
  CASE route = "create" -> 201 [] route = "cancel" -> 202 [] OTHER -> 200

Answers(route, status, key, j, m, delay) ==
  answer' = [route |-> route, status |-> status, key |-> key, job |-> j,
             model |-> m, retryAfter |-> delay]

Fails(route, tag, key, j) ==
  Answers(route, MapErrorToHttp(tag), key, j, None, None)

-----------------------------------------------------------------------------
(* Before the guard, the guard, and the runtime under it.                  *)

\* Bodies that do not parse, are too long, or of a kind nobody reads.
TransportRefusals == {400, 413, 415}

\* The transport reads a body before it asks for credentials, on every route
\* that may carry one, and its exceptions pass the filter with their status.
Unreadable(route, status) ==
  /\ phase = "listening"
  /\ Answers(route, status, None, None, None, None)
  /\ UNCHANGED <<startupVars, storeVars, limiterVars, served>>

Authorized(key) ==
  \/ config.auth = "none"
  \/ key # None /\ key = config.apiKey

\* The guard itself runs an Effect: without a runtime every guarded route
\* answers 500, before it looks at the credentials.
Refused(route, key) ==
  /\ EnsureRuntime
  /\ \/ runtime' = "broken" /\ Fails(route, "defect", key, None)
     \/ /\ runtime' = "built" /\ ~Authorized(key)
        /\ Fails(route, "unauthorized", key, None)
  /\ UNCHANGED <<storeVars, limiterVars, served>>

Admitted(key) ==
  /\ EnsureRuntime
  /\ runtime' = "built"
  /\ Authorized(key)

-----------------------------------------------------------------------------
(* The rate limiter: a fixed window in a cache of bounded size and age.    *)

NewEntry == [age |-> 0, left |-> 0, count |-> 0]

\* Slip: the cache finds nothing that it stored.
EntryAlwaysNew == NewEntry

Entry == IF limiter = None THEN NewEntry ELSE limiter

\* A window is rolled over when its end is not in the future.
CurrentWindow ==
  IF Entry.left > 0
    THEN Entry
    ELSE [Entry EXCEPT !.left = Window, !.count = 0]

\* Counts above the limit are not told apart (bound of the exploration).
Consumed ==
  [CurrentWindow EXCEPT
     !.count = IF @ > MaxRequests THEN @ ELSE @ + 1]

\* Slip: the delay is cut to whole seconds.
RetryAfterFloor(w) ==
  LET seconds == w.left \div TicksPerSecond IN
  IF seconds < 1 THEN 1 ELSE seconds

RetryAfter(w) ==
  LET seconds == (w.left + TicksPerSecond - 1) \div TicksPerSecond IN
  IF seconds < 1 THEN 1 ELSE seconds

RateLimited == Consumed.count > MaxRequests

ConsumeRefused(key) ==
  /\ RateLimited
  /\ limiter' = Consumed
  /\ promise' = RetryAfter(Consumed) * TicksPerSecond
  /\ Answers("create", MapErrorToHttp("rateLimited"), key, None, None,
       RetryAfter(Consumed))
  /\ UNCHANGED admitted

ConsumeAllowed ==
  /\ ~RateLimited
  /\ limiter' = Consumed
  /\ promise' = None
  /\ admitted' = [t \in DOMAIN admitted |-> admitted[t] + 1]

-----------------------------------------------------------------------------
(* POST /v1/jobs: schema, rate limit, admission rules, capacity.           *)

ModelServed(m) ==
  /\ m \in config.models
  /\ \E e \in EnginesOf(config) : m \in e.models

\* validateModel, then the dimension, scalar and cost limits.
AdmissionError(body) ==
  CASE ~ModelServed(body.model) -> "invalidRequest"
    [] ModelServed(body.model) /\ body.exceeds # {} -> "limitExceeded"
    [] OTHER -> None

CreateMalformed(key, body) ==
  /\ Admitted(key)
  /\ ~body.decodes
  /\ Fails("create", "invalidRequest", key, None)
  /\ UNCHANGED <<storeVars, limiterVars, served>>

CreateLimited(key, body) ==
  /\ Admitted(key)
  /\ body.decodes
  /\ ConsumeRefused(key)
  /\ UNCHANGED <<storeVars, served>>

CreateRejected(key, body) ==
  /\ Admitted(key)
  /\ body.decodes
  /\ ConsumeAllowed
  /\ AdmissionError(body) # None
  /\ Fails("create", AdmissionError(body), key, None)
  /\ UNCHANGED <<storeVars, served>>

Admissible(key, body) ==
  /\ Admitted(key)
  /\ body.decodes
  /\ ConsumeAllowed
  /\ AdmissionError(body) = None

CreateFull(key, body) ==
  /\ Admissible(key, body)
  /\ \/ /\ Cardinality(Queued) >= MaxQueuedJobs
        /\ Answers("create", MapErrorToHttp("queueFull"), key, None, None, 1)
     \/ Fails("create", "database", key, None)
  /\ UNCHANGED <<storeVars, served>>

CreateAccepted(key, body, j) ==
  /\ Admissible(key, body)
  /\ CreateJobIfCapacity(j)
  /\ Answers("create", Success("create"), key, j, body.model, None)
  /\ served' = [served EXCEPT !.accepted = @ \cup {j}]

Create ==
  \E key \in Keys, body \in Bodies :
    \/ CreateMalformed(key, body)
    \/ CreateLimited(key, body)
    \/ CreateRejected(key, body)
    \/ CreateFull(key, body)
    \/ \E j \in Jobs : CreateAccepted(key, body, j)

-----------------------------------------------------------------------------
(* The other job routes.                                                   *)

Untouched == UNCHANGED <<limiterVars, served>>

Exists(j) == jobs[j].status # "absent"

DatabaseFails(route, key) ==
  /\ Admitted(key)
  /\ Fails(route, "database", key, None)
  /\ UNCHANGED storeVars
  /\ Untouched

GetJob(key, j) ==
  /\ Admitted(key)
  /\ IF Exists(j)
       THEN Answers("get", Success("get"), key, j, None, None)
       ELSE Fails("get", "jobNotFound", key, j)
  /\ UNCHANGED storeVars
  /\ Untouched

CancelJob(key, j) ==
  /\ Admitted(key)
  /\ \/ /\ RequestCancellation(j)
        /\ Answers("cancel", Success("cancel"), key, j, None, None)
     \/ /\ jobs[j].status \in Terminal
        /\ Fails("cancel", "jobNotCancellable", key, j)
        /\ UNCHANGED storeVars
     \/ /\ ~Exists(j)
        /\ Fails("cancel", "jobNotFound", key, j)
        /\ UNCHANGED storeVars
  /\ Untouched

ServeResult(key, j) ==
  /\ Answers("result", Success("result"), key, j, None, None)
  /\ served' = [served EXCEPT !.results = @ \cup {j}]
  /\ UNCHANGED <<storeVars, limiterVars>>

\* Slip: stored results are served whatever became of the job.
GetResultOfAnyJob(key, j) ==
  /\ Admitted(key)
  /\ j \in results
  /\ ServeResult(key, j)

\* Only a succeeded job has results; the file may be missing or unreadable.
GetResult(key, j) ==
  /\ Admitted(key)
  /\ \/ /\ jobs[j].status = "succeeded" /\ j \in results
        /\ ServeResult(key, j)
     \/ /\ \/ ~(jobs[j].status = "succeeded" /\ j \in results)
              /\ Fails("result", "jobNotFound", key, j)
           \/ /\ jobs[j].status = "succeeded" /\ j \in results
              /\ Fails("result", "storage", key, j)
           \/ Fails("result", "invalidRequest", key, j)
        /\ UNCHANGED storeVars
        /\ Untouched

\* The engine list and the metrics read the pool and the count of the queue.
ReadState(key, route) ==
  /\ route \in {"engines", "metrics"}
  /\ Admitted(key)
  /\ Answers(route, Success(route), key, None, None, None)
  /\ UNCHANGED storeVars
  /\ Untouched

Guarded ==
  \E key \in Keys :
    \/ \E route \in Routes \ Public : Refused(route, key)
    \/ \E route \in {"get", "cancel", "result", "metrics"} : DatabaseFails(route, key)
    \/ \E j \in Jobs : GetJob(key, j) \/ CancelJob(key, j) \/ GetResult(key, j)
    \/ \E route \in Routes : ReadState(key, route)

-----------------------------------------------------------------------------
(* The probes.                                                             *)

\* Answered by the transport alone: the runtime is neither built nor asked.
Live ==
  /\ phase = "listening"
  /\ Answers("live", Success("live"), None, None, None, None)
  /\ UNCHANGED <<startupVars, storeVars>>
  /\ Untouched

\* Storage is pinged and every engine is asked; one usable engine suffices.
Ready ==
  /\ EnsureRuntime
  /\ IF runtime' = "broken"
       THEN Fails("ready", "defect", None, None)
       ELSE \/ Fails("ready", "database", None, None)
            \/ Fails("ready", "engineUnavailable", None, None)
            \/ Answers("ready", Success("ready"), None, None, None, None)
  /\ UNCHANGED storeVars
  /\ Untouched

Request ==
  \/ \E route \in {"create", "cancel"}, status \in TransportRefusals :
       Unreadable(route, status)
  \/ Create
  \/ Guarded
  \/ Live
  \/ Ready

-----------------------------------------------------------------------------
(* Everything else.                                                        *)

\* The dispatcher runs as long as the runtime it was built with.
Dispatch(j) ==
  /\ runtime = "built"
  /\ \/ ClaimQueued(j)
     \/ jobs[j].status = "running" /\ SaveResults(j)
     \/ j \in results /\ SucceedJob(j)
     \/ FailJob(j)
     \/ RequeueJob(j)
     \/ CancelRemoteJob(j)
  /\ UNCHANGED <<startupVars, limiterVars, served>>

\* An entry older than the window is dropped, and one of exactly that age is
\* still found, though its window may just have ended.
Tick ==
  /\ limiter # None \/ promise # None \/ \E t \in DOMAIN admitted : admitted[t] > 0
  /\ limiter' = IF limiter = None \/ Entry.age >= Window THEN None
       ELSE [limiter EXCEPT !.age = @ + 1, !.left = IF @ = 0 THEN 0 ELSE @ - 1]
  /\ promise' = IF promise \in {None, 0} THEN promise ELSE promise - 1
  /\ admitted' = [t \in DOMAIN admitted |-> IF t = 0 THEN 0 ELSE admitted[t - 1]]
  /\ UNCHANGED <<startupVars, storeVars, served>>

Forgotten ==
  /\ limiter' = None
  /\ promise' = None
  /\ admitted' = [t \in DOMAIN admitted |-> 0]

\* Other clients push this one out of the bounded cache.
Evict ==
  /\ limiter # None
  /\ Forgotten
  /\ UNCHANGED <<startupVars, storeVars, served>>

\* The limiter lives in the process, the job table does not.
AroundTheTable ==
  /\ IF phase' = "down" THEN Forgotten ELSE UNCHANGED limiterVars
  /\ UNCHANGED <<storeVars, served>>

Process == StartupNext /\ AroundTheTable

Init ==
  /\ StartupInit
  /\ StoreInit
  /\ limiter = None
  /\ answer = None
  /\ admitted = [t \in 0..(Window - 1) |-> 0]
  /\ promise = None
  /\ served = [accepted |-> {}, results |-> {}]

Silent ==
  /\ answer' = None
  /\ (\E j \in Jobs : Dispatch(j)) \/ Tick \/ Evict \/ Process

Next == Request \/ Silent

\* What makes a start fail: a stop from outside, a download that breaks off
\* or brings something else than was declared.
Disturbance ==
  \/ Stop
  \/ \E m \in Declarations :
       \/ FetchFails(m) /\ ~Doomed(m)
       \/ WriteBody(m, "changed")

\* The process runs, and is started again, with settings that load, after
\* every exit.  Nothing is assumed of the requests, nor of which download runs.
StartFairness == WF_httpVars(Process /\ ~Disturbance /\ answer' = None)

Spec == Init /\ [][Next]_httpVars

FairSpec == Spec /\ StartFairness

-----------------------------------------------------------------------------
(* Properties.                                                             *)

LimiterEntry == [age : 0..Window, left : 0..Window, count : 1..(MaxRequests + 1)]

\* Every variable is well formed.
HttpTypeOK ==
  /\ StartupTypeOK
  /\ StoreTypeOK
  /\ limiter \in LimiterEntry \cup {None}
  /\ promise \in 0..Window \cup {None}
  /\ admitted \in [0..(Window - 1) -> Nat]
  /\ served \in [accepted : SUBSET Jobs, results : SUBSET Jobs]

\* What a client is told is so, across restarts and whatever the dispatcher
\* does: an accepted job is of a model that an engine at a usable address
\* serves; a job once accepted is never "not found"; "conflict" means ended;
\* a result once served stays the result of a succeeded job, as the immutable
\* cache directive says.
AnswersTellTheTruth ==
  /\ answer # None /\ answer.status = 201 =>
       /\ jobs[answer.job].status = "queued"
       /\ \E e \in EnginesOf(config) :
            answer.model \in e.models /\ e.url \in {"http", "https"}
  /\ answer # None /\ answer.route \in {"get", "cancel"} /\ answer.status = 404 =>
       answer.job \notin served.accepted
  /\ answer # None /\ answer.status = 202 =>
       jobs[answer.job].cancelRequested
  /\ answer # None /\ answer.status = 409 =>
       jobs[answer.job].status \in Terminal
  /\ \A j \in served.results : jobs[j].status = "succeeded" /\ j \in results

\* A request that is refused leaves the job table alone, one refused for its
\* credentials or by the transport spends no budget either, and whoever gets
\* past the guard holds the key this process was started with.  A body may be
\* refused on either side of the guard.
RefusalsChangeNothing ==
  [][answer' # None =>
       /\ answer'.status >= 400 => UNCHANGED storeVars
       /\ answer'.status \in {401, 413, 415} => UNCHANGED limiterVars
       /\ answer'.route \notin Public /\ answer'.status \notin {401, 500} =>
            \/ config.auth = "none"
            \/ answer'.key = config.apiKey /\ answer'.key \notin {None, ""}
            \/ answer'.key = None /\ answer'.status \in TransportRefusals]_httpVars

\* However requests are timed, no window's length of time sees more of them
\* let through than two full windows and all but one of a third: a window may
\* end, roll over at that very instant, and be dropped from the cache at the
\* next.  Within a process, and unless the client is evicted.
BudgetBound == admitted[Window - 1] <= 3 * MaxRequests - 1

\* Waiting as long as Retry-After says is enough: a client that sends nothing
\* else and comes back then is not refused again.
RetryAfterSuffices == [][promise = 0 => promise' \in {0, None}]_httpVars

\* Whatever earlier starts left behind, in whatever order they failed: once
\* nothing disturbs the downloads any more, a start succeeds and the process
\* keeps listening.
StartConverges ==
  <>[][~Disturbance]_httpVars => <>[](phase = "listening")
=============================================================================
