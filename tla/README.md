# A formal model of the image generation orchestrator

These TLA+ modules model the orchestrator from the start of its process to the
bytes a client downloads: configuration and model download, the HTTP interface,
the SQLite job table, the in-memory engine pool, the dispatcher, the storage of
results, and the adapter that speaks to the inference engines.  TLC checks them
on small instances; TLAPS proves the properties that matter most for every
instance.  `PROJECT.json` lists every run, mutant, theorem, hazard and finding,
and maps each definition to the lines it models.  Source paths below are
relative to `src/src/`.

## 1. The system

| Part | Where | State | Operations |
|---|---|---|---|
| Configuration | `core/config/` | none (constant once loaded) | decode file and environment, merge, cross-field rules |
| Model downloader | `infrastructure/models/` | model directory, temporary files | check, fetch, verify, publish |
| Runtime, bootstrap | `main.ts`, `core/runtime/` | the lazily built runtime | load, provision, listen, build at first use |
| Authorisation | `core/security/` | none | compare the bearer key |
| Rate limiter | `core/security/rate-limit.service.ts` | a window per client in a bounded cache | consume |
| Job service, controllers | `modules/jobs/` | none | decode, rate limit, admit, cancel, read |
| HTTP errors | `core/http/` | none | map an error to a status |
| Job store | `infrastructure/database/` | tables `jobs`, `results` | one SQLite statement or transaction each: create, cancel, claim, bind, renew, progress, save results, transition |
| Engine pool | `infrastructure/engine/pool/` | per engine: running slots, consecutive failures, health, open-until | reserve, reserve by id, release, record success or failure |
| Dispatcher | `infrastructure/dispatcher/` | none but its fibers | scheduling loop, startup and periodic recovery, one worker fiber per claimed job |
| Result storage | `infrastructure/storage/` | files | write by temporary file and rename, read, remove |
| Adapter, router | `infrastructure/engine/` | none | submit, poll, cancel, capabilities; classify answers |
| Engines | external | their own jobs | |
| Readiness, metrics, engine list, docs | `modules/` | none | read; readiness probes report to the pool |

How they interact.  The process loads its configuration, downloads the declared
models and only then listens.  The first request that runs an Effect builds the
runtime, and with it the database and the dispatcher.  HTTP handlers and the
dispatcher share only the tables and the pool.  The scheduling loop peeks the
queue head, reserves a slot, claims the row and forks a worker.  The worker
submits to the engine, binds the remote identifier to the row, polls (renewing
the lease each time), stores images, rows and status in that order, and gives
the slot back.  A cancellation is a flag in the row that the polling worker
forwards.  Recovery takes all running rows when the process starts and rows with
a lapsed lease later: bound rows are resumed, unbound ones go back to the retry
policy.  A download goes from the status to the row to the file.  Readiness
probes report to the same circuit breakers as the workers.

What is hard.  Ownership is decided by leases and by the status of the row, not
by fibers, so an old fiber may still act on a row that moved on.  A worker
decides with the row as it was when bound or resumed.  The process may stop
between any two writes, also between two files, a file and its row, or a row and
its status; a download between its temporary file and its name.  Calls fail,
answers are lost or come late, engines forget work.  Each exit of a worker has
to return its slot.  Correctness means, per part:

- table: consistent whoever calls it; limits hold; ended rows stay;
- pool: capacity holds, health tells the truth, an open breaker rests;
- dispatcher: at most one fiber works on a job while leases hold; success is
  backed by stored results; remote work is not redone while it exists; slots
  balance; retries are bounded; a cancellation the workers know of outlives every
  fault; every job ends;
- storage: what is published can be read, unless savers met or came late; what
  is left behind is explained;
- adapter: what an answer is taken for is so, and stays so;
- interface: what a client is told is true; a refusal changes nothing; a budget is a budget; waiting as told suffices;
- start: a listening process has its models; after trouble ends, a start works.

`PROJECT.json` "hazards" gives the line of each danger and the properties that
watch it.

## 2. Modules

| Module | What it is | Composes |
|---|---|---|
| `PlatformNames` | names shared by all: `Engines`, `None` | |
| `JobLifecycle` | abstract: absent, queued, running, one of three ends; bounded attempts and parallelism | |
| `JobStore` | the table and its repository, called by anyone in any order | implements `JobLifecycle` |
| `EnginePool` | slots and circuit breakers, called by anyone in any order | |
| `Dispatcher` | loops, recovery, workers, engines, clock, crash and restart | `JobStore`, `EnginePool`; implements `JobLifecycle` |
| `ResultPersistence` | writers, a reader, crash: files, rows and status of a job | `JobStore` |
| `Startup` | configuration, downloads, listener, lazy runtime | |
| `HttpApi` | guard, limiter, admission, every route, probes, statuses | `JobStore`, `Startup` |
| `EngineAdapter` | concurrent calls to engines, time-outs, late arrivals, classification | |
| `...Proofs` | theorems about each of them; `DispatcherOwnerProofs` holds those that need leases that hold | `JobStoreProofs`, `EnginePoolProofs` |
| `MC...` | constants of the checked instances | |

Operators introduced by a comment "Slip:" are plausible mistakes in the code
next to them.  No specification uses them; substituted for the operator that
follows, each one makes the property that watches it fail (`PROJECT.json`
"mutants").

### How the state corresponds

- `jobs[j]` is a row.  `lease` is the result of comparing `leaseUntil` with the
  clock (`none` is NULL), `LeaseLapses` is time passing.  `progress` stands for
  both progress columns.  Jobs are numbered in `(createdAt, id)` order, and are
  created in that order.  `results` is the set of jobs with rows in `results`.
- `pool[e]` is `EngineRuntimeState`.  `open` says that `openUntilEpochMs` lies
  ahead; `failures` saturates at the threshold, the only value it is compared
  with.  Loads are compared by cross-multiplication.
- `Dispatcher`: `workers[w]` is a fiber: where it is, the row snapshot it decides
  with (`attempt`, `cancelSeen`, `progressSeen`), its reservation, and
  `DispatcherPollContext`.  `remote[j][a]` is the engine's job for the submission
  made by attempt `a`; a claim submits at most once.  `gone` is an answer 404 or
  410.  `phase` and `pending` are the process and its startup recovery pass.
- `ResultPersistence`: `generated[j][a]` is what the engine makes for attempt `a`:
  the indices of its images, as many and as distinct as it likes.  `files[j][i]`
  and `rows[j][i]` hold an image: the attempt and its place in the answer (its
  bytes, its digest).  Paths name the index, not the attempt.  A writer in
  `poll` keeps the attempt of the row it was forked for and does not look at the
  row again before it saves.  `temporary` and `litter` are temporary files with
  and without an owner.  `mishaps` is history: what has gone wrong for a job,
  against which leftovers are explained; `late` is a save whose row had ended, was
  queued or ran at a later attempt when it began.  A bind by a fiber that has lost
  its row is named by the attempt of the row it bound.
- `Startup`: `targets` and `partials` are the model directory; a content is the
  URL it came from, `changed` for anything else a server may send, `part`
  while it is incomplete, `mixed` when two writers met in one file.  `fetches`
  is each download's progress, `runtime` the ManagedRuntime.
- `HttpApi`: `limiter` is the client's cache entry, with its age in the cache
  and the ticks left of its window; `answer` is the response just sent, by a
  handler, the guard or, before it, the transport (`Unreadable`);
  `admitted`, `promise` and `served` are history.
- `EngineAdapter`: `native[e][i]` is the engine's job, `calls[c]` a call in
  flight, `strays` requests whose caller gave up before the engine took them.

### Atomicity

bun:sqlite is synchronous and the pool is a `Ref`, so Effect fibers interleave
only at gateway calls, file-system calls and sleeps.  A dispatch iteration
suspends nowhere and is one action; a recovery pass suspends nowhere and is one
action per row, the startup pass before anything else runs.  A worker's action
is at most one repository write with the pool update beside it, finer than what
the code can show.  In `ResultPersistence` every file-system call is a step, and
the read of the row, the existence check and the opening of the stream are three.
In `EngineAdapter` a request is sent, taken, answered by a head and by a body in
separate steps.  In `HttpApi` a request is one step: after the guard it
suspends only on calls that read.  In `Startup` each download is a step per
phase, and two run at a time.

`Stop` (of `Dispatcher`), which may come during the startup recovery as well, loses the pool, the fibers and a submission that may or
may not have arrived; an orderly shutdown may also cancel what is not bound
(`onInterrupt` in `dispatcher-submission.service.ts`).

### Faults and time

In `Dispatcher`, `Fault(kind)` is a failure the code handles, bounded by
`MaxFaults`; a configuration chooses `FaultKinds`: `crash`, `engine` (failed
call), `reply` (accepted, answer lost), `lost` (engine forgets), `busy` (409),
`store` (DatabaseError), `storage` (StorageError), `bind` (bind retries used up),
`claim` (DatabaseError of claim).  `faults.orphaning` counts those that can leave
an engine with work no row knows of: a crash, a lost answer, a failed bind.
`NoDuplicateWork` is relative to that count.  In the other modules faults are
not bounded: any call may fail at any time.

A lease lapses only when no worker works on the job, or its worker is in a phase
named in `Stalls`: with `Stalls = {}` the lease outlives each single phase, as
the default configuration has it (120 s against a 30 s request time-out), as
long as binds succeed at once and a batch is stored in time.
`Dispatcher_cancel` has `Stalls = {"call", "save"}`, for calls and saves that
outlast their lease; the theorems of `DispatcherProofs` hold for any `Stalls`.
No configuration check forbids `requestTimeoutSeconds` above `leaseSeconds`, and
a bind is retried for a whole lease from its first failure; with `submit` or
`bind` in `Stalls` too, recovery requeues a job whose old fiber is still at
work, `NoDuplicateWork` and `KeepsJobLife` fail (the retry decision uses the
attempt of the snapshot, so the bound on attempts is lost with it).  What the
runs show of ownership and attempts is therefore shown for deployments whose
leases outlast their calls, and the hazard list says so.

The limiter's clock counts ticks, several to a second, so that a window can end
inside a second and at the very tick its cache entry expires.

## 3. Runs

| Run | Instance | Shows |
|---|---|---|
| `MCJobStore` | 3 jobs, 1 queue place, 1 running place, 2 claims each | `RunningBound`, `LiveBound`, `BindingOnlyWhileRunning`, `CancelLastsTheRun`, `TerminalIsFinal`, and that the repository implements `JobLifecycle` |
| `MCEnginePool` | engines of sizes 1, 2, 3; overlapping models; thresholds 1 and 2 | capacity, truthful health, total selection, rest while open, half-open |
| `Dispatcher_faults` | 2 jobs, 2 engines, any 1 fault | `OneOwner`, `SuccessIsBacked`, `BoundWorkIsNotRedone` |
| `Dispatcher_deep` | 1 job, an engine with 2 slots, any 3 faults | `SlotsAccounted`, `NoDuplicateWork`, `KnownCancellationIsKept`, refinement of `JobLifecycle`, and that the dispatcher's steps are steps of `JobStore` and of `EnginePool` |
| `Dispatcher_liveness` | 2 jobs that may both run on 1 engine with 1 slot, any 2 faults: bound jobs are deferred and resumed | `EveryJobEnds` |
| `Dispatcher_cancel` | 1 job, engines that may never finish, calls and saves that outlast the lease, busy answers and failed local writes | `CancelledIsNotRequeued`, `CancelStopsWork` |
| `MCResultPersistence` | 1 job, 2 attempts that generate none, one or two images, 2 writers, 1 reader, stops, late answers and failures without bound | `PublishedIsReadable`, `ReaderMeetsFile`, `LitterIsExplained`, `OrphansAreExplained` |
| `MCHttpApi` | 4 deployments of which 3 do not load, 2 declared models, 1 job, a window of 4 ticks with 2 requests | `DeclaredModelsOnDisk`, `AnswersTellTheTruth`, `BudgetBound`, `RefusalsChangeNothing`, `RetryAfterSuffices`, `StartConverges` |
| `MCEngineAdapter` | 2 fibers, 2 engines (one without adapter), 2 identifiers each, 2 submissions | `UnknownWorkIsExplained`, `AnswersAreEvidence` |
| `Dispatcher_lost_cancel` | a violation, see below | `CancelledIsNotRequeued` |
| `Dispatcher_leak` | a violation, see below | `SlotsAccounted` |
| `Startup_shared` | a violation, see below | `DeclaredModelsOnDisk` |

Why the bounds suffice.  Two jobs are the least that contend for a slot, a queue
place or an engine; two workers are the least that can both believe to own a
job; two attempts contain one retry and one exhaustion.  Three faults reach a
crash during the recovery from a crash, or a loss after a failed write.  In the
table, three jobs with one place each let an admission, a claim and a retry meet
a full queue.  `ClaimCap` bounds claims and equals or exceeds `MaxAttempts`, so it
never hides a retry the code would make (in `Dispatcher_deep` it is one more than
`MaxAttempts`).  Two images are the least a batch can be half stored with;
batches of different sizes leave rows of one beside the other's; and with one job all writers share their paths, the only way they can meet.  A
window of four ticks has ticks strictly inside, at the end and just before it;
two requests per window tell the first from the last.  Two submissions by two
fibers contain a retry beside a stray of the first; counts of requests above
the limit are not told apart, and strays carry the number of their submission
so that the set forgets none.

`MCEngineAdapter` uses symmetry between the callers, which no definition tells
apart, and checks no liveness.

Deadlock is not checked where finitely many jobs, submissions or claims may all
be used up (the store, dispatcher, persistence, adapter and interface runs).
`MCEnginePool` checks it.

### Fairness

`ProcessFairness`: the two loops repeat for ever (`Schedule.spaced`), Effect
schedules every fiber, calls return, cooldowns and leases run out, and a
stopped process is started again.  Weak fairness is enough everywhere.
`EngineFairness`, used only where the engines must finish
(`Dispatcher_liveness`), says an engine that works on a job ends it;
`Dispatcher_cancel` does without it, and so shows that a cancellation does not
need the engine's cooperation beyond answering.  Two assumptions are real ones.
Calls return: the adapter's time-out covers a request up to the response head,
not the reading of its body.  And the dispatcher of a started process starts: the
runtime is built by the first request that runs an Effect, which any `/v1` route
and `/health/ready` do and `/health/live` does not, so someone has to ask.  The
liveness results hold for finitely many jobs: with clients that never stop, a
deferred bound job may lose the race for every freed slot (see the hazards).
They also hold for finitely many faults, busy answers among them: an engine that
answers 409 for ever keeps its worker polling, and a cancellation waiting.

`StartFairness`: the process keeps making steps and is started again, with
settings that load, after every exit.  Which download runs is not assumed.
`StartConverges` is conditional on the disturbances (stops from outside, broken
downloads, content other than declared) ending, and then needs neither luck nor
cleaning up.

### Disagreements between code and text

Each of these runs finds a behaviour of the code that contradicts a sentence of
the repository.

- `Dispatcher_lost_cancel`: the engine loses the work of a job that was cancelled
  while its worker polled.  The worker tests the flag of its own old snapshot
  and requeues the job, although the comment there says such a cancellation is
  terminal; and the requeue itself writes `cancelRequested: false` without
  looking at the row, so that whatever retries a running job drops the request.
- `Dispatcher_leak`: a `DatabaseError` of claim leaves the reserved slot behind.
- `Startup_shared`: two models declared under URLs with the same last segment
  share one file; the second is never downloaded and the listener opens.

Other texts the code does not follow, noticed while translating and not run,
since nothing but the wording depends on them:

- a limit violation is answered 422, which the OpenAPI document does not list
  and `README.md:186-187` gives as 400; a full queue is 429 and an unknown model
  400, where that text has 503;
- a failing database is answered 503 and a defect 500 on routes for which the
  document lists neither; 413 and 415, which the transport answers before any
  credentials are asked for, are listed nowhere;
- `modules/docs/docs.constants.ts:149-150` has "or the queue is full" under 503;
- `modules/docs/docs.constants.ts:115-117` has progress "present only while" the
  job runs; the columns are never cleared;
- `modules/docs/docs.constants.ts:164` describes `cancelRequested` as not yet
  applied; it stays true on cancelled rows;
- `infrastructure/storage/storage.interface.ts:17` promises to tolerate a file
  that is already gone; `removeStoredResult` fails on it, and its caller ignores
  the failure;
- `README.md:338-340` has readiness answer 503 while models download; no
  listener is open then;
- `ENGINE_URL` replaces the address of every configured engine, so two engines
  then share one.

## 4. Proofs

`JobStoreProofs` proves, for every finite set of jobs, every limit and every
caller, from `StoreAssumption`:

- `RowsAreWellFormed`: `StoreTypeOK`; `BindingsEndWithTheRun`:
  `BindingOnlyWhileRunning`.
  The inductive invariant `RowInv` is their conjunction with what a row owes to
  its claim (`RunsAreClaimed`), which says something of one row at a time
  (`GoodRow`): an operation writes one row (`OneRow`), so it is enough that the row
  it writes is good again (`StepGoodRow`, by cases on the operation).
- `RequestsLastTheRun`: `CancelLastsTheRun`, by the same cases: of the operations that
  leave a row running, none clears the mark.
- `RunningIsBounded`: `RunningBound`; `LiveIsBounded`: `LiveBound`.  The second
  needs the first, so both are proved from one invariant (`CountInv`): a
  retry moves a job from the running to the queued, a claim back, and admission
  tests the queued alone, so the sum stays bounded only because the running are.
  Each operation changes each set by at most one job; the counting lemmas
  (`OneMore`, `NoMore`) rest on `FiniteSetTheorems`.
- `EndedRowsStay`: `TerminalIsFinal`.
- `StoreImplementsLifecycle`: the refinement, one abstract step or a stutter per
  operation (`StepLifecycle`), using the row invariant (a cancelled row was
  queued or running) and the count.

`EnginePoolProofs` proves from `NamesAssumption` (the engines are finitely many,
as an array of the configuration) and `PoolAssumption`, for all engines, sizes,
models and thresholds:

- `PoolIsWellFormed`: `PoolTypeOK`; `CapacityIsRespected`: `CapacityRespected`;
  `HealthIsTruthful`: `HealthMatchesBreaker`.  The inductive invariant `PoolInv`
  adds that `failures` never exceeds the threshold, without which the saturated
  count does not determine the health.
- `OpenEnginesRest` and `HalfOpenEnginesReopen`.
- `OneEngineIsChosen`: `SelectionIsTotal`.  The code compares the shares of two
  loads crosswise (`running * other.maxConcurrent`), then their ids.  That such a
  comparison chooses one engine is arithmetic: `CrosswiseTransitive` cancels the
  common factor, so `BeforeIsTransitive` and `BeforeIsTotal` make a total order,
  and a finite set has a least element in it (`LeastElement`: there
  is no smallest subset without one, and the subsets of a finite set are well
  founded under inclusion).

`DispatcherProofs` is about the composition, from `DispatcherAssumption` and
those of its parts (`MaxAttempts` is at least 1, as the configuration demands),
for any jobs, engines, fibers, faults and stalls:

- `DispatcherUsesStore`, `DispatcherUsesPool`: `UsesStoreOnly` and `UsesPoolOnly`.
  Every step is an operation of the table and one of the pool, or none
  (`TableMoves`, `StepIsPoolStep`); so the theorems above hold of the dispatcher.
- `DispatcherKeepsLimits`: those theorems, of the dispatcher: `RunningBound`,
  `LiveBound`, `CancelLastsTheRun`, `CapacityRespected`, `SelectionIsTotal`,
  `TerminalIsFinal` and `OpenEngineRests`, whatever fails or is delayed.
- `DispatcherIsWellFormed`: `TypeOK`, from `BaseInv`: a fiber past its submission has
  an engine's job under the name it polls, and so has every bound row.
- `SlotsBalance`: `SlotsAccounted`, if `claim` is not among the faults (it leaks a
  slot, see `Dispatcher_leak`).  `SlotInv`: the count of an engine is the number of
  its fibers; a slot is taken and given back by one fiber at a time.
- `SuccessesAreBacked`: `SuccessIsBacked`, even when leases are outlasted and two
  fibers work on one job.  A fiber only publishes after its save, a save after a
  poll that saw the engine's end, and neither results nor an ended engine job
  go away; a name once used for a submission is never given again.

`DispatcherOwnerProofs` adds `Stalls = {}`.  Its invariant `OwnerInv` says what a
fiber at each place knows of its row (`Owns`): it runs, at the fiber's attempt,
with its lease in force except before a resume renews it, bound as the fiber
believes.  A fork therefore never meets a fiber: claims take queued rows,
recovery takes rows whose lease is gone, and startup comes before any fiber.

- `JobsHaveOneOwner`: `OneOwner`.
- `BoundWorkIsKept`: `BoundWorkIsNotRedone`.  `WhoRequeues` finds the only places
  that put a job back; `Owns` says that a bound row gets there with work the
  engine lost (`RetryRequeues`).
- `WorkIsNotDuplicated`: `NoDuplicateWork`.  A stray is active work neither bound by
  its row nor about to be; `StrayInv` keeps their number within the orphaning
  faults, because every step creates at most one, and only with such a fault.
- `DispatcherKeepsJobLife`: `KeepsJobLife`.  A fiber that decides on a retry holds the
  attempt its row records, so a queued row always has an attempt left, which is
  the bound the abstract life asks for.

The last part of `DispatcherOwnerProofs` does without `Stalls = {}`, and over every
fault:

- `KnownCancellationsAreKept`: `KnownCancellationIsKept`.  A bound row is put back only by
  a fiber at `retry`, and such a fiber knows of no cancellation (`UnawareInv`): it
  was forked for a row just claimed, which carries none, or it met the loss of
  the engine's job and looked at its copy of the flag.  What the theorem leaves
  out is what the code loses: cancellations that come later than the fiber's copy
  (`Dispatcher_lost_cancel`), and rows not bound yet, which recovery and a failed
  bind hand to the retry policy with the flag cleared.

`ResultPersistenceProofs` proves every property of `ResultPersistence` for any
jobs, writers and answers of the engines, with any call failing and any answer
arriving at any time.  `JobInv` follows one job as long as it is not overtaken: no
two savers met on it and no save began late.  Then its only saver has stored the
images before the one it is at, nobody else writes, and once the job is published
nobody writes at all.  `PublicationIsComplete`, `OrphansHaveACause` are that invariant
at rest; `DownloadsSucceed` needs in addition that what was published stays
(`PublishedStays`).  The exemption is needed: nothing fences the files of a job, so
a second saver, or one that begins after another published, takes away with its
clean-up what was published, or leaves files of a job that never succeeds.
So is the restriction to images of the last attempt: rows are replaced index
by index, so those of an attempt whose transition failed stay beside a smaller
batch.

`EngineAdapterProofs` proves from `AdapterAssumption`, for any fibers, engines
and identifiers:

- `AnswersStayTrue`: `AnswersAreEvidence`.  A native job only moves `Onward`; the
  invariant `AdapterInv` says of every answer still on its way that the job is
  onward of the status the answer shows, which every step keeps, whoever makes
  it, and which at the end is what the outcome is evidence of.
- `UnknownWorkIsBounded`: `UnknownWorkIsExplained`.  `CountInv` bounds the jobs no
  call and no caller knows by the submissions that ended unsure less the strays
  still to arrive: a stray is a job owed, and it is told from others by the number
  of its submission.

`StartupProofs` has the inductive invariant of the start under `NamesApart` (no
two declarations, of one deployment or of different ones, share a file name),
the condition whose failure `Startup_shared` exhibits: every file at a target
path is whole and as declared, whoever put it there, and what a download has
reached the files show.  `HttpApiProofs` builds on it and on `JobStoreProofs`:

- `NamesApartModelsOnDisk`: `DeclaredModelsOnDisk`, for the whole interface.
- `ClientsAreToldTheTruth`: `AnswersTellTheTruth`.  Each step of the interface is a
  step of the process or none, and a repository operation or none (`StepIsLocal`).
  What an answer says of the moment follows from the guard of its action and
  from what a loaded configuration satisfies; what it promises for later is kept
  because repository operations neither delete a row nor move an ended one.
- `RefusalsAreInert`: `RefusalsChangeNothing`, by cases on the routes (an unreadable
  body is refused before the guard, `UnreadableIsInert`), from the invariant that a loaded configuration has a usable key.
- `WaitingSuffices`: `RetryAfterSuffices`.  The invariant `PromiseCovers`: what is
  left of the window never exceeds what is left of the promise; its start is the
  arithmetic of rounding up to seconds.

- `BudgetIsBounded`: `BudgetBound`.  `admitted[t]` counts the requests let through at
  most `t` ticks ago, so the tick shifts it and a request adds one everywhere.
  `BudgetInv` follows the cache entry through its life: none is cached; its first
  window is as old as it is, and the oldest request it counted is as old as
  both; the window has ended; or it rolled over at the tick at which the
  cache entry expires.  In each, what was let through before the current window is
  bounded by what can still be seen of the windows before it.
- `HttpIsWellFormed`: `HttpTypeOK`, from the types of the table (`RowInv`), of the
  limiter and of the start (`StartupStepTypeOK`).

Beside the arithmetic of their ranges, the assumptions on the constants say only
that `None`, which stands for a null, is no error code, no entry of the limiter,
no configuration and no content of a file.

Every invariant and action property the passing runs check is stated by a
theorem, but for `CancelledIsNotRequeued`: it holds only where nothing makes a
retry, which is the setting of `Dispatcher_cancel` and no more than that run shows.
Also only model-checked are `EveryJobEnds`, `CancelStopsWork` and `StartConverges`:
liveness under fairness needs ENABLED, which is out of the prover's reach.

## 5. Assumed of the engines

`EngineAdapter` takes from the way the adapter uses them: an engine refuses a
submission before it creates a job, never moves a job backwards and never uses
an identifier again.  The adapter does not compare the identifier of an answer
with the one asked for, so the last point is a real assumption (hazards).

## 6. Not modelled

What the server answers by itself for an unknown route, over-long headers, a
request that takes too long or while it closes.  Wording of messages, logging, metrics' numbers, security headers, the API
document's schemas and texts, the translation of a request into native
parameters and of images out of it, hashing and constant-time comparison of the
key, port, storage root and numeric bounds of the configuration.  Rows always
decode.  In `Dispatcher` the set of engines does not change over a restart; in
`HttpApi` a restart may find any configuration.

## 7. What is left

1. A dispatcher that restarts with another set of engines or models: head-of-line
   blocking and orphaned bindings as leads-to properties that fail.
2. Rows that do not decode, and the progress shown to clients.
