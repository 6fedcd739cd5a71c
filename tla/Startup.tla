------------------------------- MODULE Startup -------------------------------
(***************************************************************************)
(* From process start to an open listener: load the configuration, fetch   *)
(* the declared models, listen.  Any failure ends the process and it is    *)
(* started again, perhaps with other settings.                             *)
(*                                                                         *)
(* The downloads run two at a time and in no particular order; each is     *)
(* request, body into a temporary file at a path that only depends on the  *)
(* file name, digest, rename.  The application runtime, with the database  *)
(* and the dispatcher in it, is a ManagedRuntime: it is built by the first *)
(* request that runs an Effect, not by the bootstrap.                      *)
(*                                                                         *)
(* A file is abstracted to the URL whose content it holds, "changed" for   *)
(* anything else a server may answer with 200, "part" while it is written  *)
(* or was left incomplete, "mixed" when two writers met in it.             *)
(***************************************************************************)
EXTENDS PlatformNames, FiniteSets, Sequences

CONSTANTS
  Deployments,        \* what a start may find: the YAML file and environment
  LastSegment,        \* of a URL's path, or None where it is empty
  ModelConcurrency    \* ModelDownloadPolicy.concurrency

VARIABLES
  phase,              \* down, provisioning, listening
  config,             \* the resolved configuration, None until it is loaded
  fetches,            \* the progress of each declared download
  targets,            \* the model directory: file name -> content or None
  partials,           \* its temporary files, likewise
  runtime             \* of the ManagedRuntime: unbuilt, built, broken

startupVars == <<phase, config, fetches, targets, partials, runtime>>

-----------------------------------------------------------------------------
(* Configuration.                                                          *)

\* MODEL_<name> declarations are stored under the last segment of their URL.
ModelFileName(m) ==
  IF LastSegment[m.url] = None THEN m.key ELSE LastSegment[m.url]

Declarations == UNION {d.downloads : d \in Deployments}

FileNames == {ModelFileName(m) : m \in Declarations}

\* Slip: an empty key counts as a key.
ApiKeyPresent(d) == d.auth = "none" \/ d.apiKey # None

\* The bearer secret is required, and not empty, unless auth is disabled.
ApiKeyAccepted(d) == d.auth = "none" \/ d.apiKey \notin {None, ""}

OverlayEngine(engine, d) ==
  [engine EXCEPT !.url = IF d.engineUrl = None THEN @ ELSE d.engineUrl]

MergeConfig(d) ==
  [engines   |-> [i \in DOMAIN d.engines |-> OverlayEngine(d.engines[i], d)],
   models    |-> d.models,
   auth      |-> d.auth,
   apiKey    |-> IF d.auth = "none" THEN "" ELSE d.apiKey,
   downloads |-> d.downloads]

\* None is neither the content of a file nor a configuration.
ASSUME StartupAssumption ==
  /\ None # "part"
  /\ \A d \in Deployments : MergeConfig(d) # None

EnginesOf(c) == {c.engines[i] : i \in DOMAIN c.engines}

UniqueEngineIds(c) == Cardinality({e.id : e \in EnginesOf(c)}) = Len(c.engines)

EngineUrlsUsable(c) == \A e \in EnginesOf(c) : e.url \in {"http", "https"}

ModelsAssigned(c) == \A m \in c.models : \E e \in EnginesOf(c) : m \in e.models

\* The file decodes, the environment decodes, and the merged configuration
\* satisfies the cross-field rules.
Loadable(d) ==
  LET c == MergeConfig(d) IN
  /\ d.file = "decodes"
  /\ ApiKeyAccepted(d)
  /\ c.engines # <<>>
  /\ UniqueEngineIds(c)
  /\ EngineUrlsUsable(c)
  /\ ModelsAssigned(c)

-----------------------------------------------------------------------------
(* The process.                                                            *)

Idle == [m \in Declarations |-> "todo"]

\* A configuration that does not load ends the process at once.
Start(d) ==
  /\ phase = "down"
  /\ Loadable(d)
  /\ phase' = "provisioning"
  /\ config' = MergeConfig(d)
  /\ UNCHANGED <<fetches, targets, partials, runtime>>

\* Slip: what was built survives in memory.
ExitsKeepingRuntime ==
  /\ phase' = "down"
  /\ config' = None
  /\ fetches' = Idle
  /\ UNCHANGED runtime

Exits ==
  /\ phase' = "down"
  /\ config' = None
  /\ fetches' = Idle
  /\ runtime' = "unbuilt"

\* A signal, a crash, a failing mkdir.  The temporary files stay.
Stop ==
  /\ phase # "down"
  /\ Exits
  /\ UNCHANGED <<targets, partials>>

-----------------------------------------------------------------------------
(* provisionModel and fetchModel, for one declaration.                     *)

Fetching == {m \in Declarations : fetches[m] \notin {"todo", "done"}}

Step(m, from, to) ==
  /\ phase = "provisioning"
  /\ fetches[m] = from
  /\ fetches' = [fetches EXCEPT ![m] = to]
  /\ UNCHANGED <<phase, config, runtime>>

\* A file at the target path counts as verified.
CheckTarget(m) ==
  /\ Step(m, "todo",
       IF targets[ModelFileName(m)] = None THEN "request" ELSE "done")
  /\ m \in config.downloads
  /\ Cardinality(Fetching) < ModelConcurrency
  /\ UNCHANGED <<targets, partials>>

\* Slip: the body is streamed to the target path itself.
OpenTarget(m) ==
  /\ Step(m, "request", "write")
  /\ targets' = [targets EXCEPT ![ModelFileName(m)] = "part"]
  /\ partials' = [partials EXCEPT ![ModelFileName(m)] = "part"]

\* Slip: a temporary file that is left over is in the way.
OpenPartialExclusively(m) ==
  /\ partials[ModelFileName(m)] = None
  /\ Step(m, "request", "write")
  /\ partials' = [partials EXCEPT ![ModelFileName(m)] = "part"]
  /\ UNCHANGED targets

\* A 200 answer; whatever an earlier start left at the path is truncated.
OpenPartial(m) ==
  /\ Step(m, "request", "write")
  /\ partials' = [partials EXCEPT ![ModelFileName(m)] = "part"]
  /\ UNCHANGED targets

SharesFile(m) ==
  \E n \in Fetching \ {m} :
    fetches[n] = "write" /\ ModelFileName(n) = ModelFileName(m)

\* The body has ended.  Where another download of the same name has renamed
\* the file meanwhile, the bytes went into the published one.
WriteBody(m, content) ==
  LET f == ModelFileName(m) IN
  /\ Step(m, "write", "verify")
  /\ IF partials[f] = None
       THEN targets' = [targets EXCEPT ![f] = "mixed"] /\ UNCHANGED partials
       ELSE /\ partials' = [partials EXCEPT ![f] =
                 IF SharesFile(m) \/ @ = "mixed" THEN "mixed" ELSE content]
            /\ UNCHANGED targets

MatchesDigest(m) == m.sha256 \in {None, partials[ModelFileName(m)]}

Verify(m) ==
  /\ MatchesDigest(m)
  /\ Step(m, "verify", "publish")
  /\ UNCHANGED <<targets, partials>>

Publish(m) ==
  LET f == ModelFileName(m) IN
  /\ partials[f] # None
  /\ Step(m, "publish", "done")
  /\ targets' = [targets EXCEPT ![f] = partials[f]]
  /\ partials' = [partials EXCEPT ![f] = None]

\* Cannot go on: the digest differs, or the temporary file is not there.
Doomed(m) ==
  \/ fetches[m] = "verify" /\ ~MatchesDigest(m)
  \/ fetches[m] = "publish" /\ partials[ModelFileName(m)] = None

\* Unreachable, refused, cut short, not as declared, disk full: the temporary
\* file is removed if possible, the other download is interrupted without
\* removing its own, and the process ends.
FetchFails(m) ==
  /\ phase = "provisioning"
  /\ m \in Fetching
  /\ Exits
  /\ \/ partials' = [partials EXCEPT ![ModelFileName(m)] = None]
     \/ UNCHANGED partials
  /\ UNCHANGED targets

Listen ==
  /\ phase = "provisioning"
  /\ \A m \in config.downloads : fetches[m] = "done"
  /\ phase' = "listening"
  /\ UNCHANGED <<config, fetches, targets, partials, runtime>>

\* Layers that cannot be built (no storage directory, no database, a failed
\* migration) are defects; the outcome is kept for every later request.
EnsureRuntime ==
  /\ phase = "listening"
  /\ IF runtime = "unbuilt"
       THEN runtime' \in {"built", "broken"}
       ELSE UNCHANGED runtime
  /\ UNCHANGED <<phase, config, fetches, targets, partials>>

-----------------------------------------------------------------------------
StartupInit ==
  /\ phase = "down"
  /\ config = None
  /\ fetches = Idle
  /\ targets = [f \in FileNames |-> None]
  /\ partials = [f \in FileNames |-> None]
  /\ runtime = "unbuilt"

Fetch(m) ==
  \/ CheckTarget(m)
  \/ OpenPartial(m)
  \/ \E content \in {m.url, "changed"} : WriteBody(m, content)
  \/ Verify(m)
  \/ Publish(m)
  \/ FetchFails(m)

StartupNext ==
  \/ \E d \in Deployments : Start(d)
  \/ Stop
  \/ \E m \in Declarations : Fetch(m)
  \/ Listen

-----------------------------------------------------------------------------
(* Properties.                                                             *)

\* Every variable is well formed.
StartupTypeOK ==
  /\ phase \in {"down", "provisioning", "listening"}
  /\ phase = "down" <=> config = None
  /\ fetches \in [Declarations ->
       {"todo", "request", "write", "verify", "publish", "done"}]
  /\ \A contents \in {targets, partials} :
       contents \in [FileNames ->
         {None, "part", "mixed", "changed"} \cup {m.url : m \in Declarations}]
  /\ runtime \in {"unbuilt", "built", "broken"}
  /\ runtime # "unbuilt" => phase = "listening"

\* "answering here means every declared model is already on disk"
\* (docker-compose.yaml): once the listener is open, every declared model has
\* its file, whole, and with the declared content where a digest is declared;
\* whatever failed, was interrupted or was left behind by earlier starts.
DeclaredModelsOnDisk ==
  phase = "listening" =>
    \A m \in config.downloads :
      /\ targets[ModelFileName(m)] \in {m.url, "changed"}
      /\ m.sha256 # None => targets[ModelFileName(m)] = m.sha256
=============================================================================
