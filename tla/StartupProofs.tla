--------------------------- MODULE StartupProofs ---------------------------
(***************************************************************************)
(* Proofs about the start of the process, for any deployments, models and  *)
(* concurrency of the downloads, provided that no two declarations, of one *)
(* deployment or of a later one, share a file name.  Without that, two     *)
(* downloads meet in one temporary file.                                   *)
(***************************************************************************)
EXTENDS Startup, TLAPS

NamesApart ==
  \A m, n \in Declarations : ModelFileName(m) = ModelFileName(n) => m = n

\* The process under the requests: of these only the first touches it.
StartupStep == StartupNext \/ EnsureRuntime

\* A complete file with the declared content.
Whole(m, content) ==
  /\ content \in {m.url, "changed"}
  /\ m.sha256 # None => content = m.sha256

Contents ==
  {None, "part", "mixed", "changed"} \cup {m.url : m \in Declarations}

\* What a download has reached, and the files show.
GoodFetch(m) ==
  LET target  == targets[ModelFileName(m)]
      partial == partials[ModelFileName(m)]
  IN /\ target # None => Whole(m, target)
     /\ fetches[m] = "write"  => partial = "part"
     /\ fetches[m] = "verify" => partial \in {m.url, "changed"}
     /\ fetches[m] = "publish" => Whole(m, partial)
     /\ fetches[m] = "done" => target # None

\* The inductive invariant: every file at a target path is whole, whoever put
\* it there and when, and a download is done only with its file in place.
StartupInv ==
  /\ targets \in [FileNames -> Contents]
  /\ partials \in [FileNames -> Contents]
  /\ fetches \in [Declarations ->
       {"todo", "request", "write", "verify", "publish", "done"}]
  /\ phase # "down" => config.downloads \subseteq Declarations
  /\ \A m \in Declarations : GoodFetch(m)
  /\ phase = "listening" => \A m \in config.downloads : fetches[m] = "done"

LEMMA NameTyped ==
  \A m \in Declarations :
    ModelFileName(m) \in FileNames /\ m.url \in Contents
BY DEF FileNames, Contents

-----------------------------------------------------------------------------
(* The types, whatever names the declarations have.                        *)

LEMMA StartupInitTypeOK == StartupInit => StartupTypeOK
BY DEF StartupInit, Idle, StartupTypeOK

\* What a step of one download leaves in the files, and where it goes.
LEMMA FetchTypes ==
  ASSUME StartupTypeOK, NEW m \in Declarations, Fetch(m), ~FetchFails(m)
  PROVE  /\ phase = "provisioning" /\ UNCHANGED <<phase, config, runtime>>
         /\ fetches' \in [Declarations ->
              {"todo", "request", "write", "verify", "publish", "done"}]
         /\ targets' \in [FileNames -> Contents]
         /\ partials' \in [FileNames -> Contents]
<1> DEFINE f == ModelFileName(m)
<1>1. /\ targets \in [FileNames -> Contents] /\ partials \in [FileNames -> Contents]
      /\ f \in FileNames /\ m.url \in Contents
      /\ {None, "part", "mixed", "changed"} \subseteq Contents
  BY NameTyped DEF StartupTypeOK, Contents
<1>2. \A from : \A to \in {"todo", "request", "write", "verify", "publish", "done"} :
        Step(m, from, to) =>
          /\ phase = "provisioning" /\ UNCHANGED <<phase, config, runtime>>
          /\ fetches' \in [Declarations ->
               {"todo", "request", "write", "verify", "publish", "done"}]
  BY DEF Step, StartupTypeOK
<1>3. CASE CheckTarget(m) BY <1>1, <1>2, <1>3 DEF CheckTarget
<1>4. CASE OpenPartial(m) BY <1>1, <1>2, <1>4 DEF OpenPartial
<1>5. CASE \E content \in {m.url, "changed"} : WriteBody(m, content)
  <2>1. PICK content \in {m.url, "changed"} : WriteBody(m, content) BY <1>5
  <2>2. content \in Contents BY <1>1
  <2>3. CASE partials[f] = None BY <1>1, <1>2, <2>1, <2>3 DEF WriteBody
  <2>4. CASE partials[f] # None
    <3> DEFINE written == IF SharesFile(m) \/ partials[f] = "mixed"
                            THEN "mixed" ELSE content
    <3>1. written \in Contents BY <1>1, <2>2
    <3>2. partials' = [partials EXCEPT ![f] = written] /\ UNCHANGED targets
      BY <2>1, <2>4 DEF WriteBody
    <3> HIDE DEF written
    <3> QED BY <1>1, <1>2, <2>1, <3>1, <3>2 DEF WriteBody
  <2> QED BY <2>3, <2>4
<1>6. CASE Verify(m) BY <1>1, <1>2, <1>6 DEF Verify
<1>7. CASE Publish(m)
  <2>1. partials[f] \in Contents BY <1>1
  <2> QED BY <1>1, <1>2, <1>7, <2>1 DEF Publish
<1> QED BY <1>3, <1>4, <1>5, <1>6, <1>7 DEF Fetch

LEMMA ExitTypes ==
  ASSUME StartupTypeOK, Exits, UNCHANGED targets,
         partials' \in [FileNames -> Contents]
  PROVE  StartupTypeOK'
<1>1. /\ phase' = "down" /\ config' = None /\ runtime' = "unbuilt"
      /\ fetches' \in [Declarations ->
           {"todo", "request", "write", "verify", "publish", "done"}]
  BY DEF Exits, Idle
<1> QED BY <1>1 DEF StartupTypeOK, Contents

\* Every step of the process keeps its variables well formed.
LEMMA StartupStepTypeOK ==
  ASSUME StartupTypeOK, [StartupStep]_startupVars
  PROVE  StartupTypeOK'
<1>1. CASE UNCHANGED startupVars BY <1>1 DEF startupVars, StartupTypeOK
<1>2. ASSUME NEW d \in Deployments, Start(d) PROVE StartupTypeOK'
  <2>1. config' # None BY <1>2, StartupAssumption DEF Start
  <2>2. runtime = "unbuilt" BY <1>2 DEF Start, StartupTypeOK
  <2> QED BY <1>2, <2>1, <2>2 DEF Start, StartupTypeOK
<1>3. CASE Stop
  BY <1>3, ExitTypes DEF Stop, StartupTypeOK, Contents
<1>4. ASSUME NEW m \in Declarations, FetchFails(m) PROVE StartupTypeOK'
  <2>1. partials' \in [FileNames -> Contents]
    BY <1>4, NameTyped DEF FetchFails, StartupTypeOK, Contents
  <2> QED BY <1>4, <2>1, ExitTypes DEF FetchFails
<1>5. ASSUME NEW m \in Declarations, Fetch(m), ~FetchFails(m)
      PROVE  StartupTypeOK'
  BY <1>5, FetchTypes DEF StartupTypeOK, Contents
<1>6. CASE Listen BY <1>6 DEF Listen, StartupTypeOK
<1>7. CASE EnsureRuntime BY <1>7 DEF EnsureRuntime, StartupTypeOK
<1> QED
  BY <1>1, <1>2, <1>3, <1>4, <1>5, <1>6, <1>7 DEF StartupStep, StartupNext

-----------------------------------------------------------------------------
(* The files, when names are apart.                                        *)

\* A step within one download, which rewrites the files at most under its
\* own name.
LEMMA OneFetch ==
  ASSUME NamesApart, StartupInv, NEW m \in Declarations,
         NEW to \in {"request", "write", "verify", "publish", "done"},
         phase = "provisioning", fetches' = [fetches EXCEPT ![m] = to],
         NEW target \in Contents, NEW partial \in Contents,
         targets' = [targets EXCEPT ![ModelFileName(m)] = target],
         partials' = [partials EXCEPT ![ModelFileName(m)] = partial],
         UNCHANGED <<phase, config>>,
         target # None => Whole(m, target),
         to = "write" => partial = "part",
         to = "verify" => partial \in {m.url, "changed"},
         to = "publish" => Whole(m, partial),
         to = "done" => target # None
  PROVE  StartupInv'
<1>1. \A n \in Declarations \ {m} : ModelFileName(n) # ModelFileName(m)
  BY DEF NamesApart
<1>2. /\ targets' \in [FileNames -> Contents]
      /\ partials' \in [FileNames -> Contents]
      /\ fetches' \in [Declarations ->
           {"todo", "request", "write", "verify", "publish", "done"}]
  BY NameTyped DEF StartupInv
<1>3. \A n \in Declarations \ {m} :
        /\ fetches'[n] = fetches[n]
        /\ targets'[ModelFileName(n)] = targets[ModelFileName(n)]
        /\ partials'[ModelFileName(n)] = partials[ModelFileName(n)]
  BY <1>1, NameTyped DEF StartupInv
<1>4. /\ fetches'[m] = to
      /\ targets'[ModelFileName(m)] = target
      /\ partials'[ModelFileName(m)] = partial
  BY NameTyped DEF StartupInv
<1>5. \A n \in Declarations : GoodFetch(n)'
  <2> TAKE n \in Declarations
  <2>1. CASE n = m BY <2>1, <1>4 DEF GoodFetch
  <2>2. CASE n # m
    <3>1. GoodFetch(n) BY DEF StartupInv
    <3> QED BY <3>1, <2>2, <1>3 DEF GoodFetch
  <2> QED BY <2>1, <2>2
<1> QED BY <1>2, <1>5 DEF StartupInv

\* Leaving the process: the files stay, but perhaps for a temporary one.
LEMMA ExitKeeps ==
  ASSUME NamesApart, StartupInv, Exits, UNCHANGED targets,
         partials' \in [FileNames -> Contents]
  PROVE  StartupInv'
<1>1. fetches' = Idle /\ phase' = "down" BY DEF Exits
<1>2. \A m \in Declarations : GoodFetch(m)'
  <2> TAKE m \in Declarations
  <2>1. GoodFetch(m) /\ fetches'[m] = "todo" BY <1>1 DEF StartupInv, Idle
  <2> QED BY <2>1 DEF GoodFetch
<1> QED BY <1>1, <1>2 DEF StartupInv, Idle

LEMMA CheckTargetKeeps ==
  ASSUME NamesApart, StartupInv, NEW m \in Declarations, CheckTarget(m)
  PROVE  StartupInv'
<1> DEFINE f  == ModelFileName(m)
           to == IF targets[f] = None THEN "request" ELSE "done"
<1>1. GoodFetch(m) /\ targets[f] \in Contents /\ partials[f] \in Contents
  BY NameTyped DEF StartupInv
<1>2. /\ targets' = [targets EXCEPT ![f] = targets[f]]
      /\ partials' = [partials EXCEPT ![f] = partials[f]]
  BY DEF CheckTarget, StartupInv
<1>3. targets[f] # None => Whole(m, targets[f]) BY <1>1 DEF GoodFetch
<1>4. to \in {"request", "done"} /\ (to = "done" => targets[f] # None) OBVIOUS
<1>5. /\ phase = "provisioning" /\ fetches' = [fetches EXCEPT ![m] = to]
      /\ UNCHANGED <<phase, config>>
  BY DEF CheckTarget, Step
<1> HIDE DEF to
<1> QED BY <1>1, <1>2, <1>3, <1>4, <1>5, OneFetch

LEMMA OpenPartialKeeps ==
  ASSUME NamesApart, StartupInv, NEW m \in Declarations, OpenPartial(m)
  PROVE  StartupInv'
<1> DEFINE f == ModelFileName(m)
<1>1. GoodFetch(m) /\ targets[f] \in Contents /\ "part" \in Contents
  BY NameTyped DEF StartupInv, Contents
<1>2. /\ targets' = [targets EXCEPT ![f] = targets[f]]
      /\ partials' = [partials EXCEPT ![f] = "part"]
  BY DEF OpenPartial, StartupInv
<1>3. targets[f] # None => Whole(m, targets[f]) BY <1>1 DEF GoodFetch
<1> QED BY <1>1, <1>2, <1>3, OneFetch DEF OpenPartial, Step

LEMMA WriteBodyKeeps ==
  ASSUME NamesApart, StartupInv, NEW m \in Declarations,
         NEW content \in {m.url, "changed"}, WriteBody(m, content)
  PROVE  StartupInv'
<1> DEFINE f == ModelFileName(m)
<1>1. GoodFetch(m) /\ targets[f] \in Contents /\ content \in Contents
  BY NameTyped DEF StartupInv, Contents
<1>2. fetches[m] = "write" BY DEF WriteBody, Step
<1>3. partials[f] = "part" /\ partials[f] # None
  BY <1>1, <1>2, StartupAssumption DEF GoodFetch
<1>4. ~SharesFile(m) BY DEF SharesFile, NamesApart, Fetching
<1>5. /\ partials' = [partials EXCEPT ![f] = content]
      /\ targets' = [targets EXCEPT ![f] = targets[f]]
  <2>1. /\ partials' = [partials EXCEPT ![f] =
                IF SharesFile(m) \/ @ = "mixed" THEN "mixed" ELSE content]
        /\ UNCHANGED targets
    BY <1>3 DEF WriteBody
  <2> QED BY <2>1, <1>3, <1>4 DEF StartupInv
<1>6. targets[f] # None => Whole(m, targets[f]) BY <1>1 DEF GoodFetch
<1> QED BY <1>1, <1>5, <1>6, OneFetch DEF WriteBody, Step

LEMMA VerifyKeeps ==
  ASSUME NamesApart, StartupInv, NEW m \in Declarations, Verify(m)
  PROVE  StartupInv'
<1> DEFINE f == ModelFileName(m)
<1>1. /\ GoodFetch(m) /\ targets[f] \in Contents /\ partials[f] \in Contents
      /\ fetches[m] = "verify"
  BY NameTyped DEF StartupInv, Verify, Step
<1>2. /\ targets' = [targets EXCEPT ![f] = targets[f]]
      /\ partials' = [partials EXCEPT ![f] = partials[f]]
  BY DEF Verify, StartupInv
<1>3. targets[f] # None => Whole(m, targets[f]) BY <1>1 DEF GoodFetch
<1>4. Whole(m, partials[f])
  BY <1>1 DEF Verify, MatchesDigest, GoodFetch, Whole
<1> QED BY <1>1, <1>2, <1>3, <1>4, OneFetch DEF Verify, Step

LEMMA PublishKeeps ==
  ASSUME NamesApart, StartupInv, NEW m \in Declarations, Publish(m)
  PROVE  StartupInv'
<1> DEFINE f == ModelFileName(m)
<1>1. /\ GoodFetch(m) /\ partials[f] \in Contents /\ None \in Contents
      /\ fetches[m] = "publish"
  BY NameTyped DEF StartupInv, Publish, Step, Contents
<1>2. Whole(m, partials[f]) BY <1>1 DEF GoodFetch
<1> QED BY <1>1, <1>2, OneFetch DEF Publish, Step

LEMMA FetchFailsKeeps ==
  ASSUME NamesApart, StartupInv, NEW m \in Declarations, FetchFails(m)
  PROVE  StartupInv'
<1>1. partials' \in [FileNames -> Contents]
  BY DEF FetchFails, StartupInv, Contents
<1> QED BY <1>1, ExitKeeps DEF FetchFails

LEMMA StartupInitInv == NamesApart /\ StartupInit => StartupInv
<1> SUFFICES ASSUME StartupInit PROVE StartupInv OBVIOUS
<1>1. \A m \in Declarations : GoodFetch(m)
  BY NameTyped DEF StartupInit, Idle, GoodFetch
<1> QED BY <1>1 DEF StartupInit, StartupInv, Idle, Contents

LEMMA StartupStepInv ==
  ASSUME NamesApart, StartupInv, [StartupStep]_startupVars
  PROVE  StartupInv'
<1>1. ASSUME NEW m \in Declarations, Fetch(m) PROVE StartupInv'
  BY <1>1, CheckTargetKeeps, OpenPartialKeeps, WriteBodyKeeps, VerifyKeeps,
     PublishKeeps, FetchFailsKeeps
  DEF Fetch
<1>2. CASE Stop
  BY <1>2, ExitKeeps DEF Stop, StartupInv
<1>3. ASSUME UNCHANGED <<fetches, targets, partials>> PROVE \A m \in Declarations : GoodFetch(m)'
  <2> TAKE m \in Declarations
  <2>1. GoodFetch(m) BY DEF StartupInv
  <2> QED BY <1>3, <2>1 DEF GoodFetch
<1>4. ASSUME NEW d \in Deployments, Start(d) PROVE StartupInv'
  <2>1. config'.downloads \subseteq Declarations
    BY <1>4 DEF Start, MergeConfig, Declarations
  <2> QED BY <1>3, <1>4, <2>1 DEF Start, StartupInv
<1>5. CASE Listen BY <1>3, <1>5 DEF Listen, StartupInv
<1>6. CASE EnsureRuntime BY <1>3, <1>6 DEF EnsureRuntime, StartupInv
<1>7. CASE UNCHANGED startupVars BY <1>3, <1>7 DEF startupVars, StartupInv
<1> QED BY <1>1, <1>2, <1>4, <1>5, <1>6, <1>7 DEF StartupStep, StartupNext

LEMMA StartupInvDisk == StartupInv => DeclaredModelsOnDisk
<1> SUFFICES ASSUME StartupInv, phase = "listening", NEW m \in config.downloads
             PROVE  /\ targets[ModelFileName(m)] \in {m.url, "changed"}
                    /\ m.sha256 # None => targets[ModelFileName(m)] = m.sha256
  BY DEF DeclaredModelsOnDisk
<1>1. m \in Declarations /\ fetches[m] = "done" /\ GoodFetch(m)
  BY DEF StartupInv
<1> QED BY <1>1 DEF GoodFetch, Whole
=============================================================================
