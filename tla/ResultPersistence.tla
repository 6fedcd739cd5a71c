-------------------------- MODULE ResultPersistence --------------------------
(***************************************************************************)
(* The life of result files and rows: a worker stores the images of a      *)
(* finished generation file by file, then their rows, then the status; a   *)
(* reader goes the other way, from the status to the row to the file.      *)
(*                                                                         *)
(* Every step that suspends (a file-system call, a call to the engine) is  *)
(* an action, so writers, a reader and the rest of the dispatcher          *)
(* interleave between them.  The row is not read again between a call and  *)
(* the save its answer starts, so the save may come late: after the row    *)
(* has ended, or has been claimed again.                                   *)
(*                                                                         *)
(* An image is abstracted to the attempt that generated it and its place   *)
(* in the engine's answer: its bytes and its digest.  Paths and rows name  *)
(* the index the engine gave it, not the attempt, so every writer of a job *)
(* writes the same ones; a temporary file is its writer's.  Neither how    *)
(* many images an answer holds nor that their indices differ is checked.   *)
(* Any file-system call and any repository write may fail, at any time.    *)
(***************************************************************************)
EXTENDS JobStore, Sequences

CONSTANTS
  Writers,        \* workers that may be storing results at the same time
  Images,         \* the indices engines give to images
  Batches         \* what an engine may answer: the indices of its images

Image == [attempt : 1..ClaimCap, place : Nat \ {0}]

ASSUME PersistenceAssumption ==
  /\ Batches \subseteq Seq(Images)
  /\ None \notin Image

VARIABLES
  generated,      \* the images of each submission: they never change
  files,          \* the file of each index: the image it holds, or None
  rows,           \* the row of each index: likewise
  writers,        \* the workers from bind or resume to the end of the save
  temporary,      \* the writers whose temporary file exists
  litter,         \* the jobs with a temporary file that nobody owns
  reader,         \* one download
  mishaps         \* history: what went wrong for each job

persistenceVars ==
  <<jobs, results, generated, files, rows, writers, temporary, litter, reader,
    mishaps>>

fileVars == <<generated, files, temporary, litter>>

Mishaps == {"stop", "overlap", "late", "removal", "transition"}

IdleWriter == [pc |-> "idle", job |-> None, attempt |-> 0, place |-> 1, cause |-> None]

IdleReader == [pc |-> "idle", job |-> None, index |-> None, image |-> None]

Goes(w, pc) == writers' = [writers EXCEPT ![w].pc = pc]

At(w, pc) == writers[w].pc = pc

JobOf(w) == writers[w].job

\* The images of the work the worker follows, and one of them.
Batch(w) == generated[JobOf(w)][writers[w].attempt]

IndexAt(w, p) == Batch(w)[p]

ImageAt(w, p) == [attempt |-> writers[w].attempt, place |-> p]

Polling(w) == writers[w].pc \in {"idle", "poll"}

SaversOf(j) == {w \in Writers : JobOf(w) = j /\ ~Polling(w)}

Mishap(j, kind) == mishaps' = [mishaps EXCEPT ![j] = @ \cup {kind}]

\* A second fiber on a job whose results are being stored: a save that
\* outlasted the lease it does not renew.
NotedIfOverlapping(j) ==
  IF SaversOf(j) = {} THEN UNCHANGED mishaps ELSE Mishap(j, "overlap")

-----------------------------------------------------------------------------
(* From the row to the save: the worker keeps the row it was forked for.   *)

\* The row is bound to the submission of its attempt, or resumed.
FollowWork(w, j) ==
  /\ At(w, "idle")
  /\ jobs[j].status = "running"
  /\ jobs[j].remoteJobId # None
  /\ writers' = [writers EXCEPT ![w] =
       [IdleWriter EXCEPT !.pc = "poll", !.job = j, !.attempt = jobs[j].attempt]]
  /\ UNCHANGED <<jobs, results, rows, reader, mishaps, fileVars>>

\* The row no longer runs, or the engine said anything but success.
StopPolling(w) ==
  /\ At(w, "poll")
  /\ writers' = [writers EXCEPT ![w] = IdleWriter]
  /\ UNCHANGED <<jobs, results, rows, reader, mishaps, fileVars>>

-----------------------------------------------------------------------------
(* writeCompletedResults: one image after the other.                       *)

\* Another writer is at work, or the row is no longer the one the call was
\* made for: it has ended, waits, or runs at a later attempt.
MetAtSave(w, j) ==
  {k \in {"overlap", "late"} :
     \/ k = "overlap" /\ SaversOf(j) # {}
     \/ k = "late" /\ ~(/\ jobs[j].status = "running"
                        /\ jobs[j].attempt = writers[w].attempt)}

\* The engine reports success: the answer is stored, whatever the row says by
\* now.  An empty batch is a storage failure.
BeginSave(w) ==
  LET j == JobOf(w) IN
  /\ At(w, "poll")
  /\ Goes(w, IF Batch(w) = <<>> THEN "failStorage" ELSE "write")
  /\ mishaps' = [mishaps EXCEPT ![j] = @ \cup MetAtSave(w, j)]
  /\ UNCHANGED <<jobs, results, rows, reader, fileVars>>

WriteTemporary(w) ==
  /\ At(w, "write")
  /\ temporary' = temporary \cup {w}
  /\ Goes(w, "publish")
  /\ UNCHANGED <<jobs, results, generated, rows, files, litter, reader, mishaps>>

\* Slip: the last image is told by the wrong bound.
PublishTemporaryOneTooMany(w) ==
  /\ At(w, "publish")
  /\ temporary' = temporary \ {w}
  /\ files' = [files EXCEPT ![JobOf(w)][IndexAt(w, writers[w].place)] =
                  ImageAt(w, writers[w].place)]
  /\ writers' = [writers EXCEPT
       ![w].place = @ + 1,
       ![w].pc = IF writers[w].place > Len(Batch(w)) THEN "rows" ELSE "write"]
  /\ UNCHANGED <<jobs, results, generated, rows, litter, reader, mishaps>>

\* rename(2) replaces whatever is at the path.
PublishTemporary(w) ==
  /\ At(w, "publish")
  /\ temporary' = temporary \ {w}
  /\ files' = [files EXCEPT ![JobOf(w)][IndexAt(w, writers[w].place)] =
                  ImageAt(w, writers[w].place)]
  /\ writers' = [writers EXCEPT
       ![w].place = @ + 1,
       ![w].pc = IF writers[w].place = Len(Batch(w)) THEN "rows" ELSE "write"]
  /\ UNCHANGED <<jobs, results, generated, rows, litter, reader, mishaps>>

\* Slip: the temporary file is left behind.
WriteFailsUntidily(w) ==
  /\ writers[w].pc \in {"write", "publish"}
  /\ temporary' = temporary \ {w}
  /\ litter' = litter \cup {JobOf(w)}
  /\ writers' = [writers EXCEPT ![w].pc = "undo", ![w].cause = "storage"]
  /\ UNCHANGED <<jobs, results, generated, rows, files, reader, mishaps>>

\* The directory, the write or the rename fails.  The temporary file, which a
\* failed write may have left, is removed; a failing removal is ignored.
WriteFails(w) ==
  /\ writers[w].pc \in {"write", "publish"}
  /\ temporary' = temporary \ {w}
  /\ \/ UNCHANGED <<litter, mishaps>>
     \/ litter' = litter \cup {JobOf(w)} /\ Mishap(JobOf(w), "removal")
  /\ writers' = [writers EXCEPT ![w].pc = "undo", ![w].cause = "storage"]
  /\ UNCHANGED <<jobs, results, generated, rows, files, reader>>

-----------------------------------------------------------------------------
(* persistCompletedJob: the rows, then the status.                         *)

\* Of two images with one index, the later one.
LastAt(b, p, i) ==
  /\ p \in DOMAIN b /\ b[p] = i
  /\ \A q \in DOMAIN b : b[q] = i => q <= p

\* The row of an index after the INSERT: an index that is not in the batch
\* keeps the row an earlier save gave it.
RowSaved(w, i) ==
  IF \E p \in DOMAIN Batch(w) : LastAt(Batch(w), p, i)
    THEN ImageAt(w, CHOOSE p \in DOMAIN Batch(w) : LastAt(Batch(w), p, i))
    ELSE rows[JobOf(w)][i]

\* Slip: rows of an earlier save are kept.
SaveRowsKeepingOld(w) ==
  /\ At(w, "rows")
  /\ SaveResults(JobOf(w))
  /\ rows' = IF JobOf(w) \in results THEN rows
       ELSE [rows EXCEPT ![JobOf(w)] = [i \in Images |-> RowSaved(w, i)]]
  /\ Goes(w, "succeed")
  /\ UNCHANGED <<fileVars, reader, mishaps>>

\* One INSERT for the whole batch; a row of the same index is replaced.
SaveRows(w) ==
  /\ At(w, "rows")
  /\ SaveResults(JobOf(w))
  /\ rows' = [rows EXCEPT ![JobOf(w)] = [i \in Images |-> RowSaved(w, i)]]
  /\ Goes(w, "succeed")
  /\ UNCHANGED <<fileVars, reader, mishaps>>

\* Slip: the files of rows that were not written stay.
SaveRowsFailsUntidily(w) ==
  /\ At(w, "rows")
  /\ writers' = [writers EXCEPT ![w] = IdleWriter]
  /\ UNCHANGED <<jobs, results, rows, fileVars, reader, mishaps>>

SaveRowsFails(w) ==
  /\ At(w, "rows")
  /\ writers' = [writers EXCEPT ![w].pc = "undo", ![w].cause = "database"]
  /\ UNCHANGED <<jobs, results, rows, fileVars, reader, mishaps>>

\* A row that no longer runs is left alone; nobody looks at the answer.
PersistOutcome(w) ==
  LET j == JobOf(w) IN
  /\ writers[w].pc \in {"succeed", "failStorage"}
  /\ \/ jobs[j].status = "running" /\ At(w, "succeed") /\ SucceedJob(j)
     \/ jobs[j].status = "running" /\ At(w, "failStorage") /\ FailStorageJob(j)
     \/ jobs[j].status # "running" /\ UNCHANGED storeVars
  /\ writers' = [writers EXCEPT ![w] = IdleWriter]
  /\ UNCHANGED <<rows, fileVars, reader, mishaps>>

\* The worker leaves; the running row waits for lease recovery.
PersistOutcomeFails(w) ==
  /\ writers[w].pc \in {"succeed", "failStorage"}
  /\ Mishap(JobOf(w), "transition")
  /\ writers' = [writers EXCEPT ![w] = IdleWriter]
  /\ UNCHANGED <<jobs, results, rows, fileVars, reader>>

-----------------------------------------------------------------------------
(* cleanupStoredResults: the images written so far, one by one, whatever   *)
(* each removal says.                                                      *)

Written(w) == 1..(writers[w].place - 1)

UndoOne(w) ==
  LET j == JobOf(w)
      p == writers[w].place - 1
  IN /\ At(w, "undo")
     /\ Written(w) # {}
     /\ \/ files' = [files EXCEPT ![j][IndexAt(w, p)] = None] /\ UNCHANGED mishaps
        \/ Mishap(j, "removal") /\ UNCHANGED files
     /\ writers' = [writers EXCEPT ![w].place = p]
     /\ UNCHANGED <<jobs, results, generated, rows, temporary, litter, reader>>

\* A StorageError ends the job, a DatabaseError only the worker.
UndoDone(w) ==
  /\ At(w, "undo")
  /\ Written(w) = {}
  /\ writers' = [writers EXCEPT ![w] =
       IF @.cause = "storage" THEN [@ EXCEPT !.pc = "failStorage"] ELSE IdleWriter]
  /\ UNCHANGED <<jobs, results, rows, fileVars, reader, mishaps>>

-----------------------------------------------------------------------------
(* A download: getJobResult, then readStoredResult.                        *)

\* Slip: the row alone decides.
ReadMetadataUnconditionally(j, i) ==
  /\ reader.pc = "idle"
  /\ rows[j][i] # None
  /\ reader' = [pc |-> "exists", job |-> j, index |-> i, image |-> rows[j][i]]
  /\ UNCHANGED <<jobs, results, rows, writers, fileVars, mishaps>>

\* Anything but a row of a succeeded job is answered with 404.
ReadMetadata(j, i) ==
  /\ reader.pc = "idle"
  /\ jobs[j].status = "succeeded"
  /\ rows[j][i] # None
  /\ reader' = [pc |-> "exists", job |-> j, index |-> i, image |-> rows[j][i]]
  /\ UNCHANGED <<jobs, results, rows, writers, fileVars, mishaps>>

\* What is at the path of the row.
FileRead == files[reader.job][reader.index]

CheckExists ==
  /\ reader.pc = "exists"
  /\ reader' = [reader EXCEPT !.pc = IF FileRead = None THEN "missing" ELSE "open"]
  /\ UNCHANGED <<jobs, results, rows, writers, fileVars, mishaps>>

\* The stream is opened when the response is sent, under the size and the
\* digest of the row.
OpenStream ==
  /\ reader.pc = "open"
  /\ reader' = [reader EXCEPT !.pc =
       CASE FileRead = None         -> "broken"
         [] FileRead = reader.image -> "served"
         [] OTHER                   -> "mixed"]
  /\ UNCHANGED <<jobs, results, rows, writers, fileVars, mishaps>>

ReadEnds ==
  /\ reader.pc \in {"missing", "broken", "served", "mixed"}
  /\ reader' = IdleReader
  /\ UNCHANGED <<jobs, results, rows, writers, fileVars, mishaps>>

-----------------------------------------------------------------------------
(* The rest of the dispatcher, as the repository operations it may call.   *)

\* Clients do not ask who is storing results.  Leases are left out: whatever
\* they say, another fiber may act on the row at any moment.
Outside(j) == CreateJobIfCapacity(j) \/ RequestCancellation(j)

OtherFiber(j) ==
  \/ ClaimQueued(j)
  \/ \E e \in Engines, r \in Remotes : BindRemote(j, e, r)
  \/ RenewLease(j)
  \/ \E p \in Progress : RecordProgress(j, p)
  \/ RequeueJob(j)
  \/ FailJob(j)
  \/ CancelRemoteJob(j)

Elsewhere(j) ==
  /\ \/ Outside(j) /\ UNCHANGED mishaps
     \/ OtherFiber(j) /\ NotedIfOverlapping(j)
  /\ UNCHANGED <<rows, writers, fileVars, reader>>

\* Files and rows survive; the writers do not, and nobody takes over their
\* temporary files.
Stop ==
  /\ writers' = [w \in Writers |-> IdleWriter]
  /\ temporary' = {}
  /\ litter' = litter \cup {JobOf(w) : w \in temporary}
  /\ reader' = IdleReader
  /\ mishaps' = [j \in Jobs |->
       IF SaversOf(j) = {} THEN mishaps[j] ELSE mishaps[j] \cup {"stop"}]
  /\ UNCHANGED <<jobs, results, generated, rows, files>>

Init ==
  /\ StoreInit
  /\ generated \in [Jobs -> [1..ClaimCap -> Batches]]
  /\ files = [j \in Jobs |-> [i \in Images |-> None]]
  /\ rows = [j \in Jobs |-> [i \in Images |-> None]]
  /\ writers = [w \in Writers |-> IdleWriter]
  /\ temporary = {}
  /\ litter = {}
  /\ reader = IdleReader
  /\ mishaps = [j \in Jobs |-> {}]

Save(w) ==
  \/ \E j \in Jobs : FollowWork(w, j)
  \/ StopPolling(w)
  \/ BeginSave(w)
  \/ WriteTemporary(w)
  \/ PublishTemporary(w)
  \/ WriteFails(w)
  \/ SaveRows(w)
  \/ SaveRowsFails(w)
  \/ PersistOutcome(w)
  \/ PersistOutcomeFails(w)
  \/ UndoOne(w)
  \/ UndoDone(w)

Read ==
  \/ \E j \in Jobs, i \in Images : ReadMetadata(j, i)
  \/ CheckExists
  \/ OpenStream
  \/ ReadEnds

Next ==
  \/ \E w \in Writers : Save(w)
  \/ Read
  \/ \E j \in Jobs : Elsewhere(j)
  \/ Stop

Spec == Init /\ [][Next]_persistenceVars

-----------------------------------------------------------------------------
(* Properties.                                                             *)

WriterState ==
  [pc      : {"idle", "poll", "write", "publish", "rows", "succeed", "undo",
              "failStorage"},
   job     : Jobs \cup {None},
   attempt : Nat,
   place   : Nat \ {0},
   cause   : {None, "storage", "database"}]

ReaderState ==
  [pc    : {"idle", "exists", "open", "missing", "broken", "served", "mixed"},
   job   : Jobs \cup {None},
   index : Images \cup {None},
   image : Image \cup {None}]

\* Every variable is well formed, a writer is at an image of its batch, and the
\* job store's view of the results is the rows' (the jobs that have some).
PersistenceTypeOK ==
  /\ StoreTypeOK
  /\ generated \in [Jobs -> [1..ClaimCap -> Batches]]
  /\ files \in [Jobs -> [Images -> Image \cup {None}]]
  /\ rows \in [Jobs -> [Images -> Image \cup {None}]]
  /\ results = {j \in Jobs : \E i \in Images : rows[j][i] # None}
  /\ writers \in [Writers -> WriterState]
  /\ \A w \in Writers : writers[w].pc \in {"write", "publish"} =>
       writers[w].place \in DOMAIN Batch(w)
  /\ temporary \subseteq Writers
  /\ litter \subseteq Jobs
  /\ reader \in ReaderState
  /\ mishaps \in [Jobs -> SUBSET Mishaps]

\* Two savers met, or a call outlasted the row it was made for: nothing fences
\* the files of a job, so whoever writes or removes last decides.
Overtaken(j) == mishaps[j] \cap {"overlap", "late"} # {}

\* An image of the attempt that the job ended with.  Rows of an earlier
\* attempt stay where the later batch has no image of that index.
Current(j, image) == image # None /\ image.attempt = jobs[j].attempt

\* Whatever failed on the way, stopped in the middle or was stored twice, a
\* succeeded job has rows; and unless it was overtaken, rows of its last
\* attempt, each with the file of that very image behind it.
PublishedIsReadable ==
  \A j \in Jobs : jobs[j].status = "succeeded" =>
    /\ \E i \in Images : rows[j][i] # None
    /\ ~Overtaken(j) =>
         /\ \E i \in Images : Current(j, rows[j][i])
         /\ \A i \in Images :
              Current(j, rows[j][i]) => files[j][i] = rows[j][i]

\* A download that found a row of the last attempt ends with the bytes the row
\* describes: no write, cleanup or restart between its three steps makes it
\* fail, unless the job was overtaken.
ReaderMeetsFile ==
  reader.pc \in {"missing", "broken", "mixed"} =>
    Overtaken(reader.job) \/ ~Current(reader.job, reader.image)

\* A failed save takes its temporary file with it ("Best-effort removal",
\* storage.service.ts): one stays behind only if the process stopped in the
\* middle or the removal itself failed, since nothing ever sweeps them.
LitterIsExplained ==
  \A j \in litter : mishaps[j] \cap {"stop", "removal"} # {}

\* A job that ends without success leaves no result file or row behind unless
\* the process stopped, a removal or a transition failed, or it was overtaken.
OrphansAreExplained ==
  \A j \in Jobs :
    jobs[j].status \in {"queued", "failed", "cancelled"} /\ mishaps[j] = {} =>
      \A i \in Images : files[j][i] = None /\ rows[j][i] = None
=============================================================================
