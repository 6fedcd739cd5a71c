----------------------- MODULE ResultPersistenceProofs -----------------------
(***************************************************************************)
(* Proofs about result files and rows, for any jobs, writers and batches.  *)
(*                                                                         *)
(* The argument: a step moves the table by one operation (StepIsStoreStep) *)
(* and writes the files, rows and history of one job at most, the one its  *)
(* actor works on (OtherJobsStay).  So it is enough to say of one job what *)
(* its files and rows are at each place its only saver can be (JobInv), as *)
(* long as it has only one, which began while the row was still its own: a *)
(* second one, another fiber that writes the row meanwhile, or a save that *)
(* begins late is noted in the history of the job.                         *)
(***************************************************************************)
EXTENDS ResultPersistence, JobStoreProofs

BatchOf(s) == generated[s.job][s.attempt]

\* A writer that is not idle has a job and an attempt, and its place in the
\* batch of that attempt tells how far it is.
GoodWriter(s) ==
  /\ s \in WriterState
  /\ IF s.pc = "idle" THEN s = IdleWriter
     ELSE s.job \in Jobs /\ s.attempt \in 1..ClaimCap
  /\ s.pc \in {"poll", "failStorage"} => s.place = 1
  /\ s.pc \in {"write", "publish"} => s.place <= Len(BatchOf(s))
  /\ s.pc \in {"rows", "succeed"} =>
       s.place = Len(BatchOf(s)) + 1 /\ Len(BatchOf(s)) > 0
  /\ s.pc = "undo" => s.place <= Len(BatchOf(s)) + 1

\* A row describes an image of the attempt that saved it, the last of those
\* with its index.
RowsDescribe ==
  \A j \in Jobs, i \in Images : rows[j][i] # None =>
    LastAt(generated[j][rows[j][i].attempt], rows[j][i].place, i)

\* The shape of the state, on which the rest stands.
ShapeInv ==
  /\ RowInv
  /\ generated \in [Jobs -> [1..ClaimCap -> Batches]]
  /\ files \in [Jobs -> [Images -> Image \cup {None}]]
  /\ rows \in [Jobs -> [Images -> Image \cup {None}]]
  /\ results = {j \in Jobs : \E i \in Images : rows[j][i] # None}
  /\ RowsDescribe
  /\ writers \in [Writers -> WriterState]
  /\ \A w \in Writers : GoodWriter(writers[w])
  /\ \A w \in Writers : At(w, "succeed") => JobOf(w) \in results
  /\ \A j \in Jobs : jobs[j].status = "succeeded" => j \in results
  /\ temporary \subseteq Writers
  /\ \A w \in temporary : At(w, "publish")
  /\ litter \subseteq Jobs
  /\ mishaps \in [Jobs -> SUBSET Mishaps]

\* Neither file nor row of the job exists.
Clean(j) == \A i \in Images : files[j][i] = None /\ rows[j][i] = None

\* The last attempt has rows, and each of them the file it describes.
Backed(j) ==
  /\ \E i \in Images : Current(j, rows[j][i])
  /\ \A i \in Images : Current(j, rows[j][i]) => files[j][i] = rows[j][i]

\* The last of the first n images of a batch that have an index.
LastOf(b, n, p, i) ==
  /\ p \in 1..n /\ b[p] = i
  /\ \A q \in 1..n : b[q] = i => q <= p

\* Among the files f of a job are those of the first n images of batch b,
\* which attempt a generated.
Stored(f, b, a, n) ==
  \A i \in Images : (\E p \in 1..n : b[p] = i) =>
    \E p \in 1..n :
      LastOf(b, n, p, i) /\ f[i] = [attempt |-> a, place |-> p]

\* No file has an index but those of the first n images.
OnlyStored(f, b, n) ==
  \A i \in Images : (\A p \in 1..n : b[p] # i) => f[i] = None

\* What the only saver of a job has done so far, and nobody else.
Saved(w) ==
  LET j == JobOf(w)
      s == writers[w]
  IN /\ jobs[j].status = "running"
     /\ jobs[j].attempt = s.attempt
     /\ s.pc \in {"write", "publish", "rows", "succeed"} =>
          Stored(files[j], BatchOf(s), s.attempt, s.place - 1)
     /\ s.pc = "succeed" =>
          \A i \in Images : (\E p \in 1..(s.place - 1) : BatchOf(s)[p] = i) =>
            Current(j, rows[j][i])
     /\ mishaps[j] = {} =>
          /\ OnlyStored(files[j], BatchOf(s), s.place - 1)
          /\ s.pc # "succeed" => \A i \in Images : rows[j][i] = None

\* The files and rows of a job that was not overtaken.
JobInv(j) ==
  ~Overtaken(j) =>
    /\ \A v, w \in SaversOf(j) : v = w
    /\ \A w \in SaversOf(j) : Saved(w)
    /\ jobs[j].status = "succeeded" => Backed(j)
    /\ mishaps[j] = {} /\ SaversOf(j) = {} /\ jobs[j].status # "succeeded" =>
         Clean(j)

\* A download holds the row of a job that succeeded, which stays.
ReaderInv ==
  /\ reader \in ReaderState
  /\ reader.pc # "idle" =>
       /\ reader.job \in Jobs /\ reader.index \in Images
       /\ reader.image # None
       /\ ~Overtaken(reader.job) =>
            /\ jobs[reader.job].status = "succeeded"
            /\ reader.image = rows[reader.job][reader.index]
            /\ Current(reader.job, reader.image) =>
                 reader.pc \in {"exists", "open", "served"}

FilesInv == ShapeInv /\ \A j \in Jobs : JobInv(j)

PersistenceInv == FilesInv /\ ReaderInv /\ LitterIsExplained

-----------------------------------------------------------------------------
(* The table is moved by its own operations, and the batches never.        *)

LEMMA BatchShape ==
  ASSUME ShapeInv, NEW j \in Jobs, NEW a \in 1..ClaimCap
  PROVE  /\ generated[j][a] \in Seq(Images)
         /\ Len(generated[j][a]) \in Nat
         /\ DOMAIN generated[j][a] = 1..Len(generated[j][a])
         /\ \A p \in 1..Len(generated[j][a]) : generated[j][a][p] \in Images
         /\ generated[j][a] # <<>> => Len(generated[j][a]) > 0
<1>1. generated[j][a] \in Batches BY DEF ShapeInv
<1>2. generated[j][a] \in Seq(Images) BY <1>1, PersistenceAssumption
<1> QED BY <1>2

LEMMA BusyWriter ==
  ASSUME ShapeInv, NEW w \in Writers, ~At(w, "idle")
  PROVE  /\ JobOf(w) \in Jobs /\ JobOf(w) # None
         /\ writers[w].attempt \in 1..ClaimCap
         /\ Batch(w) = BatchOf(writers[w])
         /\ Batch(w) \in Seq(Images)
         /\ Len(Batch(w)) \in Nat
         /\ DOMAIN Batch(w) = 1..Len(Batch(w))
         /\ \A p \in 1..Len(Batch(w)) : Batch(w)[p] \in Images
         /\ Batch(w) # <<>> => Len(Batch(w)) > 0
<1>1. JobOf(w) \in Jobs /\ writers[w].attempt \in 1..ClaimCap
  BY DEF ShapeInv, GoodWriter, At, JobOf
<1>2. JobOf(w) # None BY <1>1, NamesAssumption, StoreAssumption
<1>3. Batch(w) = generated[JobOf(w)][writers[w].attempt] BY DEF Batch
<1> QED BY <1>1, <1>2, <1>3, BatchShape DEF BatchOf, JobOf

\* The rest of the dispatcher starts, moves or ends a row, but never to success.
LEMMA ElsewhereNeverSucceeds ==
  ASSUME NEW j \in Jobs, jobs \in [Jobs -> Row], Outside(j) \/ OtherFiber(j)
  PROVE  \A i \in Jobs : jobs'[i].status = "succeeded" =>
           jobs[i].status = "succeeded"
<1> USE DEF Row
<1>1. CASE Outside(j)
  BY <1>1 DEF Outside, CreateJobIfCapacity, RequestCancellation
<1>2. CASE ClaimQueued(j) BY <1>2 DEF ClaimQueued
<1>3. CASE \E e \in Engines, r \in Remotes : BindRemote(j, e, r)
  BY <1>3 DEF BindRemote
<1>4. CASE RenewLease(j) BY <1>4 DEF RenewLease
<1>5. CASE \E p \in Progress : RecordProgress(j, p) BY <1>5 DEF RecordProgress
<1>6. CASE RequeueJob(j) \/ FailJob(j) \/ CancelRemoteJob(j)
  BY <1>6 DEF RequeueJob, FailJob, CancelRemoteJob, TransitionJob
<1> QED BY <1>1, <1>2, <1>3, <1>4, <1>5, <1>6 DEF OtherFiber

LEMMA GeneratedStays ==
  ASSUME [Next]_persistenceVars
  PROVE  generated' = generated
BY DEF Next, Save, FollowWork, StopPolling, BeginSave, WriteTemporary,
   PublishTemporary, WriteFails, SaveRows, SaveRowsFails, PersistOutcome,
   PersistOutcomeFails, UndoOne, UndoDone, Read, ReadMetadata, CheckExists,
   OpenStream, ReadEnds, Elsewhere, Stop, fileVars, persistenceVars

LEMMA SaveIsStoreStep ==
  ASSUME ShapeInv, NEW w \in Writers, Save(w)
  PROVE  [StoreNext]_storeVars
<1> DEFINE j == JobOf(w)
<1>0. ~At(w, "idle") => j \in Jobs BY BusyWriter
<1>1. CASE (\E i \in Jobs : FollowWork(w, i)) \/ StopPolling(w) \/ BeginSave(w)
  BY <1>1 DEF FollowWork, StopPolling, BeginSave, storeVars
<1>2. CASE WriteTemporary(w) BY <1>2 DEF WriteTemporary, storeVars
<1>3. CASE PublishTemporary(w) BY <1>3 DEF PublishTemporary, storeVars
<1>4. CASE WriteFails(w) BY <1>4 DEF WriteFails, storeVars
<1>5. CASE SaveRows(w)
  BY <1>0, <1>5 DEF SaveRows, At, StoreNext, StoreStep
<1>6. CASE SaveRowsFails(w) BY <1>6 DEF SaveRowsFails, storeVars
<1>7. CASE PersistOutcome(w)
  BY <1>0, <1>7 DEF PersistOutcome, At, StoreNext, StoreStep
<1>8. CASE PersistOutcomeFails(w) BY <1>8 DEF PersistOutcomeFails, storeVars
<1>9. CASE UndoOne(w) BY <1>9 DEF UndoOne, storeVars
<1>10. CASE UndoDone(w) BY <1>10 DEF UndoDone, storeVars
<1> QED
  BY <1>1, <1>2, <1>3, <1>4, <1>5, <1>6, <1>7, <1>8, <1>9, <1>10 DEF Save

LEMMA StepIsStoreStep ==
  ASSUME ShapeInv, [Next]_persistenceVars
  PROVE  [StoreNext]_storeVars
<1>1. CASE UNCHANGED persistenceVars BY <1>1 DEF persistenceVars, storeVars
<1>2. CASE \E w \in Writers : Save(w) BY <1>2, SaveIsStoreStep
<1>3. CASE Read
  BY <1>3 DEF Read, ReadMetadata, CheckExists, OpenStream, ReadEnds, storeVars
<1>4. CASE \E j \in Jobs : Elsewhere(j)
  BY <1>4 DEF Elsewhere, Outside, OtherFiber, StoreNext, StoreStep
<1>5. CASE Stop BY <1>5 DEF Stop, storeVars
<1> QED BY <1>1, <1>2, <1>3, <1>4, <1>5 DEF Next

-----------------------------------------------------------------------------
(* The shape of the state.                                                 *)

LEMMA IdleIsGood == GoodWriter(IdleWriter) /\ IdleWriter \in WriterState
BY DEF GoodWriter, IdleWriter, WriterState

\* A step of a writer moves that writer alone, and keeps it well formed; while
\* it saves, it stays with its job.
LEMMA SaveMovesWriter ==
  ASSUME ShapeInv, NEW w \in Writers, Save(w)
  PROVE  /\ GoodWriter(writers'[w])
         /\ writers' = [writers EXCEPT ![w] = writers'[w]]
         /\ writers'[w].pc \in {"idle", "poll"} \/ writers'[w].job = JobOf(w)
         /\ ~At(w, "idle") => writers'[w].job \in {JobOf(w), None}
<1> DEFINE s == writers[w]
           t == writers'[w]
<1>0. /\ writers \in [Writers -> WriterState]
      /\ s \in WriterState
      /\ GoodWriter(s)
      /\ s.place \in Nat \ {0}
      /\ ClaimCap \in Nat
      /\ ~At(w, "idle") =>
           /\ s.job \in Jobs /\ s.attempt \in 1..ClaimCap
           /\ Batch(w) = BatchOf(s)
           /\ Len(BatchOf(s)) \in Nat
           /\ DOMAIN BatchOf(s) = 1..Len(BatchOf(s))
           /\ BatchOf(s) # <<>> => Len(BatchOf(s)) > 0
  BY BusyWriter, StoreAssumption DEF ShapeInv, JobOf, WriterState
<1>1. CASE \E i \in Jobs : FollowWork(w, i)
  <2>1. PICK i \in Jobs : FollowWork(w, i) BY <1>1
  <2>2. writers' = [writers EXCEPT ![w] =
          [IdleWriter EXCEPT !.pc = "poll", !.job = i, !.attempt = jobs[i].attempt]]
    BY <2>1 DEF FollowWork
  <2>3. t = [pc |-> "poll", job |-> i, attempt |-> jobs[i].attempt, place |-> 1,
             cause |-> None]
    BY <1>0, <2>2 DEF IdleWriter
  <2>4. jobs[i].attempt \in 1..ClaimCap
    BY <1>0, <2>1 DEF FollowWork, ShapeInv, RowInv, RunsAreClaimed, StoreTypeOK, Row
  <2>5. GoodWriter(t) BY <1>0, <2>3, <2>4 DEF GoodWriter, WriterState
  <2>6. writers' = [writers EXCEPT ![w] = t] BY <1>0, <2>2
  <2> QED BY <2>1, <2>3, <2>5, <2>6 DEF FollowWork, At
\* The writer keeps its job, its attempt and its place.
<1>2. ASSUME NEW pc, NEW cause \in {None, "storage", "database"}, ~At(w, "idle"),
             pc \in {"write", "publish", "rows", "succeed", "undo", "failStorage"},
             t = [s EXCEPT !.pc = pc, !.cause = cause],
             pc = "failStorage" => s.place = 1,
             pc \in {"write", "publish"} => s.place <= Len(BatchOf(s)),
             pc \in {"rows", "succeed"} =>
               s.place = Len(BatchOf(s)) + 1 /\ Len(BatchOf(s)) > 0,
             pc = "undo" => s.place <= Len(BatchOf(s)) + 1
      PROVE  GoodWriter(t) /\ t.job = JobOf(w)
  <2>1. /\ t.pc = pc /\ t.job = s.job /\ t.attempt = s.attempt
        /\ t.place = s.place /\ t \in WriterState
    BY <1>0, <1>2 DEF WriterState
  <2>2. BatchOf(t) = BatchOf(s) BY <2>1 DEF BatchOf
  <2> QED BY <1>0, <1>2, <2>1, <2>2 DEF GoodWriter, JobOf
\* The writer leaves.
<1>12. ASSUME writers' = [writers EXCEPT ![w] = IdleWriter]
       PROVE  /\ GoodWriter(t) /\ writers' = [writers EXCEPT ![w] = t]
              /\ t.pc = "idle" /\ t.job = None
  <2>1. t = IdleWriter BY <1>0, <1>12
  <2>2. t.pc = "idle" /\ t.job = None BY <2>1 DEF IdleWriter
  <2> QED BY <1>12, <2>1, <2>2, IdleIsGood
<1>3. CASE StopPolling(w) \/ PersistOutcome(w) \/ PersistOutcomeFails(w)
  <2>1. writers' = [writers EXCEPT ![w] = IdleWriter]
    BY <1>3 DEF StopPolling, PersistOutcome, PersistOutcomeFails
  <2> QED BY <2>1, <1>12
<1>4. CASE BeginSave(w)
  <2>1. s.pc = "poll" /\ ~At(w, "idle") /\ s.place = 1
    BY <1>0, <1>4 DEF BeginSave, At, GoodWriter
  <2> DEFINE pc == IF Batch(w) = <<>> THEN "failStorage" ELSE "write"
  <2>2. writers' = [writers EXCEPT ![w].pc = pc] BY <1>4 DEF BeginSave, Goes
  <2>3. t = [s EXCEPT !.pc = pc, !.cause = s.cause]
        /\ writers' = [writers EXCEPT ![w] = t]
    BY <1>0, <2>2 DEF WriterState
  <2>4. s.cause \in {None, "storage", "database"} BY <1>0 DEF WriterState
  <2>5. pc = "write" => s.place <= Len(BatchOf(s)) BY <1>0, <2>1
  <2> QED BY <1>2, <2>1, <2>3, <2>4, <2>5
<1>5. CASE WriteTemporary(w)
  <2>1. s.pc = "write" /\ ~At(w, "idle") BY <1>5 DEF WriteTemporary, At
  <2>2. t = [s EXCEPT !.pc = "publish", !.cause = s.cause]
        /\ writers' = [writers EXCEPT ![w] = t]
    BY <1>0, <1>5 DEF WriteTemporary, Goes, WriterState
  <2>3. s.cause \in {None, "storage", "database"} BY <1>0 DEF WriterState
  <2> QED BY <1>0, <1>2, <2>1, <2>2, <2>3 DEF GoodWriter
<1>6. CASE PublishTemporary(w)
  <2>0. s.pc = "publish" /\ ~At(w, "idle") BY <1>6 DEF PublishTemporary, At
  <2> DEFINE pc == IF s.place = Len(Batch(w)) THEN "rows" ELSE "write"
  <2>1. t = [s EXCEPT !.place = @ + 1, !.pc = pc]
    BY <1>0, <1>6 DEF PublishTemporary, WriterState
  <2>2. writers' = [writers EXCEPT ![w] = t]
    BY <1>0, <1>6, <2>1 DEF PublishTemporary, WriterState
  <2>7. pc \in {"rows", "write"} OBVIOUS
  <2>3. /\ t.pc = pc /\ t.job = s.job /\ t.attempt = s.attempt
        /\ t.place = s.place + 1 /\ t \in WriterState
    <3> HIDE DEF pc
    <3>1. s.place + 1 \in Nat \ {0} BY <1>0
    <3> QED BY <1>0, <2>1, <2>7, <3>1 DEF WriterState
  <2>4. BatchOf(t) = BatchOf(s) BY <2>3 DEF BatchOf
  <2>5. s.place <= Len(BatchOf(s)) BY <1>0, <2>0 DEF GoodWriter
  <2>6. \/ pc = "rows" /\ s.place = Len(BatchOf(s))
        \/ pc = "write" /\ s.place # Len(BatchOf(s))
    BY <1>0, <2>0
  <2> HIDE DEF pc
  <2>8. GoodWriter(t)
    BY <1>0, <2>0, <2>3, <2>4, <2>5, <2>6 DEF GoodWriter
  <2> QED BY <2>2, <2>3, <2>8 DEF JobOf
<1>7. CASE WriteFails(w)
  <2>1. s.pc \in {"write", "publish"} /\ ~At(w, "idle")
    BY <1>7 DEF WriteFails, At
  <2>2. t = [s EXCEPT !.pc = "undo", !.cause = "storage"]
        /\ writers' = [writers EXCEPT ![w] = t]
    BY <1>0, <1>7 DEF WriteFails, WriterState
  <2>3. s.place <= Len(BatchOf(s)) + 1 BY <1>0, <2>1 DEF GoodWriter
  <2>4. GoodWriter(t) /\ t.job = JobOf(w)
    <3>1. "undo" \notin {"failStorage", "write", "publish", "rows", "succeed"}
      OBVIOUS
    <3> QED BY <1>2, <2>1, <2>2, <2>3, <3>1
  <2> QED BY <2>2, <2>4
<1>8. CASE SaveRows(w)
  <2>1. s.pc = "rows" /\ ~At(w, "idle") BY <1>8 DEF SaveRows, At
  <2>2. t = [s EXCEPT !.pc = "succeed", !.cause = s.cause]
        /\ writers' = [writers EXCEPT ![w] = t]
    BY <1>0, <1>8 DEF SaveRows, Goes, WriterState
  <2>3. s.cause \in {None, "storage", "database"} BY <1>0 DEF WriterState
  <2> QED BY <1>0, <1>2, <2>1, <2>2, <2>3 DEF GoodWriter
<1>9. CASE SaveRowsFails(w)
  <2>1. s.pc = "rows" /\ ~At(w, "idle") BY <1>9 DEF SaveRowsFails, At
  <2>2. t = [s EXCEPT !.pc = "undo", !.cause = "database"]
        /\ writers' = [writers EXCEPT ![w] = t]
    BY <1>0, <1>9 DEF SaveRowsFails, WriterState
  <2>3. s.place <= Len(BatchOf(s)) + 1 BY <1>0, <2>1 DEF GoodWriter
  <2>4. GoodWriter(t) /\ t.job = JobOf(w)
    <3>1. "undo" \notin {"failStorage", "write", "publish", "rows", "succeed"}
      OBVIOUS
    <3> QED BY <1>2, <2>1, <2>2, <2>3, <3>1
  <2> QED BY <2>2, <2>4
<1>10. CASE UndoOne(w)
  <2>0. s.pc = "undo" /\ ~At(w, "idle") BY <1>10 DEF UndoOne, At
  <2>1. t = [s EXCEPT !.place = s.place - 1]
        /\ writers' = [writers EXCEPT ![w] = t]
    BY <1>0, <1>10 DEF UndoOne, WriterState
  <2>2. s.place - 1 \in Nat \ {0} BY <1>0, <1>10 DEF UndoOne, Written
  <2>3. /\ t.pc = "undo" /\ t.job = s.job /\ t.attempt = s.attempt
        /\ t.place = s.place - 1 /\ t \in WriterState
    BY <1>0, <2>0, <2>1, <2>2 DEF WriterState
  <2>4. BatchOf(t) = BatchOf(s) BY <2>3 DEF BatchOf
  <2>5. s.place <= Len(BatchOf(s)) + 1 BY <1>0, <2>0 DEF GoodWriter
  <2> QED BY <1>0, <2>0, <2>1, <2>3, <2>4, <2>5 DEF GoodWriter, JobOf
<1>11. CASE UndoDone(w)
  <2>0. s.pc = "undo" /\ ~At(w, "idle") BY <1>11 DEF UndoDone, At
  <2>1. s.place = 1
    <3>1. 1..(s.place - 1) = {} BY <1>11 DEF UndoDone, Written
    <3>2. s.place >= 2 => 1 \in 1..(s.place - 1) BY <1>0
    <3> QED BY <1>0, <3>1, <3>2
  <2>2. CASE s.cause = "storage"
    <3>1. t = [s EXCEPT !.pc = "failStorage", !.cause = s.cause]
          /\ writers' = [writers EXCEPT ![w] = t]
      BY <1>0, <1>11, <2>2 DEF UndoDone, WriterState
    <3> QED BY <1>2, <2>0, <2>1, <2>2, <3>1
  <2>3. CASE s.cause # "storage"
    <3>1. writers' = [writers EXCEPT ![w] = IdleWriter]
      BY <1>0, <1>11, <2>3 DEF UndoDone
    <3> QED BY <3>1, <1>12
  <2> QED BY <2>2, <2>3
<1> QED
  BY <1>1, <1>3, <1>4, <1>5, <1>6, <1>7, <1>8, <1>9, <1>10, <1>11 DEF Save

\* What the INSERT leaves in the rows of the job: the last image of each index
\* of the batch, and the old row elsewhere.
LEMMA RowsAfterSave ==
  ASSUME ShapeInv, NEW w \in Writers, SaveRows(w)
  PROVE  LET j == JobOf(w)
             b == Batch(w)
         IN /\ rows' \in [Jobs -> [Images -> Image \cup {None}]]
            /\ \A k \in Jobs : k # j => rows'[k] = rows[k]
            /\ \A i \in Images, p \in DOMAIN b :
                 LastAt(b, p, i) => rows'[j][i] = ImageAt(w, p)
            /\ \A i \in Images :
                 \/ rows'[j][i] = rows[j][i]
                 \/ \E p \in DOMAIN b :
                      LastAt(b, p, i) /\ rows'[j][i] = ImageAt(w, p)
            /\ \E i \in Images : rows'[j][i] = ImageAt(w, Len(b))
            /\ ImageAt(w, Len(b)) # None
<1> DEFINE j == JobOf(w)
           b == Batch(w)
<1>0. /\ ~At(w, "idle") /\ At(w, "rows")
      /\ rows' = [rows EXCEPT ![j] = [i \in Images |-> RowSaved(w, i)]]
      /\ rows \in [Jobs -> [Images -> Image \cup {None}]]
  BY DEF SaveRows, At, ShapeInv
<1>1. /\ j \in Jobs /\ writers[w].attempt \in 1..ClaimCap
      /\ b \in Seq(Images) /\ Len(b) \in Nat /\ DOMAIN b = 1..Len(b)
      /\ \A p \in 1..Len(b) : b[p] \in Images
      /\ Len(b) > 0
  BY <1>0, BusyWriter DEF ShapeInv, GoodWriter, At
<1>2. \A p \in DOMAIN b : ImageAt(w, p) \in Image /\ ImageAt(w, p) # None
  <2> SUFFICES ASSUME NEW p \in DOMAIN b
               PROVE  ImageAt(w, p) \in Image /\ ImageAt(w, p) # None
    OBVIOUS
  <2>1. ImageAt(w, p) \in Image BY <1>1 DEF ImageAt, Image
  <2>2. None \notin Image BY PersistenceAssumption
  <2> QED BY <2>1, <2>2
<1>3. \A i \in Images, p, q \in DOMAIN b :
        LastAt(b, p, i) /\ LastAt(b, q, i) => p = q
  BY <1>1 DEF LastAt
<1>4. \A i \in Images, p \in DOMAIN b :
        LastAt(b, p, i) => RowSaved(w, i) = ImageAt(w, p)
  BY <1>3 DEF RowSaved
<1>5. \A i \in Images :
        \/ RowSaved(w, i) = rows[j][i]
        \/ \E p \in DOMAIN b : LastAt(b, p, i) /\ RowSaved(w, i) = ImageAt(w, p)
  BY <1>4 DEF RowSaved
<1> HIDE DEF j, b
<1>6. \A i \in Images : rows'[j][i] = RowSaved(w, i) BY <1>0, <1>1
<1>7. \A i \in Images : RowSaved(w, i) \in Image \cup {None}
  BY <1>0, <1>1, <1>2, <1>5
<1>8. LastAt(b, Len(b), b[Len(b)]) /\ b[Len(b)] \in Images
  BY <1>1 DEF LastAt
<1>9. rows' \in [Jobs -> [Images -> Image \cup {None}]]
  <2>1. [i \in Images |-> RowSaved(w, i)] \in [Images -> Image \cup {None}]
    BY <1>7
  <2> QED BY <1>0, <1>1, <2>1
<1>10. \A k \in Jobs : k # j => rows'[k] = rows[k] BY <1>0
<1>11. \A i \in Images, p \in DOMAIN b :
         LastAt(b, p, i) => rows'[j][i] = ImageAt(w, p)
  BY <1>4, <1>6 DEF b
<1>12. \A i \in Images :
         \/ rows'[j][i] = rows[j][i]
         \/ \E p \in DOMAIN b :
              LastAt(b, p, i) /\ rows'[j][i] = ImageAt(w, p)
  BY <1>5, <1>6
<1>13. Len(b) \in DOMAIN b BY <1>1
<1>14. \E i \in Images : rows'[j][i] = ImageAt(w, Len(b))
  BY <1>8, <1>11, <1>13
<1> QED BY <1>2, <1>9, <1>10, <1>11, <1>12, <1>13, <1>14 DEF j, b

\* Files and rows are written where images are.
LEMMA SaveShape ==
  ASSUME ShapeInv, NEW w \in Writers, Save(w)
  PROVE  /\ files' \in [Jobs -> [Images -> Image \cup {None}]]
         /\ rows' \in [Jobs -> [Images -> Image \cup {None}]]
         /\ results' = {j \in Jobs : \E i \in Images : rows'[j][i] # None}
         /\ RowsDescribe'
         /\ results \subseteq results'
         /\ writers'[w].pc = "succeed" => JobOf(w) \in results'
         /\ \A j \in Jobs : jobs'[j].status = "succeeded" => j \in results'
         /\ temporary' \subseteq Writers
         /\ \A v \in temporary' : writers'[v].pc = "publish"
         /\ litter' \subseteq Jobs
         /\ mishaps' \in [Jobs -> SUBSET Mishaps]
<1> DEFINE s == writers[w]
           j == JobOf(w)
<1>0. /\ writers \in [Writers -> WriterState]
      /\ s \in WriterState
      /\ GoodWriter(s)
      /\ files \in [Jobs -> [Images -> Image \cup {None}]]
      /\ rows \in [Jobs -> [Images -> Image \cup {None}]]
      /\ results = {i \in Jobs : \E k \in Images : rows[i][k] # None}
      /\ RowsDescribe
      /\ \A i \in Jobs : jobs[i].status = "succeeded" => i \in results
      /\ At(w, "succeed") => j \in results
      /\ temporary \subseteq Writers
      /\ \A v \in temporary : writers[v].pc = "publish"
      /\ litter \subseteq Jobs
      /\ mishaps \in [Jobs -> SUBSET Mishaps]
      /\ ~At(w, "idle") => j \in Jobs
      /\ generated' = generated
  BY BusyWriter, GeneratedStays DEF ShapeInv, At, Next
<1>9. writers' = [writers EXCEPT ![w] = writers'[w]] BY SaveMovesWriter
<1>10. \A i \in Jobs : UNCHANGED mishaps \/ (\E kind \in Mishaps : Mishap(i, kind))
         => mishaps' \in [Jobs -> SUBSET Mishaps]
  BY <1>0 DEF Mishap
<1> HIDE DEF s, j
\* The rows are left alone, and the table's success too.
<1>13. ASSUME UNCHANGED <<rows, results>>,
              \A i \in Jobs : jobs'[i].status = "succeeded" =>
                i \in results
       PROVE  /\ rows' \in [Jobs -> [Images -> Image \cup {None}]]
              /\ results' = {i \in Jobs : \E k \in Images : rows'[i][k] # None}
              /\ RowsDescribe'
              /\ results \subseteq results'
              /\ \A i \in Jobs : jobs'[i].status = "succeeded" => i \in results'
  BY <1>0, <1>13 DEF RowsDescribe
<1>1. CASE \/ \E i \in Jobs : FollowWork(w, i)
           \/ StopPolling(w)
  <2>1. /\ UNCHANGED <<jobs, results, rows, files, temporary, litter, mishaps>>
        /\ w \notin temporary
    BY <1>0, <1>1 DEF FollowWork, StopPolling, fileVars, At
  <2>2. writers'[w].pc \in {"poll", "idle"}
    <3>1. CASE StopPolling(w) BY <1>0, <3>1 DEF StopPolling, IdleWriter
    <3>2. ASSUME NEW i \in Jobs, FollowWork(w, i)
          PROVE  writers'[w].pc = "poll"
      BY <1>0, <3>2 DEF FollowWork, IdleWriter
    <3> QED BY <1>1, <3>1, <3>2
  <2> QED BY <1>0, <1>9, <1>13, <2>1, <2>2
<1>14. CASE BeginSave(w)
  <2>1. /\ UNCHANGED <<jobs, results, rows, files, temporary, litter>>
        /\ w \notin temporary
        /\ j \in Jobs
    BY <1>0, <1>14 DEF BeginSave, fileVars, At
  <2>2. writers'[w].pc \in {"failStorage", "write"}
    BY <1>0, <1>14 DEF BeginSave, Goes, WriterState
  <2>3. mishaps' \in [Jobs -> SUBSET Mishaps]
    <3>1. MetAtSave(w, j) \subseteq Mishaps BY DEF MetAtSave, Mishaps
    <3> QED BY <1>0, <1>14, <2>1, <3>1 DEF BeginSave, j
  <2> QED BY <1>0, <1>9, <1>13, <2>1, <2>2, <2>3
<1>2. CASE WriteTemporary(w)
  <2>1. /\ UNCHANGED <<jobs, results, rows, files, litter, mishaps>>
        /\ temporary' = temporary \cup {w} /\ writers'[w].pc = "publish"
    BY <1>0, <1>2 DEF WriteTemporary, Goes, WriterState
  <2> QED BY <1>0, <1>9, <1>13, <2>1
<1>3. CASE PublishTemporary(w)
  <2> DEFINE i == IndexAt(w, writers[w].place)
             m == ImageAt(w, writers[w].place)
  <2>1. /\ j \in Jobs /\ ~At(w, "idle")
        /\ s.place \in 1..Len(BatchOf(s))
        /\ s.attempt \in 1..ClaimCap
    BY <1>0, <1>3, BusyWriter
       DEF PublishTemporary, At, s, GoodWriter, WriterState
  <2>2. i \in Images BY <2>1, BusyWriter DEF IndexAt, s
  <2>3. m \in Image BY <2>1, BusyWriter DEF ImageAt, Image, s
  <2> HIDE DEF i, m
  <2>4. /\ files' = [files EXCEPT ![j][i] = m]
        /\ temporary' = temporary \ {w}
        /\ UNCHANGED <<jobs, results, rows, litter, mishaps>>
    BY <1>3 DEF PublishTemporary, j, i, m
  <2>5. files' \in [Jobs -> [Images -> Image \cup {None}]]
    BY <1>0, <2>1, <2>2, <2>3, <2>4
  <2>6. writers'[w].pc # "succeed"
    BY <1>0, <1>3 DEF PublishTemporary, WriterState
  <2> QED BY <1>0, <1>9, <1>13, <2>4, <2>5, <2>6
<1>4. CASE WriteFails(w)
  <2>1. j \in Jobs BY <1>0, <1>4 DEF WriteFails, At
  <2>2. /\ UNCHANGED <<jobs, results, rows, files>>
        /\ temporary' = temporary \ {w}
        /\ litter' \in {litter, litter \cup {j}}
        /\ UNCHANGED mishaps \/ Mishap(j, "removal")
    BY <1>4 DEF WriteFails, j
  <2>3. mishaps' \in [Jobs -> SUBSET Mishaps]
    BY <1>10, <2>1, <2>2 DEF Mishaps
  <2>4. writers'[w].pc = "undo" BY <1>0, <1>4 DEF WriteFails, WriterState
  <2> QED BY <1>0, <1>9, <1>13, <2>1, <2>2, <2>3, <2>4
<1>5. CASE SaveRows(w)
  <2>1. j \in Jobs /\ w \notin temporary BY <1>0, <1>5 DEF SaveRows, At
  <2>2. /\ results' = results \cup {j}
        /\ UNCHANGED <<jobs, files, temporary, litter, mishaps>>
    BY <1>5 DEF SaveRows, SaveResults, fileVars, j
  <2>3. /\ rows' \in [Jobs -> [Images -> Image \cup {None}]]
        /\ \A k \in Jobs : k # j => rows'[k] = rows[k]
        /\ \E k \in Images : rows'[j][k] # None
    BY <1>5, RowsAfterSave DEF j
  <2>4. results' = {i \in Jobs : \E k \in Images : rows'[i][k] # None}
    BY <1>0, <2>1, <2>2, <2>3
  <2>5. RowsDescribe'
    <3> SUFFICES ASSUME NEW k \in Jobs, NEW i \in Images, rows'[k][i] # None
                 PROVE  LastAt(generated[k][rows'[k][i].attempt],
                               rows'[k][i].place, i)
      BY <1>0 DEF RowsDescribe
    <3>1. CASE rows'[k][i] = rows[k][i] BY <1>0, <3>1 DEF RowsDescribe
    <3>2. CASE rows'[k][i] # rows[k][i]
      <4>1. k = j BY <2>3, <3>2
      <4>2. PICK p \in DOMAIN Batch(w) :
              LastAt(Batch(w), p, i) /\ rows'[k][i] = ImageAt(w, p)
        BY <1>5, <3>2, <4>1, RowsAfterSave DEF j
      <4>3. rows'[k][i].attempt = writers[w].attempt /\ rows'[k][i].place = p
        BY <4>2 DEF ImageAt
      <4> QED BY <4>1, <4>2, <4>3 DEF Batch, j
    <3> QED BY <3>1, <3>2
  <2> QED BY <1>0, <1>9, <2>1, <2>2, <2>3, <2>4, <2>5 DEF j
<1>6. CASE SaveRowsFails(w)
  <2>1. /\ UNCHANGED <<jobs, results, rows, files, temporary, litter, mishaps>>
        /\ w \notin temporary
    BY <1>0, <1>6 DEF SaveRowsFails, fileVars, At
  <2>2. writers'[w].pc = "undo" BY <1>0, <1>6 DEF SaveRowsFails, WriterState
  <2> QED BY <1>0, <1>9, <1>13, <2>1, <2>2
<1>7. CASE PersistOutcome(w)
  <2>1. /\ UNCHANGED <<results, rows, files, temporary, litter, mishaps>>
        /\ w \notin temporary
        /\ j \in Jobs
    BY <1>0, <1>7
       DEF PersistOutcome, SucceedJob, FailStorageJob, TransitionJob, storeVars,
           fileVars, At
  <2>2. \A i \in Jobs : jobs'[i].status = "succeeded" => i \in results
    <3>0. jobs \in [Jobs -> Row] BY DEF ShapeInv, RowInv, StoreTypeOK
    <3>1. CASE At(w, "succeed") /\ SucceedJob(j)
      <4>1. \A i \in Jobs : i # j => jobs'[i] = jobs[i]
        BY <3>0, <3>1 DEF SucceedJob, TransitionJob
      <4> QED BY <1>0, <3>1, <4>1
    <3>2. CASE FailStorageJob(j)
      <4>1. \A i \in Jobs : i # j => jobs'[i] = jobs[i]
        BY <3>0, <3>2 DEF FailStorageJob, TransitionJob
      <4>2. jobs'[j].status = "failed"
        BY <2>1, <3>0, <3>2 DEF FailStorageJob, TransitionJob, Row
      <4> QED BY <1>0, <4>1, <4>2
    <3>3. CASE UNCHANGED jobs BY <1>0, <3>3
    <3> QED BY <1>7, <3>1, <3>2, <3>3 DEF PersistOutcome, storeVars, j
  <2>3. writers'[w].pc = "idle"
    BY <1>0, <1>7 DEF PersistOutcome, IdleWriter
  <2> QED BY <1>0, <1>9, <1>13, <2>1, <2>2, <2>3
<1>8. CASE PersistOutcomeFails(w)
  <2>1. /\ UNCHANGED <<jobs, results, rows, files, temporary, litter>>
        /\ w \notin temporary /\ j \in Jobs
    BY <1>0, <1>8 DEF PersistOutcomeFails, fileVars, At
  <2>2. mishaps' \in [Jobs -> SUBSET Mishaps]
    BY <1>10, <1>8, <2>1 DEF PersistOutcomeFails, Mishaps, j
  <2>3. writers'[w].pc = "idle"
    BY <1>0, <1>8 DEF PersistOutcomeFails, IdleWriter
  <2> QED BY <1>0, <1>9, <1>13, <2>1, <2>2, <2>3
<1>11. CASE UndoOne(w)
  <2> DEFINE p == writers[w].place - 1
             i == IndexAt(w, p)
  <2>1. w \notin temporary /\ j \in Jobs /\ ~At(w, "idle")
    BY <1>0, <1>11 DEF UndoOne, At
  <2>2. i \in Images
    <3>1. s.place \in Nat \ {0} /\ s.place <= Len(BatchOf(s)) + 1
      BY <1>0, <1>11 DEF UndoOne, At, GoodWriter, WriterState, s
    <3>2. 1..(s.place - 1) # {} BY <1>11 DEF UndoOne, Written, s
    <3>3. p \in 1..Len(Batch(w))
      BY <2>1, <3>1, <3>2, BusyWriter DEF s
    <3> QED BY <2>1, <3>3, BusyWriter DEF IndexAt
  <2> HIDE DEF i
  <2>3. /\ UNCHANGED <<jobs, results, rows, temporary, litter>>
        /\ \/ files' = [files EXCEPT ![j][i] = None] /\ UNCHANGED mishaps
           \/ Mishap(j, "removal") /\ UNCHANGED files
    BY <1>11 DEF UndoOne, j, i
  <2>4. mishaps' \in [Jobs -> SUBSET Mishaps]
    BY <1>10, <2>1, <2>3 DEF Mishaps
  <2>5. files' \in [Jobs -> [Images -> Image \cup {None}]]
    <3>1. CASE files' = [files EXCEPT ![j][i] = None]
      BY <1>0, <2>1, <2>2, <3>1
    <3> QED BY <1>0, <2>3, <3>1
  <2>6. writers'[w].pc = "undo"
    BY <1>0, <1>11 DEF UndoOne, At, WriterState
  <2> QED BY <1>0, <1>9, <1>13, <2>1, <2>3, <2>4, <2>5, <2>6
<1>12. CASE UndoDone(w)
  <2>1. /\ UNCHANGED <<jobs, results, rows, files, temporary, litter, mishaps>>
        /\ w \notin temporary
    BY <1>0, <1>12 DEF UndoDone, fileVars, At
  <2>2. writers'[w].pc # "succeed"
    BY <1>0, <1>12 DEF UndoDone, IdleWriter, WriterState
  <2> QED BY <1>0, <1>9, <1>13, <2>1, <2>2
<1> QED
  BY <1>1, <1>14, <1>2, <1>3, <1>4, <1>5, <1>6, <1>7, <1>8, <1>11, <1>12
     DEF Save

LEMMA InitShape == Init => ShapeInv
<1> SUFFICES ASSUME Init PROVE ShapeInv OBVIOUS
<1>1. RowInv BY InitRowInv DEF Init
<1>2. results = {j \in Jobs : \E i \in Images : rows[j][i] # None}
  BY DEF Init, StoreInit
<1>3. \A w \in Writers : writers[w].pc = "idle" BY DEF Init, IdleWriter
<1>4. \A j \in Jobs : jobs[j].status # "succeeded"
  BY DEF Init, StoreInit, NoRow
<1>5. \A j \in Jobs, i \in Images : rows[j][i] = None BY DEF Init
<1> QED
  BY <1>1, <1>2, <1>3, <1>4, <1>5, IdleIsGood
     DEF ShapeInv, RowsDescribe, At, Init

LEMMA StepShape ==
  ASSUME ShapeInv, [Next]_persistenceVars
  PROVE  ShapeInv'
<1>0. RowInv' BY StepIsStoreStep, StepRowInv DEF ShapeInv
<1>9. generated' = generated BY GeneratedStays
\* Nothing but the writers' part and the history changes.
<1>10. ASSUME UNCHANGED <<results, rows, files>>,
              \A j \in Jobs : jobs'[j].status = "succeeded" =>
                jobs[j].status = "succeeded",
              writers' \in [Writers -> WriterState],
              \A w \in Writers : GoodWriter(writers'[w]),
              \A w \in Writers : writers'[w].pc = "succeed" =>
                writers'[w] = writers[w],
              temporary' \subseteq Writers,
              \A w \in temporary' : writers'[w].pc = "publish",
              litter' \subseteq Jobs,
              mishaps' \in [Jobs -> SUBSET Mishaps]
       PROVE  ShapeInv'
  <2>1. \A w \in Writers : GoodWriter(writers[w])'
    BY <1>9, <1>10 DEF GoodWriter, BatchOf
  <2>2. RowsDescribe' BY <1>9, <1>10 DEF ShapeInv, RowsDescribe
  <2>3. \A w \in Writers : writers'[w].pc = "succeed" => JobOf(w)' \in results'
    BY <1>10 DEF ShapeInv, At, JobOf
  <2> QED BY <1>0, <1>9, <1>10, <2>1, <2>2, <2>3 DEF ShapeInv, At
<1>1. CASE UNCHANGED persistenceVars \/ Read
  <2>1. UNCHANGED <<jobs, results, rows, files, writers, temporary, litter, mishaps>>
    BY <1>1 DEF persistenceVars, Read, ReadMetadata, CheckExists, OpenStream,
       ReadEnds, fileVars
  <2> QED BY <1>10, <2>1 DEF ShapeInv, At
<1>2. CASE \E w \in Writers : Save(w)
  <2>1. PICK w \in Writers : Save(w) BY <1>2
  <2>2. /\ GoodWriter(writers'[w])
        /\ writers' = [writers EXCEPT ![w] = writers'[w]]
        /\ writers'[w].pc \in {"idle", "poll"} \/ writers'[w].job = JobOf(w)
    BY <2>1, SaveMovesWriter
  <2>3. /\ writers' \in [Writers -> WriterState]
        /\ \A v \in Writers : GoodWriter(writers'[v])
    BY <2>2 DEF ShapeInv, GoodWriter
  <2>4. \A v \in Writers : GoodWriter(writers[v])'
    BY <1>9, <2>3 DEF GoodWriter, BatchOf
  <2>5. \A v \in Writers : writers'[v].pc = "succeed" => JobOf(v)' \in results'
    BY <2>1, <2>2, SaveShape DEF ShapeInv, At, JobOf
  <2> QED BY <1>0, <1>9, <2>1, <2>3, <2>4, <2>5, SaveShape DEF ShapeInv, At
<1>4. CASE \E j \in Jobs : Elsewhere(j)
  <2>1. PICK j \in Jobs : Elsewhere(j) BY <1>4
  <2>2. /\ UNCHANGED <<results, rows, files, writers, temporary, litter>>
        /\ \A i \in Jobs : jobs'[i].status = "succeeded" =>
             jobs[i].status = "succeeded"
    <3>1. jobs \in [Jobs -> Row] BY DEF ShapeInv, RowInv, StoreTypeOK
    <3>2. UNCHANGED <<results, rows, files, writers, temporary, litter>>
      BY <2>1 DEF Elsewhere, Outside, OtherFiber, CreateJobIfCapacity,
         RequestCancellation, ClaimQueued, BindRemote, RenewLease,
         RecordProgress, RequeueJob, FailJob, CancelRemoteJob, TransitionJob,
         fileVars
    <3>3. Outside(j) \/ OtherFiber(j) BY <2>1 DEF Elsewhere
    <3> QED BY <3>1, <3>2, <3>3, ElsewhereNeverSucceeds
  <2>3. mishaps' \in [Jobs -> SUBSET Mishaps]
    BY <2>1 DEF Elsewhere, NotedIfOverlapping, Mishap, Mishaps, ShapeInv
  <2> QED BY <1>10, <2>2, <2>3 DEF ShapeInv, At
<1>5. CASE Stop
  <2>1. /\ writers' \in [Writers -> WriterState]
        /\ \A v \in Writers : GoodWriter(writers'[v])
        /\ \A v \in Writers : writers'[v].pc = "idle"
        /\ temporary' = {}
        /\ UNCHANGED <<jobs, results, rows, files>>
    BY <1>5, IdleIsGood DEF Stop, IdleWriter
  <2>2. \A w \in temporary : JobOf(w) \in Jobs
    <3> SUFFICES ASSUME NEW w \in temporary PROVE JobOf(w) \in Jobs OBVIOUS
    <3>1. w \in Writers /\ ~At(w, "idle") BY DEF ShapeInv, At
    <3> QED BY <3>1, BusyWriter
  <2>3. litter' \subseteq Jobs BY <1>5, <2>2 DEF Stop, ShapeInv
  <2>4. mishaps' \in [Jobs -> SUBSET Mishaps]
    BY <1>5 DEF Stop, ShapeInv, Mishaps
  <2> QED BY <1>10, <2>1, <2>3, <2>4
<1> QED BY <1>1, <1>2, <1>4, <1>5 DEF Next

-----------------------------------------------------------------------------
(* One job, its saver, its files and its rows.                             *)

\* What is known of a job stays known when its part of the state stays, its
\* history grows, and its row moves neither to nor from success nor away from
\* a saver.
LEMMA JobStays ==
  ASSUME NEW j \in Jobs, JobInv(j),
         files'[j] = files[j], rows'[j] = rows[j], generated' = generated,
         mishaps[j] \subseteq mishaps'[j],
         SaversOf(j)' = SaversOf(j),
         \A w \in SaversOf(j) : writers'[w] = writers[w],
         jobs'[j].status = "succeeded" <=> jobs[j].status = "succeeded",
         jobs[j].status = "succeeded" => jobs'[j].attempt = jobs[j].attempt,
         SaversOf(j) # {} /\ jobs[j].status = "running"
           => /\ jobs'[j].status = "running"
              /\ jobs'[j].attempt = jobs[j].attempt
  PROVE  JobInv(j)'
<1> SUFFICES ASSUME ~Overtaken(j)' PROVE JobInv(j)' BY DEF JobInv
<1>1. ~Overtaken(j) BY DEF Overtaken
<1>2. mishaps'[j] = {} => mishaps[j] = {} OBVIOUS
<1>3. ASSUME NEW w \in SaversOf(j)' PROVE Saved(w)'
  <2>1. /\ Saved(w)
        /\ JobOf(w) = j
        /\ writers'[w] = writers[w]
        /\ jobs[j].status = "running"
        /\ SaversOf(j) # {}
    BY <1>1, <1>3 DEF JobInv, SaversOf, Saved
  <2>2. jobs'[j].status = "running" /\ jobs'[j].attempt = jobs[j].attempt
    BY <2>1
  <2> DEFINE s == writers[w]
  <2>5. JobOf(w)' = j /\ BatchOf(s)' = BatchOf(s) BY <2>1 DEF JobOf, BatchOf
  <2>6. \A i \in Images : Current(j, rows[j][i]) => Current(j, rows[j][i])'
    BY <2>2 DEF Current
  <2> QED BY <1>2, <2>1, <2>2, <2>5, <2>6 DEF Saved
<1>4. jobs'[j].status = "succeeded" => Backed(j)'
  BY <1>1 DEF JobInv, Backed, Current
<1>5. mishaps'[j] = {} /\ SaversOf(j)' = {} /\ jobs'[j].status # "succeeded"
        => Clean(j)'
  BY <1>1, <1>2 DEF JobInv, Clean
<1>6. \A v, w \in SaversOf(j)' : v = w BY <1>1 DEF JobInv
<1> QED BY <1>3, <1>4, <1>5, <1>6 DEF JobInv

\* A worker that follows its work, or stops following it, is no saver.
LEMMA PollKeepsJobInv ==
  ASSUME ShapeInv, NEW w \in Writers,
         (\E i \in Jobs : FollowWork(w, i)) \/ StopPolling(w),
         NEW j \in Jobs, JobInv(j)
  PROVE  JobInv(j)'
<1>1. /\ writers \in [Writers -> WriterState]
      /\ UNCHANGED <<jobs, results, rows, mishaps, generated, files>>
  BY DEF ShapeInv, FollowWork, StopPolling, fileVars
<1>2. writers[w].pc \in {"idle", "poll"} BY DEF FollowWork, StopPolling, At
<1>3. writers'[w].pc \in {"idle", "poll"}
  <2>1. CASE StopPolling(w) BY <1>1, <2>1 DEF StopPolling, IdleWriter
  <2>2. ASSUME NEW i \in Jobs, FollowWork(w, i)
        PROVE  writers'[w].pc = "poll"
    BY <1>1, <2>2 DEF FollowWork, IdleWriter
  <2> QED BY <2>1, <2>2
<1>4. \A v \in Writers : v # w => writers'[v] = writers[v]
  BY <1>1 DEF FollowWork, StopPolling
<1>5. /\ SaversOf(j)' = SaversOf(j)
      /\ \A v \in SaversOf(j) : writers'[v] = writers[v]
  BY <1>2, <1>3, <1>4 DEF SaversOf, JobOf, Polling
<1> QED BY <1>1, <1>5, JobStays

\* A writer leaves the files, rows, history and savers of other jobs alone.
LEMMA OtherJobsStay ==
  ASSUME ShapeInv, NEW w \in Writers, Save(w),
         ~At(w, "idle"), ~StopPolling(w), NEW j \in Jobs, JobOf(w) # j
  PROVE  /\ files'[j] = files[j]
         /\ rows'[j] = rows[j]
         /\ mishaps'[j] = mishaps[j]
         /\ jobs'[j] = jobs[j]
         /\ SaversOf(j)' = SaversOf(j)
         /\ \A v \in SaversOf(j) : writers'[v] = writers[v]
<1> DEFINE i == JobOf(w)
<1>0. /\ files \in [Jobs -> [Images -> Image \cup {None}]]
      /\ rows \in [Jobs -> [Images -> Image \cup {None}]]
      /\ writers \in [Writers -> WriterState]
      /\ mishaps \in [Jobs -> SUBSET Mishaps]
      /\ jobs \in [Jobs -> Row]
      /\ i \in Jobs /\ i # j
      /\ j # None
      /\ \A k \in Jobs : ~FollowWork(w, k)
  BY BusyWriter, NamesAssumption, StoreAssumption
     DEF ShapeInv, RowInv, StoreTypeOK, FollowWork
<1>1. writers' = [writers EXCEPT ![w] = writers'[w]]
      /\ writers'[w].job \in {i, None}
  BY SaveMovesWriter
<1>2. /\ SaversOf(j)' = SaversOf(j)
      /\ \A v \in SaversOf(j) : writers'[v] = writers[v]
  BY <1>0, <1>1 DEF SaversOf, JobOf, Polling
<1> HIDE DEF i
<1>3. files'[j] = files[j]
  BY <1>0
     DEF Save, BeginSave, WriteTemporary, PublishTemporary, WriteFails,
         SaveRows, SaveRowsFails, PersistOutcome, PersistOutcomeFails, UndoOne,
         UndoDone, fileVars, i
<1>4. rows'[j] = rows[j]
  BY <1>0
     DEF Save, BeginSave, WriteTemporary, PublishTemporary, WriteFails,
         SaveRows, SaveRowsFails, PersistOutcome, PersistOutcomeFails, UndoOne,
         UndoDone, i
<1>5. mishaps'[j] = mishaps[j]
  BY <1>0
     DEF Save, BeginSave, WriteTemporary, PublishTemporary, WriteFails,
         SaveRows, SaveRowsFails, PersistOutcome, PersistOutcomeFails, UndoOne,
         UndoDone, Mishap, i
<1>6. jobs'[j] = jobs[j]
  BY <1>0
     DEF Save, BeginSave, WriteTemporary, PublishTemporary, WriteFails,
         SaveRows, SaveRowsFails, PersistOutcome, PersistOutcomeFails, UndoOne,
         UndoDone, SaveResults, SucceedJob, FailStorageJob, TransitionJob,
         storeVars, i
<1> QED BY <1>2, <1>3, <1>4, <1>5, <1>6

\* A save that begins is alone on its job and in time, or that is noted.
LEMMA BeginKeepsJobInv ==
  ASSUME ShapeInv, NEW w \in Writers, BeginSave(w), NEW j \in Jobs, JobOf(w) = j,
         JobInv(j)
  PROVE  JobInv(j)'
<1> DEFINE s == writers[w]
           t == writers'[w]
<1>0. /\ writers \in [Writers -> WriterState]
      /\ mishaps \in [Jobs -> SUBSET Mishaps]
      /\ s \in WriterState
      /\ s.pc = "poll" /\ s.place = 1
      /\ j \in Jobs
      /\ UNCHANGED <<jobs, rows, files, generated>>
      /\ mishaps'[j] = mishaps[j] \cup MetAtSave(w, j)
  BY BusyWriter DEF ShapeInv, BeginSave, GoodWriter, At, fileVars
<1>1. CASE MetAtSave(w, j) # {}
  <2>1. MetAtSave(w, j) \subseteq {"overlap", "late"} BY DEF MetAtSave
  <2>2. Overtaken(j)' BY <1>0, <1>1, <2>1 DEF Overtaken
  <2> QED BY <2>2 DEF JobInv
<1>2. CASE MetAtSave(w, j) = {}
  <2>1. /\ SaversOf(j) = {}
        /\ jobs[j].status = "running"
        /\ jobs[j].attempt = s.attempt
    BY <1>2 DEF MetAtSave
  <2>2. PICK pc \in {"write", "failStorage"} :
          writers' = [writers EXCEPT ![w].pc = pc]
    BY DEF BeginSave, Goes
  <2>3. /\ t.pc = pc /\ t.job = j /\ t.place = 1 /\ t.attempt = s.attempt
        /\ \A v \in Writers : v # w => writers'[v] = writers[v]
    BY <1>0, <2>2 DEF WriterState, JobOf
  <2>4. SaversOf(j)' = {w}
    BY <2>1, <2>3 DEF SaversOf, JobOf, Polling
  <2>5. mishaps'[j] = mishaps[j] BY <1>0, <1>2
  <2>6. SUFFICES ASSUME ~Overtaken(j) PROVE JobInv(j)'
    BY <2>5 DEF JobInv, Overtaken
  <2>7. mishaps[j] = {} => Clean(j)
    BY <1>0, <2>1, <2>6 DEF JobInv
  <2>8. \A f, b, a : Stored(f, b, a, 0) BY DEF Stored
  <2>9. Saved(w)'
    <3>1. JobOf(w)' = j /\ (t.place - 1) = 0 BY <2>3 DEF JobOf
    <3>2. mishaps[j] = {} => \A b : OnlyStored(files[j], b, 0)
      BY <2>7 DEF Clean, OnlyStored
    <3> QED
      BY <1>0, <2>1, <2>3, <2>5, <2>7, <2>8, <3>1, <3>2 DEF Saved, Clean
  <2>10. jobs'[j].status # "succeeded" BY <1>0, <2>1
  <2> QED BY <2>4, <2>9, <2>10 DEF JobInv
<1> QED BY <1>1, <1>2

\* What the only saver of a job does to it.
LEMMA SaveKeepsJobInv ==
  ASSUME ShapeInv, NEW w \in Writers, NEW j \in Jobs, JobInv(j), Save(w),
         JobOf(w) = j, ~Polling(w)
  PROVE  JobInv(j)'
<1> DEFINE s == writers[w]
           t == writers'[w]
           a == s.attempt
           b == generated[j][a]
<1>0. /\ writers \in [Writers -> WriterState]
      /\ s \in WriterState
      /\ GoodWriter(s)
      /\ s.job = j
      /\ s.place \in Nat \ {0}
      /\ j # None
      /\ s.pc \notin {"idle", "poll"}
      /\ jobs \in [Jobs -> Row]
      /\ files \in [Jobs -> [Images -> Image \cup {None}]]
      /\ mishaps \in [Jobs -> SUBSET Mishaps]
  BY NamesAssumption, StoreAssumption
     DEF ShapeInv, RowInv, StoreTypeOK, JobOf, WriterState, Polling
<1>1. /\ a \in 1..ClaimCap
      /\ Batch(w) = b /\ BatchOf(s) = b
      /\ Len(b) \in Nat /\ DOMAIN b = 1..Len(b)
      /\ \A p \in 1..Len(b) : b[p] \in Images
  BY <1>0, BusyWriter DEF At, BatchOf
<1>2. /\ writers' = [writers EXCEPT ![w] = t]
      /\ t.job \in {j, None}
      /\ generated' = generated
  BY <1>0, SaveMovesWriter, GeneratedStays DEF At, Next
<1>3. mishaps[j] \subseteq mishaps'[j] 
  <2>1. UNCHANGED mishaps \/ Mishap(j, "removal") \/ Mishap(j, "transition")
    BY <1>0
       DEF Save, FollowWork, StopPolling, BeginSave, At, WriteTemporary,
           PublishTemporary, WriteFails, SaveRows, SaveRowsFails,
           PersistOutcome, PersistOutcomeFails, UndoOne, UndoDone
  <2>2. ASSUME NEW kind \in {"removal", "transition"}, Mishap(j, kind)
        PROVE  mishaps'[j] = mishaps[j] \cup {kind}
    BY <1>0, <2>2 DEF Mishap
  <2> QED BY <2>1, <2>2
<1>4. SUFFICES ASSUME ~Overtaken(j) PROVE JobInv(j)'
  BY <1>3 DEF JobInv, Overtaken
<1>5. Saved(w) /\ SaversOf(j) = {w}
  BY <1>0, <1>4 DEF JobInv, SaversOf, JobOf, Polling
<1>6. /\ jobs[j].status = "running" /\ jobs[j].attempt = a
      /\ s.pc \in {"write", "publish", "rows", "succeed"} =>
           Stored(files[j], b, a, s.place - 1)
      /\ mishaps[j] = {} => OnlyStored(files[j], b, s.place - 1)
      /\ mishaps[j] = {} /\ s.pc # "succeed" =>
           \A i \in Images : rows[j][i] = None
  BY <1>0, <1>1, <1>5 DEF Saved, JobOf
<1>7. mishaps'[j] = {} => mishaps[j] = {} BY <1>3
\* The saver goes on, and has done what its place says.
<1>8. ASSUME t.job = j, t.attempt = a, t.pc \notin {"idle", "poll"},
             UNCHANGED jobs,
             t.pc \in {"write", "publish", "rows", "succeed"} =>
               Stored(files'[j], b, a, t.place - 1),
             t.pc = "succeed" =>
               \A i \in Images : (\E p \in 1..(t.place - 1) : b[p] = i) =>
                 Current(j, rows[j][i])',
             mishaps'[j] = {} => OnlyStored(files'[j], b, t.place - 1),
             mishaps'[j] = {} /\ t.pc # "succeed" =>
               \A i \in Images : rows'[j][i] = None
      PROVE  JobInv(j)'
  <2>1. SaversOf(j)' = {w}
    BY <1>0, <1>2, <1>5, <1>8 DEF SaversOf, JobOf, Polling
  <2>2. JobOf(w)' = j BY <1>8 DEF JobOf
  <2>3. BatchOf(writers[w])' = b BY <1>2, <1>8 DEF BatchOf
  <2>4. Saved(w)' BY <1>6, <1>8, <2>2, <2>3 DEF Saved
  <2>5. jobs'[j].status # "succeeded" BY <1>6, <1>8
  <2> QED BY <2>1, <2>4, <2>5 DEF JobInv
\* The saver leaves, and the job is left as it should be.
<1>9. ASSUME t = IdleWriter,
             jobs'[j].status = "succeeded" => Backed(j)',
             mishaps'[j] = {} /\ jobs'[j].status # "succeeded" => Clean(j)'
      PROVE  JobInv(j)'
  <2>1. SaversOf(j)' = {}
    BY <1>0, <1>2, <1>5, <1>9 DEF SaversOf, JobOf, Polling, IdleWriter
  <2> QED BY <1>9, <2>1 DEF JobInv
<1> HIDE DEF s, t, a, b
<1>10. CASE (\E i \in Jobs : FollowWork(w, i)) \/ StopPolling(w) \/ BeginSave(w)
  BY <1>0, <1>10 DEF FollowWork, StopPolling, BeginSave, At, s
<1>11. CASE WriteTemporary(w)
  <2>1. /\ UNCHANGED <<jobs, rows, files, mishaps>>
        /\ t = [s EXCEPT !.pc = "publish"]
        /\ s.pc = "write"
    BY <1>0, <1>11 DEF WriteTemporary, Goes, At, s, t
  <2>2. t.job = j /\ t.pc = "publish" /\ t.place = s.place /\ t.attempt = a
    BY <1>0, <2>1 DEF WriterState, a
  <2> QED BY <1>6, <1>7, <1>8, <2>1, <2>2
<1>12. CASE PublishTemporary(w)
  <2> DEFINE p == s.place
             m == [attempt |-> a, place |-> p]
  <2>0. /\ s.pc = "publish"
        /\ p \in 1..Len(b) /\ b[p] \in Images
    BY <1>0, <1>1, <1>12 DEF PublishTemporary, At, GoodWriter, s
  <2>1. /\ UNCHANGED <<jobs, rows, mishaps>>
        /\ files' = [files EXCEPT ![j][b[p]] = m]
    BY <1>1, <1>12 DEF PublishTemporary, IndexAt, ImageAt, s, a
  <2>2. PICK pc \in {"rows", "write"} : t = [s EXCEPT !.place = p + 1, !.pc = pc]
    BY <1>0, <1>12 DEF PublishTemporary, WriterState, s, t
  <2>3. /\ t.job = j /\ t.pc \in {"rows", "write"}
        /\ t.place - 1 = p /\ t.attempt = a
    BY <1>0, <2>2 DEF WriterState, a
  <2>4. /\ files'[j][b[p]] = m
        /\ \A i \in Images : i # b[p] => files'[j][i] = files[j][i]
    BY <1>0, <2>0, <2>1
  <2>5. /\ p \in 1..p /\ \A q \in 1..p : q <= p
        /\ 1..(p - 1) \subseteq 1..p
        /\ \A q \in 1..p : q = p \/ q \in 1..(p - 1)
    BY <2>0, <1>1
  <2>6. Stored(files'[j], b, a, p)
    <3> SUFFICES ASSUME NEW i \in Images, NEW q0 \in 1..p, b[q0] = i
                 PROVE  \E q \in 1..p : LastOf(b, p, q, i) /\
                          files'[j][i] = [attempt |-> a, place |-> q]
      BY DEF Stored
    <3>1. CASE i = b[p]
      BY <2>4, <2>5, <3>1 DEF LastOf
    <3>2. CASE i # b[p]
      <4>1. q0 \in 1..(p - 1) BY <2>5, <3>2
      <4>2. PICK q \in 1..(p - 1) :
              LastOf(b, p - 1, q, i) /\ files[j][i] = [attempt |-> a, place |-> q]
        BY <1>6, <2>0, <4>1 DEF Stored
      <4>3. LastOf(b, p, q, i) BY <2>5, <3>2, <4>2 DEF LastOf
      <4> QED BY <2>4, <2>5, <3>2, <4>2, <4>3
    <3> QED BY <3>1, <3>2
  <2>7. mishaps'[j] = {} => OnlyStored(files'[j], b, p)
    <3> SUFFICES ASSUME mishaps'[j] = {}, NEW i \in Images,
                        \A q \in 1..p : b[q] # i
                 PROVE  files'[j][i] = None
      BY DEF OnlyStored
    <3>1. i # b[p] /\ \A q \in 1..(p - 1) : b[q] # i BY <2>5
    <3> QED BY <1>6, <1>7, <2>4, <3>1 DEF OnlyStored
  <2>8. mishaps'[j] = {} => \A i \in Images : rows'[j][i] = None
    BY <1>6, <1>7, <2>0, <2>1
  <2> HIDE DEF p
  <2> QED BY <1>8, <2>1, <2>3, <2>6, <2>7, <2>8
<1>13. CASE WriteFails(w)
  <2>1. /\ UNCHANGED <<jobs, rows, files>>
        /\ t = [s EXCEPT !.pc = "undo", !.cause = "storage"]
        /\ s.pc \in {"write", "publish"}
    BY <1>0, <1>13 DEF WriteFails, s, t
  <2>2. t.job = j /\ t.pc = "undo" /\ t.place = s.place /\ t.attempt = a
    BY <1>0, <2>1 DEF WriterState, a
  <2> QED BY <1>6, <1>7, <1>8, <2>1, <2>2
<1>14. CASE SaveRows(w)
  <2>1. /\ UNCHANGED <<jobs, files, mishaps>>
        /\ t = [s EXCEPT !.pc = "succeed"]
        /\ s.pc = "rows" /\ s.place = Len(b) + 1
    BY <1>0, <1>1, <1>14
       DEF SaveRows, SaveResults, Goes, At, JobOf, fileVars, GoodWriter, s, t
  <2>2. /\ t.job = j /\ t.pc = "succeed" /\ t.place = s.place /\ t.attempt = a
        /\ s.place - 1 = Len(b)
    BY <1>0, <1>1, <2>1 DEF WriterState, a
  <2>5. ASSUME NEW i \in Images, NEW q0 \in 1..Len(b), b[q0] = i
        PROVE  Current(j, rows[j][i])'
    <3>1. PICK p \in 1..Len(b) : LastOf(b, Len(b), p, i)
      BY <1>6, <2>1, <2>2, <2>5 DEF Stored
    <3>2. p \in DOMAIN b /\ LastAt(b, p, i) BY <1>1, <3>1 DEF LastOf, LastAt
    <3>3. rows'[j][i] = ImageAt(w, p)
      BY <1>1, <1>14, <3>2, RowsAfterSave
    <3>4. ImageAt(w, p) \in Image
      BY <1>1, <3>1 DEF ImageAt, Image, a, s
    <3>5. ImageAt(w, p).attempt = a BY DEF ImageAt, a, s
    <3> QED
      BY <1>6, <2>1, <3>3, <3>4, <3>5, PersistenceAssumption DEF Current
  <2> QED BY <1>6, <1>7, <1>8, <2>1, <2>2, <2>5
<1>15. CASE SaveRowsFails(w)
  <2>1. /\ UNCHANGED <<jobs, rows, files, mishaps>>
        /\ t = [s EXCEPT !.pc = "undo", !.cause = "database"]
        /\ s.pc = "rows"
    BY <1>0, <1>15 DEF SaveRowsFails, At, fileVars, s, t
  <2>2. t.job = j /\ t.pc = "undo" /\ t.place = s.place /\ t.attempt = a
    BY <1>0, <2>1 DEF WriterState, a
  <2> QED BY <1>6, <1>7, <1>8, <2>1, <2>2
<1>16. CASE PersistOutcome(w)
  <2>1. /\ UNCHANGED <<rows, files, mishaps>>
        /\ t = IdleWriter
        /\ s.pc \in {"succeed", "failStorage"}
    BY <1>0, <1>16 DEF PersistOutcome, fileVars, s, t
  <2>2. /\ jobs'[j].status = IF s.pc = "succeed" THEN "succeeded" ELSE "failed"
        /\ jobs'[j].attempt = a
    BY <1>0, <1>6, <1>16
       DEF PersistOutcome, At, SucceedJob, FailStorageJob, TransitionJob, Row,
           JobOf, s
  <2>3. CASE s.pc = "succeed"
    <3>0. s.place - 1 = Len(b) /\ 1 \in 1..Len(b)
      BY <1>0, <1>1, <2>3 DEF GoodWriter
    <3>1. \A i \in Images : (\E p \in 1..Len(b) : b[p] = i) =>
            Current(j, rows[j][i])
      BY <1>1, <1>5, <2>3, <3>0 DEF Saved, JobOf, s
    <3>2. PICK first \in Images : Current(j, rows[j][first])
      BY <1>1, <3>0, <3>1
    <3>3. ASSUME NEW i \in Images, Current(j, rows[j][i])
          PROVE  files[j][i] = rows[j][i]
      <4> DEFINE m == rows[j][i]
      <4>1. /\ m # None /\ m.attempt = a /\ m \in Image
        BY <1>6, <3>3 DEF Current, ShapeInv
      <4>2. LastAt(b, m.place, i) BY <4>1 DEF ShapeInv, RowsDescribe, b
      <4>3. m.place \in 1..Len(b) /\ b[m.place] = i
            /\ \A q \in 1..Len(b) : b[q] = i => q <= m.place
        BY <1>1, <4>2 DEF LastAt
      <4>4. PICK p \in 1..Len(b) :
              LastOf(b, Len(b), p, i) /\ files[j][i] = [attempt |-> a, place |-> p]
        BY <1>6, <2>3, <3>0, <4>3 DEF Stored
      <4>5. p <= m.place /\ m.place <= p BY <4>3, <4>4 DEF LastOf
      <4>6. p = m.place BY <1>1, <4>3, <4>4, <4>5
      <4>7. m = [attempt |-> a, place |-> p] BY <4>1, <4>6 DEF Image
      <4> QED BY <4>4, <4>7
    <3>4. ASSUME NEW i \in Images
          PROVE  Current(j, rows[j][i])' <=> Current(j, rows[j][i])
      BY <1>6, <2>1, <2>2 DEF Current
    <3>5. Backed(j)' BY <2>1, <3>2, <3>3, <3>4 DEF Backed
    <3> QED BY <1>9, <2>1, <2>2, <2>3, <3>5
  <2>4. CASE s.pc = "failStorage"
    <3>1. s.place - 1 = 0 BY <1>0, <2>4 DEF GoodWriter
    <3>2. mishaps[j] = {} => Clean(j)
      BY <1>6, <2>4, <3>1 DEF Clean, OnlyStored
    <3>3. mishaps'[j] = {} => Clean(j)' BY <2>1, <3>2 DEF Clean
    <3> QED BY <1>9, <2>1, <2>2, <2>4, <3>3
  <2> QED BY <2>1, <2>3, <2>4
<1>17. CASE PersistOutcomeFails(w)
  <2>1. t = IdleWriter /\ mishaps'[j] # {} /\ UNCHANGED jobs
    BY <1>0, <1>17 DEF PersistOutcomeFails, Mishap, JobOf, s, t
  <2> QED BY <1>6, <1>9, <2>1
<1>18. CASE UndoOne(w)
  <2> DEFINE p == s.place - 1
  <2>1. /\ UNCHANGED <<jobs, rows>>
        /\ t = [s EXCEPT !.place = p]
        /\ s.pc = "undo"
        /\ 1..p # {}
    BY <1>0, <1>18 DEF UndoOne, At, Written, s, t
  <2>2. /\ t.job = j /\ t.pc = "undo"
        /\ t.place = p /\ t.attempt = a
    BY <1>0, <2>1 DEF WriterState, a
  <2>3. p \in 1..Len(b) /\ b[p] \in Images
    <3>1. p <= Len(b) BY <1>0, <1>1, <2>1 DEF GoodWriter
    <3>2. p \in Nat /\ p # 0 BY <1>0, <2>1
    <3> HIDE DEF p
    <3>3. p \in 1..Len(b) BY <1>1, <3>1, <3>2
    <3> QED BY <1>1, <3>3
  <2>4. mishaps'[j] = {} => files' = [files EXCEPT ![j][b[p]] = None]
    BY <1>0, <1>1, <1>18 DEF UndoOne, Mishap, JobOf, IndexAt, s
  <2>5. mishaps'[j] = {} => OnlyStored(files'[j], b, p - 1)
    <3> SUFFICES ASSUME mishaps'[j] = {}, NEW i \in Images,
                        \A q \in 1..(p - 1) : b[q] # i
                 PROVE  files'[j][i] = None
      BY DEF OnlyStored
    <3>0. files' = [files EXCEPT ![j][b[p]] = None] BY <2>4
    <3>1. CASE i = b[p] BY <1>0, <2>3, <3>0, <3>1
    <3>2. CASE i # b[p]
      <4>1. \A q \in 1..p : q = p \/ q \in 1..(p - 1) BY <2>3
      <4>2. \A q \in 1..p : b[q] # i BY <3>2, <4>1
      <4>3. files[j][i] = None BY <1>6, <1>7, <4>2 DEF OnlyStored
      <4> QED BY <1>0, <2>3, <3>0, <3>2, <4>3
    <3> QED BY <3>1, <3>2
  <2>6. mishaps'[j] = {} => \A i \in Images : rows'[j][i] = None
    BY <1>6, <1>7, <2>1
  <2> QED BY <1>8, <2>1, <2>2, <2>5, <2>6
<1>19. CASE UndoDone(w)
  <2>1. /\ UNCHANGED <<jobs, rows, files, mishaps>>
        /\ t = IF s.cause = "storage" THEN [s EXCEPT !.pc = "failStorage"]
               ELSE IdleWriter
        /\ s.pc = "undo"
    BY <1>0, <1>19 DEF UndoDone, At, fileVars, s, t
  <2>2. s.place - 1 = 0
    <3>1. 1..(s.place - 1) = {} BY <1>19 DEF UndoDone, Written, s
    <3>2. s.place \in Nat /\ s.place >= 1 BY <1>0
    <3>3. s.place >= 2 => 1 \in 1..(s.place - 1) BY <3>2
    <3> QED BY <3>1, <3>2, <3>3
  <2>3. CASE s.cause = "storage"
    <3>1. /\ t.job = j /\ t.pc = "failStorage"
          /\ t.place = s.place /\ t.attempt = a
      BY <1>0, <2>1, <2>3 DEF WriterState, a
    <3> QED BY <1>6, <1>7, <1>8, <2>1, <3>1
  <2>4. CASE s.cause # "storage"
    <3>1. mishaps[j] = {} => Clean(j)
      BY <1>6, <2>1, <2>2 DEF Clean, OnlyStored
    <3>2. mishaps'[j] = {} => Clean(j)' BY <2>1, <3>1 DEF Clean
    <3> QED BY <1>6, <1>9, <2>1, <2>4, <3>2
  <2> QED BY <2>3, <2>4
<1> QED
  BY <1>10, <1>11, <1>12, <1>13, <1>14, <1>15, <1>16, <1>17, <1>18, <1>19
     DEF Save

\* The rest of the system sees to it that a job it touches is not the one of
\* a saver, or the overlap is noted.
LEMMA ElsewhereKeepsJobInv ==
  ASSUME ShapeInv, NEW i \in Jobs, Elsewhere(i), NEW j \in Jobs, JobInv(j)
  PROVE  JobInv(j)'
<1>0. /\ mishaps \in [Jobs -> SUBSET Mishaps]
      /\ jobs \in [Jobs -> Row]
      /\ UNCHANGED <<rows, files, writers, generated>>
  BY DEF ShapeInv, RowInv, StoreTypeOK, Elsewhere, fileVars
<1>1. /\ SaversOf(j)' = SaversOf(j)
      /\ \A w \in SaversOf(j) : writers'[w] = writers[w]
  BY <1>0 DEF SaversOf, JobOf, Polling
<1>2. CASE i # j
  <2>1. jobs'[j] = jobs[j]
    <3>1. StoreStep(i)
      BY DEF Elsewhere, Outside, OtherFiber, StoreStep
    <3> QED BY <1>2, <3>1, OneRow DEF ShapeInv, RowInv
  <2>2. mishaps'[j] = mishaps[j]
    BY <1>0, <1>2 DEF Elsewhere, NotedIfOverlapping, Mishap
  <2> QED BY <1>0, <1>1, <2>1, <2>2, JobStays
<1>3. CASE i = j /\ Outside(j) /\ UNCHANGED mishaps
  <2>1. /\ jobs'[j].attempt = jobs[j].attempt
        /\ \/ jobs'[j].status = jobs[j].status
           \/ /\ jobs[j].status \in {"absent", "queued"}
              /\ jobs'[j].status \in {"queued", "cancelled"}
    BY <1>0, <1>3
       DEF Outside, CreateJobIfCapacity, RequestCancellation, Row
  <2> QED BY <1>0, <1>1, <1>3, <2>1, JobStays
<1>4. CASE i = j /\ OtherFiber(j) /\ NotedIfOverlapping(j)
  <2>1. CASE SaversOf(j) = {}
    <3>1. \/ jobs'[j].status = jobs[j].status
             /\ jobs'[j].attempt = jobs[j].attempt
          \/ /\ jobs[j].status \in {"queued", "running"}
             /\ jobs'[j].status \in {"queued", "running", "failed", "cancelled"}
      <4>1. CASE ClaimQueued(j) BY <1>0, <4>1 DEF ClaimQueued, Row
      <4>2. CASE \E e \in Engines, r \in Remotes : BindRemote(j, e, r)
        BY <1>0, <4>2 DEF BindRemote, Row
      <4>3. CASE RenewLease(j) BY <1>0, <4>3 DEF RenewLease, Row
      <4>4. CASE \E p \in Progress : RecordProgress(j, p)
        BY <1>0, <4>4 DEF RecordProgress, Row
      <4>5. CASE RequeueJob(j) \/ FailJob(j) \/ CancelRemoteJob(j)
        BY <1>0, <4>5 DEF RequeueJob, FailJob, CancelRemoteJob, TransitionJob, Row
      <4> QED BY <1>4, <4>1, <4>2, <4>3, <4>4, <4>5 DEF OtherFiber
    <3>2. UNCHANGED mishaps BY <1>4, <2>1 DEF NotedIfOverlapping
    <3> QED BY <1>0, <1>1, <2>1, <3>1, <3>2, JobStays
  <2>2. CASE SaversOf(j) # {}
    <3>1. "overlap" \in mishaps'[j]
      BY <1>0, <1>4, <2>2 DEF NotedIfOverlapping, Mishap
    <3> QED BY <3>1 DEF JobInv, Overtaken
  <2> QED BY <2>1, <2>2
<1> QED BY <1>2, <1>3, <1>4 DEF Elsewhere

\* A stop leaves no writer, and is noted where there was a saver.
LEMMA StopKeepsJobInv ==
  ASSUME ShapeInv, Stop, NEW j \in Jobs, JobInv(j)
  PROVE  JobInv(j)'
<1>0. /\ UNCHANGED <<jobs, rows, files, generated>>
      /\ j # None
      /\ mishaps'[j] = IF SaversOf(j) = {} THEN mishaps[j]
                       ELSE mishaps[j] \cup {"stop"}
  BY NamesAssumption, StoreAssumption DEF Stop
<1>1. SaversOf(j)' = {}
  <2>1. \A w \in Writers : writers'[w].job = None BY DEF Stop, IdleWriter
  <2> QED BY <1>0, <2>1 DEF SaversOf, JobOf
<1>2. CASE SaversOf(j) = {}
  <2>1. SaversOf(j)' = SaversOf(j) BY <1>1, <1>2
  <2> QED BY <1>0, <1>2, <2>1, JobStays
<1>3. CASE SaversOf(j) # {}
  <2>1. SUFFICES ASSUME ~Overtaken(j)' PROVE JobInv(j)' BY DEF JobInv
  <2>2. ~Overtaken(j) BY <1>0, <2>1 DEF Overtaken
  <2>3. PICK w \in SaversOf(j) : Saved(w) BY <1>3, <2>2 DEF JobInv
  <2>4. jobs'[j].status = "running" BY <1>0, <2>3 DEF Saved, SaversOf
  <2>5. mishaps'[j] # {} BY <1>0, <1>3
  <2> QED BY <1>1, <2>4, <2>5 DEF JobInv
<1> QED BY <1>2, <1>3

LEMMA StepFilesInv ==
  ASSUME FilesInv, [Next]_persistenceVars
  PROVE  FilesInv'
<1>0. ShapeInv /\ \A j \in Jobs : JobInv(j) BY DEF FilesInv
<1>1. ShapeInv' BY <1>0, StepShape
<1>2. ASSUME NEW j \in Jobs PROVE JobInv(j)'
  <2>0. JobInv(j) BY <1>0
  <2>1. CASE UNCHANGED persistenceVars \/ Read
    <3>1. UNCHANGED <<jobs, files, rows, mishaps, writers, generated>>
      BY <2>1 DEF persistenceVars, Read, ReadMetadata, CheckExists, OpenStream,
         ReadEnds, fileVars
    <3>2. /\ SaversOf(j)' = SaversOf(j)
          /\ \A w \in SaversOf(j) : writers'[w] = writers[w]
      BY <3>1 DEF SaversOf, JobOf, Polling
    <3> QED BY <2>0, <3>1, <3>2, JobStays
  <2>2. CASE \E w \in Writers : Save(w)
    <3>1. PICK w \in Writers : Save(w) BY <2>2
    <3>2. CASE (\E i \in Jobs : FollowWork(w, i)) \/ StopPolling(w)
      BY <1>0, <2>0, <3>2, PollKeepsJobInv
    <3>3. CASE BeginSave(w) /\ JobOf(w) = j
      BY <1>0, <2>0, <3>3, BeginKeepsJobInv
    <3>4. CASE JobOf(w) = j /\ ~Polling(w)
      BY <1>0, <2>0, <3>1, <3>4, SaveKeepsJobInv
    <3>5. CASE JobOf(w) # j /\ ~At(w, "idle") /\ ~StopPolling(w)
      <4>1. /\ files'[j] = files[j]
            /\ rows'[j] = rows[j]
            /\ mishaps'[j] = mishaps[j]
            /\ jobs'[j] = jobs[j]
            /\ SaversOf(j)' = SaversOf(j)
            /\ \A v \in SaversOf(j) : writers'[v] = writers[v]
        BY <1>0, <3>1, <3>5, OtherJobsStay
      <4>2. generated' = generated BY GeneratedStays
      <4> QED BY <2>0, <4>1, <4>2, JobStays
    <3>6. \/ \E i \in Jobs : FollowWork(w, i)
          \/ StopPolling(w)
          \/ BeginSave(w) /\ ~At(w, "idle")
          \/ ~Polling(w) /\ ~At(w, "idle")
      BY <3>1
         DEF Save, At, Polling, BeginSave, WriteTemporary, PublishTemporary,
             WriteFails, SaveRows, SaveRowsFails, PersistOutcome,
             PersistOutcomeFails, UndoOne, UndoDone
    <3> QED BY <3>2, <3>3, <3>4, <3>5, <3>6
  <2>3. CASE \E i \in Jobs : Elsewhere(i)
    BY <1>0, <2>0, <2>3, ElsewhereKeepsJobInv
  <2>4. CASE Stop BY <1>0, <2>0, <2>4, StopKeepsJobInv
  <2> QED BY <2>1, <2>2, <2>3, <2>4 DEF Next
<1> QED BY <1>1, <1>2 DEF FilesInv

-----------------------------------------------------------------------------
(* The download, and what is left behind.                                  *)

\* The history of a job only grows.
LEMMA HistoryGrows ==
  ASSUME ShapeInv, [Next]_persistenceVars, NEW j \in Jobs
  PROVE  mishaps[j] \subseteq mishaps'[j]
<1>0. mishaps \in [Jobs -> SUBSET Mishaps] BY DEF ShapeInv
<1>1. ASSUME NEW i, NEW kind, Mishap(i, kind)
      PROVE  mishaps[j] \subseteq mishaps'[j]
  BY <1>0, <1>1 DEF Mishap
<1>2. CASE \E w \in Writers : Save(w)
  <2>1. PICK w \in Writers : Save(w) BY <1>2
  <2>2. CASE BeginSave(w) BY <1>0, <2>2 DEF BeginSave
  <2>3. CASE ~BeginSave(w)
    <3>1. UNCHANGED mishaps \/ \E i, kind : Mishap(i, kind)
      BY <2>1, <2>3
         DEF Save, FollowWork, StopPolling, WriteTemporary, PublishTemporary,
             WriteFails, SaveRows, SaveRowsFails, PersistOutcome,
             PersistOutcomeFails, UndoOne, UndoDone
    <3> QED BY <1>1, <3>1
  <2> QED BY <2>2, <2>3
<1>3. CASE \E i \in Jobs : Elsewhere(i)
  BY <1>1, <1>3 DEF Elsewhere, NotedIfOverlapping
<1>4. CASE Stop BY <1>4 DEF Stop
<1>5. CASE Read \/ UNCHANGED persistenceVars
  BY <1>5
     DEF Read, ReadMetadata, CheckExists, OpenStream, ReadEnds, persistenceVars
<1> QED BY <1>2, <1>3, <1>4, <1>5 DEF Next

\* What was published stays where it is, and nobody writes it any more, unless
\* a save begins late.
LEMMA PublishedStays ==
  ASSUME FilesInv, [Next]_persistenceVars, NEW j \in Jobs,
         jobs[j].status = "succeeded", ~Overtaken(j)'
  PROVE  jobs'[j] = jobs[j] /\ rows'[j] = rows[j]
<1>0. ShapeInv /\ JobInv(j) BY DEF FilesInv
<1>1. ~Overtaken(j) BY <1>0, HistoryGrows DEF Overtaken
<1>2. jobs'[j] = jobs[j]
  BY <1>0, StepIsStoreStep, EndedRowStays DEF ShapeInv, Terminal
<1>3. CASE \E w \in Writers : Save(w)
  <2>1. PICK w \in Writers : Save(w) BY <1>3
  <2>2. CASE SaveRows(w)
    <3>1. ~At(w, "idle") /\ ~StopPolling(w) /\ ~Polling(w)
      BY <2>2 DEF SaveRows, At, StopPolling, Polling
    <3>2. \A v \in SaversOf(j) : jobs[j].status = "running"
      BY <1>0, <1>1 DEF JobInv, Saved, SaversOf
    <3>3. JobOf(w) # j BY <3>1, <3>2 DEF SaversOf
    <3> QED BY <1>0, <1>2, <2>1, <3>1, <3>3, OtherJobsStay
  <2>3. CASE ~SaveRows(w)
    <3>1. rows' = rows
      BY <2>1, <2>3
         DEF Save, FollowWork, StopPolling, BeginSave, WriteTemporary,
             PublishTemporary, WriteFails, SaveRowsFails, PersistOutcome,
             PersistOutcomeFails, UndoOne, UndoDone
    <3> QED BY <1>2, <3>1
  <2> QED BY <2>2, <2>3
<1>4. CASE (\E i \in Jobs : Elsewhere(i)) \/ Stop \/ Read \/ UNCHANGED persistenceVars
  BY <1>2, <1>4
     DEF Elsewhere, Stop, Read, ReadMetadata, CheckExists, OpenStream, ReadEnds,
         persistenceVars
<1> QED BY <1>3, <1>4 DEF Next

LEMMA StepReaderInv ==
  ASSUME FilesInv, ReaderInv, [Next]_persistenceVars
  PROVE  ReaderInv'
<1> DEFINE k == reader.job
           n == reader.index
           m == reader.image
<1>0. /\ reader \in ReaderState
      /\ \A j \in Jobs, i \in Images : rows[j][i] \in Image \cup {None}
  BY DEF FilesInv, ShapeInv, ReaderInv
\* The file of the image being read is the one its row describes.
<1>1. ASSUME reader.pc # "idle", ~Overtaken(k), Current(k, m)
      PROVE  FileRead = m /\ FileRead # None
  <2>1. k \in Jobs /\ n \in Images /\ m # None /\ JobInv(k)
    BY <1>1 DEF ReaderInv, FilesInv
  <2>2. jobs[k].status = "succeeded" /\ m = rows[k][n]
    BY <1>1 DEF ReaderInv
  <2>3. files[k][n] = rows[k][n]
    BY <1>1, <2>1, <2>2 DEF JobInv, Backed
  <2> QED BY <2>1, <2>2, <2>3 DEF FileRead
<1>2. CASE reader' = reader
  <2> SUFFICES ASSUME reader.pc # "idle", ~Overtaken(k)'
               PROVE  /\ jobs'[k].status = "succeeded"
                      /\ m = rows'[k][n]
                      /\ Current(k, m)' => reader.pc \in {"exists", "open", "served"}
    BY <1>0, <1>2 DEF ReaderInv, Overtaken, Current
  <2>1. k \in Jobs BY DEF ReaderInv
  <2>2. ~Overtaken(k)
    BY <1>2, <2>1, HistoryGrows DEF FilesInv, Overtaken
  <2>3. /\ jobs[k].status = "succeeded"
        /\ m = rows[k][n]
        /\ Current(k, m) => reader.pc \in {"exists", "open", "served"}
    BY <2>2 DEF ReaderInv
  <2>4. jobs'[k] = jobs[k] /\ rows'[k] = rows[k]
    <3>1. \A j \in Jobs : jobs[j].status = "succeeded" /\ ~Overtaken(j)' =>
            jobs'[j] = jobs[j] /\ rows'[j] = rows[j]
      BY PublishedStays
    <3>2. mishaps'[k] \cap {"overlap", "late"} = {} BY <1>2 DEF Overtaken
    <3> QED BY <2>1, <2>3, <3>1, <3>2 DEF Overtaken
  <2>5. Current(k, m)' => Current(k, m) BY <1>2, <2>4 DEF Current
  <2> QED BY <2>3, <2>4, <2>5
<1>3. CASE \E j \in Jobs, i \in Images : ReadMetadata(j, i)
  <2>1. PICK j \in Jobs, i \in Images : ReadMetadata(j, i) BY <1>3
  <2>2. /\ reader' = [pc |-> "exists", job |-> j, index |-> i, image |-> rows[j][i]]
        /\ jobs[j].status = "succeeded" /\ rows[j][i] # None
        /\ UNCHANGED <<jobs, rows, mishaps>>
    BY <2>1 DEF ReadMetadata
  <2>3. reader' \in ReaderState BY <1>0, <2>2 DEF ReaderState
  <2> QED BY <2>2, <2>3 DEF ReaderInv
\* The download moves on in the same row.
<1>4. ASSUME NEW pc \in {"open", "missing", "broken", "served", "mixed"},
             reader.pc # "idle",
             reader' = [reader EXCEPT !.pc = pc],
             UNCHANGED <<jobs, rows, mishaps>>,
             ~Overtaken(k) /\ Current(k, m) => pc \in {"open", "served"}
      PROVE  ReaderInv'
  <2>1. /\ reader' \in ReaderState
        /\ reader'.job = k /\ reader'.index = n /\ reader'.image = m
        /\ reader'.pc = pc
    BY <1>0, <1>4 DEF ReaderState
  <2>2. /\ k \in Jobs /\ n \in Images /\ m # None
        /\ ~Overtaken(k) => jobs[k].status = "succeeded" /\ m = rows[k][n]
    BY <1>4 DEF ReaderInv
  <2> QED BY <1>4, <2>1, <2>2 DEF ReaderInv, Overtaken, Current
<1>5. CASE CheckExists
  <2> DEFINE pc == IF FileRead = None THEN "missing" ELSE "open"
  <2>1. /\ reader.pc = "exists"
        /\ reader' = [reader EXCEPT !.pc = pc]
        /\ UNCHANGED <<jobs, rows, mishaps>>
    BY <1>5 DEF CheckExists
  <2>2. ~Overtaken(k) /\ Current(k, m) => pc = "open" BY <1>1, <2>1
  <2>3. pc \in {"open", "missing"} OBVIOUS
  <2> HIDE DEF pc
  <2> QED BY <1>4, <2>1, <2>2, <2>3
<1>6. CASE OpenStream
  <2> DEFINE pc == CASE FileRead = None         -> "broken"
                     [] FileRead = reader.image -> "served"
                     [] OTHER                   -> "mixed"
  <2>0. pc \in {"broken", "served", "mixed"} OBVIOUS
  <2>1. /\ reader.pc = "open"
        /\ reader' = [reader EXCEPT !.pc = pc]
        /\ UNCHANGED <<jobs, rows, mishaps>>
    BY <1>6 DEF OpenStream
  <2>2. ~Overtaken(k) /\ Current(k, m) => pc = "served" BY <1>1, <2>1
  <2> HIDE DEF pc
  <2> QED BY <1>4, <2>0, <2>1, <2>2
<1>7. CASE reader' = IdleReader
  BY <1>7 DEF ReaderInv, ReaderState, IdleReader
<1>8. \/ reader' = reader
      \/ \E j \in Jobs, i \in Images : ReadMetadata(j, i)
      \/ CheckExists \/ OpenStream
      \/ reader' = IdleReader
  BY DEF Next, Save, FollowWork, StopPolling, BeginSave, WriteTemporary,
     PublishTemporary, WriteFails, SaveRows, SaveRowsFails, PersistOutcome,
     PersistOutcomeFails, UndoOne, UndoDone, Read, ReadEnds, Elsewhere, Stop,
     persistenceVars
<1> QED BY <1>2, <1>3, <1>5, <1>6, <1>7, <1>8

\* A temporary file is left by a stop or by a removal that failed.
LEMMA StepLitter ==
  ASSUME ShapeInv, LitterIsExplained, [Next]_persistenceVars
  PROVE  LitterIsExplained'
<1>0. /\ mishaps \in [Jobs -> SUBSET Mishaps]
      /\ litter \subseteq Jobs
      /\ \A j \in Jobs : mishaps[j] \subseteq mishaps'[j]
  BY HistoryGrows DEF ShapeInv
<1> SUFFICES ASSUME NEW j \in litter' \ litter
             PROVE  mishaps'[j] \cap {"stop", "removal"} # {}
  BY <1>0 DEF LitterIsExplained
<1>1. CASE \E w \in Writers : WriteFails(w)
  <2>1. PICK w \in Writers : WriteFails(w) BY <1>1
  <2>2. JobOf(w) \in Jobs BY <2>1, BusyWriter DEF WriteFails, At
  <2>3. j = JobOf(w) /\ Mishap(j, "removal") BY <2>1 DEF WriteFails
  <2> QED BY <1>0, <2>2, <2>3 DEF Mishap
<1>2. CASE Stop
  <2>1. PICK w \in temporary : j = JobOf(w) BY <1>2 DEF Stop
  <2>2. w \in Writers /\ ~At(w, "idle") /\ ~Polling(w)
    BY DEF ShapeInv, At, Polling
  <2>3. j \in Jobs /\ SaversOf(j) # {}
    BY <2>1, <2>2, BusyWriter DEF SaversOf
  <2> QED BY <1>2, <2>3 DEF Stop
<1> QED
  BY <1>1, <1>2
     DEF Next, Save, FollowWork, StopPolling, BeginSave, WriteTemporary,
         PublishTemporary, SaveRows, SaveRowsFails, PersistOutcome,
         PersistOutcomeFails, UndoOne, UndoDone, Read, ReadMetadata,
         CheckExists, OpenStream, ReadEnds, Elsewhere, fileVars, persistenceVars

LEMMA InitPersistenceInv == Init => PersistenceInv
<1> SUFFICES ASSUME Init PROVE PersistenceInv OBVIOUS
<1>1. ShapeInv BY InitShape
<1>2. \A j \in Jobs : JobInv(j)
  <2> SUFFICES ASSUME NEW j \in Jobs PROVE JobInv(j) OBVIOUS
  <2>1. j # None BY NamesAssumption, StoreAssumption
  <2>2. SaversOf(j) = {}
    BY <2>1 DEF Init, SaversOf, JobOf, IdleWriter
  <2>3. Clean(j) BY DEF Init, Clean
  <2>4. jobs[j].status # "succeeded" BY DEF Init, StoreInit, NoRow
  <2> QED BY <2>2, <2>3, <2>4 DEF JobInv
<1>3. ReaderInv BY DEF Init, ReaderInv, ReaderState, IdleReader
<1>4. LitterIsExplained BY DEF Init, LitterIsExplained
<1> QED BY <1>1, <1>2, <1>3, <1>4 DEF PersistenceInv, FilesInv

LEMMA StepPersistenceInv ==
  ASSUME PersistenceInv, [Next]_persistenceVars
  PROVE  PersistenceInv'
BY StepFilesInv, StepReaderInv, StepLitter DEF PersistenceInv, FilesInv

-----------------------------------------------------------------------------
\* The state stays well formed, and the job store's view of the results is
\* that of the rows.
THEOREM FilesAreWellFormed == Spec => []PersistenceTypeOK
<1>1. Init => PersistenceInv BY InitPersistenceInv
<1>2. PersistenceInv /\ [Next]_persistenceVars => PersistenceInv'
  BY StepPersistenceInv
<1>3. ASSUME PersistenceInv PROVE PersistenceTypeOK
  <2>1. ShapeInv BY <1>3 DEF PersistenceInv, FilesInv
  <2>2. ASSUME NEW w \in Writers, writers[w].pc \in {"write", "publish"}
        PROVE  writers[w].place \in DOMAIN Batch(w)
    <3>1. /\ ~At(w, "idle")
          /\ writers[w].place \in Nat \ {0}
          /\ writers[w].place <= Len(BatchOf(writers[w]))
      BY <2>1, <2>2 DEF ShapeInv, GoodWriter, WriterState, At
    <3> QED BY <2>1, <3>1, BusyWriter
  <2> QED
    BY <1>3, <2>1, <2>2
       DEF PersistenceInv, ShapeInv, ReaderInv, RowInv, PersistenceTypeOK
<1> QED BY <1>1, <1>2, <1>3, PTL DEF Spec

\* A succeeded job has rows, and behind every row of its last attempt is the
\* file of that very image, for any batches and any number of writers, whatever
\* fails and whenever the process stops, unless two savers met or a save began
\* late.
THEOREM PublicationIsComplete == Spec => []PublishedIsReadable
<1>1. Init => PersistenceInv BY InitPersistenceInv
<1>2. PersistenceInv /\ [Next]_persistenceVars => PersistenceInv'
  BY StepPersistenceInv
<1>3. PersistenceInv => PublishedIsReadable
  BY DEF PersistenceInv, FilesInv, ShapeInv, JobInv, Backed, PublishedIsReadable
<1> QED BY <1>1, <1>2, <1>3, PTL DEF Spec

\* A download that found a row of the last attempt ends with the bytes the row
\* describes, unless two savers met or a save began late.
THEOREM DownloadsSucceed == Spec => []ReaderMeetsFile
<1>1. Init => PersistenceInv BY InitPersistenceInv
<1>2. PersistenceInv /\ [Next]_persistenceVars => PersistenceInv'
  BY StepPersistenceInv
<1>3. PersistenceInv => ReaderMeetsFile
  BY DEF PersistenceInv, ReaderInv, ReaderMeetsFile
<1> QED BY <1>1, <1>2, <1>3, PTL DEF Spec

\* A temporary file stays behind only where the process stopped or a removal
\* failed.
THEOREM LitterHasACause == Spec => []LitterIsExplained
<1>1. Init => PersistenceInv BY InitPersistenceInv
<1>2. PersistenceInv /\ [Next]_persistenceVars => PersistenceInv'
  BY StepPersistenceInv
<1>3. PersistenceInv => LitterIsExplained BY DEF PersistenceInv
<1> QED BY <1>1, <1>2, <1>3, PTL DEF Spec

\* A job that ended without success has a file or a row only where something
\* went wrong on the way: a stop, a failed removal or transition, two savers at
\* once, or a save that began late.
THEOREM OrphansHaveACause == Spec => []OrphansAreExplained
<1>1. Init => PersistenceInv BY InitPersistenceInv
<1>2. PersistenceInv /\ [Next]_persistenceVars => PersistenceInv'
  BY StepPersistenceInv
<1>3. ASSUME PersistenceInv PROVE OrphansAreExplained
  <2> SUFFICES ASSUME NEW j \in Jobs,
                      jobs[j].status \in {"queued", "failed", "cancelled"},
                      mishaps[j] = {}
               PROVE  Clean(j)
    BY DEF OrphansAreExplained, Clean
  <2>1. JobInv(j) /\ ~Overtaken(j)
    BY <1>3 DEF PersistenceInv, FilesInv, Overtaken
  <2>2. \A w \in SaversOf(j) : jobs[j].status = "running"
    BY <2>1 DEF JobInv, Saved, SaversOf
  <2>3. SaversOf(j) = {} BY <2>2
  <2> QED BY <2>1, <2>3 DEF JobInv
<1> QED BY <1>1, <1>2, <1>3, PTL DEF Spec
=============================================================================
