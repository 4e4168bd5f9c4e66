------------------------------ MODULE VectorBuild ------------------------------
(***************************************************************************)
(* persist_vector_batches fed by VectorIndexBuilder: one process embeds the *)
(* chunks of a source artifact batch by batch into a workspace directory    *)
(*   matrix      vectors.npy, one preallocated row per chunk,               *)
(*   chunks      chunks.jsonl, one line per embedded chunk,                 *)
(*   checkpoint  checkpoint.json, replaced atomically once the payload it   *)
(*               vouches for is flushed,                                    *)
(*   manifest    manifest.json, written last,                               *)
(* and renames the workspace to the destination.  The process can be killed *)
(* between any two writes and started again, with the same build or with    *)
(* another one (other model, other source).                                 *)
(*                                                                         *)
(* A digest is the content it digests, a byte offset a number of lines.     *)
(***************************************************************************)
EXTENDS Naturals, Sequences

CONSTANTS
    Builds,         \* manifest identities, created_at left out
    Source,         \* [Builds -> sequence of chunks]
    RecordCount,    \* [Builds -> what the source manifest declares]
    BatchSize,      \* embedding_batch_size
    Cadences,       \* values of checkpoint_interval_batches
    MaxFailures,    \* bound of this model: kills and exceptions
    Nothing,        \* a file or directory that does not exist
    Torn,           \* a line cut short
    Blank           \* a row whose bytes are not those of an embedding

Chunks == UNION {{Source[b][i] : i \in DOMAIN Source[b]} : b \in Builds}

ASSUME BuildAssumption ==
    /\ Source \in [Builds -> Seq(Chunks)]
    /\ RecordCount \in [Builds -> Nat]
    /\ BatchSize \in Nat \ {0}
    /\ Cadences \subseteq Nat \ {0}
    /\ MaxFailures \in Nat
    /\ Nothing \notin Builds

Embedding(b, c) == <<b, c>>
Row == {Embedding(b, c) : b \in Builds, c \in Chunks} \cup {Blank}
Checkpoint == [build : Builds, next_offset : Nat, lines : Nat]
Line == Chunks \cup {Torn}
Manifest == [build : Builds, matrix : Seq(Row), chunks : Seq(Line)]
Workspace == [matrix : Seq(Row) \cup {Nothing},
              chunks : Seq(Line) \cup {Nothing},
              checkpoint : Checkpoint \cup {Nothing},
              manifest : Manifest \cup {Nothing}]

\* The marks of a missing file and of damage are no content.
ASSUME DamageAssumption ==
    /\ Torn \notin Chunks
    /\ Nothing \notin Seq(Row) \cup Seq(Line)
    /\ Nothing \notin Checkpoint \cup Manifest \cup Workspace
    /\ \A b \in Builds, c \in Chunks : Embedding(b, c) # Blank

Pcs == {"off", "mkdir", "matrix", "chunks", "first", "resume", "batch",
        "sync", "checkpoint", "lastSync", "lastCheckpoint", "manifest",
        "publish", "cleanup"}

VARIABLES
    pc, build, cadence, offset, batches,    \* the process
    partial,        \* the workspace directory .<name>.partial
    destination,    \* the published directory
    synced,         \* rows and lines of the workspace no failure takes back
    failures

process == <<pc, build, cadence, offset, batches>>
vars == <<process, partial, destination, synced, failures>>

TypeOK ==
    /\ pc \in Pcs
    /\ build \in Builds
    /\ cadence \in Nat \ {0}
    /\ offset \in Nat
    /\ batches \in Nat
    /\ partial \in Workspace \cup {Nothing}
    /\ destination \in Workspace \cup {Nothing}
    /\ synced \in Nat
    /\ failures \in 0..MaxFailures

Init ==
    /\ pc = "off"
    /\ build \in Builds
    /\ cadence \in Cadences
    /\ offset = 0
    /\ batches = 0
    /\ partial = Nothing
    /\ destination = Nothing
    /\ synced = 0
    /\ failures = 0
--------------------------------------------------------------------------------
(* The head of persist_vector_batches and _prepare_vector_workspace *)

\* An existing destination is refused before anything is touched.
Start(b, n) ==
    /\ pc = "off"
    /\ destination = Nothing
    /\ build' = b
    /\ cadence' = n
    /\ pc' = IF partial = Nothing THEN "mkdir" ELSE "resume"
    /\ UNCHANGED <<offset, batches, partial, destination, synced, failures>>

MakeDirectory ==
    /\ pc = "mkdir"
    /\ partial' = [matrix |-> Nothing, chunks |-> Nothing,
                   checkpoint |-> Nothing, manifest |-> Nothing]
    /\ pc' = "matrix"
    /\ UNCHANGED <<build, cadence, offset, batches, destination, synced, failures>>

AllocateMatrix ==
    /\ pc = "matrix"
    /\ partial' = [partial EXCEPT !.matrix =
                     [i \in 1..RecordCount[build] |-> Blank]]
    /\ pc' = "chunks"
    /\ UNCHANGED <<build, cadence, offset, batches, destination, synced, failures>>

TouchChunks ==
    /\ pc = "chunks"
    /\ partial' = [partial EXCEPT !.chunks = <<>>]
    /\ pc' = "first"
    /\ UNCHANGED <<build, cadence, offset, batches, destination, synced, failures>>

\* Fault: the offset of the last chunk instead of the next one.
CheckpointOfLast(n) ==
    [build |-> build, next_offset |-> n - 1, lines |-> Len(partial.chunks)]

CheckpointAt(n) ==
    [build |-> build, next_offset |-> n, lines |-> Len(partial.chunks)]

FirstCheckpoint ==
    /\ pc = "first"
    /\ partial' = [partial EXCEPT !.checkpoint = CheckpointAt(0)]
    /\ synced' = 0
    /\ pc' = "resume"
    /\ UNCHANGED <<build, cadence, offset, batches, destination, failures>>

\* An exception here removes the workspace; the next start begins again.
PreparationFails ==
    /\ pc \in {"matrix", "chunks", "first"}
    /\ failures < MaxFailures
    /\ failures' = failures + 1
    /\ partial' = Nothing
    /\ pc' = "off"
    /\ UNCHANGED <<build, cadence, offset, batches, destination, synced>>

\* _load_committed_chunk_ids over the committed prefix of the lines.
CommittedLinesValid(lines, n) ==
    /\ Len(lines) >= n
    /\ \A i \in 1..n : lines[i] # Torn
    /\ \A i, j \in 1..n : lines[i] = lines[j] => i = j

\* Faults: a checkpoint of any build is taken; a tail after the committed
\* lines is refused.
ResumableAnyIdentity(ws, b) ==
    /\ ws.checkpoint # Nothing
    /\ ws.matrix # Nothing /\ ws.chunks # Nothing
    /\ Len(ws.matrix) = RecordCount[b]
    /\ CommittedLinesValid(ws.chunks, ws.checkpoint.lines)
    /\ ws.checkpoint.lines = ws.checkpoint.next_offset
ResumableNoTail(ws, b) ==
    /\ ResumableAnyIdentity(ws, b)
    /\ ws.checkpoint.build = b
    /\ Len(ws.chunks) = ws.checkpoint.lines

\* A process running build b continues the workspace ws.
Resumable(ws, b) ==
    /\ ws.checkpoint # Nothing
    /\ ws.checkpoint.build = b
    /\ ws.matrix # Nothing
    /\ ws.chunks # Nothing
    /\ Len(ws.matrix) = RecordCount[b]
    /\ CommittedLinesValid(ws.chunks, ws.checkpoint.lines)
    /\ ws.checkpoint.lines = ws.checkpoint.next_offset

\* The lines after the committed ones are truncated, the rows overwritten.
Resume ==
    /\ pc = "resume"
    /\ Resumable(partial, build)
    /\ offset' = partial.checkpoint.next_offset
    /\ partial' = [partial EXCEPT !.chunks =
                     SubSeq(@, 1, partial.checkpoint.lines)]
    /\ synced' = partial.checkpoint.next_offset
    /\ batches' = 0
    /\ pc' = "batch"
    /\ UNCHANGED <<build, cadence, destination, failures>>

ResumeRefused ==
    /\ pc = "resume"
    /\ ~ Resumable(partial, build)
    /\ pc' = "off"
    /\ UNCHANGED <<build, cadence, offset, batches, partial, destination,
                   synced, failures>>
--------------------------------------------------------------------------------
(* The batch loop *)

\* The next batch is at positions offset+1..BatchEnd of the source.
BatchEnd == LET last == Len(Source[build])
            IN  IF offset + BatchSize <= last THEN offset + BatchSize ELSE last

\* Fault: the slice of the batch ends one row early.
RowsWrittenShort(n) ==
    [i \in DOMAIN partial.matrix |->
       IF i \in offset + 1..n - 1 THEN Embedding(build, Source[build][i])
       ELSE partial.matrix[i]]

\* The rows with those of positions offset+1..n written.
RowsWritten(n) ==
    [i \in DOMAIN partial.matrix |->
       IF i \in offset + 1..n THEN Embedding(build, Source[build][i])
       ELSE partial.matrix[i]]

\* The chunk at position i is none of the lines before it.
Unseen(i) ==
    \A j \in 1..i - 1 :
        Source[build][i] # (IF j <= offset THEN partial.chunks[j]
                            ELSE Source[build][j])

\* One batch is embedded, its rows and lines written.
WriteBatch ==
    /\ pc = "batch"
    /\ offset < Len(Source[build])
    /\ BatchEnd <= RecordCount[build]
    /\ \A i \in offset + 1..BatchEnd : Unseen(i)
    /\ partial' = [partial EXCEPT
                     !.matrix = RowsWritten(BatchEnd),
                     !.chunks = @ \o SubSeq(Source[build], offset + 1, BatchEnd)]
    /\ offset' = BatchEnd
    /\ batches' = batches + 1
    /\ pc' = IF batches' % cadence = 0 THEN "sync" ELSE "batch"
    /\ UNCHANGED <<build, cadence, destination, synced, failures>>

EndOfBatches ==
    /\ pc = "batch"
    /\ offset = Len(Source[build])
    /\ pc' = "lastSync"
    /\ UNCHANGED <<build, cadence, offset, batches, partial, destination,
                   synced, failures>>

\* The process is gone.
Exit ==
    /\ pc' = "off"
    /\ offset' = 0
    /\ batches' = 0
    /\ UNCHANGED <<build, cadence, destination>>

\* More chunks than the manifest declares: nothing of the batch is written.
TooManyChunks ==
    /\ pc = "batch"
    /\ offset < Len(Source[build])
    /\ BatchEnd > RecordCount[build]
    /\ Exit
    /\ UNCHANGED <<partial, synced, failures>>

\* The chunk at position i repeats an id: the rows of the batch and the lines
\* before it are written.
DuplicateChunk(i) ==
    /\ pc = "batch"
    /\ i \in offset + 1..BatchEnd
    /\ BatchEnd <= RecordCount[build]
    /\ ~ Unseen(i)
    /\ \A j \in offset + 1..i - 1 : Unseen(j)
    /\ partial' = [partial EXCEPT
                     !.matrix = RowsWritten(BatchEnd),
                     !.chunks = @ \o SubSeq(Source[build], offset + 1, i - 1)]
    /\ Exit
    /\ UNCHANGED <<synced, failures>>

\* The provider raises, or its batch has a wrong shape, a non-finite value or
\* a zero vector.
EmbeddingFails ==
    /\ pc = "batch"
    /\ offset < Len(Source[build])
    /\ failures < MaxFailures
    /\ failures' = failures + 1
    /\ Exit
    /\ UNCHANGED <<partial, synced>>
--------------------------------------------------------------------------------
(* _commit_vector_checkpoint *)

\* Fault: the payload is not flushed before the checkpoint is published.
SyncNothing ==
    /\ pc \in {"sync", "lastSync"}
    /\ pc' = IF pc = "sync" THEN "checkpoint" ELSE "lastCheckpoint"
    /\ UNCHANGED <<build, cadence, offset, batches, partial, destination,
                   synced, failures>>

SyncPayload ==
    /\ pc \in {"sync", "lastSync"}
    /\ synced' = offset
    /\ pc' = IF pc = "sync" THEN "checkpoint" ELSE "lastCheckpoint"
    /\ UNCHANGED <<build, cadence, offset, batches, partial, destination, failures>>

PublishCheckpoint ==
    /\ pc \in {"checkpoint", "lastCheckpoint"}
    /\ partial' = [partial EXCEPT !.checkpoint = CheckpointAt(offset)]
    /\ pc' = IF pc = "checkpoint" THEN "batch" ELSE "manifest"
    /\ UNCHANGED <<build, cadence, offset, batches, destination, synced, failures>>
--------------------------------------------------------------------------------
(* The tail of persist_vector_batches *)

CountDiffers ==
    /\ pc = "manifest"
    /\ offset # RecordCount[build]
    /\ Exit
    /\ UNCHANGED <<partial, synced, failures>>

WriteManifest ==
    /\ pc = "manifest"
    /\ offset = RecordCount[build]
    /\ partial' = [partial EXCEPT !.manifest =
                     [build |-> build, matrix |-> partial.matrix,
                      chunks |-> partial.chunks]]
    /\ pc' = "publish"
    /\ UNCHANGED <<build, cadence, offset, batches, destination, synced, failures>>

PublishDirectory ==
    /\ pc = "publish"
    /\ destination' = partial
    /\ partial' = Nothing
    /\ pc' = "cleanup"
    /\ UNCHANGED <<build, cadence, offset, batches, synced, failures>>

RemoveCheckpoint ==
    /\ pc = "cleanup"
    /\ destination' = [destination EXCEPT !.checkpoint = Nothing]
    /\ pc' = "off"
    /\ UNCHANGED <<build, cadence, offset, batches, partial, synced, failures>>
--------------------------------------------------------------------------------
(* Failures *)

HasPayload(ws) == ws # Nothing /\ ws.matrix # Nothing /\ ws.chunks # Nothing

\* The matrix without the rows of lost; n of the lines and a torn tail.
SurvivingRows(matrix, lost) ==
    [i \in DOMAIN matrix |-> IF i \in lost THEN Blank ELSE matrix[i]]

SurvivingLines(chunks, n, tail) == SubSeq(chunks, 1, n) \o tail

\* A kill, or the loss of the machine: of what was not flushed any row may be
\* missing, and the lines end anywhere, the last one maybe cut short.
Crash ==
    /\ pc # "off"
    /\ failures < MaxFailures
    /\ failures' = failures + 1
    /\ Exit
    /\ UNCHANGED synced
    /\ IF HasPayload(partial)
       THEN \E lost \in SUBSET {i \in DOMAIN partial.matrix : i > synced},
               n \in synced..Len(partial.chunks), tail \in {<<>>, <<Torn>>} :
              /\ n = Len(partial.chunks) => tail = <<>>
              /\ partial' = [partial EXCEPT
                   !.matrix = SurvivingRows(@, lost),
                   !.chunks = SurvivingLines(@, n, tail)]
       ELSE UNCHANGED partial
--------------------------------------------------------------------------------
Step ==
    \/ MakeDirectory \/ AllocateMatrix \/ TouchChunks \/ FirstCheckpoint
    \/ Resume \/ ResumeRefused
    \/ WriteBatch \/ EndOfBatches \/ TooManyChunks
    \/ \E i \in DOMAIN Source[build] : DuplicateChunk(i)
    \/ SyncPayload \/ PublishCheckpoint
    \/ CountDiffers \/ WriteManifest \/ PublishDirectory \/ RemoveCheckpoint

Next ==
    \/ \E b \in Builds, n \in Cadences : Start(b, n)
    \/ Step
    \/ PreparationFails \/ EmbeddingFails \/ Crash

Spec == Init /\ [][Next]_vars

\* The scheduler runs the process, and whoever wants an index
\* starts its build again, whatever other builds are started in between.
FairSpec ==
    /\ Spec
    /\ WF_vars(Step)
    /\ \A b \in Builds : SF_vars(\E n \in Cadences : Start(b, n))
--------------------------------------------------------------------------------
(* Properties *)

\* A checkpoint on the disk can always be resumed from by the build it belongs
\* to, whatever interrupted the process that wrote it: the lines it counts are
\* there, whole and distinct, and the matrix has its size.  (That the rows are
\* there too is not looked at by a restart; KeepsPromise says it.)
CheckpointIsResumable ==
    (pc = "off" /\ partial # Nothing) =>
        (partial.checkpoint # Nothing =>
            Resumable(partial, partial.checkpoint.build))

\* _validate_vector_rows: every row is finite and of norm 1.  An embedding is,
\* by the checks of its batch; a row never written or lost is not.
RowsValid(matrix) == \A i \in DOMAIN matrix : matrix[i] # Blank

\* load_vector_artifact with verify_integrity accepts a directory: the digests
\* of its manifest, the record count, the uniqueness of the chunk ids and the rows.
Loadable(d) ==
    /\ d.matrix # Nothing /\ d.chunks # Nothing /\ d.manifest # Nothing
    /\ d.manifest.matrix = d.matrix
    /\ d.manifest.chunks = d.chunks
    /\ Len(d.matrix) = RecordCount[d.manifest.build]
    /\ CommittedLinesValid(d.chunks, RecordCount[d.manifest.build])
    /\ Len(d.chunks) = RecordCount[d.manifest.build]
    /\ RowsValid(d.matrix)

\* A destination that exists loads, every row of it, even when the process that
\* made it resumed after lost rows and lines, or died between the rename and the
\* removal of the checkpoint.
PublishedArtifactLoads == destination # Nothing => Loadable(destination)

\* The promise of the build, stated in VectorArtifact.
OwnerOf ==
    IF destination # Nothing THEN destination.manifest.build
    ELSE IF partial = Nothing THEN Nothing
    ELSE IF partial.checkpoint = Nothing THEN Nothing
    ELSE partial.checkpoint.build

CommittedOf ==
    IF destination # Nothing THEN Len(destination.chunks)
    ELSE IF partial = Nothing THEN 0
    ELSE IF partial.checkpoint = Nothing THEN 0
    ELSE partial.checkpoint.next_offset

ArtifactOf ==
    IF destination = Nothing THEN Nothing
    ELSE [build |-> destination.manifest.build, rows |-> destination.matrix,
          chunks |-> destination.chunks]

Promise == INSTANCE VectorArtifact WITH
    owner <- OwnerOf, committed <- CommittedOf, artifact <- ArtifactOf

\* The build implements its promise: it publishes once, whole, and never takes
\* back or mixes what it committed.
KeepsPromise == Promise!Spec

\* Once a checkpoint exists, a build of a sound source is published, however
\* often it is interrupted from then on.
BuildFinishes ==
    \A b \in Builds :
        (OwnerOf = b /\ Len(Source[b]) = RecordCount[b]
            /\ \A i, j \in DOMAIN Source[b] : Source[b][i] = Source[b][j] => i = j)
        ~> destination # Nothing
================================================================================
