--------------------------- MODULE VectorBuildProofs ---------------------------
(***************************************************************************)
(* The inductive invariant of VectorBuild, and from it: type correctness,   *)
(* resumable checkpoints, loadable artifacts, and the refinement of         *)
(* VectorArtifact.                                                          *)
(***************************************************************************)
EXTENDS VectorBuild, SequenceTheorems, TLAPS

\* The first n chunks of build b are distinct and fit the matrix.
Prefix(b, n) ==
    /\ n <= Len(Source[b])
    /\ n <= RecordCount[b]
    /\ \A i, j \in 1..n : Source[b][i] = Source[b][j] => i = j

\* The first n rows and lines of ws are those of build b.
Payload(ws, b, n) ==
    /\ ws.matrix # Nothing
    /\ ws.chunks # Nothing
    /\ Len(ws.matrix) = RecordCount[b]
    /\ n <= Len(ws.chunks)
    /\ \A i \in 1..n : ws.matrix[i] = Embedding(b, Source[b][i])
    /\ \A i \in 1..n : ws.chunks[i] = Source[b][i]

\* A checkpoint vouches for a flushed payload.
CheckpointInv ==
    (partial # Nothing /\ partial.checkpoint # Nothing) =>
        /\ partial.checkpoint.lines = partial.checkpoint.next_offset
        /\ partial.checkpoint.next_offset <= synced
        /\ Prefix(partial.checkpoint.build, partial.checkpoint.next_offset)
        /\ Payload(partial, partial.checkpoint.build, partial.checkpoint.next_offset)

\* What the preparation of the workspace has written so far.
PreparationInv ==
    /\ pc = "mkdir" => partial = Nothing
    /\ pc \in {"matrix", "chunks", "first", "resume"} => partial # Nothing
    /\ pc \in {"matrix", "chunks", "first"} => partial.checkpoint = Nothing
    /\ pc \in {"chunks", "first"} => partial.matrix # Nothing
    /\ pc \in {"chunks", "first"} => Len(partial.matrix) = RecordCount[build]
    /\ pc = "first" => partial.chunks = <<>>

Working == {"batch", "sync", "checkpoint", "lastSync", "lastCheckpoint",
            "manifest", "publish"}

\* The running process: its offset counts the rows and lines it wrote.
WorkInv ==
    pc \in Working =>
        /\ partial # Nothing
        /\ partial.checkpoint # Nothing
        /\ partial.checkpoint.build = build
        /\ partial.checkpoint.next_offset <= offset
        /\ Prefix(build, offset)
        /\ Payload(partial, build, offset)
        /\ Len(partial.chunks) = offset
        /\ synced <= offset
        /\ pc \in {"checkpoint", "lastCheckpoint", "manifest", "publish"} =>
             synced = offset
        /\ pc \in {"lastSync", "lastCheckpoint", "manifest", "publish"} =>
             offset = Len(Source[build])
        /\ pc \in {"manifest", "publish"} =>
             partial.checkpoint.next_offset = offset
        /\ pc = "publish" =>
             /\ offset = RecordCount[build]
             /\ partial.manifest = [build |-> build, matrix |-> partial.matrix,
                                    chunks |-> partial.chunks]

\* A published directory is whole and alone.
DestinationInv ==
    /\ pc \notin {"off", "cleanup"} => destination = Nothing
    /\ pc = "cleanup" => destination # Nothing
    /\ destination # Nothing =>
         /\ partial = Nothing
         /\ destination.manifest # Nothing
         /\ destination.manifest.matrix = destination.matrix
         /\ destination.manifest.chunks = destination.chunks
         /\ LET b == destination.manifest.build IN
              /\ Len(Source[b]) = RecordCount[b]
              /\ Prefix(b, RecordCount[b])
              /\ Payload(destination, b, RecordCount[b])
              /\ Len(destination.chunks) = RecordCount[b]

IInv == TypeOK /\ CheckpointInv /\ PreparationInv /\ WorkInv /\ DestinationInv

\* A step that leaves what is committed and published alone.
KeepsCommitted ==
    /\ destination' = destination
    /\ \/ partial' = partial
       \/ /\ partial # Nothing /\ partial' # Nothing
          /\ partial'.checkpoint = partial.checkpoint
--------------------------------------------------------------------------------
(* The state the process works on *)

\* What an action may read of a workspace: its fields are typed.
LEMMA WorkspaceFields ==
    ASSUME NEW ws \in Workspace
    PROVE  /\ ws # Nothing
           /\ ws.matrix \in Seq(Row) \cup {Nothing}
           /\ ws.chunks \in Seq(Line) \cup {Nothing}
           /\ ws.checkpoint \in Checkpoint \cup {Nothing}
           /\ ws.manifest \in Manifest \cup {Nothing}
BY DamageAssumption DEF Workspace

\* The rows of a batch are written in place.
LEMMA RowsAreWritten ==
    ASSUME TypeOK, partial # Nothing, partial.matrix # Nothing,
           NEW n \in Nat, offset <= n, n <= Len(Source[build]), n <= Len(partial.matrix),
           \A i \in 1..offset : partial.matrix[i] = Embedding(build, Source[build][i])
    PROVE  /\ RowsWritten(n) \in Seq(Row)
           /\ Len(RowsWritten(n)) = Len(partial.matrix)
           /\ \A i \in 1..offset : RowsWritten(n)[i] = partial.matrix[i]
           /\ \A i \in 1..n : RowsWritten(n)[i] = Embedding(build, Source[build][i])
<1> DEFINE m == partial.matrix
<1>1. /\ m \in Seq(Row) /\ build \in Builds /\ offset \in Nat
  BY WorkspaceFields DEF TypeOK
<1>2. Len(m) \in Nat /\ DOMAIN m = 1..Len(m) /\ \A i \in 1..Len(m) : m[i] \in Row
  BY <1>1, LenProperties, ElementOfSeq
<1>3. Source[build] \in Seq(Chunks)
  BY <1>1, BuildAssumption
<1>4. ASSUME NEW i \in offset + 1..n
      PROVE  Embedding(build, Source[build][i]) \in Row
  <2>1. i \in 1..Len(Source[build])
    BY <1>1, <1>3, LenProperties
  <2>2. Source[build][i] \in Chunks
    BY <2>1, <1>3, ElementOfSeq
  <2> QED
    BY <2>2, <1>1 DEF Row
<1> DEFINE e(i) == IF i \in offset + 1..n THEN Embedding(build, Source[build][i])
                   ELSE m[i]
<1>5. \A i \in 1..Len(m) : e(i) \in Row
  BY <1>2, <1>4
<1>6. RowsWritten(n) = [i \in 1..Len(m) |-> e(i)]
  BY <1>2 DEF RowsWritten
<1> HIDE DEF e
<1>7. [i \in 1..Len(m) |-> e(i)] \in Seq(Row)
  BY <1>5, <1>2, IsASeq
<1>8. Len([i \in 1..Len(m) |-> e(i)]) = Len(m)
  BY <1>7, <1>2, LenProperties
<1>9. \A i \in 1..Len(m) : RowsWritten(n)[i] = e(i)
  BY <1>6
<1>10. /\ \A i \in 1..offset : e(i) = m[i]
       /\ \A i \in offset + 1..n : e(i) = Embedding(build, Source[build][i])
  BY <1>1, <1>2 DEF e
<1>11. \A i \in 1..offset : i \in 1..Len(m)
  BY <1>1, <1>2
<1>12. \A i \in 1..offset : RowsWritten(n)[i] = m[i]
  BY <1>9, <1>10, <1>11
<1>13. ASSUME NEW i \in 1..n
       PROVE  RowsWritten(n)[i] = Embedding(build, Source[build][i])
  <2>1. CASE i <= offset
    BY <2>1, <1>12, <1>1
  <2>2. CASE i > offset
    BY <2>2, <1>9, <1>10, <1>1, <1>2
  <2> QED
    BY <2>1, <2>2, <1>1
<1> QED
  BY <1>6, <1>7, <1>8, <1>12, <1>13

\* The lines of a batch are appended.
LEMMA LinesAreAppended ==
    ASSUME TypeOK, partial # Nothing, partial.chunks # Nothing,
           Len(partial.chunks) = offset,
           \A i \in 1..offset : partial.chunks[i] = Source[build][i],
           NEW n \in Nat, offset <= n, n <= Len(Source[build]),
           NEW new, new = partial.chunks \o SubSeq(Source[build], offset + 1, n)
    PROVE  /\ new \in Seq(Line)
           /\ Len(new) = n
           /\ \A i \in 1..n : new[i] = Source[build][i]
<1> DEFINE s == Source[build]
           t == SubSeq(s, offset + 1, n)
           l == partial.chunks
<1>1. l \in Seq(Line) /\ build \in Builds /\ offset \in Nat
  BY WorkspaceFields DEF TypeOK
<1>2. s \in Seq(Chunks)
  BY <1>1, BuildAssumption
<1>3. Len(s) \in Nat /\ \A i \in 1..Len(s) : s[i] \in Line
  BY <1>2, LenProperties, ElementOfSeq DEF Line
<1>4. \A i \in offset + 1..n : s[i] \in Line
  BY <1>3, <1>1
<1>5. offset + 1 \in Int /\ n \in Int
  BY <1>1
<1> HIDE DEF s
<1>6. /\ t \in Seq(Line)
      /\ Len(t) = IF offset + 1 <= n THEN n - (offset + 1) + 1 ELSE 0
      /\ \A i \in 1..n - (offset + 1) + 1 : t[i] = s[offset + 1 + i - 1]
  BY <1>4, <1>5, SubSeqProperties, SMTT(40)
<1>7. Len(t) = n - offset /\ \A i \in 1..n - offset : t[i] = s[offset + i]
  BY <1>6, <1>1
<1>9. new = l \o t /\ \A i \in 1..offset : l[i] = s[i]
  BY DEF s, t
<1>10. Len(l) = offset
  OBVIOUS
<1> HIDE DEF t, l
<1> DEFINE cat == l \o t
<1>8. /\ cat \in Seq(Line)
      /\ Len(cat) = Len(l) + Len(t)
      /\ \A i \in 1..Len(l) + Len(t) :
           cat[i] = IF i <= Len(l) THEN l[i] ELSE t[i - Len(l)]
  <2>1. l \in Seq(Line) /\ t \in Seq(Line)
    BY <1>1, <1>6
  <2> QED
    BY <2>1, ConcatProperties, ZenonT(40)
<1> HIDE DEF cat
<1>11. ASSUME NEW i \in 1..n PROVE cat[i] = s[i]
  <2>1. i \in 1..Len(l) + Len(t)
    BY <1>7, <1>10, <1>1
  <2>2. CASE i <= offset
    BY <2>1, <2>2, <1>8, <1>9, <1>10, <1>1
  <2>3. CASE i > offset
    <3>1. cat[i] = t[i - offset] /\ i - offset \in 1..n - offset
      BY <2>1, <2>3, <1>8, <1>10, <1>1
    <3>2. t[i - offset] = s[offset + (i - offset)]
      BY <3>1, <1>7
    <3> QED
      BY <3>1, <3>2, <1>1
  <2> QED
    BY <2>2, <2>3, <1>1
<1>12. Len(cat) = n
  BY <1>8, <1>7, <1>10, <1>1
<1> QED
  BY <1>8, <1>9, <1>11, <1>12 DEF s, cat
--------------------------------------------------------------------------------
(* Every action keeps the invariant *)

LEMMA InitKeeps == Init => IInv
<1> SUFFICES ASSUME Init PROVE IInv
  OBVIOUS
<1>1. TypeOK
  BY BuildAssumption DEF Init, TypeOK, Pcs
<1>2. CheckpointInv /\ PreparationInv /\ WorkInv /\ DestinationInv
  BY DEF Init, CheckpointInv, PreparationInv, WorkInv, DestinationInv, Working
<1> QED
  BY <1>1, <1>2 DEF IInv

\* Steps that leave both directories and what is flushed alone.
LEMMA StartKeeps ==
    ASSUME IInv, NEW b \in Builds, NEW n \in Cadences, Start(b, n)
    PROVE  IInv'
<1>1. TypeOK'
  BY BuildAssumption DEF IInv, TypeOK, Start, Pcs
<1>2. CheckpointInv'
  BY DEF IInv, Start, CheckpointInv, Prefix, Payload
<1>3. PreparationInv' /\ WorkInv' /\ DestinationInv'
  BY DEF IInv, Start, PreparationInv, WorkInv, DestinationInv, Working
<1> QED
  BY <1>1, <1>2, <1>3 DEF IInv

LEMMA PreparationKeeps ==
    ASSUME IInv, MakeDirectory \/ AllocateMatrix \/ TouchChunks \/ PreparationFails
    PROVE  IInv'
<1> USE DamageAssumption
<1>1. CASE MakeDirectory
  <2>1. partial' \in Workspace
    BY <1>1 DEF MakeDirectory, Workspace
  <2>2. TypeOK'
    BY <1>1, <2>1 DEF IInv, TypeOK, MakeDirectory, Pcs
  <2>3. partial' # Nothing /\ partial'.checkpoint = Nothing
    BY <1>1, <2>1 DEF MakeDirectory
  <2>4. CheckpointInv' /\ PreparationInv' /\ WorkInv' /\ DestinationInv'
    BY <1>1, <2>3 DEF IInv, MakeDirectory, CheckpointInv, PreparationInv,
                      WorkInv, DestinationInv, Working
  <2> QED
    BY <2>2, <2>4 DEF IInv
<1>2. CASE AllocateMatrix
  <2> DEFINE m == [i \in 1..RecordCount[build] |-> Blank]
  <2>1. RecordCount[build] \in Nat /\ Blank \in Row
    BY BuildAssumption DEF IInv, TypeOK, Row
  <2>2. m \in Seq(Row) /\ Len(m) = RecordCount[build]
    BY <2>1
  <2>3. partial \in Workspace /\ partial.checkpoint = Nothing
    BY <1>2 DEF IInv, TypeOK, PreparationInv, AllocateMatrix
  <2>4. partial' = [partial EXCEPT !.matrix = m]
    BY <1>2 DEF AllocateMatrix
  <2> HIDE DEF m
  <2>5. partial' \in Workspace /\ partial'.matrix = m /\ partial'.checkpoint = Nothing
    BY <2>2, <2>3, <2>4 DEF Workspace
  <2>6. TypeOK'
    BY <1>2, <2>5 DEF IInv, TypeOK, AllocateMatrix, Pcs
  <2>7. partial' # Nothing /\ m # Nothing
    BY <2>2, <2>5
  <2>8. CheckpointInv' /\ PreparationInv' /\ WorkInv' /\ DestinationInv'
    BY <1>2, <2>2, <2>5, <2>7 DEF IInv, AllocateMatrix, CheckpointInv,
                 PreparationInv, WorkInv, DestinationInv, Working
  <2> QED
    BY <2>6, <2>8 DEF IInv
<1>3. CASE TouchChunks
  <2>1. partial \in Workspace /\ partial.checkpoint = Nothing
    BY <1>3 DEF IInv, TypeOK, PreparationInv, TouchChunks
  <2>2. <<>> \in Seq(Line)
    BY EmptySeq
  <2>3. /\ partial' \in Workspace /\ partial'.matrix = partial.matrix
        /\ partial'.chunks = <<>> /\ partial'.checkpoint = Nothing
    BY <1>3, <2>1, <2>2 DEF Workspace, TouchChunks
  <2>4. TypeOK'
    BY <1>3, <2>3 DEF IInv, TypeOK, TouchChunks, Pcs
  <2>5. partial' # Nothing
    BY <2>3
  <2>6. CheckpointInv' /\ PreparationInv' /\ WorkInv' /\ DestinationInv'
    BY <1>3, <2>3, <2>5 DEF IInv, TouchChunks, CheckpointInv, PreparationInv,
                            WorkInv, DestinationInv, Working
  <2> QED
    BY <2>4, <2>6 DEF IInv
<1>4. CASE PreparationFails
  <2>1. TypeOK'
    BY <1>4, BuildAssumption DEF IInv, TypeOK, PreparationFails, Pcs
  <2>2. CheckpointInv' /\ PreparationInv' /\ WorkInv' /\ DestinationInv'
    BY <1>4 DEF IInv, PreparationFails, CheckpointInv, PreparationInv,
                WorkInv, DestinationInv, Working
  <2> QED
    BY <2>1, <2>2 DEF IInv
<1> QED
  BY <1>1, <1>2, <1>3, <1>4

LEMMA FirstCheckpointKeeps ==
    ASSUME IInv, FirstCheckpoint
    PROVE  IInv'
<1>1. /\ partial \in Workspace /\ build \in Builds
      /\ partial.matrix # Nothing /\ Len(partial.matrix) = RecordCount[build]
      /\ partial.chunks = <<>>
  BY DEF IInv, TypeOK, PreparationInv, FirstCheckpoint
<1>2. Len(<<>>) = 0 /\ <<>> \in Seq(Line)
  BY EmptySeq
<1> DEFINE c == CheckpointAt(0)
<1>3. c \in Checkpoint /\ c.build = build /\ c.next_offset = 0 /\ c.lines = 0
  BY <1>1, <1>2 DEF CheckpointAt, Checkpoint
<1>4. partial' = [partial EXCEPT !.checkpoint = c]
  BY DEF FirstCheckpoint
<1> HIDE DEF c
<1>5. /\ partial' \in Workspace /\ partial'.checkpoint = c
      /\ partial'.matrix = partial.matrix /\ partial'.chunks = partial.chunks
  BY <1>1, <1>3, <1>4 DEF Workspace
<1>6. TypeOK'
  BY <1>5 DEF IInv, TypeOK, FirstCheckpoint, Pcs
<1>7. Prefix(build, 0) /\ RecordCount[build] \in Nat /\ Source[build] \in Seq(Chunks)
  <2>1. RecordCount[build] \in Nat /\ Source[build] \in Seq(Chunks)
    BY <1>1, BuildAssumption
  <2> QED
    BY <2>1, LenProperties DEF Prefix
<1>8. CheckpointInv'
  <2>1. synced' = 0
    BY DEF FirstCheckpoint
  <2>2. Prefix(build, 0)'
    BY <1>7 DEF FirstCheckpoint, Prefix
  <2>3. partial'.chunks # Nothing
    BY <1>1, <1>2, <1>5, DamageAssumption
  <2>4. Payload(partial', build, 0)
    BY <1>1, <1>2, <1>5, <2>3 DEF Payload
  <2> QED
    BY <1>3, <1>5, <1>7, <2>1, <2>4 DEF CheckpointInv, FirstCheckpoint, Payload, Prefix
<1>9. partial' # Nothing
  BY <1>5, DamageAssumption
<1>10. PreparationInv' /\ WorkInv' /\ DestinationInv'
  BY <1>9 DEF IInv, FirstCheckpoint, PreparationInv, WorkInv, DestinationInv, Working
<1> QED
  BY <1>6, <1>8, <1>10 DEF IInv

\* The committed lines are kept, the tail is cut off.
LEMMA ResumeKeeps ==
    ASSUME IInv, Resume
    PROVE  IInv' /\ KeepsCommitted
<1> DEFINE n == partial.checkpoint.next_offset
           l == SubSeq(partial.chunks, 1, n)
<1>1. /\ partial \in Workspace /\ build \in Builds /\ partial # Nothing
      /\ partial.checkpoint \in Checkpoint /\ partial.checkpoint # Nothing
      /\ partial.chunks \in Seq(Line) /\ partial.matrix \in Seq(Row)
      /\ partial.checkpoint.build = build /\ partial.checkpoint.lines = n
      /\ destination = Nothing
  BY WorkspaceFields DEF IInv, TypeOK, PreparationInv, DestinationInv, Resume,
                         Resumable
<1>2. n \in Nat
  BY <1>1 DEF Checkpoint
<1>3. Prefix(build, n) /\ Payload(partial, build, n)
  BY <1>1 DEF IInv, CheckpointInv
<1>4. n <= Len(partial.chunks) /\ \A i \in 1..n : partial.chunks[i] = Source[build][i]
  BY <1>3 DEF Payload
<1>5. \A i \in 1..n : partial.chunks[i] \in Line
  BY <1>1, <1>2, <1>4, LenProperties, ElementOfSeq
<1>6. /\ l \in Seq(Line) /\ Len(l) = n
      /\ \A i \in 1..n : l[i] = Source[build][i]
  <2>1. 1 \in Int /\ n \in Int
    BY <1>2
  <2> HIDE DEF n
  <2>2. /\ l \in Seq(Line)
        /\ Len(l) = IF 1 <= n THEN n - 1 + 1 ELSE 0
        /\ \A i \in 1..n - 1 + 1 : l[i] = partial.chunks[1 + i - 1]
    BY <1>5, <2>1, SubSeqProperties
  <2>3. Len(l) = n /\ n - 1 + 1 = n
    BY <2>2, <1>2
  <2> HIDE DEF l
  <2>4. ASSUME NEW i \in 1..n PROVE l[i] = Source[build][i]
    <3>1. 1 + i - 1 = i
      BY <1>2
    <3> QED
      BY <2>2, <2>3, <3>1, <1>4
  <2> QED
    BY <2>2, <2>3, <2>4
<1>7. partial' = [partial EXCEPT !.chunks = l]
  BY <1>1 DEF Resume
<1>8. offset' = n /\ synced' = n /\ pc' = "batch" /\ build' = build
  BY DEF Resume
<1> HIDE DEF l
<1>9. /\ partial' \in Workspace /\ partial'.chunks = l
      /\ partial'.matrix = partial.matrix
      /\ partial'.checkpoint = partial.checkpoint
  BY <1>1, <1>6, <1>7 DEF Workspace
<1>10. TypeOK'
  BY <1>2, <1>8, <1>9 DEF IInv, TypeOK, Resume, Pcs
<1>11. Payload(partial', build, n)
  <2>1. l # Nothing
    BY <1>6, DamageAssumption
  <2> HIDE DEF n
  <2> QED
    BY <1>2, <1>3, <1>6, <1>9, <2>1 DEF Payload
<1>12. CheckpointInv'
  BY <1>1, <1>2, <1>3, <1>8, <1>9, <1>11, SMTT(40) DEF CheckpointInv, Prefix, Payload
<1>13. partial' # Nothing /\ partial'.checkpoint # Nothing
  BY <1>1, <1>9, DamageAssumption
<1>14. WorkInv'
  BY <1>1, <1>2, <1>3, <1>6, <1>8, <1>9, <1>11, <1>13, ZenonT(40)
     DEF WorkInv, Prefix, Payload
<1>15. PreparationInv' /\ DestinationInv'
  BY <1>1, <1>8 DEF PreparationInv, DestinationInv, Resume
<1>16. KeepsCommitted
  BY <1>1, <1>9, <1>13 DEF KeepsCommitted, Resume
<1> QED
  BY <1>10, <1>12, <1>14, <1>15, <1>16 DEF IInv

\* What is known of the workspace while the process works on it.
LEMMA WorkingFacts ==
    ASSUME IInv, pc \in Working
    PROVE  /\ partial \in Workspace /\ partial # Nothing
           /\ partial.matrix \in Seq(Row) /\ partial.chunks \in Seq(Line)
           /\ partial.checkpoint \in Checkpoint /\ partial.checkpoint # Nothing
           /\ partial.checkpoint.build = build
           /\ partial.checkpoint.next_offset \in Nat
           /\ partial.checkpoint.next_offset <= offset
           /\ partial.checkpoint.next_offset <= synced
           /\ partial.checkpoint.lines = partial.checkpoint.next_offset
           /\ build \in Builds /\ offset \in Nat /\ synced \in Nat
           /\ synced <= offset
           /\ Prefix(build, offset) /\ Payload(partial, build, offset)
           /\ Len(partial.chunks) = offset
           /\ Len(partial.matrix) = RecordCount[build]
           /\ RecordCount[build] \in Nat /\ Len(Source[build]) \in Nat
           /\ destination = Nothing
<1>1. partial \in Workspace /\ partial # Nothing /\ partial.checkpoint # Nothing
  BY DEF IInv, TypeOK, WorkInv
<1>2. /\ partial.checkpoint.build = build
      /\ partial.checkpoint.next_offset <= offset /\ synced <= offset
      /\ Prefix(build, offset) /\ Payload(partial, build, offset)
      /\ Len(partial.chunks) = offset
  BY DEF IInv, WorkInv
<1>3. partial.matrix # Nothing /\ partial.chunks # Nothing
      /\ Len(partial.matrix) = RecordCount[build]
  BY <1>2 DEF Payload
<1>4. /\ partial.matrix \in Seq(Row) /\ partial.chunks \in Seq(Line)
      /\ partial.checkpoint \in Checkpoint
  BY <1>1, <1>3, WorkspaceFields
<1>5. build \in Builds /\ offset \in Nat /\ synced \in Nat
  BY DEF IInv, TypeOK
<1>6. Source[build] \in Seq(Chunks) /\ RecordCount[build] \in Nat
  BY <1>5, BuildAssumption
<1>7. Len(Source[build]) \in Nat
  BY <1>6, LenProperties
<1>8. partial.checkpoint.next_offset \in Nat
  BY <1>4 DEF Checkpoint
<1>9. /\ partial.checkpoint.lines = partial.checkpoint.next_offset
      /\ partial.checkpoint.next_offset <= synced
  BY <1>1 DEF IInv, CheckpointInv
<1>10. destination = Nothing
  BY DEF IInv, DestinationInv, Working
<1> QED
  BY <1>1, <1>2, <1>3, <1>4, <1>5, <1>6, <1>7, <1>8, <1>9, <1>10

\* Steps of the process that change neither directory nor its own build.
LEMMA QuietStepKeeps ==
    ASSUME IInv, ResumeRefused \/ EndOfBatches \/ TooManyChunks \/ EmbeddingFails
                  \/ CountDiffers \/ UNCHANGED vars
    PROVE  IInv'
<1>1. TypeOK'
  BY BuildAssumption, SMTT(40) DEF IInv, TypeOK, ResumeRefused, EndOfBatches, TooManyChunks,
       EmbeddingFails, CountDiffers, Exit, vars, process, Pcs
<1>2. CheckpointInv'
  BY DEF IInv, CheckpointInv, ResumeRefused, EndOfBatches, TooManyChunks,
       EmbeddingFails, CountDiffers, Exit, vars, process, Prefix, Payload
<1>3. PreparationInv' /\ DestinationInv'
  BY ZenonT(40) DEF IInv, PreparationInv, DestinationInv, ResumeRefused, EndOfBatches,
       TooManyChunks, EmbeddingFails, CountDiffers, Exit, vars, process, Prefix, Payload
<1>4. WorkInv'
  <2>1. CASE EndOfBatches
    BY <2>1 DEF IInv, WorkInv, EndOfBatches, Working, Prefix, Payload
  <2>2. CASE UNCHANGED vars
    BY <2>2 DEF IInv, WorkInv, vars, process, Prefix, Payload
  <2>3. CASE ResumeRefused \/ TooManyChunks \/ EmbeddingFails \/ CountDiffers
    BY <2>3 DEF WorkInv, Working, ResumeRefused, TooManyChunks, EmbeddingFails,
                CountDiffers, Exit
  <2> QED
    BY <2>1, <2>2, <2>3
<1> QED
  BY <1>1, <1>2, <1>3, <1>4 DEF IInv

LEMMA SyncPayloadKeeps ==
    ASSUME IInv, SyncPayload
    PROVE  IInv'
<1>1. pc \in Working
  BY DEF SyncPayload, Working
<1>2. TypeOK'
  BY DEF IInv, TypeOK, SyncPayload, Pcs
<1>3. CheckpointInv'
  <2>1. partial.checkpoint.next_offset <= offset
    BY <1>1, WorkingFacts
  <2> QED
    BY <2>1 DEF IInv, CheckpointInv, SyncPayload, Prefix, Payload
<1>4. PreparationInv' /\ DestinationInv'
  BY DEF IInv, PreparationInv, DestinationInv, SyncPayload
<1>5. WorkInv'
  <2>1. offset <= offset
    BY DEF IInv, TypeOK
  <2> QED
    BY <1>1, <2>1 DEF IInv, WorkInv, SyncPayload, Working, Prefix, Payload
<1> QED
  BY <1>2, <1>3, <1>4, <1>5 DEF IInv

LEMMA BatchEndBounds ==
    ASSUME TypeOK, offset < Len(Source[build])
    PROVE  /\ BatchEnd \in Nat
           /\ offset <= BatchEnd
           /\ BatchEnd <= Len(Source[build])
<1>1. Source[build] \in Seq(Chunks) /\ offset \in Nat /\ BatchSize \in Nat \ {0}
  BY BuildAssumption DEF TypeOK
<1>2. Len(Source[build]) \in Nat
  BY <1>1, LenProperties
<1> QED
  BY <1>1, <1>2 DEF BatchEnd

\* A batch of unseen chunks extends a prefix of distinct ones.
LEMMA UnseenExtendsPrefix ==
    ASSUME TypeOK, Prefix(build, offset),
           \A i \in 1..offset : partial.chunks[i] = Source[build][i],
           NEW n \in Nat, n <= Len(Source[build]), n <= RecordCount[build],
           \A i \in offset + 1..n : Unseen(i)
    PROVE  Prefix(build, n)
<1>1. offset \in Nat
  BY DEF TypeOK
<1>2. ASSUME NEW i \in 1..n, NEW j \in 1..i - 1
      PROVE  Source[build][i] # Source[build][j]
  <2>1. CASE i <= offset
    <3>1. i \in 1..offset /\ j \in 1..offset /\ i # j
      BY <2>1, <1>1
    <3> QED
      BY <3>1 DEF Prefix
  <2>2. CASE i > offset
    <3>1. Unseen(i)
      BY <2>2, <1>1
    <3>2. j <= offset => j \in 1..offset
      BY <1>1
    <3> QED
      BY <3>1, <3>2 DEF Unseen
  <2> QED
    BY <2>1, <2>2, <1>1
<1>3. ASSUME NEW i \in 1..n, NEW j \in 1..n, Source[build][i] = Source[build][j]
      PROVE  i = j
  <2>1. ~ (j \in 1..i - 1) /\ ~ (i \in 1..j - 1)
    BY <1>2, <1>3
  <2> QED
    BY <2>1
<1> QED
  BY <1>3 DEF Prefix

LEMMA WriteBatchKeeps ==
    ASSUME IInv, WriteBatch
    PROVE  IInv' /\ KeepsCommitted
<1> DEFINE n == BatchEnd
           m == RowsWritten(n)
           l == partial.chunks \o SubSeq(Source[build], offset + 1, n)
<1>1. pc \in Working /\ TypeOK
  BY DEF IInv, WriteBatch, Working
<1>2. n \in Nat /\ offset <= n /\ n <= Len(Source[build]) /\ n <= RecordCount[build]
  BY <1>1, BatchEndBounds DEF WriteBatch
<1>3. /\ \A i \in 1..offset : partial.matrix[i] = Embedding(build, Source[build][i])
      /\ \A i \in 1..offset : partial.chunks[i] = Source[build][i]
      /\ partial.matrix # Nothing /\ partial.chunks # Nothing
  BY <1>1, WorkingFacts DEF Payload
<1>4. Prefix(build, n)
  <2>1. \A i \in offset + 1..n : Unseen(i)
    BY DEF WriteBatch
  <2> HIDE DEF n
  <2> QED
    BY <1>1, <1>2, <1>3, <2>1, WorkingFacts, UnseenExtendsPrefix
<1>5. n <= Len(partial.matrix) /\ partial # Nothing /\ Len(partial.chunks) = offset
  BY <1>1, <1>2, WorkingFacts
<1>6. partial' = [partial EXCEPT !.matrix = m, !.chunks = l]
  BY DEF WriteBatch
<1>7. /\ offset' = n /\ build' = build /\ synced' = synced
      /\ destination' = destination /\ pc' \in {"sync", "batch"}
  BY DEF WriteBatch
<1> HIDE DEF n
<1>8. /\ m \in Seq(Row) /\ Len(m) = Len(partial.matrix)
      /\ \A i \in 1..n : m[i] = Embedding(build, Source[build][i])
  BY <1>1, <1>2, <1>3, <1>5, RowsAreWritten
<1>9. /\ l \in Seq(Line) /\ Len(l) = n
      /\ \A i \in 1..n : l[i] = Source[build][i]
  BY <1>1, <1>2, <1>3, <1>5, LinesAreAppended
<1> HIDE DEF m, l
<1>10. /\ partial' \in Workspace /\ partial' # Nothing
       /\ partial'.matrix = m /\ partial'.chunks = l
       /\ partial'.checkpoint = partial.checkpoint
  <2>1. partial \in Workspace
    BY <1>1, WorkingFacts
  <2>2. /\ partial' \in Workspace
        /\ partial'.matrix = m /\ partial'.chunks = l
        /\ partial'.checkpoint = partial.checkpoint
    BY <1>6, <1>8, <1>9, <2>1 DEF Workspace
  <2> QED
    BY <2>2, WorkspaceFields
<1>11. TypeOK'
  <2>1. batches' \in Nat
    BY <1>1 DEF TypeOK, WriteBatch
  <2>2. pc' \in Pcs
    BY <1>7 DEF Pcs
  <2> QED
    BY <1>1, <1>2, <1>7, <1>10, <2>1, <2>2 DEF TypeOK, WriteBatch
<1>12. Payload(partial', build, n)
  <2>1. m # Nothing /\ l # Nothing
    BY <1>8, <1>9, DamageAssumption
  <2> QED
    BY <1>1, <1>2, <1>8, <1>9, <1>10, <2>1, WorkingFacts DEF Payload
<1>13. WorkInv'
  BY <1>1, <1>2, <1>4, <1>7, <1>9, <1>10, <1>12, WorkingFacts
     DEF WorkInv, Prefix, Payload
<1>14. CheckpointInv'
  <2> DEFINE k == partial.checkpoint.next_offset
  <2>1. k \in Nat /\ k <= n /\ k <= synced
    BY <1>1, <1>2, WorkingFacts
  <2>2. Prefix(build, k) /\ Payload(partial', build, k)
    BY <1>2, <1>4, <1>12, <2>1, SMTT(40) DEF Prefix, Payload
  <2>3. /\ partial'.checkpoint.build = build
        /\ partial'.checkpoint.next_offset = k /\ partial'.checkpoint.lines = k
    BY <1>1, <1>10, WorkingFacts
  <2> HIDE DEF k
  <2> QED
    BY <1>7, <2>1, <2>2, <2>3 DEF CheckpointInv
<1>15. PreparationInv' /\ DestinationInv'
  BY <1>1, <1>7, WorkingFacts DEF PreparationInv, DestinationInv
<1>16. KeepsCommitted
  BY <1>5, <1>7, <1>10 DEF KeepsCommitted
<1> QED
  BY <1>11, <1>13, <1>14, <1>15, <1>16 DEF IInv

LEMMA DuplicateChunkKeeps ==
    ASSUME IInv, NEW i \in DOMAIN Source[build], DuplicateChunk(i)
    PROVE  IInv' /\ KeepsCommitted
<1> DEFINE n == BatchEnd
           m == RowsWritten(n)
           l == partial.chunks \o SubSeq(Source[build], offset + 1, i - 1)
<1>1. /\ pc \in Working /\ TypeOK /\ i \in offset + 1..n
      /\ BatchEnd <= RecordCount[build]
  BY DEF IInv, DuplicateChunk, Working
<1>2. /\ offset \in Nat /\ Source[build] \in Seq(Chunks)
      /\ Len(Source[build]) \in Nat /\ i \in Nat /\ i <= Len(Source[build])
  <2>1. offset \in Nat /\ Source[build] \in Seq(Chunks)
    BY <1>1, BuildAssumption DEF TypeOK
  <2> QED
    BY <2>1, LenProperties
<1>3. offset < Len(Source[build])
  <2>1. offset + 1 <= i
    BY <1>1, <1>2
  <2> QED
    BY <1>2, <2>1
<1>4. n \in Nat /\ offset <= n /\ n <= Len(Source[build]) /\ n <= RecordCount[build]
  BY <1>1, <1>3, BatchEndBounds
<1>5. /\ \A j \in 1..offset : partial.matrix[j] = Embedding(build, Source[build][j])
      /\ \A j \in 1..offset : partial.chunks[j] = Source[build][j]
      /\ partial.matrix # Nothing /\ partial.chunks # Nothing
  BY <1>1, WorkingFacts DEF Payload
<1>6. n <= Len(partial.matrix) /\ partial # Nothing /\ Len(partial.chunks) = offset
  BY <1>1, <1>4, WorkingFacts
<1>7. partial' = [partial EXCEPT !.matrix = m, !.chunks = l]
  BY DEF DuplicateChunk
<1>8. /\ pc' = "off" /\ build' = build /\ synced' = synced
      /\ destination' = destination
  BY DEF DuplicateChunk, Exit
<1>9. i - 1 \in Nat /\ offset <= i - 1 /\ i - 1 <= Len(Source[build])
  <2> HIDE DEF n
  <2> QED
    BY <1>1, <1>2, <1>4
<1> HIDE DEF n
<1>10. /\ m \in Seq(Row) /\ Len(m) = Len(partial.matrix)
       /\ \A j \in 1..n : m[j] = Embedding(build, Source[build][j])
  BY <1>1, <1>4, <1>5, <1>6, RowsAreWritten
<1>11. /\ l \in Seq(Line) /\ Len(l) = i - 1
       /\ \A j \in 1..i - 1 : l[j] = Source[build][j]
  BY <1>1, <1>5, <1>6, <1>9, LinesAreAppended
<1> HIDE DEF m, l
<1>12. /\ partial' \in Workspace /\ partial'.matrix = m /\ partial'.chunks = l
       /\ partial'.checkpoint = partial.checkpoint
  <2>1. partial \in Workspace
    BY <1>1, WorkingFacts
  <2> QED
    BY <1>7, <1>10, <1>11, <2>1 DEF Workspace
<1>13. TypeOK'
  <2>1. /\ offset' \in Nat /\ batches' \in Nat /\ cadence' = cadence
        /\ failures' = failures
    BY DEF DuplicateChunk, Exit
  <2> QED
    BY <1>1, <1>8, <1>12, <2>1 DEF TypeOK, Pcs
<1>14. CheckpointInv'
  <2> DEFINE k == partial.checkpoint.next_offset
  <2>1. k \in Nat /\ k <= offset /\ k <= synced /\ Prefix(build, offset)
    BY <1>1, WorkingFacts
  <2>2. /\ partial'.checkpoint.build = build
        /\ partial'.checkpoint.next_offset = k /\ partial'.checkpoint.lines = k
    BY <1>1, <1>12, WorkingFacts
  <2>5. Prefix(build, k)
    BY <1>1, WorkingFacts DEF IInv, CheckpointInv
  <2>3. Len(m) = RecordCount[build] /\ m # Nothing /\ l # Nothing
    BY <1>1, <1>10, <1>11, WorkingFacts, DamageAssumption
  <2> HIDE DEF k
  <2>4. k <= n /\ k <= i - 1
    BY <1>2, <1>4, <1>9, <2>1
  <2>6. Payload(partial', build, k)
    BY <1>4, <1>9, <1>10, <1>11, <1>12, <2>1, <2>3, <2>4, SMTT(40) DEF Payload
  <2> QED
    BY <1>8, <2>1, <2>2, <2>5, <2>6 DEF CheckpointInv
<1>15. PreparationInv' /\ WorkInv' /\ DestinationInv'
  BY <1>1, <1>8, WorkingFacts DEF PreparationInv, WorkInv, DestinationInv, Working
<1>16. KeepsCommitted
  BY <1>6, <1>8, <1>12, WorkspaceFields DEF KeepsCommitted
<1> QED
  BY <1>13, <1>14, <1>15, <1>16 DEF IInv

LEMMA PublishCheckpointKeeps ==
    ASSUME IInv, PublishCheckpoint
    PROVE  IInv'
<1> DEFINE c == CheckpointAt(offset)
<1>1. pc \in Working /\ TypeOK
  BY DEF IInv, PublishCheckpoint, Working
<1>2. synced = offset
  BY <1>1 DEF IInv, WorkInv, PublishCheckpoint
<1>3. /\ c \in Checkpoint /\ c.build = build
      /\ c.next_offset = offset /\ c.lines = offset
  BY <1>1, WorkingFacts DEF CheckpointAt, Checkpoint
<1>4. partial' = [partial EXCEPT !.checkpoint = c]
  BY DEF PublishCheckpoint
<1> HIDE DEF c
<1>5. /\ partial' \in Workspace /\ partial'.checkpoint = c
      /\ partial'.matrix = partial.matrix /\ partial'.chunks = partial.chunks
  <2>1. partial \in Workspace
    BY <1>1, WorkingFacts
  <2> QED
    BY <1>3, <1>4, <2>1 DEF Workspace
<1>6. partial' # Nothing /\ partial'.checkpoint # Nothing
  BY <1>3, <1>5, DamageAssumption
<1>7. TypeOK'
  BY <1>1, <1>5 DEF TypeOK, PublishCheckpoint, Pcs
<1>8. /\ Prefix(build, offset) /\ Payload(partial', build, offset)
      /\ offset \in Nat /\ Len(partial'.chunks) = offset
  BY <1>1, <1>5, WorkingFacts DEF Payload
<1>9. /\ build' = build /\ offset' = offset /\ synced' = synced
      /\ destination' = destination
      /\ pc' = IF pc = "checkpoint" THEN "batch" ELSE "manifest"
  BY DEF PublishCheckpoint
<1>10. CheckpointInv'
  BY <1>2, <1>3, <1>5, <1>8, <1>9 DEF CheckpointInv
<1>11. pc' = "manifest" => offset = Len(Source[build])
  BY <1>1, <1>9 DEF IInv, WorkInv, PublishCheckpoint
<1>12. WorkInv'
  BY <1>2, <1>3, <1>5, <1>6, <1>8, <1>9, <1>11 DEF WorkInv, Prefix, Payload
<1>13. PreparationInv' /\ DestinationInv'
  BY <1>1, <1>9, WorkingFacts DEF PreparationInv, DestinationInv
<1> QED
  BY <1>7, <1>10, <1>12, <1>13 DEF IInv

LEMMA WriteManifestKeeps ==
    ASSUME IInv, WriteManifest
    PROVE  IInv' /\ KeepsCommitted
<1> DEFINE f == [build |-> build, matrix |-> partial.matrix,
                 chunks |-> partial.chunks]
<1>1. pc \in Working /\ TypeOK /\ offset = RecordCount[build]
  BY DEF IInv, WriteManifest, Working
<1>2. f \in Manifest
  BY <1>1, WorkingFacts DEF Manifest
<1>3. partial' = [partial EXCEPT !.manifest = f]
  BY DEF WriteManifest
<1> HIDE DEF f
<1>4. /\ partial' \in Workspace /\ partial'.checkpoint = partial.checkpoint
      /\ partial'.matrix = partial.matrix /\ partial'.chunks = partial.chunks
      /\ partial'.manifest = f
  <2>1. partial \in Workspace
    BY <1>1, WorkingFacts
  <2> QED
    BY <1>2, <1>3, <2>1 DEF Workspace
<1>5. partial' # Nothing
  BY <1>4, DamageAssumption
<1>6. TypeOK'
  BY <1>1, <1>4 DEF TypeOK, WriteManifest, Pcs
<1>7. /\ build' = build /\ offset' = offset /\ synced' = synced
      /\ destination' = destination /\ pc' = "publish"
  BY DEF WriteManifest
<1>8. synced = offset /\ offset = Len(Source[build])
      /\ partial.checkpoint.next_offset = offset
  BY <1>1 DEF IInv, WorkInv, WriteManifest
<1>9. Payload(partial', build, offset) /\ Prefix(build, offset)
  BY <1>1, <1>4, WorkingFacts DEF Payload
<1>10. /\ partial'.checkpoint # Nothing /\ partial'.checkpoint.build = build
       /\ partial'.checkpoint.next_offset = offset
       /\ partial'.checkpoint.lines = offset
       /\ Len(partial'.chunks) = offset /\ offset \in Nat
  BY <1>1, <1>4, <1>8, WorkingFacts
<1>11. CheckpointInv'
  BY <1>7, <1>8, <1>9, <1>10 DEF CheckpointInv
<1>12. partial'.manifest = [build |-> build', matrix |-> partial'.matrix,
                            chunks |-> partial'.chunks]
  BY <1>4, <1>7 DEF f
<1>13. WorkInv'
  BY <1>1, <1>5, <1>7, <1>8, <1>9, <1>10, <1>12 DEF WorkInv, Prefix, Payload
<1>14. PreparationInv' /\ DestinationInv'
  BY <1>1, <1>7, WorkingFacts DEF PreparationInv, DestinationInv
<1>15. KeepsCommitted
  BY <1>1, <1>4, <1>5, <1>7, WorkingFacts DEF KeepsCommitted
<1> QED
  BY <1>6, <1>11, <1>13, <1>14, <1>15 DEF IInv

LEMMA PublishDirectoryKeeps ==
    ASSUME IInv, PublishDirectory
    PROVE  IInv'
<1>1. pc \in Working /\ TypeOK
  BY DEF IInv, PublishDirectory, Working
<1>2. partial \in Workspace /\ partial # Nothing
  BY <1>1, WorkingFacts
<1>3. /\ destination' = partial /\ partial' = Nothing /\ pc' = "cleanup"
  BY DEF PublishDirectory
<1>4. TypeOK'
  BY <1>1, <1>2, <1>3 DEF TypeOK, PublishDirectory, Pcs
<1>5. CheckpointInv' /\ PreparationInv' /\ WorkInv'
  BY <1>3 DEF CheckpointInv, PreparationInv, WorkInv, Working
<1>6. /\ offset = RecordCount[build] /\ offset = Len(Source[build])
      /\ partial.manifest = [build |-> build, matrix |-> partial.matrix,
                             chunks |-> partial.chunks]
      /\ Prefix(build, offset) /\ Payload(partial, build, offset)
      /\ Len(partial.chunks) = offset
  BY <1>1 DEF IInv, WorkInv, PublishDirectory
<1>7. partial.manifest # Nothing
  <2>1. partial.manifest \in Manifest
    BY <1>1, <1>6, WorkingFacts DEF Manifest
  <2> QED
    BY <2>1, DamageAssumption
<1>8. partial.manifest.build = build
  BY <1>6
<1>9. DestinationInv'
  <2>1. /\ destination'.manifest # Nothing /\ destination'.manifest.build = build
        /\ destination'.manifest.matrix = destination'.matrix
        /\ destination'.manifest.chunks = destination'.chunks
        /\ Len(destination'.chunks) = RecordCount[build]
    BY <1>3, <1>6, <1>7
  <2>2. /\ Prefix(build, RecordCount[build])
        /\ Payload(destination', build, RecordCount[build])
        /\ Len(Source[build]) = RecordCount[build]
    BY <1>3, <1>6
  <2> QED
    BY <1>2, <1>3, <2>1, <2>2 DEF DestinationInv
<1> QED
  BY <1>4, <1>5, <1>9 DEF IInv

LEMMA RemoveCheckpointKeeps ==
    ASSUME IInv, RemoveCheckpoint
    PROVE  IInv'
<1>1. destination \in Workspace /\ destination # Nothing /\ partial = Nothing
  BY DEF IInv, TypeOK, DestinationInv, RemoveCheckpoint
<1>2. destination' = [destination EXCEPT !.checkpoint = Nothing]
  BY DEF RemoveCheckpoint
<1>3. /\ destination' \in Workspace
      /\ destination'.matrix = destination.matrix
      /\ destination'.chunks = destination.chunks
      /\ destination'.manifest = destination.manifest
  BY <1>1, <1>2 DEF Workspace
<1>4. TypeOK'
  BY <1>3 DEF IInv, TypeOK, RemoveCheckpoint, Pcs
<1>5. CheckpointInv' /\ PreparationInv' /\ WorkInv'
  BY <1>1 DEF RemoveCheckpoint, CheckpointInv, PreparationInv, WorkInv, Working
<1>6. DestinationInv'
  BY <1>1, <1>3 DEF IInv, DestinationInv, RemoveCheckpoint, Prefix, Payload
<1> QED
  BY <1>4, <1>5, <1>6 DEF IInv

\* What a failure leaves of the rows and of the lines: everything flushed.
LEMMA RowsSurvive ==
    ASSUME NEW m \in Seq(Row), NEW k \in Nat, NEW lost,
           \A i \in lost : i > k
    PROVE  /\ SurvivingRows(m, lost) \in Seq(Row)
           /\ Len(SurvivingRows(m, lost)) = Len(m)
           /\ \A i \in 1..k : i \in DOMAIN m => SurvivingRows(m, lost)[i] = m[i]
<1> DEFINE new == SurvivingRows(m, lost)
           e(i) == IF i \in lost THEN Blank ELSE m[i]
<1>1. Len(m) \in Nat /\ DOMAIN m = 1..Len(m) /\ \A i \in 1..Len(m) : m[i] \in Row
  BY LenProperties, ElementOfSeq
<1>2. \A i \in 1..Len(m) : e(i) \in Row
  BY <1>1 DEF Row
<1>3. new = [i \in 1..Len(m) |-> e(i)]
  BY <1>1 DEF SurvivingRows
<1>4. \A i \in 1..k : e(i) = m[i]
  OBVIOUS
<1> HIDE DEF e
<1>5. [i \in 1..Len(m) |-> e(i)] \in Seq(Row)
  BY <1>1, <1>2, IsASeq
<1>6. Len(new) = Len(m)
  BY <1>1, <1>3, <1>5, LenProperties
<1>7. \A i \in 1..k : i \in DOMAIN m => new[i] = m[i]
  BY <1>1, <1>3, <1>4
<1> QED
  BY <1>3, <1>5, <1>6, <1>7

LEMMA LinesSurvive ==
    ASSUME NEW l \in Seq(Line), NEW n \in Nat, n <= Len(l),
           NEW tail \in {<<>>, <<Torn>>}
    PROVE  /\ SurvivingLines(l, n, tail) \in Seq(Line)
           /\ n <= Len(SurvivingLines(l, n, tail))
           /\ \A i \in 1..n : SurvivingLines(l, n, tail)[i] = l[i]
<1> DEFINE h == SubSeq(l, 1, n)
<1>1. \A i \in 1..n : l[i] \in Line
  BY LenProperties, ElementOfSeq
<1>2. 1 \in Int /\ n \in Int
  OBVIOUS
<1>3. /\ h \in Seq(Line) /\ Len(h) = IF 1 <= n THEN n - 1 + 1 ELSE 0
      /\ \A i \in 1..n - 1 + 1 : h[i] = l[1 + i - 1]
  BY <1>1, <1>2, SubSeqProperties
<1> HIDE DEF h
<1>4. Len(h) = n /\ \A i \in 1..n : h[i] = l[i]
  BY <1>3
<1>5. tail \in Seq(Line)
  <2>1. Torn \in Line /\ <<>> \in Seq(Line)
    BY EmptySeq DEF Line
  <2>2. <<Torn>> \in Seq(Line)
    BY <2>1
  <2> QED
    BY <2>1, <2>2
<1>6. Len(tail) \in Nat
  BY <1>5, LenProperties
<1> DEFINE cat == h \o tail
<1>7. /\ cat \in Seq(Line) /\ Len(cat) = Len(h) + Len(tail)
      /\ \A i \in 1..Len(h) + Len(tail) :
           cat[i] = IF i <= Len(h) THEN h[i] ELSE tail[i - Len(h)]
  BY <1>3, <1>5, ConcatProperties, ZenonT(40)
<1> HIDE DEF cat
<1>8. n <= Len(cat) /\ \A i \in 1..n : cat[i] = l[i]
  BY <1>4, <1>6, <1>7
<1> QED
  BY <1>7, <1>8 DEF cat, h, SurvivingLines

LEMMA CrashKeeps ==
    ASSUME IInv, Crash
    PROVE  IInv' /\ KeepsCommitted
<1>1. /\ TypeOK /\ pc' = "off" /\ offset' = 0 /\ batches' = 0
      /\ build' = build /\ cadence' = cadence /\ destination' = destination
      /\ synced' = synced /\ failures' = failures + 1 /\ failures < MaxFailures
  BY DEF IInv, Crash, Exit
<1>2. PreparationInv' /\ WorkInv'
  BY <1>1 DEF PreparationInv, WorkInv, Working
<1>3. failures' \in 0..MaxFailures
  BY <1>1, BuildAssumption DEF TypeOK
<1>4. CASE ~ HasPayload(partial)
  <2>1. partial' = partial
    BY <1>4 DEF Crash
  <2>2. TypeOK'
    BY <1>1, <1>3, <2>1, SMTT(40) DEF TypeOK, Pcs
  <2>3. CheckpointInv' /\ DestinationInv'
    BY <1>1, <2>1, ZenonT(40) DEF IInv, CheckpointInv, DestinationInv, Prefix, Payload, Crash
  <2> QED
    BY <1>1, <1>2, <2>1, <2>2, <2>3 DEF IInv, KeepsCommitted
<1>5. CASE HasPayload(partial)
  <2>1. PICK lost \in SUBSET {i \in DOMAIN partial.matrix : i > synced},
             n \in synced..Len(partial.chunks), tail \in {<<>>, <<Torn>>} :
          partial' = [partial EXCEPT
            !.matrix = SurvivingRows(@, lost),
            !.chunks = SurvivingLines(@, n, tail)]
    BY <1>5, ZenonT(40) DEF Crash
  <2> DEFINE m == SurvivingRows(partial.matrix, lost)
             l == SurvivingLines(partial.chunks, n, tail)
  <2>2. /\ partial \in Workspace /\ synced \in Nat
        /\ partial.matrix \in Seq(Row) /\ partial.chunks \in Seq(Line)
    BY <1>1, <1>5, WorkspaceFields DEF TypeOK, HasPayload
  <2>3. n \in Nat /\ synced <= n /\ n <= Len(partial.chunks)
    BY <2>2, LenProperties
  <2>4. partial' = [partial EXCEPT !.matrix = m, !.chunks = l]
    BY <2>1
  <2>5. /\ m \in Seq(Row) /\ Len(m) = Len(partial.matrix)
        /\ \A i \in 1..synced : i \in DOMAIN partial.matrix => m[i] = partial.matrix[i]
    BY <2>2, RowsSurvive
  <2>6. /\ l \in Seq(Line) /\ n <= Len(l)
        /\ \A i \in 1..n : l[i] = partial.chunks[i]
    BY <2>2, <2>3, LinesSurvive
  <2> HIDE DEF m, l
  <2>7. /\ partial' \in Workspace /\ partial'.matrix = m /\ partial'.chunks = l
        /\ partial'.checkpoint = partial.checkpoint
    BY <2>2, <2>4, <2>5, <2>6 DEF Workspace
  <2>8. TypeOK'
    BY <1>1, <1>3, <2>7 DEF TypeOK, Pcs
  <2>9. DestinationInv'
    BY <1>1, <1>5 DEF IInv, DestinationInv, HasPayload
  <2>10. ASSUME partial.checkpoint # Nothing
         PROVE  CheckpointInv'
    <3> DEFINE k == partial.checkpoint.next_offset
               b == partial.checkpoint.build
    <3>1. b \in Builds /\ k \in Nat
      BY <2>2, <2>10, WorkspaceFields DEF Checkpoint
    <3>2. /\ partial.checkpoint.lines = k /\ k <= synced
          /\ Prefix(b, k) /\ Payload(partial, b, k)
      BY <1>5, <2>10 DEF IInv, CheckpointInv, HasPayload
    <3>3. RecordCount[b] \in Nat
      BY <3>1, BuildAssumption
    <3> HIDE DEF k, b
    <3>4. /\ Len(partial.matrix) = RecordCount[b] /\ k <= RecordCount[b]
          /\ DOMAIN partial.matrix = 1..RecordCount[b]
      BY <2>2, <3>2, LenProperties DEF Prefix, Payload
    <3>5. \A i \in 1..k : i \in 1..synced /\ i \in 1..n /\ i \in DOMAIN partial.matrix
      BY <2>2, <2>3, <3>1, <3>2, <3>3, <3>4
    <3>6. /\ m # Nothing /\ l # Nothing /\ k <= Len(l) /\ Len(m) = RecordCount[b]
      <4>1. Len(l) \in Nat
        BY <2>6, LenProperties
      <4> QED
        BY <2>2, <2>3, <2>5, <2>6, <3>1, <3>2, <3>4, <4>1, DamageAssumption
    <3>7. Payload(partial', b, k)
      BY <2>5, <2>6, <2>7, <3>2, <3>5, <3>6 DEF Payload
    <3>8. /\ partial'.checkpoint.lines = k /\ partial'.checkpoint.next_offset = k
          /\ partial'.checkpoint.build = b
      BY <2>7, <3>2 DEF k, b
    <3> QED
      BY <1>1, <3>2, <3>7, <3>8 DEF CheckpointInv
  <2>11. CheckpointInv'
    BY <2>7, <2>10 DEF CheckpointInv
  <2>12. KeepsCommitted
    BY <1>1, <1>5, <2>7, WorkspaceFields DEF KeepsCommitted, HasPayload
  <2> QED
    BY <1>2, <2>8, <2>9, <2>11, <2>12 DEF IInv
<1> QED
  BY <1>4, <1>5

\* Every step of the specification keeps the invariant.
LEMMA NextKeeps == IInv /\ [Next]_vars => IInv'
<1> SUFFICES ASSUME IInv, [Next]_vars PROVE IInv'
  OBVIOUS
<1>1. CASE \E b \in Builds, n \in Cadences : Start(b, n)
  BY <1>1, StartKeeps
<1>2. CASE MakeDirectory \/ AllocateMatrix \/ TouchChunks \/ PreparationFails
  BY <1>2, PreparationKeeps
<1>3. CASE FirstCheckpoint
  BY <1>3, FirstCheckpointKeeps
<1>4. CASE Resume
  BY <1>4, ResumeKeeps
<1>5. CASE \/ ResumeRefused \/ EndOfBatches \/ TooManyChunks \/ EmbeddingFails
           \/ CountDiffers \/ UNCHANGED vars
  BY <1>5, QuietStepKeeps
<1>6. CASE WriteBatch
  BY <1>6, WriteBatchKeeps
<1>7. CASE \E i \in DOMAIN Source[build] : DuplicateChunk(i)
  BY <1>7, DuplicateChunkKeeps
<1>8. CASE SyncPayload
  BY <1>8, SyncPayloadKeeps
<1>9. CASE PublishCheckpoint
  BY <1>9, PublishCheckpointKeeps
<1>10. CASE WriteManifest
  BY <1>10, WriteManifestKeeps
<1>11. CASE PublishDirectory
  BY <1>11, PublishDirectoryKeeps
<1>12. CASE RemoveCheckpoint
  BY <1>12, RemoveCheckpointKeeps
<1>13. CASE Crash
  BY <1>13, CrashKeeps
<1> QED
  BY <1>1, <1>2, <1>3, <1>4, <1>5, <1>6, <1>7, <1>8, <1>9, <1>10, <1>11, <1>12,
     <1>13 DEF Next, Step

LEMMA Invariance == Spec => []IInv
<1>1. Init => IInv
  BY InitKeeps
<1>2. IInv /\ [Next]_vars => IInv'
  BY NextKeeps
<1> QED
  BY <1>1, <1>2, PTL DEF Spec
--------------------------------------------------------------------------------
(* What follows from the invariant *)

\* A payload is made of whole, distinct chunks.
LEMMA PayloadIsValid ==
    ASSUME NEW ws, NEW b \in Builds, NEW n \in Nat, Prefix(b, n), Payload(ws, b, n)
    PROVE  CommittedLinesValid(ws.chunks, n)
<1>1. Source[b] \in Seq(Chunks) /\ Len(Source[b]) \in Nat
  BY BuildAssumption, LenProperties
<1>2. \A i \in 1..n : Source[b][i] \in Chunks
  BY <1>1, ElementOfSeq DEF Prefix
<1> QED
  BY <1>2, DamageAssumption DEF CommittedLinesValid, Prefix, Payload

\* A payload of a whole build has the embedding of a chunk in every row.
LEMMA PayloadRowsAreValid ==
    ASSUME NEW ws, NEW b \in Builds, ws.matrix \in Seq(Row),
           Prefix(b, RecordCount[b]), Payload(ws, b, RecordCount[b])
    PROVE  RowsValid(ws.matrix)
<1>1. Source[b] \in Seq(Chunks) /\ Len(Source[b]) \in Nat
  BY BuildAssumption, LenProperties
<1>2. \A i \in 1..RecordCount[b] : Source[b][i] \in Chunks
  <2>1. RecordCount[b] \in Nat
    BY BuildAssumption
  <2> QED
    BY <1>1, <2>1, ElementOfSeq DEF Prefix
<1>3. DOMAIN ws.matrix = 1..RecordCount[b]
  BY LenProperties DEF Payload
<1> QED
  BY <1>2, <1>3, DamageAssumption DEF Payload, RowsValid

\* The variables keep their types: no offset or count of flushed rows goes
\* below zero, every row, line and checkpoint is one the code writes.
THEOREM VectorTypeCorrect == Spec => []TypeOK
<1>1. IInv => TypeOK
  BY DEF IInv
<1> QED
  BY <1>1, Invariance, PTL

\* _commit_vector_checkpoint publishes a checkpoint only after its payload is
\* flushed, so _prepare_vector_workspace can resume from whatever is left.
THEOREM CheckpointsAreResumable == Spec => []CheckpointIsResumable
<1>1. IInv => CheckpointIsResumable
  <2> SUFFICES ASSUME IInv, partial # Nothing, partial.checkpoint # Nothing
               PROVE  Resumable(partial, partial.checkpoint.build)
    BY DEF CheckpointIsResumable
  <2>1. partial.checkpoint \in Checkpoint
    BY WorkspaceFields DEF IInv, TypeOK
  <2>2. partial.checkpoint.build \in Builds /\ partial.checkpoint.next_offset \in Nat
    BY <2>1 DEF Checkpoint
  <2>3. /\ partial.checkpoint.lines = partial.checkpoint.next_offset
        /\ Prefix(partial.checkpoint.build, partial.checkpoint.next_offset)
        /\ Payload(partial, partial.checkpoint.build, partial.checkpoint.next_offset)
    BY DEF IInv, CheckpointInv
  <2>4. CommittedLinesValid(partial.chunks, partial.checkpoint.next_offset)
    BY <2>2, <2>3, PayloadIsValid
  <2> QED
    BY <2>3, <2>4 DEF Resumable, Payload
<1> QED
  BY <1>1, Invariance, PTL

\* Whatever persist_vector_batches renames to the destination is accepted by
\* load_vector_artifact, its rows included, before and after the checkpoint is
\* removed from it.
THEOREM PublishedArtifactsLoad == Spec => []PublishedArtifactLoads
<1>1. IInv => PublishedArtifactLoads
  <2> SUFFICES ASSUME IInv, destination # Nothing PROVE Loadable(destination)
    BY DEF PublishedArtifactLoads
  <2> DEFINE b == destination.manifest.build
  <2>1. /\ destination.manifest # Nothing
        /\ destination.manifest.matrix = destination.matrix
        /\ destination.manifest.chunks = destination.chunks
        /\ Prefix(b, RecordCount[b]) /\ Payload(destination, b, RecordCount[b])
        /\ Len(destination.chunks) = RecordCount[b]
    BY DEF IInv, DestinationInv
  <2>2. destination.manifest \in Manifest
    BY <2>1, WorkspaceFields DEF IInv, TypeOK
  <2>3. b \in Builds /\ RecordCount[b] \in Nat
    BY <2>2, BuildAssumption DEF Manifest
  <2>4. CommittedLinesValid(destination.chunks, RecordCount[b])
    BY <2>1, <2>3, PayloadIsValid
  <2>5. RowsValid(destination.matrix)
    <3>1. destination.matrix \in Seq(Row)
      BY <2>1, WorkspaceFields DEF IInv, TypeOK, Payload
    <3> QED
      BY <2>1, <2>3, <3>1, PayloadRowsAreValid
  <2> QED
    BY <2>1, <2>4, <2>5 DEF Loadable, Payload
<1> QED
  BY <1>1, Invariance, PTL
--------------------------------------------------------------------------------
(* The refinement of VectorArtifact *)

\* What the promise sees of a step that commits and publishes nothing.
LEMMA KeptIsStutter ==
    ASSUME KeepsCommitted
    PROVE  UNCHANGED <<OwnerOf, CommittedOf, ArtifactOf>>
BY DEF KeepsCommitted, OwnerOf, CommittedOf, ArtifactOf

\* Before the first checkpoint nothing is promised.
LEMMA UnclaimedIsStutter ==
    ASSUME destination = Nothing, destination' = Nothing,
           partial # Nothing => partial.checkpoint = Nothing,
           partial' # Nothing => partial'.checkpoint = Nothing
    PROVE  UNCHANGED <<OwnerOf, CommittedOf, ArtifactOf>>
BY DEF OwnerOf, CommittedOf, ArtifactOf

LEMMA InitImplementsInit == Init => Promise!Init
BY DEF Init, Promise!Init, OwnerOf, CommittedOf, ArtifactOf

LEMMA PreparationImplements ==
    ASSUME IInv, MakeDirectory \/ AllocateMatrix \/ TouchChunks \/ PreparationFails
    PROVE  UNCHANGED <<OwnerOf, CommittedOf, ArtifactOf>>
<1>1. destination = Nothing /\ destination' = Nothing
  BY DEF IInv, DestinationInv, MakeDirectory, AllocateMatrix, TouchChunks,
         PreparationFails
<1>2. partial # Nothing => partial.checkpoint = Nothing
  BY DEF IInv, PreparationInv, MakeDirectory, AllocateMatrix, TouchChunks,
         PreparationFails
<1>3. partial' # Nothing => partial'.checkpoint = Nothing
  <2>1. CASE MakeDirectory
    BY <2>1 DEF MakeDirectory
  <2>2. CASE PreparationFails
    BY <2>2 DEF PreparationFails
  <2>3. CASE AllocateMatrix \/ TouchChunks
    <3>1. partial \in Workspace /\ partial.checkpoint = Nothing
      BY <2>3 DEF IInv, TypeOK, PreparationInv, AllocateMatrix, TouchChunks
    <3> QED
      BY <2>3, <3>1 DEF AllocateMatrix, TouchChunks, Workspace
  <2> QED
    BY <2>1, <2>2, <2>3
<1> QED
  BY <1>1, <1>2, <1>3, UnclaimedIsStutter

\* The first checkpoint claims the destination.
LEMMA FirstCheckpointImplements ==
    ASSUME IInv, FirstCheckpoint
    PROVE  Promise!Claim(build)
<1>1. /\ partial \in Workspace /\ partial # Nothing /\ partial.checkpoint = Nothing
      /\ destination = Nothing /\ destination' = Nothing
  BY DEF IInv, TypeOK, PreparationInv, DestinationInv, FirstCheckpoint
<1> DEFINE c == CheckpointAt(0)
<1>2. c.build = build /\ c.next_offset = 0
  BY DEF CheckpointAt
<1>3. c # Nothing
  <2>1. Len(partial.chunks) \in Nat /\ build \in Builds
    <3>1. partial.chunks = <<>> /\ build \in Builds
      BY DEF IInv, TypeOK, PreparationInv, FirstCheckpoint
    <3> QED
      BY <3>1
  <2>2. c \in Checkpoint
    BY <2>1 DEF CheckpointAt, Checkpoint
  <2> QED
    BY <2>2, DamageAssumption
<1>4. partial' = [partial EXCEPT !.checkpoint = c]
  BY DEF FirstCheckpoint
<1> HIDE DEF c
<1>5. partial'.checkpoint = c /\ partial' # Nothing
  <2>1. partial'.checkpoint = c
    BY <1>1, <1>4 DEF Workspace
  <2>2. partial' # Nothing
    BY FirstCheckpointKeeps DEF IInv, PreparationInv, FirstCheckpoint
  <2> QED
    BY <2>1, <2>2
<1>6. OwnerOf = Nothing /\ CommittedOf = 0 /\ ArtifactOf = Nothing
  BY <1>1 DEF OwnerOf, CommittedOf, ArtifactOf
<1>7. OwnerOf' = build /\ CommittedOf' = 0 /\ ArtifactOf' = Nothing
  BY <1>1, <1>2, <1>3, <1>5 DEF OwnerOf, CommittedOf, ArtifactOf
<1> QED
  BY <1>6, <1>7 DEF Promise!Claim

\* Every later checkpoint commits what was flushed since the one before it.
LEMMA PublishCheckpointImplements ==
    ASSUME IInv, PublishCheckpoint
    PROVE  Promise!Commit(build)
<1> DEFINE c == CheckpointAt(offset)
<1>1. pc \in Working
  BY DEF PublishCheckpoint, Working
<1>2. /\ partial \in Workspace /\ partial # Nothing /\ partial.checkpoint # Nothing
      /\ partial.checkpoint.build = build
      /\ partial.checkpoint.next_offset \in Nat
      /\ partial.checkpoint.next_offset <= offset
      /\ offset \in Nat /\ build \in Builds /\ Prefix(build, offset)
      /\ Len(partial.chunks) = offset
      /\ destination = Nothing /\ destination' = Nothing
      /\ Len(Source[build]) \in Nat
  BY <1>1, WorkingFacts DEF PublishCheckpoint
<1>3. c.build = build /\ c.next_offset = offset /\ c \in Checkpoint
  BY <1>2 DEF CheckpointAt, Checkpoint
<1>4. partial' = [partial EXCEPT !.checkpoint = c]
  BY DEF PublishCheckpoint
<1> HIDE DEF c
<1>5. partial'.checkpoint = c /\ partial' # Nothing
  <2>1. partial'.checkpoint = c /\ partial' \in Workspace
    BY <1>2, <1>3, <1>4 DEF Workspace
  <2> QED
    BY <2>1, WorkspaceFields
<1>6. c # Nothing
  BY <1>3, DamageAssumption
<1>7. /\ OwnerOf = build /\ CommittedOf = partial.checkpoint.next_offset
      /\ ArtifactOf = Nothing
  BY <1>2 DEF OwnerOf, CommittedOf, ArtifactOf
<1>8. OwnerOf' = build /\ CommittedOf' = offset /\ ArtifactOf' = Nothing
  BY <1>2, <1>3, <1>5, <1>6 DEF OwnerOf, CommittedOf, ArtifactOf
<1>9. /\ offset \in partial.checkpoint.next_offset..Len(Source[build])
      /\ offset <= RecordCount[build]
      /\ Promise!DistinctUpTo(build, offset)
  BY <1>2 DEF Prefix, Promise!DistinctUpTo
<1> QED
  BY <1>7, <1>8, <1>9 DEF Promise!Commit

\* A workspace whose payload is complete is the whole artifact.
LEMMA CompletePayloadIsWhole ==
    ASSUME NEW ws, ws.matrix \in Seq(Row), ws.chunks \in Seq(Line),
           NEW b \in Builds, Payload(ws, b, Len(Source[b])),
           Len(Source[b]) = RecordCount[b], Len(ws.chunks) = RecordCount[b]
    PROVE  [build |-> b, rows |-> ws.matrix, chunks |-> ws.chunks] = Promise!Whole(b)
<1> DEFINE s == Source[b]
           n == Len(s)
           rows == [i \in DOMAIN s |-> Embedding(b, s[i])]
<1>1. s \in Seq(Chunks) /\ n \in Nat /\ DOMAIN s = 1..n
      /\ \A i \in 1..n : s[i] \in Chunks
  BY BuildAssumption, LenProperties, ElementOfSeq
<1>2. rows \in Seq(Row) /\ Len(rows) = n
  <2>1. \A i \in 1..n : Embedding(b, s[i]) \in Row
    BY <1>1 DEF Row
  <2>2. rows = [i \in 1..n |-> Embedding(b, s[i])]
    BY <1>1
  <2>3. [i \in 1..n |-> Embedding(b, s[i])] \in Seq(Row)
    BY <1>1, <2>1, IsASeq
  <2> QED
    BY <1>1, <2>2, <2>3, LenProperties
<1>3. s \in Seq(Line)
  BY <1>1, SeqMonotonic DEF Line
<1>4. /\ Len(ws.matrix) = n /\ Len(ws.chunks) = n
      /\ \A i \in 1..n : ws.matrix[i] = rows[i]
      /\ \A i \in 1..n : ws.chunks[i] = s[i]
  BY <1>1 DEF Payload
<1> HIDE DEF rows, s, n
<1>5. ws.matrix = rows
  BY <1>2, <1>4, SeqEqual
<1>6. ws.chunks = s
  BY <1>3, <1>4, SeqEqual DEF n
<1>7. Promise!Whole(b) = [build |-> b, rows |-> rows, chunks |-> s]
  BY DEF Promise!Whole, Promise!Embedding, Embedding, rows, s
<1> QED
  BY <1>5, <1>6, <1>7

\* The rename publishes the whole artifact.
LEMMA PublishDirectoryImplements ==
    ASSUME IInv, PublishDirectory
    PROVE  Promise!Publish(build)
<1>1. pc \in Working
  BY DEF PublishDirectory, Working
<1>2. /\ partial # Nothing /\ partial.checkpoint # Nothing
      /\ partial.matrix \in Seq(Row) /\ partial.chunks \in Seq(Line)
      /\ partial.checkpoint.build = build /\ build \in Builds
      /\ destination = Nothing
  BY <1>1, WorkingFacts
<1>3. /\ partial.checkpoint.next_offset = offset
      /\ offset = RecordCount[build] /\ offset = Len(Source[build])
      /\ Payload(partial, build, offset) /\ Len(partial.chunks) = offset
      /\ partial.manifest.build = build
  BY <1>1 DEF IInv, WorkInv, PublishDirectory
<1>4. destination' = partial /\ destination' # Nothing
  BY <1>2 DEF PublishDirectory
<1>5. OwnerOf = build /\ CommittedOf = offset /\ ArtifactOf = Nothing
  BY <1>2, <1>3 DEF OwnerOf, CommittedOf, ArtifactOf
<1>6. /\ OwnerOf' = build /\ CommittedOf' = offset
      /\ ArtifactOf' = [build |-> build, rows |-> partial.matrix,
                        chunks |-> partial.chunks]
  BY <1>3, <1>4 DEF OwnerOf, CommittedOf, ArtifactOf
<1>7. ArtifactOf' = Promise!Whole(build)
  BY <1>2, <1>3, <1>6, CompletePayloadIsWhole
<1> QED
  BY <1>3, <1>5, <1>6, <1>7 DEF Promise!Publish

\* The checkpoint in the published directory plays no part any more.
LEMMA RemoveCheckpointImplements ==
    ASSUME IInv, RemoveCheckpoint
    PROVE  UNCHANGED <<OwnerOf, CommittedOf, ArtifactOf>>
<1>1. destination \in Workspace /\ destination # Nothing
  BY DEF IInv, TypeOK, DestinationInv, RemoveCheckpoint
<1>2. destination' = [destination EXCEPT !.checkpoint = Nothing]
  BY DEF RemoveCheckpoint
<1>3. /\ destination' # Nothing
      /\ destination'.matrix = destination.matrix
      /\ destination'.chunks = destination.chunks
      /\ destination'.manifest = destination.manifest
  <2>1. /\ destination' \in Workspace
        /\ destination'.matrix = destination.matrix
        /\ destination'.chunks = destination.chunks
        /\ destination'.manifest = destination.manifest
    BY <1>1, <1>2 DEF Workspace
  <2> QED
    BY <2>1, DamageAssumption
<1> QED
  BY <1>1, <1>3 DEF OwnerOf, CommittedOf, ArtifactOf

LEMMA NextImplementsNext ==
    IInv /\ [Next]_vars => [Promise!Next]_<<OwnerOf, CommittedOf, ArtifactOf>>
<1> SUFFICES ASSUME IInv, [Next]_vars
             PROVE  Promise!Next \/ UNCHANGED <<OwnerOf, CommittedOf, ArtifactOf>>
  OBVIOUS
<1>1. build \in Builds
  BY DEF IInv, TypeOK
<1>2. CASE FirstCheckpoint \/ PublishCheckpoint \/ PublishDirectory
  <2>1. Promise!Claim(build) \/ Promise!Commit(build) \/ Promise!Publish(build)
    BY <1>2, FirstCheckpointImplements, PublishCheckpointImplements,
       PublishDirectoryImplements
  <2> QED
    BY <1>1, <2>1 DEF Promise!Next
<1>3. CASE MakeDirectory \/ AllocateMatrix \/ TouchChunks \/ PreparationFails
  BY <1>3, PreparationImplements
<1>4. CASE RemoveCheckpoint
  BY <1>4, RemoveCheckpointImplements
<1>5. CASE \/ \E b \in Builds, n \in Cadences : Start(b, n)
           \/ ResumeRefused \/ EndOfBatches \/ TooManyChunks \/ EmbeddingFails
           \/ CountDiffers \/ SyncPayload \/ UNCHANGED vars
  <2>1. partial' = partial /\ destination' = destination
    BY <1>5 DEF Start, ResumeRefused, EndOfBatches, TooManyChunks, EmbeddingFails,
                CountDiffers, SyncPayload, Exit, vars
  <2> QED
    BY <2>1, KeptIsStutter DEF KeepsCommitted
<1>6. CASE \/ Resume \/ WriteBatch \/ WriteManifest \/ Crash
           \/ \E i \in DOMAIN Source[build] : DuplicateChunk(i)
  BY <1>6, ResumeKeeps, WriteBatchKeeps, WriteManifestKeeps, CrashKeeps,
     DuplicateChunkKeeps, KeptIsStutter
<1> QED
  BY <1>2, <1>3, <1>4, <1>5, <1>6 DEF Next, Step

\* persist_vector_batches implements VectorArtifact: through any kills, machine
\* losses and restarts with other builds, a destination keeps its owner, never
\* loses a committed chunk and is published once, whole.
THEOREM BuildKeepsPromise == Spec => KeepsPromise
<1>1. Init => Promise!Init
  BY InitImplementsInit
<1>2. IInv /\ [Next]_vars => [Promise!Next]_<<OwnerOf, CommittedOf, ArtifactOf>>
  BY NextImplementsNext
<1>3. [Promise!Next]_<<OwnerOf, CommittedOf, ArtifactOf>>
        => [Promise!Next]_Promise!abstractVars
  BY DEF Promise!abstractVars
<1> QED
  BY <1>1, <1>2, <1>3, Invariance, PTL DEF Spec, KeepsPromise, Promise!Spec
================================================================================
