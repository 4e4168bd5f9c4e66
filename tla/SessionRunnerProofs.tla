-------------------------- MODULE SessionRunnerProofs --------------------------
(***************************************************************************)
(* Facts about the steps of one session process, for any set of workers:    *)
(* they are cited by the proofs of the compositions.                        *)
(***************************************************************************)
EXTENDS SessionRunner, FiniteSets, FiniteSetTheorems, WellFoundedInduction, TLAPS

\* The step that ends or kills processes keeps the types: the memory it clears
\* (run_session's locals) is a legal one.
LEMMA ExitTypes ==
    ASSUME SessionTypeOK, NEW S, NEW at \in Pcs, Exit(S, at)
    PROVE  /\ pc' \in [Workers -> Pcs]
           /\ records' \in [Workers -> Seq(Record)]
           /\ base' \in [Workers -> Seq(Record)]
           /\ quota' \in [Workers -> Nat]
           /\ budget' \in [Workers -> {"ample", "short"}]
           /\ conf' \in [Workers -> Configs]
           /\ src' \in [Workers -> Sources]
<1>1. <<>> \in Seq(Record)
    OBVIOUS
<1>2. QED
    BY <1>1 DEF SessionTypeOK, Exit

\* A well formed file holds records only.
LEMMA WellFormedIsRecords ==
    ASSUME NEW w, NEW r \in Seq(Line), WellFormed(w, r)
    PROVE  r \in Seq(Record)
<1>1. \A i \in 1 .. Len(r) : r[i] \in Record
    BY DEF WellFormed, Line
<1>2. QED
    BY <1>1

\* restore_and_validate_checkpoint returns a list of records, and the session
\* it opens is well typed.
LEMMA ResumeTypes ==
    ASSUME SessionTypeOK, NEW w \in Workers, NEW recs \in Seq(Record),
           ResumeFrom(w, recs)
    PROVE  SessionTypeOK'
<1>1. pc' \in [Workers -> Pcs]
    BY DEF SessionTypeOK, ResumeFrom, Pcs
<1>2. status' \in [Workers -> Statuses]
    BY DEF SessionTypeOK, ResumeFrom, Statuses
<1>3. QED
    BY <1>1, <1>2 DEF SessionTypeOK, ResumeFrom, disk

\* What is packed in an export has the types of the directory's files.
LEMMA ExportTypes ==
    ASSUME SessionTypeOK, NEW w \in Workers
    PROVE  ExportOf(w) \in Export
    BY DEF SessionTypeOK, ExportOf, Export

\* The question list is a sequence of question ids.
LEMMA QuestionTypes ==
    ASSUME NEW w \in Workers
    PROVE  /\ QuestionList[w] \in Seq(Qids)
           /\ \A i \in DOMAIN QuestionList[w] : QuestionList[w][i] \in Qids
    BY QuestionListAssumption

\* Every step of a process keeps the types of its memory and of its files.  The
\* append and the digest need the file they work on: FileIsMemory gives it.
LEMMA SessionStepTypes ==
    ASSUME SessionTypeOK, NEW w \in Workers, FileIsMemory(w), SessionStep(w)
    PROVE  SessionTypeOK'
<1>1. CASE RestoreFresh(w)
    <2>1. <<>> \in Seq(Record)
        OBVIOUS
    <2>2. QED
        BY <1>1, <2>1, ResumeTypes DEF RestoreFresh
<1>2. CASE RestoreCheckpoint(w)
    <2>1. results[w] \in Seq(Line) /\ WellFormed(w, results[w])
        BY <1>2 DEF RestoreCheckpoint, Restorable, SessionTypeOK, FileOrNone
    <2>2. results[w] \in Seq(Record)
        BY <2>1, WellFormedIsRecords
    <2>3. QED
        BY <1>2, <2>2, ResumeTypes DEF RestoreCheckpoint
<1>3. CASE RestoreRefused(w)
    BY <1>3, ExitTypes DEF RestoreRefused, SessionTypeOK, Pcs, disk
<1>4. CASE BuildRuntime(w)
    BY <1>4 DEF BuildRuntime, SessionTypeOK, FileOrNone, Pcs
<1>5. CASE StopForBudget(w)
    BY <1>5 DEF StopForBudget, SessionTypeOK, Statuses, Pcs, disk
<1>6. CASE AnswerQuestion(w)
    <2>1. PICK i \in DOMAIN QuestionList[w], a \in Answers :
            /\ NextPending(w, i)
            /\ LET rec == [qid |-> QuestionList[w][i], conf |-> conf[w],
                           src |-> src[w], answer |-> a]
               IN  /\ results' = [results EXCEPT ![w] = Append(@, rec)]
                   /\ records' = [records EXCEPT ![w] = Append(@, rec)]
        BY <1>6 DEF AnswerQuestion
    <2>. DEFINE rec == [qid |-> QuestionList[w][i], conf |-> conf[w],
                        src |-> src[w], answer |-> a]
    <2>2. rec \in Record
        BY QuestionTypes DEF Record, SessionTypeOK
    <2>3. results[w] = records[w]
        BY <1>6 DEF AnswerQuestion, FileIsMemory, Running, Writing
    <2>4. records' \in [Workers -> Seq(Record)]
        BY <2>1, <2>2 DEF SessionTypeOK
    <2>5. results' \in [Workers -> FileOrNone]
        <3>1. Append(results[w], rec) \in Seq(Line)
            BY <2>2, <2>3 DEF SessionTypeOK, Line
        <3>2. QED
            BY <2>1, <3>1 DEF SessionTypeOK, FileOrNone
    <2>6. quota' \in [Workers -> Nat]
        BY <1>6, <2>1 DEF AnswerQuestion, NextPending, SessionTypeOK
    <2>7. QED
        BY <1>6, <2>4, <2>5, <2>6 DEF AnswerQuestion, SessionTypeOK, Pcs
<1>7. CASE EndLoop(w)
    BY <1>7 DEF EndLoop, SessionTypeOK, Statuses, Pcs, disk
<1>8. CASE PublishManifest(w)
    <2>1. results[w] \in Seq(Line)
        BY <1>8 DEF PublishManifest, FileIsMemory, Running, Writing,
                    SessionTypeOK, Line
    <2>2. [sha |-> results[w], count |-> Len(records[w]), conf |-> conf[w],
           src |-> src[w]] \in Manifest
        BY <2>1 DEF Manifest, SessionTypeOK
    <2>3. QED
        BY <1>8, <2>2 DEF PublishManifest, SessionTypeOK, ManifestOrNone, Pcs
<1>9. CASE RefreshZip(w)
    BY <1>9, ExportTypes DEF RefreshZip, SessionTypeOK, ExportOrNone, Pcs
<1>10. CASE Finalize(w)
    BY <1>10, ExitTypes, ExportTypes
    DEF Finalize, SessionTypeOK, ExportOrNone, Pcs
<1>11. QED
    BY <1>1, <1>2, <1>3, <1>4, <1>5, <1>6, <1>7, <1>8, <1>9, <1>10
    DEF SessionStep
--------------------------------------------------------------------------------
\* A directory nobody touches keeps its invariant.
LEMMA DirectoryFrame ==
    ASSUME NEW v, DirectoryInv(v),
           pc'[v] = pc[v], conf'[v] = conf[v], src'[v] = src[v],
           records'[v] = records[v], base'[v] = base[v],
           results'[v] = results[v], manifest'[v] = manifest[v],
           latestZip'[v] = latestZip[v]
    PROVE  DirectoryInv(v)'
    BY DEF DirectoryInv, FileIsMemory, RecordsOfOneRun, ExtendsBase,
           ManifestIsCurrent, CoherentManifest, SoundExport

\* A directory whose process is not running keeps its invariant as long as its
\* manifest and its export stay sound: restore trusts nothing else.
LEMMA DirectoryAtRest ==
    ASSUME NEW v, pc'[v] \notin Running,
           manifest'[v] # NoFile => CoherentManifest(v, manifest'[v]),
           latestZip'[v] # NoFile => SoundExport(v, latestZip'[v])
    PROVE  DirectoryInv(v)'
    BY DEF DirectoryInv, FileIsMemory, RecordsOfOneRun, ExtendsBase,
           ManifestIsCurrent, CoherentManifest, SoundExport, WellFormed

\* The step of one process leaves the other directories alone.
LEMMA SessionStepIsLocal ==
    ASSUME SessionTypeOK, NEW w \in Workers, SessionStep(w),
           NEW v \in Workers, v # w
    PROVE  /\ pc'[v] = pc[v] /\ conf'[v] = conf[v] /\ src'[v] = src[v]
           /\ records'[v] = records[v] /\ base'[v] = base[v]
           /\ results'[v] = results[v] /\ manifest'[v] = manifest[v]
           /\ latestZip'[v] = latestZip[v]
          /\ quota'[v] = quota[v] /\ budget'[v] = budget[v]
    BY ZenonT(40) DEF SessionStep, RestoreFresh, RestoreCheckpoint, ResumeFrom,
           RestoreRefused, BuildRuntime, StopForBudget, AnswerQuestion,
           EndLoop, PublishManifest, RefreshZip, Finalize, Exit, disk,
           SessionTypeOK

\* A question that is not answered yet can be added to well formed records.
LEMMA AppendKeepsWellFormed ==
    ASSUME NEW w, NEW r \in Seq(Record), WellFormed(w, r), NEW x \in Record,
           x.qid \in QidSet(w), x.qid \notin QidsIn(r)
    PROVE  WellFormed(w, Append(r, x))
<1>. DEFINE s == Append(r, x)
<1>1. /\ DOMAIN s = 1 .. Len(r) + 1
      /\ \A i \in 1 .. Len(r) : s[i] = r[i]
      /\ s[Len(r) + 1] = x
    OBVIOUS
<1>2. \A i \in 1 .. Len(r) : r[i].qid # x.qid
    BY DEF QidsIn
<1>3. x # Torn
    BY MarkerAssumption
<1>. HIDE DEF s
<1>4. QED
    BY <1>1, <1>2, <1>3 DEF WellFormed, s

\* Every step of a process keeps the invariant of its directory.
LEMMA SessionStepKeepsDirectory ==
    ASSUME SessionTypeOK, NEW w \in Workers, DirectoryInv(w), SessionStep(w)
    PROVE  DirectoryInv(w)'
<1>. USE DEF SessionTypeOK
<1>1. CASE RestoreFresh(w)
    <2>1. /\ results[w] = NoFile /\ manifest[w] = NoFile
          /\ records'[w] = <<>> /\ base'[w] = <<>>
          /\ pc'[w] \in {"build", "finalize"}
          /\ UNCHANGED <<conf, src, disk>>
        BY <1>1 DEF RestoreFresh, Fresh, ResumeFrom
    <2>2. QED
        BY <2>1 DEF DirectoryInv, FileIsMemory, RecordsOfOneRun, ExtendsBase,
                    ManifestIsCurrent, WellFormed, Running, Writing, disk
<1>2. CASE RestoreCheckpoint(w)
    <2>1. /\ manifest[w] # NoFile /\ manifest[w].sha = results[w]
          /\ manifest[w].conf = conf[w] /\ manifest[w].src = src[w]
          /\ results[w] \in Seq(Line) /\ WellFormed(w, results[w])
        BY <1>2 DEF RestoreCheckpoint, Restorable, FileOrNone
    <2>2. /\ records'[w] = results[w] /\ base'[w] = results[w]
          /\ pc'[w] \in {"build", "finalize"}
          /\ UNCHANGED <<conf, src, disk>>
        BY <1>2 DEF RestoreCheckpoint, ResumeFrom
    <2>3. CoherentManifest(w, manifest[w])
        BY <2>1 DEF DirectoryInv
    <2>4. FileIsMemory(w)' /\ ExtendsBase(w)' /\ ManifestIsCurrent(w)'
        BY <2>1, <2>2 DEF FileIsMemory, ExtendsBase, ManifestIsCurrent, disk
    <2>5. RecordsOfOneRun(w)'
        BY <2>1, <2>2, <2>3 DEF RecordsOfOneRun, CoherentManifest, WellFormed
    <2>6. QED
        BY <2>2, <2>4, <2>5
        DEF DirectoryInv, disk, CoherentManifest, SoundExport, WellFormed
<1>3. CASE RestoreRefused(w)
    BY <1>3, DirectoryAtRest
    DEF RestoreRefused, Exit, disk, Running, DirectoryInv
<1>4. CASE BuildRuntime(w)
    <2>1. /\ pc[w] = "build" /\ pc'[w] = "loop"
          /\ results'[w] = IF results[w] = NoFile THEN <<>> ELSE results[w]
          /\ UNCHANGED <<conf, src, records, base, manifest, latestZip>>
        BY <1>4 DEF BuildRuntime
    <2>2. records[w] # NoFile
        BY MarkerAssumption DEF Line
    <2>3. FileIsMemory(w)'
        BY <2>1, <2>2 DEF DirectoryInv, FileIsMemory, Running, Writing
    <2>4. ManifestIsCurrent(w)'
        <3>1. manifest[w] # NoFile => manifest[w].sha # NoFile
            BY MarkerAssumption DEF ManifestOrNone, Manifest
        <3>2. QED
            BY <2>1, <3>1 DEF DirectoryInv, ManifestIsCurrent, Running
    <2>5. RecordsOfOneRun(w)' /\ ExtendsBase(w)'
        BY <2>1 DEF DirectoryInv, RecordsOfOneRun, ExtendsBase, Running,
                    WellFormed
    <2>6. QED
        BY <2>1, <2>3, <2>4, <2>5
        DEF DirectoryInv, CoherentManifest, SoundExport, WellFormed
<1>5. CASE StopForBudget(w) \/ EndLoop(w)
    <2>1. /\ pc[w] = "loop" /\ pc'[w] = "finalize"
          /\ UNCHANGED <<conf, src, records, base, disk>>
        BY <1>5 DEF StopForBudget, EndLoop
    <2>2. QED
        BY <2>1 DEF DirectoryInv, FileIsMemory, RecordsOfOneRun, ExtendsBase,
                    ManifestIsCurrent, CoherentManifest, SoundExport,
                    WellFormed, Running, Writing, disk
<1>6. CASE AnswerQuestion(w)
    <2>1. PICK i \in DOMAIN QuestionList[w], a \in Answers :
            /\ NextPending(w, i)
            /\ LET rec == [qid |-> QuestionList[w][i], conf |-> conf[w],
                           src |-> src[w], answer |-> a]
               IN  /\ results' = [results EXCEPT ![w] = Append(@, rec)]
                   /\ records' = [records EXCEPT ![w] = Append(@, rec)]
        BY <1>6 DEF AnswerQuestion
    <2>. DEFINE rec == [qid |-> QuestionList[w][i], conf |-> conf[w],
                        src |-> src[w], answer |-> a]
    <2>2. /\ rec \in Record /\ rec.qid \in QidSet(w)
          /\ rec.qid \notin QidsIn(records[w])
          /\ rec.conf = conf[w] /\ rec.src = src[w]
        BY <2>1, QuestionTypes DEF Record, QidSet, NextPending, Unanswered
    <2>3. /\ pc[w] = "loop" /\ pc'[w] = "manifest"
          /\ UNCHANGED <<conf, src, base, manifest, latestZip>>
        BY <1>6 DEF AnswerQuestion
    <2>4. /\ records'[w] = Append(records[w], rec)
          /\ results'[w] = Append(results[w], rec)
          /\ records[w] \in Seq(Record) /\ base[w] \in Seq(Record)
        BY <2>1
    <2>. HIDE DEF rec
    <2>5. FileIsMemory(w)'
        BY <2>3, <2>4 DEF DirectoryInv, FileIsMemory, Running, Writing
    <2>6. WellFormed(w, records'[w])
        BY <2>2, <2>3, <2>4, AppendKeepsWellFormed
        DEF DirectoryInv, RecordsOfOneRun, Running
    <2>7. RecordsOfOneRun(w)'
        <3>1. \A j \in DOMAIN records'[w] : /\ records'[w][j].conf = conf[w]
                                            /\ records'[w][j].src = src[w]
            BY <2>2, <2>3, <2>4 DEF DirectoryInv, RecordsOfOneRun, Running
        <3>2. QED
            BY <2>3, <2>6, <3>1 DEF RecordsOfOneRun, WellFormed
    <2>8. ExtendsBase(w)'
        BY <2>3, <2>4 DEF DirectoryInv, ExtendsBase, Running
    <2>9. ManifestIsCurrent(w)'
        BY <2>3, SMTT(40) DEF ManifestIsCurrent
    <2>10. QED
        BY <2>3, <2>5, <2>7, <2>8, <2>9
        DEF DirectoryInv, CoherentManifest, SoundExport, WellFormed
<1>7. CASE PublishManifest(w)
    <2>1. /\ pc[w] = "manifest" /\ pc'[w] = "zip"
          /\ manifest'[w] = [sha |-> results[w], count |-> Len(records[w]),
                             conf |-> conf[w], src |-> src[w]]
          /\ UNCHANGED <<conf, src, records, base, results, latestZip>>
        BY <1>7 DEF PublishManifest
    <2>2. /\ manifest'[w].sha = results[w]
          /\ manifest'[w].count = Len(records[w])
          /\ manifest'[w].conf = conf[w] /\ manifest'[w].src = src[w]
        BY <2>1
    <2>3. results[w] = records[w]
        BY <2>1 DEF DirectoryInv, FileIsMemory, Running, Writing
    <2>4. manifest'[w] # NoFile
        <3>1. results[w] \in Seq(Line)
            BY <2>3 DEF Line
        <3>2. manifest'[w] \in Manifest
            BY <2>1, <3>1 DEF Manifest
        <3>3. QED
            BY <3>2, MarkerAssumption
    <2>5. CoherentManifest(w, manifest'[w])
        BY <2>1, <2>2, <2>3
        DEF DirectoryInv, RecordsOfOneRun, CoherentManifest, Running
    <2>6. FileIsMemory(w)' /\ RecordsOfOneRun(w)' /\ ExtendsBase(w)'
        BY <2>1 DEF DirectoryInv, FileIsMemory, RecordsOfOneRun, ExtendsBase,
                    Running, Writing, WellFormed
    <2>7. ManifestIsCurrent(w)'
        BY <2>1, <2>2, <2>4 DEF ManifestIsCurrent
    <2>8. QED
        BY <2>1, <2>5, <2>6, <2>7
        DEF DirectoryInv, CoherentManifest, SoundExport, WellFormed
<1>8. CASE RefreshZip(w) \/ Finalize(w)
    <2>1. /\ pc[w] \in {"zip", "finalize"}
          /\ latestZip'[w] = ExportOf(w)
          /\ UNCHANGED <<conf, src, results, manifest>>
        BY <1>8 DEF RefreshZip, Finalize, Exit
    <2>2. SoundExport(w, latestZip'[w])
        BY <2>1 DEF DirectoryInv, ManifestIsCurrent, SoundExport, ExportOf,
                    Running
    <2>3. CASE RefreshZip(w)
        <3>1. /\ pc[w] = "zip" /\ pc'[w] = "loop"
              /\ UNCHANGED <<records, base>>
            BY <2>3 DEF RefreshZip
        <3>2. FileIsMemory(w)' /\ RecordsOfOneRun(w)' /\ ExtendsBase(w)'
            BY <2>1, <3>1 DEF DirectoryInv, FileIsMemory, RecordsOfOneRun,
                              ExtendsBase, Running, Writing, WellFormed
        <3>3. ManifestIsCurrent(w)'
            BY <2>1, <3>1 DEF DirectoryInv, ManifestIsCurrent, Running
        <3>4. QED
            BY <2>1, <2>2, <3>2, <3>3
            DEF DirectoryInv, CoherentManifest, SoundExport, WellFormed
    <2>4. CASE Finalize(w)
        <3>1. pc'[w] \notin Running
            BY <2>4 DEF Finalize, Exit, Running
        <3>2. QED
            BY <2>1, <2>2, <3>1, DirectoryAtRest DEF DirectoryInv
    <2>5. QED
        BY <1>8, <2>3, <2>4
<1>9. QED
    BY <1>1, <1>2, <1>3, <1>4, <1>5, <1>6, <1>7, <1>8
    DEF SessionStep
--------------------------------------------------------------------------------
(* Steps of the environment, for every set of processes they touch. *)

\* Starting processes on idle directories.
LEMMA LaunchKeeps ==
    ASSUME SessionTypeOK, NEW S \in SUBSET Workers, NEW at \in Pcs \ Running,
           NEW c \in Configs, NEW f, \A w \in S : f[w] \in Sources,
           NEW b \in Budgets, NEW n \in Caps, Launch(S, at, c, f, b, n)
    PROVE  /\ SessionTypeOK'
           /\ \A v \in Workers : DirectoryInv(v) => DirectoryInv(v)'
<1>1. SessionTypeOK'
    <2>1. b \in {"ample", "short"} /\ n \in Nat
        BY SessionParametersAssumption
    <2>2. QED
        BY <2>1 DEF Launch, SessionTypeOK, Statuses, disk
<1>2. ASSUME NEW v \in Workers, DirectoryInv(v)
      PROVE  DirectoryInv(v)'
    <2>1. CASE v \in S
        BY <1>2, <2>1, DirectoryAtRest DEF Launch, disk, DirectoryInv
    <2>2. CASE v \notin S
        BY <1>2, <2>2, DirectoryFrame DEF Launch, disk
    <2>3. QED
        BY <2>1, <2>2
<1>3. QED
    BY <1>1, <1>2

\* Killing processes, whatever they were doing.
LEMMA KilledKeeps ==
    ASSUME SessionTypeOK, NEW S \in SUBSET Workers, NEW at \in Pcs \ Running,
           \A w \in Workers : FileIsMemory(w), Killed(S, at)
    PROVE  /\ SessionTypeOK'
           /\ \A v \in Workers : DirectoryInv(v) => DirectoryInv(v)'
<1>1. PICK T \in SUBSET {w \in S : Appending(w)} :
        results' = [w \in Workers |-> IF w \in T THEN Append(results[w], Torn)
                                      ELSE results[w]]
    BY DEF Killed
<1>2. results' \in [Workers -> FileOrNone]
    <2>1. ASSUME NEW w \in T
          PROVE  Append(results[w], Torn) \in Seq(Line)
        <3>1. results[w] = records[w] /\ w \in Workers
            BY <1>1, <2>1 DEF Appending, FileIsMemory, Running, Writing
        <3>2. results[w] \in Seq(Line) /\ Torn \in Line
            BY <3>1 DEF SessionTypeOK, Line
        <3>3. QED
            BY <3>2
    <2>2. QED
        BY <1>1, <2>1 DEF SessionTypeOK, FileOrNone
<1>3. SessionTypeOK'
    BY <1>2, ExitTypes DEF Killed, SessionTypeOK
<1>4. ASSUME NEW v \in Workers, DirectoryInv(v)
      PROVE  DirectoryInv(v)'
    <2>1. CASE v \in S
        BY <1>4, <2>1, DirectoryAtRest DEF Killed, Exit, DirectoryInv
    <2>2. CASE v \notin S
        BY <1>1, <1>4, <2>2, DirectoryFrame DEF Killed, Exit, SessionTypeOK
    <2>3. QED
        BY <2>1, <2>2
<1>5. QED
    BY <1>3, <1>4

\* A build that fails ends its process and changes no file.
LEMMA BuildFailsKeeps ==
    ASSUME SessionTypeOK, NEW w \in Workers, BuildFails(w)
    PROVE  /\ SessionTypeOK'
           /\ \A v \in Workers : DirectoryInv(v) => DirectoryInv(v)'
<1>1. SessionTypeOK'
    BY ExitTypes DEF BuildFails, SessionTypeOK, disk, Pcs
<1>2. ASSUME NEW v \in Workers, DirectoryInv(v)
      PROVE  DirectoryInv(v)'
    <2>1. CASE v = w
        BY <1>2, <2>1, DirectoryAtRest
        DEF BuildFails, Exit, disk, Running, DirectoryInv
    <2>2. CASE v # w
        BY <1>2, <2>2, DirectoryFrame DEF BuildFails, Exit, disk, SessionTypeOK
    <2>3. QED
        BY <2>1, <2>2
<1>3. QED
    BY <1>1, <1>2

\* The two steps of the extraction of a sound archive.
LEMMA ExtractKeeps ==
    ASSUME SessionTypeOK, NEW w \in Workers, NEW z \in Export,
           SoundExport(w, z), DirectoryInv(w),
           ExtractResults(w, z) \/ ExtractManifest(w, z)
    PROVE  SessionTypeOK' /\ DirectoryInv(w)'
<1>1. z.results \in FileOrNone /\ z.manifest \in ManifestOrNone
    BY DEF Export
<1>2. SessionTypeOK'
    BY <1>1, ZenonT(40) DEF ExtractResults, ExtractManifest, SessionTypeOK, Pcs
<1>3. pc'[w] \notin Running /\ latestZip' = latestZip
    BY DEF ExtractResults, ExtractManifest, SessionTypeOK, Running
<1>4. manifest'[w] # NoFile => CoherentManifest(w, manifest'[w])
    BY DEF ExtractResults, ExtractManifest, SessionTypeOK, SoundExport,
           DirectoryInv
<1>5. QED
    BY <1>2, <1>3, <1>4, DirectoryAtRest DEF DirectoryInv
--------------------------------------------------------------------------------
(* The pending questions and the length of the records *)

\* Every set of naturals that is not empty has a least element.
LEMMA LeastNumber ==
    ASSUME NEW T \in SUBSET Nat, T # {}
    PROVE  \E m \in T : \A k \in T : m <= k
<1>1. \E m \in T : \A k \in T : <<k, m>> \notin OpToRel(<, Nat)
    BY NatLessThanWellFounded, WFMin
<1>2. PICK m \in T : \A k \in T : <<k, m>> \notin OpToRel(<, Nat)
    BY <1>1
<1>3. ASSUME NEW k \in T PROVE m <= k
    <2>1. k \in Nat /\ m \in Nat
        OBVIOUS
    <2>2. ~ (k < m)
        BY <1>2, <2>1 DEF OpToRel
    <2>3. QED
        BY <2>1, <2>2
<1>4. QED
    BY <1>3

\* Records that lack a question of the list lack a first one.
LEMMA FirstUnanswered ==
    ASSUME NEW w \in Workers, NEW r, ~ (QidSet(w) \subseteq QidsIn(r))
    PROVE  \E i \in DOMAIN QuestionList[w] :
              /\ QuestionList[w][i] \notin QidsIn(r)
              /\ \A j \in DOMAIN QuestionList[w] :
                    QuestionList[w][j] \notin QidsIn(r) => i <= j
<1>. DEFINE T == {i \in DOMAIN QuestionList[w] : QuestionList[w][i] \notin QidsIn(r)}
<1>1. QuestionList[w] \in Seq(Qids)
    BY QuestionListAssumption
<1>2. T \in SUBSET Nat /\ T # {}
    BY <1>1 DEF QidSet
<1>3. PICK m \in T : \A k \in T : m <= k
    BY <1>2, LeastNumber
<1>4. QED
    BY <1>3

\* Distinct ids out of the list: no more than the list has, and as many only
\* when they are all of it.
LEMMA RecordsFitTheList ==
    ASSUME NEW w \in Workers, NEW r \in Seq(Line), WellFormed(w, r)
    PROVE  /\ QidsIn(r) \subseteq QidSet(w)
           /\ Len(r) <= Total(w)
           /\ Len(r) = Total(w) => QidsIn(r) = QidSet(w)
<1>. DEFINE n == Len(r)
            f == [i \in 1 .. n |-> r[i].qid]
            g == [i \in 1 .. Total(w) |-> QuestionList[w][i]]
<1>1. /\ n \in Nat /\ DOMAIN r = 1 .. n
      /\ \A i \in 1 .. n : r[i].qid \in QidSet(w)
      /\ \A i, j \in 1 .. n : r[i].qid = r[j].qid => i = j
    BY DEF WellFormed
<1>2. /\ Total(w) \in Nat /\ DOMAIN QuestionList[w] = 1 .. Total(w)
      /\ \A i, j \in 1 .. Total(w) : QuestionList[w][i] = QuestionList[w][j] => i = j
    BY QuestionListAssumption DEF Total
<1>3. QidsIn(r) = {r[i].qid : i \in 1 .. n}
    BY <1>1 DEF QidsIn
<1>4. QidSet(w) = {QuestionList[w][i] : i \in 1 .. Total(w)}
    BY <1>2 DEF QidSet
<1>. HIDE DEF n
<1>5. f \in Bijection(1 .. n, QidsIn(r))
    <2>1. f \in [1 .. n -> QidsIn(r)]
        BY <1>3
    <2>2. \A i, j \in 1 .. n : f[i] = f[j] => i = j
        BY <1>1
    <2>3. \A q \in QidsIn(r) : \E i \in 1 .. n : f[i] = q
        BY <1>3
    <2>. HIDE DEF f
    <2>4. QED
        BY <2>1, <2>2, <2>3 DEF Bijection, Injection, Surjection, IsInjective
<1>6. g \in Bijection(1 .. Total(w), QidSet(w))
    <2>1. g \in [1 .. Total(w) -> QidSet(w)]
        BY <1>4
    <2>2. \A i, j \in 1 .. Total(w) : g[i] = g[j] => i = j
        BY <1>2
    <2>3. \A q \in QidSet(w) : \E i \in 1 .. Total(w) : g[i] = q
        BY <1>4
    <2>. HIDE DEF g
    <2>4. QED
        BY <2>1, <2>2, <2>3 DEF Bijection, Injection, Surjection, IsInjective
<1>7. IsFiniteSet(QidsIn(r)) /\ Cardinality(QidsIn(r)) = n
    <2>1. IsFiniteSet(1 .. n) /\ Cardinality(1 .. n) = n
        BY <1>1, FS_Interval
    <2>2. QED
        BY <1>5, <2>1, FS_Bijection DEF ExistsBijection
<1>8. IsFiniteSet(QidSet(w)) /\ Cardinality(QidSet(w)) = Total(w)
    <2>1. IsFiniteSet(1 .. Total(w)) /\ Cardinality(1 .. Total(w)) = Total(w)
        BY <1>2, FS_Interval
    <2>2. QED
        BY <1>6, <2>1, FS_Bijection DEF ExistsBijection
<1>9. QidsIn(r) \subseteq QidSet(w)
    BY <1>1, <1>3
<1>10. QED
    BY <1>7, <1>8, <1>9, FS_Subset DEF n
--------------------------------------------------------------------------------
(* What the status and an ended session rest on *)

\* A session may answer at least one question, and it completes the list it was
\* given when it says so.
CompletesItsList(w) ==
    /\ pc[w] \in {"extractResults", "extractManifest", "restore"} => quota[w] > 0
    /\ pc[w] = "finalize" /\ status[w] = "ALL_QUESTIONS_COMPLETED" =>
          QidsIn(records[w]) = QidSet(w)

\* The manifest a session restored or published is its own.
ManifestIsOwn(w) ==
    pc[w] \in Running \ {"manifest"} /\ manifest[w] # NoFile =>
        manifest[w].conf = conf[w] /\ manifest[w].src = src[w]

\* An opened results file without an answer is no checkpoint.
Bare(r, m) == r = <<>> /\ m = NoFile

\* A session that opened its results file does not end before it answers.
OpenedIsAnswered(w) ==
    /\ budget[w] = "ample"
    /\ pc[w] = "build" => HasPending(w)
    /\ pc[w] = "loop" /\ Bare(results[w], manifest[w]) => HasPending(w)
    /\ pc[w] \in {"zip", "finalize"} => ~Bare(results[w], manifest[w])

\* What a session that ended normally leaves in its directory.
LeavesItsCheckpoint(w) ==
    \/ results[w] \in {NoFile, <<>>} /\ manifest[w] = NoFile
    \/ Restorable(w, results[w], manifest[w], conf[w], src[w])

\* What a step of a session appends: one record to memory and file.
LEMMA AnswerAppends ==
    ASSUME SessionTypeOK, NEW w \in Workers, DirectoryInv(w), AnswerQuestion(w)
    PROVE  /\ pc[w] = "loop" /\ pc'[w] = "manifest"
           /\ records[w] \in Seq(Record)
           /\ \E rec \in Record : records'[w] = Append(records[w], rec)
           /\ UNCHANGED <<base, latestZip, manifest, budget>>
<1>1. PICK i \in DOMAIN QuestionList[w], a \in Answers :
        LET rec == [qid |-> QuestionList[w][i], conf |-> conf[w],
                    src |-> src[w], answer |-> a]
        IN  records' = [records EXCEPT ![w] = Append(@, rec)]
    BY DEF AnswerQuestion
<1>. DEFINE rec == [qid |-> QuestionList[w][i], conf |-> conf[w],
                    src |-> src[w], answer |-> a]
<1>2. rec \in Record
    BY QuestionTypes DEF Record, SessionTypeOK
<1>3. records'[w] = Append(records[w], rec)
    BY <1>1 DEF SessionTypeOK
<1>. HIDE DEF rec
<1>4. QED
    BY <1>2, <1>3 DEF AnswerQuestion, SessionTypeOK

\* The records of a running session are of its list.
LEMMA RunningRecordsFit ==
    ASSUME SessionTypeOK, NEW w \in Workers, DirectoryInv(w), pc[w] \in Running
    PROVE  /\ QidsIn(records[w]) \subseteq QidSet(w)
           /\ Len(records[w]) <= Total(w)
           /\ Len(records[w]) = Total(w) => QidsIn(records[w]) = QidSet(w)
<1>1. records[w] \in Seq(Line) /\ WellFormed(w, records[w])
    BY DEF SessionTypeOK, Line, DirectoryInv, RecordsOfOneRun
<1>2. QED
    BY <1>1, RecordsFitTheList

\* A session that is allowed a question reports completion of a complete list.
LEMMA SessionStepCompletes ==
    ASSUME SessionTypeOK, NEW w \in Workers, DirectoryInv(w), CompletesItsList(w),
           SessionStep(w)
    PROVE  CompletesItsList(w)'
<1>. USE DEF SessionTypeOK
<1>1. CASE RestoreFresh(w) \/ RestoreCheckpoint(w)
    <2>1. PICK recs \in {<<>>, results[w]} : pc[w] = "restore" /\ ResumeFrom(w, recs)
        BY <1>1 DEF RestoreFresh, RestoreCheckpoint
    <2>2. recs \in Seq(Line) /\ WellFormed(w, recs)
        <3>1. CASE RestoreFresh(w)
            <4>1. ResumeFrom(w, <<>>) /\ ResumeFrom(w, recs)
                BY <2>1, <3>1 DEF RestoreFresh
            <4>2. records'[w] = <<>> /\ records'[w] = recs
                BY <4>1 DEF ResumeFrom
            <4>3. <<>> \in Seq(Line)
                OBVIOUS
            <4>4. WellFormed(w, <<>>)
                BY DEF WellFormed
            <4>5. QED
                BY <4>2, <4>3, <4>4
        <3>2. CASE RestoreCheckpoint(w)
            <4>1. ResumeFrom(w, results[w]) /\ ResumeFrom(w, recs)
                BY <2>1, <3>2 DEF RestoreCheckpoint
            <4>2. recs = results[w]
                BY <4>1 DEF ResumeFrom
            <4>3. QED
                BY <3>2, <4>2 DEF RestoreCheckpoint, Restorable, FileOrNone
        <3>3. QED
            BY <1>1, <3>1, <3>2
    <2>3. QidsIn(recs) \subseteq QidSet(w)
        BY <2>2, RecordsFitTheList
    <2>4. quota[w] # 0
        BY <2>1 DEF CompletesItsList
    <2>5. /\ pc'[w] \in {"build", "finalize"} /\ records'[w] = recs
          /\ pc'[w] = "finalize" => QidSet(w) \subseteq QidsIn(recs)
        BY <2>1, <2>4 DEF ResumeFrom
    <2>6. QidsIn(records'[w]) = QidsIn(recs)
        BY <2>5
    <2>7. QED
        BY <2>3, <2>5, <2>6 DEF CompletesItsList, QidsIn
<1>2. CASE EndLoop(w)
    <2>1. /\ pc[w] = "loop" /\ pc'[w] = "finalize" /\ records' = records
          /\ status'[w] = "ALL_QUESTIONS_COMPLETED" => Len(records[w]) = Total(w)
        BY <1>2 DEF EndLoop
    <2>2. Len(records[w]) = Total(w) => QidsIn(records[w]) = QidSet(w)
        BY <2>1, RunningRecordsFit DEF Running
    <2>3. QED
        BY <2>1, <2>2 DEF CompletesItsList, QidsIn
<1>3. CASE StopForBudget(w)
    <2>1. pc'[w] = "finalize" /\ status'[w] = "SESSION_CHECKPOINT_COMPLETE"
        BY <1>3 DEF StopForBudget
    <2>2. QED
        BY <2>1 DEF CompletesItsList
<1>4. CASE \/ RestoreRefused(w) \/ BuildRuntime(w) \/ AnswerQuestion(w)
           \/ PublishManifest(w) \/ RefreshZip(w) \/ Finalize(w)
    <2>1. pc'[w] \in {"dead", "loop", "manifest", "zip", "done"}
        BY <1>4 DEF RestoreRefused, BuildRuntime, AnswerQuestion, PublishManifest,
                    RefreshZip, Finalize, Exit
    <2>2. QED
        BY <2>1 DEF CompletesItsList
<1>5. QED
    BY <1>1, <1>2, <1>3, <1>4 DEF SessionStep

\* A manifest the session did not restore is one it published.
LEMMA SessionStepOwnsManifest ==
    ASSUME SessionTypeOK, NEW w \in Workers, ManifestIsOwn(w), SessionStep(w)
    PROVE  ManifestIsOwn(w)'
<1>. USE DEF SessionTypeOK
<1>1. CASE RestoreFresh(w)
    <2>1. manifest'[w] = NoFile
        BY <1>1 DEF RestoreFresh, Fresh, ResumeFrom, disk
    <2>2. QED
        BY <2>1 DEF ManifestIsOwn
<1>2. CASE RestoreCheckpoint(w)
    <2>1. /\ manifest[w].conf = conf[w] /\ manifest[w].src = src[w]
          /\ UNCHANGED <<manifest, conf, src>>
        BY <1>2 DEF RestoreCheckpoint, Restorable, ResumeFrom, disk
    <2>2. QED
        BY <2>1 DEF ManifestIsOwn
<1>3. CASE PublishManifest(w)
    <2>1. /\ manifest'[w].conf = conf[w] /\ manifest'[w].src = src[w]
          /\ UNCHANGED <<conf, src>>
        BY <1>3 DEF PublishManifest
    <2>2. QED
        BY <2>1 DEF ManifestIsOwn
<1>4. CASE \/ BuildRuntime(w) \/ StopForBudget(w) \/ EndLoop(w) \/ RefreshZip(w)
    <2>1. /\ pc[w] \in Running \ {"manifest"}
          /\ UNCHANGED <<manifest, conf, src>>
        BY <1>4 DEF BuildRuntime, StopForBudget, EndLoop, RefreshZip, disk, Running
    <2>2. QED
        BY <2>1 DEF ManifestIsOwn
<1>5. CASE RestoreRefused(w) \/ AnswerQuestion(w) \/ Finalize(w)
    <2>1. pc'[w] \notin Running \ {"manifest"}
        BY <1>5 DEF RestoreRefused, AnswerQuestion, Finalize, Exit, Running
    <2>2. QED
        BY <2>1 DEF ManifestIsOwn
<1>6. QED
    BY <1>1, <1>2, <1>3, <1>4, <1>5 DEF SessionStep

\* What a session leaves when it ends is a checkpoint of its own run, or nothing.
LEMMA FinalizeLeaves ==
    ASSUME SessionTypeOK, NEW w \in Workers, DirectoryInv(w), ManifestIsOwn(w),
           Finalize(w)
    PROVE  LeavesItsCheckpoint(w)'
<1>1. pc[w] = "finalize" /\ UNCHANGED <<results, manifest, conf, src>>
    BY DEF Finalize, Exit
<1>2. \/ manifest[w] # NoFile /\ manifest[w].sha = results[w]
      \/ manifest[w] = NoFile /\ results[w] \in {NoFile, <<>>}
    BY <1>1 DEF DirectoryInv, ManifestIsCurrent, Running
<1>3. ASSUME manifest[w] # NoFile
      PROVE  Restorable(w, results[w], manifest[w], conf[w], src[w])
    <2>1. manifest[w] \in Manifest /\ manifest[w].sha = results[w]
        BY <1>2, <1>3 DEF SessionTypeOK, ManifestOrNone
    <2>2. results[w] \in Seq(Line) /\ results[w] # NoFile
        BY <2>1, MarkerAssumption DEF Manifest
    <2>3. CoherentManifest(w, manifest[w])
        BY <1>3 DEF DirectoryInv
    <2>4. manifest[w].conf = conf[w] /\ manifest[w].src = src[w]
        BY <1>1, <1>3 DEF ManifestIsOwn, Running
    <2>5. WellFormed(w, results[w]) /\ manifest[w].count = Len(results[w])
        BY <2>1, <2>3 DEF CoherentManifest
    <2>6. QED
        BY <1>3, <2>1, <2>2, <2>4, <2>5 DEF Restorable
<1>4. LeavesItsCheckpoint(w)
    BY <1>2, <1>3 DEF LeavesItsCheckpoint
<1>5. QED
    BY <1>1, <1>4 DEF LeavesItsCheckpoint, Restorable, WellFormed

\* An ample session answers once it opened its file: the file it leaves is no
\* bare one.
LEMMA SessionStepAnswers ==
    ASSUME SessionTypeOK, NEW w \in Workers, DirectoryInv(w), OpenedIsAnswered(w),
           SessionStep(w)
    PROVE  /\ OpenedIsAnswered(w)'
           /\ pc'[w] = "done" => ~ Bare(results'[w], manifest'[w])
<1>. USE DEF SessionTypeOK
<1>1. NoFile # <<>>
    <2>1. <<>> \in Seq(Line)
        OBVIOUS
    <2>2. QED
        BY <2>1, MarkerAssumption
<1>2. CASE RestoreFresh(w) \/ RestoreCheckpoint(w)
    <2>1. PICK recs \in {<<>>, results[w]} : ResumeFrom(w, recs)
        BY <1>2 DEF RestoreFresh, RestoreCheckpoint
    <2>2. /\ ~ Bare(results[w], manifest[w])
          /\ UNCHANGED <<results, manifest, budget, quota>>
        BY <1>1, <1>2 DEF RestoreFresh, Fresh, RestoreCheckpoint, Restorable,
                          ResumeFrom, Bare, disk
    <2>3. pc'[w] \in {"build", "finalize"}
        BY <2>1 DEF ResumeFrom
    <2>4. pc'[w] = "build" => HasPending(w)'
        <3>. SUFFICES ASSUME pc'[w] = "build" PROVE HasPending(w)'
            OBVIOUS
        <3>1. /\ records'[w] = recs
              /\ ~ (QidSet(w) \subseteq QidsIn(recs)) /\ quota[w] # 0
            BY <2>1 DEF ResumeFrom
        <3>2. quota'[w] > 0
            BY <2>2, <3>1
        <3>3. ~ (QidSet(w) \subseteq QidsIn(records'[w]))
            BY <3>1
        <3>4. QED
            BY <3>2, <3>3, FirstUnanswered DEF HasPending, NextPending, Unanswered
    <2>5. QED
        BY <2>2, <2>3, <2>4 DEF OpenedIsAnswered
<1>3. CASE RestoreRefused(w)
    <2>1. pc'[w] = "dead" /\ budget'[w] = "ample"
        BY <1>3 DEF RestoreRefused, Exit
    <2>2. QED
        BY <2>1 DEF OpenedIsAnswered
<1>4. CASE BuildRuntime(w)
    <2>1. /\ pc[w] = "build" /\ pc'[w] = "loop"
          /\ UNCHANGED <<records, quota, budget>>
        BY <1>4 DEF BuildRuntime
    <2>2. HasPending(w)'
        BY <2>1 DEF OpenedIsAnswered, HasPending, NextPending, Unanswered
    <2>3. QED
        BY <2>1, <2>2 DEF OpenedIsAnswered
<1>5. CASE StopForBudget(w) \/ EndLoop(w)
    <2>1. /\ pc[w] = "loop" /\ pc'[w] = "finalize"
          /\ UNCHANGED <<results, manifest, budget>>
        BY <1>5 DEF StopForBudget, EndLoop, disk
    <2>2. ~ Bare(results[w], manifest[w])
        <3>1. CASE EndLoop(w)
            BY <2>1, <3>1 DEF EndLoop, OpenedIsAnswered
        <3>2. CASE StopForBudget(w)
            <4>1. records[w] # base[w]
                BY <3>2 DEF StopForBudget, AtBudgetEnd, OpenedIsAnswered
            <4>2. results[w] = records[w]
                BY <2>1 DEF DirectoryInv, FileIsMemory, Running, Writing
            <4>3. Len(base[w]) <= Len(records[w])
                BY <2>1 DEF DirectoryInv, ExtendsBase, Running
            <4>4. records[w] = <<>> => base[w] = <<>>
                <5>1. base[w] \in Seq(Record)
                    OBVIOUS
                <5>2. QED
                    BY <4>3, <5>1
            <4>5. QED
                BY <4>1, <4>2, <4>4 DEF Bare
        <3>3. QED
            BY <1>5, <3>1, <3>2
    <2>3. QED
        BY <2>1, <2>2 DEF OpenedIsAnswered
<1>6. CASE AnswerQuestion(w)
    <2>1. pc'[w] = "manifest" /\ budget' = budget
        BY <1>6 DEF AnswerQuestion
    <2>2. QED
        BY <2>1 DEF OpenedIsAnswered
<1>7. CASE PublishManifest(w)
    <2>1. /\ pc[w] = "manifest" /\ pc'[w] = "zip" /\ budget' = budget
          /\ manifest'[w] = [sha |-> results[w], count |-> Len(records[w]),
                             conf |-> conf[w], src |-> src[w]]
        BY <1>7 DEF PublishManifest
    <2>2. results[w] \in Seq(Line)
        BY <2>1 DEF DirectoryInv, FileIsMemory, Running, Writing, Line
    <2>3. manifest'[w] \in Manifest
        BY <2>1, <2>2 DEF Manifest
    <2>4. manifest'[w] # NoFile
        BY <2>3, MarkerAssumption
    <2>5. QED
        BY <2>1, <2>4 DEF OpenedIsAnswered, Bare
<1>8. CASE RefreshZip(w)
    <2>1. /\ pc[w] = "zip" /\ pc'[w] = "loop"
          /\ UNCHANGED <<results, manifest, budget>>
        BY <1>8 DEF RefreshZip
    <2>2. QED
        BY <2>1 DEF OpenedIsAnswered
<1>9. CASE Finalize(w)
    <2>1. /\ pc[w] = "finalize" /\ pc'[w] = "done" /\ budget'[w] = "ample"
          /\ UNCHANGED <<results, manifest>>
        BY <1>9 DEF Finalize, Exit
    <2>2. QED
        BY <2>1 DEF OpenedIsAnswered
<1>10. QED
    BY <1>2, <1>3, <1>4, <1>5, <1>6, <1>7, <1>8, <1>9 DEF SessionStep
================================================================================
