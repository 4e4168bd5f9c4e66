--------------------------- MODULE DualSessionProofs ---------------------------
(***************************************************************************)
(* What DualSession guarantees for every question list, any budget and any  *)
(* number of failures.  The invariant adds to the two directory invariants  *)
(* when processes may run: only while the coordinator monitors.  So the     *)
(* coordinator extracts, validates, counts and packs directories at rest.   *)
(***************************************************************************)
EXTENDS DualSession, SessionRunnerProofs

\* Worker processes are alive only under the monitor.
WorkersAtRest == \A w \in Workers : pc[w] \in Idle
Supervised == cpc # "monitor" => WorkersAtRest

CoherentExport(z) ==
    \A w \in Workers :
        z.manifest[w] # NoFile => CoherentManifest(w, z.manifest[w])

CountsItsFiles(m, r) ==
    /\ m.count = Count(r)
    /\ \A q \in m.qids : \E w \in Workers : q \in QidsIn(RecordsIn(r[w]))

ExportInv(z) ==
    z # NoFile => CoherentExport(z) /\ CountsItsFiles(z.man, z.results)

CoordinatorInv ==
    /\ Supervised
    /\ cpc = "extract" => attached # NoFile /\ extracted \in 0 .. 6
    /\ cpc \in {"validate", "launch"} => \A w \in Workers : qfile[w] \in Sources
    /\ cpc = "zip" => /\ cman \in CombinedManifest
                      /\ cstatus \in DualStatuses
                      /\ CountsItsFiles(cman, results)

IInv ==
    /\ TypeOK
    /\ \A w \in Workers : DirectoryInv(w)
    /\ CoordinatorInv
    /\ ExportInv(czip) /\ ExportInv(attached) /\ ExportInv(archive)
    /\ SubmissionIsExact

\* The types of the coordinator's own variables.
CoordinatorTypeOK ==
    /\ cpc \in CoordinatorPcs
    /\ cconf \in Configs /\ csrc \in Sources
    /\ extracted \in 0 .. 7
    /\ failed \in BOOLEAN
    /\ qfile \in [Workers -> Sources \cup {NoFile}]
    /\ cman \in CombinedManifest \cup {NoFile}
    /\ cstatus \in DualStatuses \cup {"none"}

LEMMA TwoWorkers == Workers = {0, 1}
    BY DualAssumption

\* The first machine is empty.
LEMMA InitEstablishes == Init => IInv
<1>. SUFFICES ASSUME Init PROVE IInv
    OBVIOUS
<1>. USE DEF Init, SessionInit
<1>1. <<>> \in Seq(Record)
    OBVIOUS
<1>2. SessionTypeOK
    BY <1>1 DEF SessionTypeOK, Pcs, Statuses, FileOrNone, ManifestOrNone,
                ExportOrNone
<1>3. TypeOK
    <2>1. CoordinatorTypeOK
        <3>1. cpc \in CoordinatorPcs /\ cconf \in Configs /\ csrc \in Sources
            BY DEF CoordinatorPcs
        <3>2. extracted = 0 /\ failed = FALSE
            OBVIOUS
        <3>3. qfile \in [Workers -> Sources \cup {NoFile}]
            OBVIOUS
        <3>4. /\ cman \in CombinedManifest \cup {NoFile}
              /\ cstatus \in DualStatuses \cup {"none"}
            OBVIOUS
        <3>. HIDE DEF Init, SessionInit
        <3>5. extracted \in 0 .. 7
            BY <3>2
        <3>6. failed \in BOOLEAN
            BY <3>2
        <3>7. QED
            BY <3>1, <3>3, <3>4, <3>5, <3>6 DEF CoordinatorTypeOK
    <2>2. failures \in 0 .. MaxFailures
        BY FailureBoundAssumption
    <2>3. /\ czip \in CombinedExport \cup {NoFile}
          /\ attached \in CombinedExport \cup {NoFile}
          /\ archive \in CombinedExport \cup {NoFile}
          /\ submission \in Submission \cup {NoFile}
        OBVIOUS
    <2>. HIDE DEF Init, SessionInit
    <2>4. QED
        BY <1>2, <2>1, <2>2, <2>3 DEF TypeOK, CoordinatorTypeOK
<1>4. \A w \in Workers : DirectoryInv(w)
    BY DEF DirectoryInv, FileIsMemory, RecordsOfOneRun, ExtendsBase,
           ManifestIsCurrent, Running
<1>5. CoordinatorInv
    BY DEF CoordinatorInv, Supervised, WorkersAtRest, Idle
<1>6. QED
    BY <1>3, <1>4, <1>5 DEF IInv, ExportInv, SubmissionIsExact

\* A step that touches no directory.
LEMMA DirectoriesFrame ==
    ASSUME IInv, UNCHANGED runnerVars
    PROVE  /\ SessionTypeOK'
           /\ \A w \in Workers : DirectoryInv(w)'
           /\ WorkersAtRest => WorkersAtRest'
<1>1. SessionTypeOK'
    BY DEF IInv, TypeOK, SessionTypeOK, runnerVars, process, disk
<1>2. ASSUME NEW w \in Workers
      PROVE  DirectoryInv(w)'
    <2>1. DirectoryInv(w)
        BY DEF IInv
    <2>2. QED
        BY <2>1, DirectoryFrame DEF runnerVars, process, disk
<1>3. WorkersAtRest => WorkersAtRest'
    BY DEF WorkersAtRest, runnerVars, process
<1>4. QED
    BY <1>1, <1>2, <1>3

\* A directory without a process, with a coherent manifest and an export that
\* is still sound.
LEMMA RestIsInvariant ==
    ASSUME IInv, WorkersAtRest, UNCHANGED <<process, latestZip>>,
           \A w \in Workers : \/ manifest'[w] = NoFile
                              \/ CoherentManifest(w, manifest'[w])
    PROVE  \A w \in Workers : DirectoryInv(w)'
<1>1. ASSUME NEW w \in Workers
      PROVE  DirectoryInv(w)'
    <2>1. pc'[w] \notin Running
        BY DEF WorkersAtRest, process, Idle, Running
    <2>2. latestZip'[w] # NoFile => SoundExport(w, latestZip'[w])
        BY DEF IInv, DirectoryInv
    <2>3. QED
        BY <2>1, <2>2, DirectoryAtRest
<1>2. QED
    BY <1>1

\* What the coordinator collects has the types of a combined manifest.
LEMMA QidTypes ==
    ASSUME SessionTypeOK, NEW w \in Workers, Readable(w)
    PROVE  /\ QidsIn(RecordsIn(results[w])) \subseteq Qids
           /\ Len(RecordsIn(results[w])) \in Nat
<1>1. CASE results[w] = NoFile
    BY <1>1 DEF RecordsIn, QidsIn
<1>2. CASE results[w] # NoFile
    <2>1. results[w] \in Seq(Line) /\ RecordsIn(results[w]) = results[w]
        BY <1>2 DEF SessionTypeOK, FileOrNone, RecordsIn
    <2>2. \A i \in DOMAIN results[w] : results[w][i] # Torn
        BY <1>2, <2>1 DEF Readable, WorkerAccepts, Fresh, Restorable, WellFormed
    <2>3. \A i \in DOMAIN results[w] : results[w][i].qid \in Qids
        BY <2>1, <2>2 DEF Line, Record
    <2>4. QED
        BY <2>1, <2>3 DEF QidsIn
<1>3. QED
    BY <1>1, <1>2

LEMMA CollectedTypes ==
    ASSUME SessionTypeOK, \A w \in Workers : Readable(w)
    PROVE  Count(results) \in Nat /\ AllQids(results) \subseteq Qids
    BY TwoWorkers, QidTypes DEF Count, AllQids
\* A step that leaves the exports and the submission alone has the directories
\* and the coordinator to show.
LEMMA ExportsFrame ==
    ASSUME IInv, UNCHANGED <<czip, attached, archive, submission>>,
           failures' \in 0 .. MaxFailures, SessionTypeOK', CoordinatorTypeOK',
           \A w \in Workers : DirectoryInv(w)', CoordinatorInv'
    PROVE  IInv'
<1>1. TypeOK'
    BY DEF IInv, TypeOK, CoordinatorTypeOK
<1>2. ExportInv(czip) /\ ExportInv(attached) /\ ExportInv(archive)
    BY DEF IInv
<1>3. SubmissionIsExact'
    BY DEF IInv, SubmissionIsExact
<1>4. ExportInv(czip') /\ ExportInv(attached') /\ ExportInv(archive')
    BY <1>2
<1>5. QED
    BY <1>1, <1>3, <1>4 DEF IInv

LEMMA Parts ==
    ASSUME IInv
    PROVE  /\ TypeOK /\ SessionTypeOK /\ CoordinatorTypeOK
           /\ failures \in 0 .. MaxFailures
           /\ \A w \in Workers : DirectoryInv(w) /\ FileIsMemory(w)
           /\ CoordinatorInv
    BY DEF IInv, TypeOK, CoordinatorTypeOK, DirectoryInv

--------------------------------------------------------------------------------
(* The steps of the coordinator *)

LEMMA ExtractPreserves == ASSUME IInv, ExtractMember PROVE IInv'
<1>. DEFINE m == Members[extracted + 1]
<1>1. /\ cpc = "extract"
      /\ cman' = IF m.file = "combined" THEN attached.man ELSE cman
      /\ manifest' = Overwrite(manifest, m, "manifest", attached.manifest)
      /\ results' = Overwrite(results, m, "results", attached.results)
      /\ qfile' = Overwrite(qfile, m, "questions", attached.qfile)
      /\ extracted' = extracted + 1
      /\ cpc' = IF extracted' = Len(Members) THEN "init" ELSE "extract"
      /\ UNCHANGED <<process, latestZip, cconf, csrc, failed, cstatus, czip,
                     operatorVars>>
    BY DEF ExtractMember
<1>2. /\ attached \in CombinedExport /\ ExportInv(attached) /\ attached # NoFile
      /\ extracted \in 0 .. 6 /\ WorkersAtRest
      /\ TypeOK /\ SessionTypeOK
    BY <1>1 DEF IInv, TypeOK, CoordinatorInv, Supervised
<1>3. m.of \in Workers
    <2>1. extracted \in {0, 1, 2, 3, 4, 5, 6}
        BY <1>2
    <2>2. QED
        BY <2>1, TwoWorkers DEF Members
<1>4. /\ attached.man \in CombinedManifest
      /\ attached.manifest \in [Workers -> ManifestOrNone]
      /\ attached.results \in [Workers -> FileOrNone]
      /\ attached.qfile \in [Workers -> Sources \cup {NoFile}]
    BY <1>2 DEF CombinedExport
<1>. HIDE DEF m
<1>5. manifest' \in [Workers -> ManifestOrNone]
    BY <1>1, <1>2, <1>3, <1>4 DEF Overwrite, SessionTypeOK
<1>6. results' \in [Workers -> FileOrNone]
    BY <1>1, <1>2, <1>3, <1>4 DEF Overwrite, SessionTypeOK
<1>7. qfile' \in [Workers -> Sources \cup {NoFile}]
    BY <1>1, <1>2, <1>3, <1>4 DEF Overwrite, TypeOK
<1>8. SessionTypeOK'
    BY <1>1, <1>2, <1>5, <1>6 DEF SessionTypeOK, process
<1>9. \A w \in Workers : \/ manifest'[w] = NoFile
                         \/ CoherentManifest(w, manifest'[w])
    <2>1. ASSUME NEW w \in Workers
          PROVE  \/ manifest'[w] = NoFile \/ CoherentManifest(w, manifest'[w])
        <3>1. manifest[w] = NoFile \/ CoherentManifest(w, manifest[w])
            BY DEF IInv, DirectoryInv
        <3>2. \/ attached.manifest[w] = NoFile
              \/ CoherentManifest(w, attached.manifest[w])
            BY <1>2 DEF ExportInv, CoherentExport
        <3>3. manifest'[w] \in {manifest[w], attached.manifest[w]}
            BY <1>1, <1>2, <1>3 DEF Overwrite, SessionTypeOK
        <3>4. QED
            BY <3>1, <3>2, <3>3
    <2>2. QED
        BY <2>1
<1>10. \A w \in Workers : DirectoryInv(w)'
    BY <1>1, <1>2, <1>9, RestIsInvariant
<1>11. CoordinatorInv'
    BY <1>1, <1>2 DEF CoordinatorInv, Supervised, WorkersAtRest, Members,
                      process, operatorVars
<1>12. CoordinatorTypeOK'
    BY <1>1, <1>2, <1>4, <1>7, Parts DEF CoordinatorTypeOK, CoordinatorPcs
<1>13. /\ UNCHANGED <<czip, attached, archive, submission>>
       /\ failures' \in 0 .. MaxFailures
    BY <1>1, Parts DEF operatorVars
<1>14. QED
    BY <1>8, <1>10, <1>11, <1>12, <1>13, ExportsFrame

\* Steps of the coordinator that touch no directory and no export.
LEMMA QuietPreserves ==
    ASSUME IInv,
           \/ Start \/ InitWorkerRunners \/ ValidateCheckpoint
           \/ ValidateRefused \/ WorkersFinished \/ CollectRaises
    PROVE  IInv'
<1>. USE DEF Start, InitWorkerRunners, ValidateCheckpoint, ValidateRefused,
             WorkersFinished, CollectRaises
<1>1. /\ UNCHANGED <<runnerVars, czip, attached, archive, submission, failures>>
      /\ cpc # "monitor" \/ WorkersFinished
    BY DEF combined, operatorVars
<1>2. CoordinatorTypeOK'
    <2>1. /\ cpc' \in {"extract", "init", "validate", "launch", "idle",
                       "collect"}
          /\ failed' = FALSE \/ failed' = failed
          /\ extracted' = 0 \/ extracted' = extracted
          /\ UNCHANGED <<cman, cstatus>>
        BY DEF combined
    <2>2. cconf' \in Configs /\ csrc' \in Sources
        BY Parts DEF CoordinatorTypeOK
    <2>3. qfile' \in [Workers -> Sources \cup {NoFile}]
        BY Parts DEF CoordinatorTypeOK, combined, EnsureQuestionFiles
    <2>4. extracted' \in 0 .. 7
        BY <2>1, Parts DEF CoordinatorTypeOK
    <2>5. failed' \in BOOLEAN
        BY <2>1, Parts DEF CoordinatorTypeOK
    <2>. HIDE DEF Start, InitWorkerRunners, ValidateCheckpoint, ValidateRefused,
                  WorkersFinished, CollectRaises
    <2>6. QED
        BY <2>1, <2>2, <2>3, <2>4, <2>5, Parts
        DEF CoordinatorTypeOK, CoordinatorPcs
<1>3. WorkersAtRest'
    <2>1. WorkersAtRest
        BY <1>1, Parts DEF CoordinatorInv, Supervised, WorkersAtRest, Idle
    <2>2. QED
        BY <1>1, <2>1, DirectoriesFrame
<1>4. cpc' \in {"validate", "launch"} => \A w \in Workers : qfile'[w] \in Sources
    <2>1. CASE InitWorkerRunners
        BY <2>1, Parts DEF EnsureQuestionFiles, CoordinatorTypeOK
    <2>2. CASE ~ InitWorkerRunners
        BY <2>2, Parts DEF CoordinatorInv, combined
    <2>3. QED
        BY <2>1, <2>2
<1>5. CoordinatorInv'
    BY <1>3, <1>4, Parts DEF CoordinatorInv, Supervised, operatorVars
<1>6. QED
    BY <1>1, <1>2, <1>5, Parts, DirectoriesFrame, ExportsFrame

\* Launch finds the two directories at rest and the question files written.
LEMMA LaunchPreserves == ASSUME IInv, LaunchWorkers PROVE IInv'
<1>1. PICK b \in Budgets, n \in Caps :
        Launch(Workers, "restore", cconf, qfile, b, n)
    BY DEF LaunchWorkers
<1>2. /\ UNCHANGED <<cconf, csrc, extracted, failed, qfile, cman, cstatus>>
      /\ UNCHANGED <<czip, attached, archive, submission, failures>>
      /\ cpc = "launch" /\ cpc' = "monitor"
    BY DEF LaunchWorkers, combined, operatorVars
<1>3. cconf \in Configs /\ \A w \in Workers : qfile[w] \in Sources
    BY <1>2, Parts DEF CoordinatorInv, CoordinatorTypeOK
<1>4. "restore" \in Pcs \ Running
    BY DEF Pcs, Running
<1>5. SessionTypeOK' /\ \A w \in Workers : DirectoryInv(w)'
    BY <1>1, <1>3, <1>4, Parts, LaunchKeeps
<1>6. CoordinatorTypeOK' /\ CoordinatorInv'
    BY <1>2, Parts DEF CoordinatorTypeOK, CoordinatorInv, Supervised,
                       CoordinatorPcs
<1>7. QED
    BY <1>2, <1>5, <1>6, Parts, ExportsFrame

\* A worker that steps is alive, so the coordinator is monitoring: a step of a
\* worker that keeps the types and the directories keeps the invariant.
LEMMA UnderTheMonitor ==
    ASSUME IInv, NEW w \in Workers, pc[w] \notin Idle,
           UNCHANGED <<coordinator, combined, attached, archive, submission>>,
           failures' \in 0 .. MaxFailures,
           SessionTypeOK', \A v \in Workers : DirectoryInv(v)'
    PROVE  IInv'
<1>1. cpc = "monitor"
    BY Parts DEF CoordinatorInv, Supervised, WorkersAtRest
<1>2. CoordinatorTypeOK' /\ CoordinatorInv'
    BY <1>1, Parts DEF CoordinatorTypeOK, CoordinatorInv, Supervised,
                       coordinator, combined
<1>3. QED
    BY <1>2, ExportsFrame DEF combined

LEMMA WorkerPreserves == ASSUME IInv, NEW w \in Workers, Worker(w) PROVE IInv'
<1>1. SessionStep(w) /\ UNCHANGED <<coordinator, combined, operatorVars>>
    BY DEF Worker
<1>2. pc[w] \notin Idle
    BY <1>1 DEF SessionStep, RestoreFresh, RestoreCheckpoint, RestoreRefused,
                BuildRuntime, StopForBudget, AnswerQuestion, EndLoop,
                PublishManifest, RefreshZip, Finalize, Idle
<1>3. SessionTypeOK'
    BY <1>1, Parts, SessionStepTypes
<1>4. ASSUME NEW v \in Workers PROVE DirectoryInv(v)'
    <2>1. CASE v = w
        BY <1>1, <2>1, Parts, SessionStepKeepsDirectory
    <2>2. CASE v # w
        BY <1>1, <2>2, Parts, SessionStepIsLocal, DirectoryFrame
    <2>3. QED
        BY <2>1, <2>2
<1>5. failures' \in 0 .. MaxFailures
    BY <1>1, Parts DEF operatorVars
<1>6. QED
    BY <1>1, <1>2, <1>3, <1>4, <1>5, UnderTheMonitor DEF operatorVars

\* A failed build or a kill of one worker.
LEMMA WorkerLossPreserves ==
    ASSUME IInv, WorkerBuildFails \/ WorkerKilled PROVE IInv'
<1>1. /\ UNCHANGED <<coordinator, combined, attached, archive, submission>>
      /\ failures' \in 0 .. MaxFailures
    BY Parts, FailureBoundAssumption DEF WorkerBuildFails, WorkerKilled, Fail
<1>2. CASE WorkerBuildFails
    <2>1. PICK w \in Workers : BuildFails(w)
        BY <1>2 DEF WorkerBuildFails
    <2>2. SessionTypeOK' /\ \A v \in Workers : DirectoryInv(v)'
        BY <2>1, Parts, BuildFailsKeeps
    <2>3. pc[w] \notin Idle
        BY <2>1 DEF BuildFails, Idle
    <2>4. QED
        BY <1>1, <2>2, <2>3, UnderTheMonitor
<1>3. CASE WorkerKilled
    <2>1. PICK w \in Workers : Killed({w}, "dead")
        BY <1>3 DEF WorkerKilled
    <2>2. "dead" \in Pcs \ Running
        BY DEF Pcs, Running
    <2>3. SessionTypeOK' /\ \A v \in Workers : DirectoryInv(v)'
        BY <2>1, <2>2, Parts, KilledKeeps
    <2>4. pc[w] \notin Idle
        BY <2>1 DEF Killed
    <2>5. QED
        BY <1>1, <2>3, <2>4, UnderTheMonitor
<1>4. QED
    BY <1>2, <1>3

\* The containment of a failure and a killed coordinator leave no process.
LEMMA TakeDownPreserves ==
    ASSUME IInv, WorkerFailureSeen \/ CoordinatorKilled PROVE IInv'
<1>. DEFINE S == {w \in Workers : pc[w] \notin Idle}
<1>1. /\ Killed(S, "dead")
      /\ UNCHANGED <<cconf, csrc, extracted, combined, attached, archive,
                     submission>>
      /\ cpc' \in {"collect", "idle"}
      /\ failed' = TRUE \/ failed' = failed
    BY DEF WorkerFailureSeen, CoordinatorKilled, operatorVars
<1>. failures' \in 0 .. MaxFailures
    <2>1. CASE WorkerFailureSeen
        BY <2>1, Parts DEF WorkerFailureSeen, operatorVars
    <2>2. CASE CoordinatorKilled
        BY <2>2, Parts, FailureBoundAssumption DEF CoordinatorKilled, Fail
    <2>3. QED
        BY <2>1, <2>2
<1>. failed' \in BOOLEAN
    BY <1>1, Parts DEF CoordinatorTypeOK
<1>2. SessionTypeOK' /\ \A v \in Workers : DirectoryInv(v)'
    <2>1. "dead" \in Pcs \ Running
        BY DEF Pcs, Running
    <2>2. QED
        BY <1>1, <2>1, Parts, KilledKeeps
<1>3. WorkersAtRest'
    BY <1>1 DEF Killed, Exit, WorkersAtRest, Idle
<1>4. CoordinatorTypeOK' /\ CoordinatorInv'
    BY <1>1, <1>3, Parts DEF CoordinatorTypeOK, CoordinatorInv, Supervised,
                             CoordinatorPcs, combined
<1>5. QED
    BY <1>1, <1>2, <1>4, ExportsFrame DEF combined

\* The collection counts what is on the disk.
LEMMA CollectPreserves == ASSUME IInv, CollectRecords PROVE IInv'
<1>1. /\ cpc = "collect" /\ cpc' = "zip"
      /\ cman' = [src |-> csrc, conf |-> cconf, count |-> Count(results),
                  qids |-> AllQids(results)]
      /\ cstatus' \in DualStatuses
      /\ UNCHANGED <<runnerVars, cconf, csrc, extracted, failed, qfile, czip>>
      /\ UNCHANGED <<attached, archive, submission, failures>>
    BY DEF CollectRecords, DualStatuses, operatorVars
<1>2. cman' \in CombinedManifest
    <2>1. Count(results) \in Nat /\ AllQids(results) \subseteq Qids
        BY Parts, CollectedTypes DEF CollectRecords
    <2>2. QED
        BY <1>1, <2>1, Parts DEF CombinedManifest, CoordinatorTypeOK
<1>3. CountsItsFiles(cman', results')
    BY <1>1, TwoWorkers DEF CountsItsFiles, AllQids, runnerVars, disk
<1>4. WorkersAtRest'
    BY <1>1, Parts, DirectoriesFrame DEF CoordinatorInv, Supervised
<1>6. CoordinatorTypeOK' /\ CoordinatorInv'
    BY <1>1, <1>2, <1>3, <1>4, Parts
    DEF CoordinatorTypeOK, CoordinatorInv, Supervised, CoordinatorPcs
<1>7. QED
    BY <1>1, <1>6, Parts, DirectoriesFrame, ExportsFrame

\* The export packs the counted files.
LEMMA ZipPreserves == ASSUME IInv, RefreshCombinedZip PROVE IInv'
<1>1. /\ cpc = "zip" /\ cpc' = "idle"
      /\ czip' = [man |-> cman, status |-> cstatus, qfile |-> qfile,
                  results |-> results, manifest |-> manifest]
      /\ UNCHANGED <<runnerVars, cconf, csrc, extracted, failed, qfile, cman,
                     cstatus, attached, archive, submission, failures>>
    BY DEF RefreshCombinedZip, operatorVars
<1>2. /\ cman \in CombinedManifest /\ cstatus \in DualStatuses
      /\ CountsItsFiles(cman, results)
      /\ WorkersAtRest
    BY <1>1, Parts DEF CoordinatorInv, Supervised
<1>3. czip' \in CombinedExport
    BY <1>1, <1>2, Parts DEF CombinedExport, SessionTypeOK, CoordinatorTypeOK
<1>4. ExportInv(czip')
    <2>1. czip'.man = cman /\ czip'.results = results /\ czip'.manifest = manifest
        BY <1>1
    <2>2. CoherentExport(czip')
        BY <2>1, Parts DEF CoherentExport, DirectoryInv
    <2>3. QED
        BY <1>2, <2>1, <2>2 DEF ExportInv
<1>5. CoordinatorTypeOK' /\ CoordinatorInv'
    BY <1>1, <1>2, Parts, DirectoriesFrame
    DEF CoordinatorTypeOK, CoordinatorInv, Supervised, CoordinatorPcs
<1>6. TypeOK'
    BY <1>1, <1>3, <1>5, Parts, DirectoriesFrame DEF TypeOK, CoordinatorTypeOK
<1>7. ExportInv(attached') /\ ExportInv(archive') /\ SubmissionIsExact'
    <2>1. ExportInv(attached) /\ ExportInv(archive) /\ SubmissionIsExact
        BY DEF IInv
    <2>2. QED
        BY <1>1, <2>1 DEF SubmissionIsExact
<1>8. QED
    BY <1>1, <1>4, <1>5, <1>6, <1>7, DirectoriesFrame DEF IInv

\* The disk of a new machine is empty; what is attached to it was sound.
LEMMA NewMachinePreserves == ASSUME IInv, NewMachine PROVE IInv'
<1>1. /\ cpc = "idle"
      /\ results' = [w \in Workers |-> NoFile]
      /\ manifest' = [w \in Workers |-> NoFile]
      /\ latestZip' = [w \in Workers |-> NoFile]
      /\ qfile' = [w \in Workers |-> NoFile]
      /\ cman' = NoFile /\ czip' = NoFile /\ cstatus' = "none"
      /\ attached' = archive
      /\ UNCHANGED <<cpc, cconf, csrc, extracted, failed>>
      /\ UNCHANGED process
      /\ UNCHANGED <<archive, submission, failures>>
    BY DEF NewMachine, coordinator
<1>2. WorkersAtRest
    BY <1>1, Parts DEF CoordinatorInv, Supervised
<1>3. SessionTypeOK'
    BY <1>1, Parts DEF SessionTypeOK, process, FileOrNone, ManifestOrNone,
                       ExportOrNone
<1>4. \A w \in Workers : DirectoryInv(w)'
    <2>1. ASSUME NEW w \in Workers PROVE DirectoryInv(w)'
        <3>1. pc'[w] \notin Running
            BY <1>1, <1>2 DEF WorkersAtRest, process, Idle, Running
        <3>2. manifest'[w] = NoFile /\ latestZip'[w] = NoFile
            BY <1>1
        <3>3. QED
            BY <3>1, <3>2, DirectoryAtRest
    <2>2. QED
        BY <2>1
<1>5. CoordinatorTypeOK'
    BY <1>1, Parts DEF CoordinatorTypeOK
<1>6. CoordinatorInv'
    BY <1>1, <1>2 DEF CoordinatorInv, Supervised, WorkersAtRest, process
<1>7. TypeOK'
    BY <1>1, <1>3, <1>5, Parts DEF TypeOK, CoordinatorTypeOK
<1>8. ExportInv(czip') /\ ExportInv(attached') /\ ExportInv(archive')
    <2>1. ExportInv(archive)
        BY DEF IInv
    <2>2. ExportInv(czip')
        BY <1>1 DEF ExportInv
    <2>3. QED
        BY <1>1, <2>1, <2>2
<1>9. SubmissionIsExact'
    BY <1>1 DEF IInv, SubmissionIsExact
<1>10. QED
    BY <1>4, <1>6, <1>7, <1>8, <1>9 DEF IInv

LEMMA DownloadPreserves == ASSUME IInv, Download PROVE IInv'
<1>1. /\ archive' = czip /\ cpc = "idle"
      /\ UNCHANGED <<runnerVars, cpc, cconf, csrc, extracted, failed, qfile,
                     cman, cstatus, czip, attached, submission, failures>>
    BY DEF Download, coordinator, combined
<1>2. CoordinatorTypeOK' /\ CoordinatorInv'
    BY <1>1, Parts, DirectoriesFrame
    DEF CoordinatorTypeOK, CoordinatorInv, Supervised
<1>3. TypeOK'
    BY <1>1, <1>2, Parts, DirectoriesFrame DEF TypeOK, CoordinatorTypeOK
<1>4. ExportInv(czip') /\ ExportInv(attached') /\ ExportInv(archive')
    <2>1. ExportInv(czip) /\ ExportInv(attached)
        BY DEF IInv
    <2>2. QED
        BY <1>1, <2>1
<1>5. SubmissionIsExact'
    BY <1>1 DEF IInv, SubmissionIsExact
<1>6. QED
    BY <1>1, <1>2, <1>3, <1>4, <1>5, DirectoriesFrame DEF IInv

\* Every record of an accepted directory was answered under the configuration
\* that accepts it.
LEMMA AcceptedRecords ==
    ASSUME IInv, NEW w \in Workers, NEW c, NEW s,
           WorkerAccepts(w, results[w], manifest[w], c, s),
           results[w] # NoFile
    PROVE  \A i \in DOMAIN results[w] : /\ results[w][i] \in Record
                                        /\ results[w][i].conf = c
<1>1. Restorable(w, results[w], manifest[w], c, s)
    BY DEF WorkerAccepts, Fresh
<1>2. /\ results[w] \in Seq(Line)
      /\ WellFormed(w, results[w])
      /\ CoherentManifest(w, manifest[w])
      /\ manifest[w].sha = results[w] /\ manifest[w].conf = c
    BY <1>1, Parts DEF Restorable, SessionTypeOK, FileOrNone, DirectoryInv
<1>3. results[w] \in Seq(Record)
    BY <1>2, WellFormedIsRecords
<1>4. QED
    BY <1>2, <1>3 DEF CoherentManifest

\* The merge takes one record of the packaging configuration per question.
LEMMA MergeIsExact ==
    ASSUME IInv, NEW c \in Configs, NEW f, Packageable(c, f), NEW q \in Qids,
           NEW w \in Workers,
           w = IF q \in QidsIn(RecordsIn(results[0])) THEN 0 ELSE 1,
           NEW x, x = results[w][CHOOSE i \in DOMAIN results[w] :
                                   results[w][i].qid = q]
    PROVE  x \in Record /\ x.qid = q /\ x.conf = c
<1>1. q \in QidsIn(RecordsIn(results[w]))
    BY SMTT(40) DEF Packageable, AllQids
<1>2. results[w] # NoFile
    BY <1>1, SMTT(40) DEF RecordsIn, QidsIn
<1>3. \E i \in DOMAIN results[w] : results[w][i].qid = q
    BY <1>1, <1>2 DEF RecordsIn, QidsIn
<1>4. \A i \in DOMAIN results[w] : results[w][i] \in Record
                                  /\ results[w][i].conf = c
    BY <1>2, AcceptedRecords, ZenonT(40) DEF Packageable
<1>. DEFINE j == CHOOSE i \in DOMAIN results[w] : results[w][i].qid = q
<1>5. j \in DOMAIN results[w] /\ results[w][j].qid = q
    BY <1>3
<1>6. x = results[w][j]
    OBVIOUS
<1>. HIDE DEF j
<1>7. QED
    BY <1>4, <1>5, <1>6

LEMMA PackagePreserves == ASSUME IInv, Package PROVE IInv'
<1>. DEFINE of(q) == IF q \in QidsIn(RecordsIn(results[0])) THEN 0 ELSE 1
            merged == [q \in Qids |->
                        results[of(q)][CHOOSE i \in DOMAIN results[of(q)] :
                                         results[of(q)][i].qid = q]]
<1>1. PICK c \in Configs, s \in Sources :
        /\ EnsureQuestionFiles(s)
        /\ IF Packageable(c, qfile')
           THEN submission' = [answers |-> merged, conf |-> c, src |-> s]
           ELSE UNCHANGED submission
    BY DEF Package
<1>2. /\ cpc = "idle"
      /\ UNCHANGED <<runnerVars, cpc, cconf, csrc, extracted, failed, cman,
                     cstatus, czip, attached, archive, failures>>
    BY DEF Package, coordinator
<1>3. qfile' \in [Workers -> Sources \cup {NoFile}]
    BY <1>1, Parts DEF EnsureQuestionFiles, CoordinatorTypeOK
<1>4. CoordinatorTypeOK' /\ CoordinatorInv'
    BY <1>2, <1>3, Parts, DirectoriesFrame
    DEF CoordinatorTypeOK, CoordinatorInv, Supervised
<1>5. submission' \in Submission \cup {NoFile} /\ SubmissionIsExact'
    <2>1. CASE Packageable(c, qfile')
        <3>1. submission' = [answers |-> merged, conf |-> c, src |-> s]
            BY <1>1, <2>1
        <3>2. ASSUME NEW q \in Qids
              PROVE  /\ merged[q] \in Record
                     /\ merged[q].qid = q /\ merged[q].conf = c
            <4>1. of(q) \in Workers
                BY TwoWorkers
            <4>2. merged[q] = results[of(q)][CHOOSE i \in DOMAIN results[of(q)] :
                                               results[of(q)][i].qid = q]
                OBVIOUS
            <4>. HIDE DEF merged
            <4>3. QED
                BY <2>1, <4>1, <4>2, MergeIsExact, SMTT(40)
        <3>3. merged \in [Qids -> Record]
            BY <3>2
        <3>. HIDE DEF merged
        <3>4. submission' \in Submission
            BY <3>1, <3>3 DEF Submission
        <3>5. SubmissionIsExact'
            BY <3>1, <3>2 DEF SubmissionIsExact
        <3>6. QED
            BY <3>4, <3>5
    <2>2. CASE ~ Packageable(c, qfile')
        BY <1>1, <2>2 DEF IInv, TypeOK, SubmissionIsExact
    <2>3. QED
        BY <2>1, <2>2
<1>. HIDE DEF merged
<1>6. TypeOK'
    BY <1>2, <1>4, <1>5, Parts, DirectoriesFrame DEF IInv, TypeOK, CoordinatorTypeOK
<1>7. ExportInv(czip') /\ ExportInv(attached') /\ ExportInv(archive')
    <2>1. ExportInv(czip) /\ ExportInv(attached) /\ ExportInv(archive)
        BY DEF IInv
    <2>2. QED
        BY <1>2, <2>1
<1>8. QED
    BY <1>2, <1>4, <1>5, <1>6, <1>7, DirectoriesFrame DEF IInv

LEMMA StutterPreserves == ASSUME IInv, UNCHANGED vars PROVE IInv'
<1>1. /\ UNCHANGED <<runnerVars, cpc, cconf, csrc, extracted, failed, qfile,
                     cman, cstatus>>
      /\ UNCHANGED <<czip, attached, archive, submission, failures>>
    BY DEF vars, coordinator, combined, operatorVars
<1>2. CoordinatorTypeOK'
    BY <1>1, Parts DEF CoordinatorTypeOK
<1>3. CoordinatorInv'
    <2>1. Supervised'
        BY <1>1, Parts, DirectoriesFrame DEF CoordinatorInv, Supervised
    <2>2. CountsItsFiles(cman, results) => CountsItsFiles(cman', results')
        BY <1>1 DEF runnerVars, disk
    <2>3. QED
        BY <1>1, <2>1, <2>2, Parts DEF CoordinatorInv
<1>4. QED
    BY <1>1, <1>2, <1>3, Parts, DirectoriesFrame, ExportsFrame
--------------------------------------------------------------------------------
LEMMA StepPreserves == IInv /\ [Next]_vars => IInv'
<1>1. ASSUME IInv, Next PROVE IInv'
    BY <1>1, QuietPreserves, ExtractPreserves, LaunchPreserves,
       WorkerPreserves, WorkerLossPreserves, TakeDownPreserves,
       CollectPreserves, ZipPreserves, NewMachinePreserves,
       DownloadPreserves, PackagePreserves
    DEF Next, CoordinatorStep
<1>2. QED
    BY <1>1, StutterPreserves

LEMMA Invariance == Spec => []IInv
<1>1. Init => IInv
    BY InitEstablishes
<1>2. IInv /\ [Next]_vars => IInv'
    BY StepPreserves
<1>3. QED
    BY <1>1, <1>2, PTL DEF Spec

\* The variables of the coordinator, the workers and the operator keep their
\* types; in particular what a collection counts and packs is records.
THEOREM DualTypeCorrect == Spec => []TypeOK
<1>1. IInv => TypeOK
    BY DEF IInv
<1>2. QED
    BY <1>1, Invariance, PTL

\* Neither the coordinator's extraction nor the other worker ever writes under
\* a running worker: its results file stays what it holds in memory.
THEOREM DualOwnTheirFiles == Spec => []WorkersOwnTheirFiles
<1>1. IInv => WorkersOwnTheirFiles
    BY DEF IInv, DirectoryInv, WorkersOwnTheirFiles
<1>2. QED
    BY <1>1, Invariance, PTL

\* The combined manifest of every export counts exactly the lines packed with
\* it: the files do not change between the collection and the archive.
THEOREM DualReportsDurable == Spec => []ReportedProgressIsDurable
<1>1. IInv => ReportedProgressIsDurable
    BY DEF IInv, ExportInv, CountsItsFiles, ReportedProgressIsDurable
<1>2. QED
    BY <1>1, Invariance, PTL

\* package_final_submission merges one answer per question, all under the
\* packaging configuration.
THEOREM DualExactSubmission == Spec => []SubmissionIsExact
<1>1. IInv => SubmissionIsExact
    BY DEF IInv
<1>2. QED
    BY <1>1, Invariance, PTL
--------------------------------------------------------------------------------
(* What a session leaves for its export.  The workers run the coordinator's    *)
(* configuration on the question files it wrote; a worker that ended normally  *)
(* left its checkpoint; a collection without a failure has two of them.        *)

Session == {"monitor", "collect", "zip"}

RunsOnItsFiles(w) ==
    /\ conf[w] = cconf /\ src[w] = qfile[w]
    /\ ManifestIsOwn(w)
    /\ pc[w] = "done" => LeavesItsCheckpoint(w)

Report ==
    /\ cman = [src |-> csrc, conf |-> cconf, count |-> Count(results),
               qids |-> AllQids(results)]
    /\ cstatus = IF failed THEN "DUAL_GPU_WORKER_FAILURE_CHECKPOINT_READY"
                 ELSE IF Count(results) = Len(Questions)
                      THEN "ALL_QUESTIONS_COMPLETED"
                      ELSE "SESSION_CHECKPOINT_COMPLETE"

SupervisionInv ==
    /\ cpc \in Session => \A w \in Workers : RunsOnItsFiles(w)
    /\ cpc \in {"extract", "init", "validate", "launch", "monitor"} => ~ failed
    /\ cpc \in {"collect", "zip"} /\ ~ failed => \A w \in Workers : pc[w] = "done"
    /\ cpc = "zip" => Report

\* Outside of a session the invariant only asks that no failure is recorded.
LEMMA OutsideASession ==
    ASSUME cpc' \in {"idle", "extract", "init", "validate", "launch"},
           cpc' = "idle" \/ ~ failed'
    PROVE  SupervisionInv'
    BY DEF SupervisionInv, Session

\* Everything the invariants of a worker speak of.
Untouched(v) ==
    /\ pc'[v] = pc[v] /\ conf'[v] = conf[v] /\ src'[v] = src[v]
    /\ records'[v] = records[v] /\ base'[v] = base[v]
    /\ quota'[v] = quota[v] /\ budget'[v] = budget[v]
    /\ results'[v] = results[v] /\ manifest'[v] = manifest[v]

LEMMA UntouchedKeeps ==
    ASSUME NEW v, Untouched(v), cconf' = cconf, qfile' = qfile
    PROVE  /\ RunsOnItsFiles(v) => RunsOnItsFiles(v)'
           /\ OpenedIsAnswered(v) => OpenedIsAnswered(v)'
<1>1. RunsOnItsFiles(v) => RunsOnItsFiles(v)'
    BY DEF Untouched, RunsOnItsFiles, ManifestIsOwn, LeavesItsCheckpoint,
           Restorable, WellFormed
<1>2. OpenedIsAnswered(v) => OpenedIsAnswered(v)'
    BY DEF Untouched, OpenedIsAnswered, HasPending, NextPending, Unanswered, Bare
<1>3. QED
    BY <1>1, <1>2

LEMMA AllUntouched ==
    ASSUME UNCHANGED runnerVars, NEW v PROVE Untouched(v)
    BY DEF runnerVars, process, disk, Untouched

\* A process that was stopped owes nothing.
LEMMA StoppedKeeps ==
    ASSUME NEW v, RunsOnItsFiles(v), pc'[v] = "dead",
           conf'[v] = conf[v], src'[v] = src[v], cconf' = cconf, qfile' = qfile
    PROVE  RunsOnItsFiles(v)'
    BY DEF RunsOnItsFiles, ManifestIsOwn, Running

\* A worker is launched on the question file of its directory, and its step
\* keeps what the collection relies on.
LEMMA WorkerStepSupervised ==
    ASSUME IInv, NEW w \in Workers, Worker(w), RunsOnItsFiles(w)
    PROVE  RunsOnItsFiles(w)'
<1>1. SessionStep(w) /\ cconf' = cconf /\ qfile' = qfile
    BY DEF Worker, coordinator, combined
<1>2. conf'[w] = conf[w] /\ src'[w] = src[w]
    BY <1>1 DEF SessionStep, RestoreFresh, RestoreCheckpoint, ResumeFrom,
                RestoreRefused, BuildRuntime, StopForBudget, AnswerQuestion,
                EndLoop, PublishManifest, RefreshZip, Finalize, Exit
<1>3. ManifestIsOwn(w)'
    BY <1>1, Parts, SessionStepOwnsManifest DEF RunsOnItsFiles
<1>4. pc'[w] = "done" => LeavesItsCheckpoint(w)'
    <2>1. CASE Finalize(w)
        BY <2>1, Parts, FinalizeLeaves DEF RunsOnItsFiles
    <2>2. CASE ~ Finalize(w)
        <3>1. pc'[w] # "done"
            BY <1>1, <2>2, Parts
            DEF SessionStep, RestoreFresh, RestoreCheckpoint, ResumeFrom,
                RestoreRefused, BuildRuntime, StopForBudget, AnswerQuestion,
                EndLoop, PublishManifest, RefreshZip, Exit, SessionTypeOK
        <3>2. QED
            BY <3>1
    <2>3. QED
        BY <2>1, <2>2
<1>5. QED
    BY <1>1, <1>2, <1>3, <1>4 DEF RunsOnItsFiles

\* Under the monitor, whatever happens to the workers.
LEMMA MonitorSupervised ==
    ASSUME IInv, SupervisionInv,
           \/ \E w \in Workers : Worker(w)
           \/ WorkerBuildFails \/ WorkerKilled \/ WorkerFailureSeen
    PROVE  SupervisionInv'
<1>1. /\ cconf' = cconf /\ qfile' = qfile
      /\ cpc' = cpc \/ (cpc' = "collect" /\ failed')
      /\ failed' = failed \/ cpc' = "collect"
    BY DEF Worker, WorkerBuildFails, WorkerKilled, WorkerFailureSeen, coordinator,
           combined, operatorVars
<1>2. cpc = "monitor"
    <2>1. CASE WorkerFailureSeen
        BY <2>1 DEF WorkerFailureSeen
    <2>2. CASE ~ WorkerFailureSeen
        <3>1. PICK w \in Workers : pc[w] \notin Idle
            BY <2>2 DEF Worker, WorkerBuildFails, WorkerKilled, BuildFails, Killed,
                SessionStep, RestoreFresh, RestoreCheckpoint, RestoreRefused,
                BuildRuntime, StopForBudget, AnswerQuestion, EndLoop,
                PublishManifest, RefreshZip, Finalize, Idle
        <3>2. QED
            BY <3>1, Parts DEF CoordinatorInv, Supervised, WorkersAtRest
    <2>3. QED
        BY <2>1, <2>2
<1>3. ~ failed /\ \A v \in Workers : RunsOnItsFiles(v)
    BY <1>2 DEF SupervisionInv, Session
<1>4. ASSUME NEW v \in Workers PROVE RunsOnItsFiles(v)'
    <2>1. CASE \E w \in Workers : Worker(w)
        <3>1. PICK w \in Workers : Worker(w)
            BY <2>1
        <3>2. CASE v = w
            BY <1>3, <3>1, <3>2, WorkerStepSupervised
        <3>3. CASE v # w
            <4>1. Untouched(v)
                BY <3>1, <3>3, Parts, SessionStepIsLocal DEF Worker, Untouched
            <4>2. QED
                BY <1>1, <1>3, <4>1, UntouchedKeeps
        <3>4. QED
            BY <3>2, <3>3
    <2>2. CASE WorkerBuildFails
        <3>1. PICK w \in Workers : Exit({w}, "dead") /\ UNCHANGED disk
            BY <2>2 DEF WorkerBuildFails, BuildFails
        <3>2. \/ pc'[v] = "dead" /\ conf'[v] = conf[v] /\ src'[v] = src[v]
              \/ Untouched(v)
            BY <3>1 DEF Exit, disk, Untouched
        <3>3. QED
            BY <1>1, <1>3, <3>2, UntouchedKeeps, StoppedKeeps
    <2>3. CASE WorkerKilled \/ WorkerFailureSeen
        <3>1. PICK S \in SUBSET Workers : Killed(S, "dead")
            BY <2>3 DEF WorkerKilled, WorkerFailureSeen
        <3>2. \/ pc'[v] = "dead" /\ conf'[v] = conf[v] /\ src'[v] = src[v]
              \/ Untouched(v)
            BY <3>1 DEF Killed, Exit, Untouched
        <3>3. QED
            BY <1>1, <1>3, <3>2, UntouchedKeeps, StoppedKeeps
    <2>4. QED
        BY <2>1, <2>2, <2>3
<1>5. QED
    BY <1>1, <1>2, <1>3, <1>4 DEF SupervisionInv

LEMMA SupervisionIsInductive ==
    IInv /\ SupervisionInv /\ [Next]_vars => SupervisionInv'
<1>. SUFFICES ASSUME IInv, SupervisionInv, [Next]_vars
              PROVE  SupervisionInv'
    OBVIOUS
<1>1. CASE \/ Start \/ ExtractMember \/ InitWorkerRunners \/ ValidateCheckpoint
           \/ ValidateRefused \/ CollectRaises \/ RefreshCombinedZip
           \/ CoordinatorKilled
    <2>1. /\ cpc' \in {"idle", "extract", "init", "validate", "launch"}
          /\ cpc' = "idle" \/ ~ failed'
        BY <1>1 DEF SupervisionInv, Start, ExtractMember, InitWorkerRunners,
                    ValidateCheckpoint, ValidateRefused, CollectRaises,
                    RefreshCombinedZip, CoordinatorKilled
    <2>2. QED
        BY <2>1, OutsideASession
<1>2. CASE NewMachine \/ Download \/ Package
    <2>1. cpc' = "idle"
        BY <1>2 DEF NewMachine, Download, Package, coordinator
    <2>2. QED
        BY <2>1, OutsideASession
<1>3. CASE LaunchWorkers
    <2>1. PICK b \in Budgets, n \in Caps :
            Launch(Workers, "restore", cconf, qfile, b, n)
        BY <1>3 DEF LaunchWorkers
    <2>2. /\ cpc = "launch" /\ cpc' = "monitor"
          /\ UNCHANGED <<cconf, failed, qfile>>
        BY <1>3 DEF LaunchWorkers, combined
    <2>3. \A w \in Workers : RunsOnItsFiles(w)'
        BY <2>1, <2>2 DEF Launch, RunsOnItsFiles, ManifestIsOwn, Running
    <2>4. QED
        BY <2>2, <2>3 DEF SupervisionInv
<1>4. CASE \/ \E w \in Workers : Worker(w)
           \/ WorkerBuildFails \/ WorkerKilled \/ WorkerFailureSeen
    BY <1>4, MonitorSupervised
<1>5. CASE WorkersFinished \/ CollectRecords
    <2>1. /\ cpc \in {"monitor", "collect"} /\ cpc' \in {"collect", "zip"}
          /\ UNCHANGED <<runnerVars, cconf, csrc, qfile, failed>>
        BY <1>5 DEF WorkersFinished, CollectRecords, combined
    <2>2. \A w \in Workers : RunsOnItsFiles(w)'
        BY <2>1, AllUntouched, UntouchedKeeps DEF SupervisionInv, Session
    <2>3. ~ failed' => \A w \in Workers : pc'[w] = "done"
        BY <1>5, <2>1 DEF SupervisionInv, WorkersFinished, CollectRecords,
                          runnerVars, process
    <2>4. cpc' = "zip" => Report'
        BY <1>5 DEF WorkersFinished, CollectRecords, Report, runnerVars, disk
    <2>5. QED
        BY <2>1, <2>2, <2>3, <2>4 DEF SupervisionInv
<1>6. CASE UNCHANGED vars
    <2>1. /\ UNCHANGED runnerVars
          /\ UNCHANGED <<cpc, cconf, csrc, qfile, failed, cman, cstatus>>
        BY <1>6 DEF vars, coordinator, combined
    <2>2. \A w \in Workers : RunsOnItsFiles(w) => RunsOnItsFiles(w)'
        BY <2>1, AllUntouched, UntouchedKeeps
    <2>3. pc' = pc /\ (Report => Report')
        BY <2>1 DEF Report, runnerVars, process, disk, Count, AllQids
    <2>4. QED
        BY <2>1, <2>2, <2>3 DEF SupervisionInv
<1>7. QED
    BY <1>1, <1>2, <1>3, <1>4, <1>5, <1>6 DEF Next, CoordinatorStep
--------------------------------------------------------------------------------
(* The exports *)

\* An export is packed by the coordinator only; the operator moves it.
LEMMA ExportsArePacked ==
    ASSUME [Next]_vars, ~ RefreshCombinedZip
    PROVE  {czip', archive', attached'} \subseteq {czip, archive, attached, NoFile}
<1>1. CASE Start \/ CoordinatorStep
    BY <1>1 DEF Start, CoordinatorStep, ExtractMember, InitWorkerRunners,
                ValidateCheckpoint, ValidateRefused, LaunchWorkers,
                WorkerFailureSeen, WorkersFinished, CollectRecords, CollectRaises,
                combined, operatorVars
<1>2. CASE \/ \E w \in Workers : Worker(w)
           \/ WorkerBuildFails \/ WorkerKilled \/ CoordinatorKilled
    BY <1>2 DEF Worker, WorkerBuildFails, WorkerKilled, CoordinatorKilled,
                combined, operatorVars
<1>3. CASE NewMachine \/ Download \/ Package \/ UNCHANGED vars
    BY <1>3 DEF NewMachine, Download, Package, vars, combined, operatorVars
<1>4. QED
    BY <1>1, <1>2, <1>3 DEF Next

\* What is packed without a failure: two directories whose workers ended
\* normally, each with its checkpoint or without an answer, and their count.
LEMMA CleanPacking ==
    ASSUME IInv, SupervisionInv, RefreshCombinedZip,
           czip'.status # "DUAL_GPU_WORKER_FAILURE_CHECKPOINT_READY"
    PROVE  /\ UNCHANGED <<archive, attached>>
           /\ czip'.man = [src |-> csrc, conf |-> cconf, count |-> Count(results),
                           qids |-> AllQids(results)]
           /\ czip'.results = results /\ czip'.manifest = manifest
           /\ czip'.qfile = qfile
           /\ czip'.status = "ALL_QUESTIONS_COMPLETED"
                => Count(results) = Len(Questions)
           /\ \A w \in Workers :
                /\ pc[w] = "done"
                /\ \/ results[w] \in {NoFile, <<>>} /\ manifest[w] = NoFile
                   \/ Restorable(w, results[w], manifest[w], cconf, qfile[w])
<1>1. /\ cpc = "zip"
      /\ czip' = [man |-> cman, status |-> cstatus, qfile |-> qfile,
                  results |-> results, manifest |-> manifest]
      /\ UNCHANGED <<archive, attached>>
    BY DEF RefreshCombinedZip, operatorVars
<1>2. Report /\ ~ failed
    BY <1>1 DEF SupervisionInv, Report
<1>3. \A w \in Workers : pc[w] = "done" /\ RunsOnItsFiles(w)
    BY <1>1, <1>2 DEF SupervisionInv, Session
<1>4. ASSUME NEW w \in Workers
      PROVE  \/ results[w] \in {NoFile, <<>>} /\ manifest[w] = NoFile
             \/ Restorable(w, results[w], manifest[w], cconf, qfile[w])
    BY <1>3 DEF RunsOnItsFiles, LeavesItsCheckpoint
<1>5. czip'.status = cstatus
    BY <1>1
<1>6. czip'.status = "ALL_QUESTIONS_COMPLETED" => Count(results) = Len(Questions)
    BY <1>2, <1>5 DEF Report
<1>7. czip'.man = [src |-> csrc, conf |-> cconf, count |-> Count(results),
                   qids |-> AllQids(results)]
    BY <1>1, <1>2 DEF Report
<1>8. QED
    BY <1>1, <1>3, <1>4, <1>6, <1>7

\* canonical_index_mod_2_v1 splits the list into two that add up to it.
LEMMA PartitionsAddUp ==
    /\ Total(0) \in Nat /\ Total(1) \in Nat
    /\ Total(0) + Total(1) = Len(Questions)
    /\ Len(Questions) >= 2 => Total(0) >= 1 /\ Total(1) >= 1
<1>. DEFINE n == Len(Questions)
<1>1. n \in Nat
    BY DualAssumption
<1>2. Total(0) = Len(Partition(0)) /\ Total(1) = Len(Partition(1))
    BY TwoWorkers, DualAssumption DEF Total
<1>3. (n + 1 - 0) \div 2 \in Nat /\ (n + 1 - 1) \div 2 \in Nat
    BY <1>1
<1>4. Total(0) = (n + 1 - 0) \div 2 /\ Total(1) = (n + 1 - 1) \div 2
    BY <1>2, <1>3 DEF Partition
<1>. HIDE DEF n
<1>5. /\ Total(0) + Total(1) = n
      /\ n >= 2 => Total(0) >= 1 /\ Total(1) >= 1
    BY <1>1, <1>4
<1>6. QED
    BY <1>3, <1>4, <1>5 DEF n

\* A directory without an answer, or with a checkpoint, holds no more answers
\* than its list; with as many as that, and a list, it holds a checkpoint.
LEMMA DirectoryCount ==
    ASSUME SessionTypeOK, NEW w \in Workers, NEW c, NEW s,
           \/ results[w] \in {NoFile, <<>>} /\ manifest[w] = NoFile
           \/ Restorable(w, results[w], manifest[w], c, s)
    PROVE  /\ Len(RecordsIn(results[w])) \in Nat
           /\ Len(RecordsIn(results[w])) <= Total(w)
           /\ Len(RecordsIn(results[w])) = Total(w) /\ Total(w) >= 1
                => /\ Restorable(w, results[w], manifest[w], c, s)
                   /\ QidsIn(RecordsIn(results[w])) = QidSet(w)
<1>1. Total(w) \in Nat
    BY QuestionListAssumption DEF Total
<1>2. CASE results[w] \in {NoFile, <<>>} /\ manifest[w] = NoFile
    <2>1. RecordsIn(results[w]) = <<>>
        BY <1>2 DEF RecordsIn
    <2>2. QED
        BY <1>1, <1>2, <2>1
<1>3. CASE Restorable(w, results[w], manifest[w], c, s)
    <2>1. /\ results[w] \in Seq(Line) /\ WellFormed(w, results[w])
          /\ RecordsIn(results[w]) = results[w]
        BY <1>3 DEF Restorable, SessionTypeOK, FileOrNone, RecordsIn
    <2>2. QED
        BY <1>1, <1>3, <2>1, RecordsFitTheList
<1>4. QED
    BY <1>2, <1>3

LEMMA CompletionIsInductive ==
    ASSUME Len(Questions) >= 2
    PROVE  IInv /\ SupervisionInv /\ CompletionIsReal /\ [Next]_vars
             => CompletionIsReal'
<1>. SUFFICES ASSUME IInv, SupervisionInv, CompletionIsReal, [Next]_vars
              PROVE  CompletionIsReal'
    OBVIOUS
<1>1. CASE ~ RefreshCombinedZip
    <2>1. {czip', archive', attached'} \ {NoFile}
            \subseteq {czip, archive, attached} \ {NoFile}
        BY <1>1, ExportsArePacked
    <2>2. QED
        BY <2>1 DEF CompletionIsReal
<1>2. CASE RefreshCombinedZip
    <2>1. ASSUME czip'.status = "ALL_QUESTIONS_COMPLETED"
          PROVE  /\ \A w \in Workers :
                      Restorable(w, czip'.results[w], czip'.manifest[w],
                                 czip'.man.conf, czip'.qfile[w])
                 /\ AllQids(czip'.results) = Qids
                 /\ Count(czip'.results) = Len(Questions)
        <3>1. /\ czip'.results = results /\ czip'.manifest = manifest
              /\ czip'.qfile = qfile /\ czip'.man.conf = cconf
              /\ Count(results) = Len(Questions)
              /\ \A w \in Workers :
                   \/ results[w] \in {NoFile, <<>>} /\ manifest[w] = NoFile
                   \/ Restorable(w, results[w], manifest[w], cconf, qfile[w])
            BY <1>2, <2>1, CleanPacking
        <3>2. \A w \in Workers :
                /\ Len(RecordsIn(results[w])) \in Nat
                /\ Len(RecordsIn(results[w])) <= Total(w)
                /\ Len(RecordsIn(results[w])) = Total(w) /\ Total(w) >= 1
                     => /\ Restorable(w, results[w], manifest[w], cconf, qfile[w])
                        /\ QidsIn(RecordsIn(results[w])) = QidSet(w)
            BY <3>1, Parts, DirectoryCount
        <3>3. Len(RecordsIn(results[0])) + Len(RecordsIn(results[1]))
                = Total(0) + Total(1)
            BY <3>1, PartitionsAddUp DEF Count
        <3>4. \A w \in Workers : Len(RecordsIn(results[w])) = Total(w)
                                 /\ Total(w) >= 1
            BY <3>2, <3>3, TwoWorkers, PartitionsAddUp
        <3>5. \A w \in Workers :
                /\ Restorable(w, results[w], manifest[w], cconf, qfile[w])
                /\ QidsIn(RecordsIn(results[w])) = QidSet(w)
            BY <3>2, <3>4
        <3>6. AllQids(results) = Qids
            BY <3>5, TwoWorkers DEF AllQids, Qids
        <3>7. QED
            BY <3>1, <3>5, <3>6
    <2>2. UNCHANGED <<archive, attached>>
        BY <1>2 DEF RefreshCombinedZip, operatorVars
    <2>3. QED
        BY <2>1, <2>2 DEF CompletionIsReal
<1>3. QED
    BY <1>1, <1>2

\* The two counts are added up and compared with the length of the list.  That
\* decides completion because no worker can hold more than its own part: both
\* parts are then full, and a full part is a checkpoint of its worker's run.  A
\* list of one question leaves worker 1 an empty part and no checkpoint to
\* restore; the public list has a thousand.
THEOREM DualCompletionIsReal ==
    ASSUME Len(Questions) >= 2
    PROVE  Spec => []CompletionIsReal
<1>1. Init => SupervisionInv
    BY DEF Init, SupervisionInv, Session
<1>2. Init => CompletionIsReal
    BY DEF Init, CompletionIsReal
<1>3. QED
    BY <1>1, <1>2, InitEstablishes, StepPreserves, SupervisionIsInductive,
       CompletionIsInductive, PTL DEF Spec

--------------------------------------------------------------------------------
(* Resuming from the export of a session without a failure *)

\* No worker that opened its results file ends before it answers.
OpenedInv ==
    \A w \in Workers :
        /\ OpenedIsAnswered(w)
        /\ cpc \in Session /\ pc[w] = "done" => ~ Bare(results[w], manifest[w])

\* A worker at rest has an ample budget and nothing else to show.
LEMMA RestIsAnswered ==
    ASSUME NEW w, budget'[w] = "ample", pc'[w] \in Idle \cup {"restore"}
    PROVE  OpenedIsAnswered(w)'
    BY DEF OpenedIsAnswered, Idle

LEMMA OpenedIsInductive ==
    ASSUME "short" \notin Budgets
    PROVE  IInv /\ OpenedInv /\ [Next]_vars => OpenedInv'
<1>. SUFFICES ASSUME IInv, OpenedInv, [Next]_vars
              PROVE  OpenedInv'
    OBVIOUS
<1>1. CASE Start \/ NewMachine \/ Download \/ Package \/ ExtractMember
           \/ InitWorkerRunners \/ ValidateCheckpoint \/ ValidateRefused
           \/ CollectRaises \/ RefreshCombinedZip
    <2>1. /\ cpc # "monitor" /\ cpc' \notin Session
          /\ UNCHANGED <<pc, budget>>
        BY <1>1 DEF Start, NewMachine, Download, Package, ExtractMember,
                    InitWorkerRunners, ValidateCheckpoint, ValidateRefused,
                    CollectRaises, RefreshCombinedZip, Session, coordinator,
                    runnerVars, process
    <2>2. \A w \in Workers : pc[w] \in Idle /\ budget[w] = "ample"
        BY <2>1, Parts DEF CoordinatorInv, Supervised, WorkersAtRest, OpenedInv,
                           OpenedIsAnswered
    <2>3. QED
        BY <2>1, <2>2, RestIsAnswered DEF OpenedInv
<1>2. CASE LaunchWorkers
    <2>1. PICK b \in Budgets, n \in Caps :
            Launch(Workers, "restore", cconf, qfile, b, n)
        BY <1>2 DEF LaunchWorkers
    <2>2. b = "ample"
        BY SessionParametersAssumption
    <2>3. \A w \in Workers : pc'[w] = "restore" /\ budget'[w] = "ample"
        BY <2>1, <2>2 DEF Launch
    <2>4. QED
        BY <2>3, RestIsAnswered DEF OpenedInv
<1>3. CASE \E w \in Workers : Worker(w)
    <2>1. PICK w \in Workers : Worker(w)
        BY <1>3
    <2>2. SessionStep(w) /\ UNCHANGED <<cpc, cconf, qfile>>
        BY <2>1 DEF Worker, coordinator, combined
    <2>3. ASSUME NEW v \in Workers
          PROVE  /\ OpenedIsAnswered(v)'
                 /\ cpc' \in Session /\ pc'[v] = "done"
                      => ~ Bare(results'[v], manifest'[v])
        <3>1. CASE v = w
            BY <2>2, <3>1, Parts, SessionStepAnswers DEF OpenedInv
        <3>2. CASE v # w
            <4>1. Untouched(v)
                BY <2>2, <3>2, Parts, SessionStepIsLocal DEF Untouched
            <4>2. QED
                BY <2>2, <4>1, UntouchedKeeps DEF OpenedInv, Untouched
        <3>3. QED
            BY <3>1, <3>2
    <2>4. QED
        BY <2>3 DEF OpenedInv
<1>4. CASE \/ WorkerBuildFails \/ WorkerKilled \/ WorkerFailureSeen
           \/ CoordinatorKilled
    <2>1. PICK S \in SUBSET Workers :
            /\ Exit(S, "dead")
            /\ \A v \in Workers \ S : results'[v] = results[v]
            /\ UNCHANGED manifest
        <3>1. CASE WorkerBuildFails
            BY <3>1 DEF WorkerBuildFails, BuildFails, disk
        <3>2. CASE WorkerKilled \/ WorkerFailureSeen \/ CoordinatorKilled
            <4>1. PICK S \in SUBSET Workers : Killed(S, "dead")
                BY <3>2 DEF WorkerKilled, WorkerFailureSeen, CoordinatorKilled
            <4>2. QED
                BY <4>1 DEF Killed
        <3>3. QED
            BY <1>4, <3>1, <3>2
    <2>2. /\ cconf' = cconf /\ qfile' = qfile
          /\ cpc' \in Session => cpc \in Session
        BY <1>4 DEF WorkerBuildFails, WorkerKilled, WorkerFailureSeen,
                    CoordinatorKilled, coordinator, combined, Session
    <2>3. ASSUME NEW v \in Workers
          PROVE  /\ OpenedIsAnswered(v)'
                 /\ cpc' \in Session /\ pc'[v] = "done"
                      => ~ Bare(results'[v], manifest'[v])
        <3>1. CASE v \in S
            <4>1. pc'[v] = "dead" /\ budget'[v] = "ample"
                BY <2>1, <3>1 DEF Exit
            <4>2. QED
                BY <4>1, RestIsAnswered DEF Idle
        <3>2. CASE v \notin S
            <4>1. Untouched(v)
                BY <2>1, <3>2 DEF Exit, Untouched
            <4>2. QED
                BY <2>2, <4>1, UntouchedKeeps DEF OpenedInv, Untouched
        <3>3. QED
            BY <3>1, <3>2
    <2>4. QED
        BY <2>3 DEF OpenedInv
<1>5. CASE WorkersFinished \/ CollectRecords \/ UNCHANGED vars
    <2>1. /\ UNCHANGED runnerVars
          /\ cpc' \in Session => cpc \in Session
        BY <1>5 DEF WorkersFinished, CollectRecords, vars, coordinator, Session
    <2>2. cconf' = cconf /\ qfile' = qfile
        BY <1>5 DEF WorkersFinished, CollectRecords, vars, coordinator, combined
    <2>3. QED
        BY <2>1, <2>2, AllUntouched, UntouchedKeeps DEF OpenedInv, Untouched
<1>6. QED
    BY <1>1, <1>2, <1>3, <1>4, <1>5 DEF Next, CoordinatorStep

LEMMA CleanExportIsInductive ==
    IInv /\ SupervisionInv /\ OpenedInv /\ CleanExportsAreResumable /\ [Next]_vars
      => CleanExportsAreResumable'
<1>. SUFFICES ASSUME IInv, SupervisionInv, OpenedInv, CleanExportsAreResumable,
                     [Next]_vars
              PROVE  CleanExportsAreResumable'
    OBVIOUS
<1>1. CASE ~ RefreshCombinedZip
    <2>1. {czip', archive', attached'} \ {NoFile}
            \subseteq {czip, archive, attached} \ {NoFile}
        BY <1>1, ExportsArePacked
    <2>2. QED
        BY <2>1 DEF CleanExportsAreResumable
<1>2. CASE RefreshCombinedZip
    <2>1. ASSUME czip' # NoFile,
                 czip'.status # "DUAL_GPU_WORKER_FAILURE_CHECKPOINT_READY"
          PROVE  CombinedRestorable(czip'.man, czip'.results, czip'.manifest,
                                    czip'.qfile, czip'.man.conf, czip'.man.src)
        <3>0. czip'.man \in CombinedManifest
            BY <1>2, Parts DEF RefreshCombinedZip, CoordinatorInv
        <3>1. /\ czip'.results = results /\ czip'.manifest = manifest
              /\ czip'.qfile = qfile /\ czip'.man.conf = cconf
              /\ czip'.man.count = Count(results)
              /\ czip'.man.qids = AllQids(results)
              /\ \A w \in Workers :
                   /\ pc[w] = "done"
                   /\ \/ results[w] \in {NoFile, <<>>} /\ manifest[w] = NoFile
                      \/ Restorable(w, results[w], manifest[w], cconf, qfile[w])
            BY <1>2, <2>1, CleanPacking
        <3>2. \A w \in Workers : ~ Bare(results[w], manifest[w])
            BY <1>2, <3>1 DEF OpenedInv, RefreshCombinedZip, Session
        <3>3. \A w \in Workers :
                WorkerAccepts(w, results[w], manifest[w], cconf, qfile[w])
            BY <3>1, <3>2 DEF WorkerAccepts, Fresh, Bare
        <3>4. czip'.man # NoFile
            BY <3>0, CombinedMarkerAssumption
        <3>5. QED
            BY <3>1, <3>3, <3>4 DEF CombinedRestorable
    <2>2. UNCHANGED <<archive, attached>>
        BY <1>2 DEF RefreshCombinedZip, operatorVars
    <2>3. QED
        BY <2>1, <2>2 DEF CleanExportsAreResumable
<1>3. QED
    BY <1>1, <1>2

\* A session whose workers both exited normally leaves an export the next one
\* resumes from, with the configuration and the question file of every worker,
\* unless a budget below the safety margin lets a worker end after it created
\* its results file and before it answered.
THEOREM CleanExportsCanBeResumed ==
    ASSUME "short" \notin Budgets
    PROVE  Spec => []CleanExportsAreResumable
<1>1. Init => SupervisionInv
    BY DEF Init, SupervisionInv, Session
<1>2. Init => OpenedInv
    BY ZenonT(40) DEF Init, SessionInit, OpenedInv, OpenedIsAnswered, Session
<1>3. Init => CleanExportsAreResumable
    BY DEF Init, CleanExportsAreResumable
<1>4. QED
    BY <1>1, <1>2, <1>3, InitEstablishes, StepPreserves, SupervisionIsInductive,
       OpenedIsInductive, CleanExportIsInductive, PTL DEF Spec
================================================================================
