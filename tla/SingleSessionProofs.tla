-------------------------- MODULE SingleSessionProofs --------------------------
(***************************************************************************)
(* What SingleSession guarantees for every question list, every set of      *)
(* configurations and sources, any budget and any number of failures.  The  *)
(* invariant: the directory invariant of the worker, and sound archives;    *)
(* extraction can mix the two files of different archives in the directory, *)
(* but only a manifest that is coherent by itself ever gets there, and      *)
(* restore accepts only results with its digest.                            *)
(***************************************************************************)
EXTENDS SingleSession, SessionRunnerProofs

IInv ==
    /\ TypeOK
    /\ DirectoryInv(Solo)
    /\ attached # NoFile => SoundExport(Solo, attached)
    /\ archive # NoFile => SoundExport(Solo, archive)
    /\ SubmissionIsExact

LEMMA SoloIsTheWorker == Solo \in Workers /\ Qids = QidSet(Solo)
    BY SoloAssumption DEF Qids

\* The first machine is empty.
LEMMA InitEstablishes == Init => IInv
<1>. SUFFICES ASSUME Init PROVE IInv
    OBVIOUS
<1>. USE DEF Init, SessionInit
<1>1. <<>> \in Seq(Record)
    OBVIOUS
<1>2. TypeOK
    BY <1>1 DEF TypeOK, SessionTypeOK, Pcs, Statuses, FileOrNone,
                ManifestOrNone, ExportOrNone
<1>3. DirectoryInv(Solo)
    BY SoloIsTheWorker DEF DirectoryInv, FileIsMemory, RecordsOfOneRun,
       ExtendsBase, ManifestIsCurrent, Running
<1>4. QED
    BY <1>2, <1>3 DEF IInv, SubmissionIsExact

\* The packaging cell: a restorable directory with every question of the list
\* gives one answer of the packaging run to each.
LEMMA PackageIsExact ==
    ASSUME IInv, Package
    PROVE  /\ submission' \in Submission
           /\ SubmissionIsExact'
<1>. DEFINE r == results[Solo]
            answers == [q \in Qids |-> r[CHOOSE i \in DOMAIN r : r[i].qid = q]]
<1>1. PICK c \in Configs, s \in Sources :
        /\ Restorable(Solo, r, manifest[Solo], c, s)
        /\ QidsIn(r) = QidSet(Solo)
        /\ submission' = [answers |-> answers, conf |-> c, src |-> s]
    BY DEF Package
<1>2. /\ r \in Seq(Line)
      /\ WellFormed(Solo, r)
      /\ manifest[Solo].sha = r
      /\ CoherentManifest(Solo, manifest[Solo])
      /\ manifest[Solo].conf = c /\ manifest[Solo].src = s
    BY <1>1, SoloIsTheWorker DEF Restorable, IInv, TypeOK, SessionTypeOK,
                                 FileOrNone, DirectoryInv
<1>3. \A i \in DOMAIN r : /\ r[i] \in Record
                          /\ r[i].conf = c /\ r[i].src = s
    <2>1. r \in Seq(Record)
        BY <1>2, WellFormedIsRecords
    <2>2. QED
        BY <1>2, <2>1 DEF CoherentManifest
<1>. HIDE DEF r
<1>4. ASSUME NEW q \in Qids
      PROVE  /\ answers[q] \in Record
             /\ answers[q].qid = q /\ answers[q].conf = c /\ answers[q].src = s
    <2>1. \E i \in DOMAIN r : r[i].qid = q
        BY <1>1, SoloIsTheWorker DEF QidsIn
    <2>. DEFINE j == CHOOSE i \in DOMAIN r : r[i].qid = q
    <2>2. j \in DOMAIN r /\ r[j].qid = q
        BY <2>1
    <2>3. answers[q] = r[j]
        OBVIOUS
    <2>. HIDE DEF j, answers
    <2>4. QED
        BY <1>3, <2>2, <2>3
<1>5. answers \in [Qids -> Record]
    BY <1>4
<1>. HIDE DEF answers
<1>6. submission' \in Submission
    BY <1>1, <1>5 DEF Submission
<1>7. SubmissionIsExact'
    BY <1>1, <1>4 DEF SubmissionIsExact
<1>8. QED
    BY <1>6, <1>7
--------------------------------------------------------------------------------
\* One case per action of Next.
LEMMA StepPreserves == IInv /\ [Next]_vars => IInv'
<1>. SUFFICES ASSUME IInv, [Next]_vars PROVE IInv'
    OBVIOUS
<1>. USE SoloIsTheWorker
<1>0. /\ TypeOK /\ SessionTypeOK /\ DirectoryInv(Solo) /\ FileIsMemory(Solo)
      /\ SubmissionIsExact
    BY DEF IInv, TypeOK, DirectoryInv
\* Steps that leave the archives and the submission alone have only the
\* directory to show.
<1>1. ASSUME UNCHANGED <<attached, archive, submission>>,
             failures' \in Nat, cuts' \in Nat,
             SessionTypeOK', DirectoryInv(Solo)'
      PROVE  IInv'
    BY <1>0, <1>1 DEF IInv, TypeOK, SoundExport, CoherentManifest, WellFormed,
                      SubmissionIsExact
<1>2. failures' \in Nat /\ cuts' \in Nat
    BY <1>0 DEF TypeOK, Next, StartSession, Extract, Step, FailedBuild, Kill,
                LoseMachine, NewMachine, Download, Package, FreshMachine, Fail,
                operatorVars, vars
<1>3. CASE StartSession
    <2>. DEFINE at == IF attached = NoFile THEN "restore" ELSE "extractResults"
    <2>1. PICK c \in Configs, s \in Sources, b \in Budgets, n \in Caps :
            Launch({Solo}, at, c, [w \in Workers |-> s], b, n)
        BY <1>3 DEF StartSession
    <2>2. at \in Pcs \ Running
        BY DEF Pcs, Running
    <2>. HIDE DEF at
    <2>3. SessionTypeOK' /\ DirectoryInv(Solo)'
        BY <1>0, <2>1, <2>2, LaunchKeeps
    <2>4. QED
        BY <1>1, <1>2, <1>3, <2>3 DEF StartSession, operatorVars
<1>4. CASE Extract
    <2>1. attached \in Export /\ SoundExport(Solo, attached)
        BY <1>4 DEF Extract, IInv, TypeOK, ExportOrNone
    <2>2. SessionTypeOK' /\ DirectoryInv(Solo)'
        BY <1>0, <1>4, <2>1, ExtractKeeps DEF Extract
    <2>3. QED
        BY <1>1, <1>2, <1>4, <2>2 DEF Extract, operatorVars
<1>5. CASE Step
    <2>1. SessionStep(Solo) /\ UNCHANGED operatorVars
        BY <1>5 DEF Step
    <2>2. SessionTypeOK'
        BY <1>0, <2>1, SessionStepTypes
    <2>3. DirectoryInv(Solo)'
        BY <1>0, <2>1, SessionStepKeepsDirectory
    <2>4. QED
        BY <1>1, <1>2, <2>1, <2>2, <2>3 DEF operatorVars
<1>6. CASE FailedBuild
    BY <1>0, <1>1, <1>2, <1>6, BuildFailsKeeps DEF FailedBuild
<1>7. CASE Kill
    <2>1. \A w \in Workers : FileIsMemory(w)
        BY <1>0, SoloAssumption
    <2>2. SessionTypeOK' /\ DirectoryInv(Solo)'
        BY <1>0, <1>7, <2>1, KilledKeeps DEF Kill, Pcs, Running
    <2>3. QED
        BY <1>1, <1>2, <1>7, <2>2 DEF Kill
\* The disk of a new machine is empty and what is attached to it was sound in
\* the hands of the operator.
<1>8. CASE LoseMachine \/ NewMachine
    <2>1. FreshMachine /\ pc' = [pc EXCEPT ![Solo] = "off"]
        <3>1. ASSUME Exit({Solo}, "off") PROVE pc' = [pc EXCEPT ![Solo] = "off"]
            BY <1>0, <3>1 DEF Exit, SessionTypeOK
        <3>2. QED
            BY <1>8, <3>1 DEF LoseMachine, NewMachine
    <2>2. /\ records' \in [Workers -> Seq(Record)]
          /\ base' \in [Workers -> Seq(Record)]
          /\ quota' \in [Workers -> Nat]
          /\ budget' \in [Workers -> {"ample", "short"}]
          /\ conf' \in [Workers -> Configs]
          /\ src' \in [Workers -> Sources]
          /\ UNCHANGED status
        BY <1>0, <1>8, ExitTypes DEF LoseMachine, NewMachine, SessionTypeOK, Pcs
    <2>3. SessionTypeOK'
        BY <1>0, <2>1, <2>2 DEF FreshMachine, SessionTypeOK, Pcs, FileOrNone,
                                ManifestOrNone, ExportOrNone
    <2>4. /\ pc'[Solo] \notin Running
          /\ manifest'[Solo] = NoFile /\ latestZip'[Solo] = NoFile
        BY <1>0, <2>1 DEF FreshMachine, SessionTypeOK, Running
    <2>5. DirectoryInv(Solo)'
        BY <2>4, DirectoryAtRest
    <2>6. QED
        BY <1>0, <1>2, <2>1, <2>3, <2>5
        DEF FreshMachine, IInv, TypeOK, SoundExport, CoherentManifest,
            WellFormed, SubmissionIsExact
<1>9. CASE Download
    <2>1. /\ UNCHANGED <<runnerVars, attached, submission>>
          /\ archive' = latestZip[Solo] /\ latestZip[Solo] # NoFile
        BY <1>9 DEF Download
    <2>2. archive' \in ExportOrNone /\ SoundExport(Solo, archive')
        BY <1>0, <2>1 DEF SessionTypeOK, DirectoryInv
    <2>3. SessionTypeOK' /\ DirectoryInv(Solo)'
        BY <1>0, <2>1, DirectoryFrame
        DEF runnerVars, process, disk, SessionTypeOK
    <2>4. QED
        BY <1>0, <1>2, <2>1, <2>2, <2>3
        DEF IInv, TypeOK, SoundExport, CoherentManifest, WellFormed,
            SubmissionIsExact
<1>10. CASE Package
    <2>1. UNCHANGED <<runnerVars, attached, archive>>
        BY <1>10 DEF Package
    <2>2. submission' \in Submission /\ SubmissionIsExact'
        BY <1>10, PackageIsExact
    <2>3. SessionTypeOK' /\ DirectoryInv(Solo)'
        BY <1>0, <2>1, DirectoryFrame
        DEF runnerVars, process, disk, SessionTypeOK
    <2>4. QED
        BY <1>2, <2>1, <2>2, <2>3
        DEF IInv, TypeOK, SoundExport, CoherentManifest, WellFormed
<1>11. CASE UNCHANGED vars
    <2>1. SessionTypeOK' /\ DirectoryInv(Solo)'
        BY <1>0, <1>11, DirectoryFrame
        DEF vars, runnerVars, process, disk, SessionTypeOK
    <2>2. QED
        BY <1>1, <1>2, <1>11, <2>1 DEF vars, operatorVars
<1>12. QED
    BY <1>3, <1>4, <1>5, <1>6, <1>7, <1>8, <1>9, <1>10, <1>11 DEF Next

LEMMA Invariance == Spec => []IInv
<1>1. Init => IInv
    BY InitEstablishes
<1>2. IInv /\ [Next]_vars => IInv'
    BY StepPreserves
<1>3. QED
    BY <1>1, <1>2, PTL DEF Spec

\* The variables of the process, the directory and the operator keep their
\* types: in particular no count of pending items goes below zero and no
\* manifest digests a missing file.
THEOREM TypeCorrect == Spec => []TypeOK
<1>1. IInv => TypeOK
    BY DEF IInv
<1>2. QED
    BY <1>1, Invariance, PTL

\* run_session appends only to the file it restored: what it holds in memory
\* is on the disk, after any sequence of kills, lost machines and extractions.
THEOREM OwnsItsFile == Spec => []SessionOwnsItsFile
<1>1. IInv => SessionOwnsItsFile
    BY DEF IInv, DirectoryInv, SessionOwnsItsFile
<1>2. QED
    BY <1>1, Invariance, PTL

\* Zero reruns: no session answers a question twice or drops a record.
THEOREM ExtendsItsBase == Spec => []SessionExtendsBase
<1>1. IInv => SessionExtendsBase
    BY DEF IInv, DirectoryInv, SessionExtendsBase
<1>2. QED
    BY <1>1, Invariance, PTL

\* _refresh_checkpoint_zip never exports answers without a manifest that
\* describes them, so no export loses one.
THEOREM SoundExports == Spec => []ExportsAreSound
<1>1. IInv => ExportsAreSound
    BY DEF IInv, DirectoryInv, ExportsAreSound
<1>2. QED
    BY <1>1, Invariance, PTL

\* package_final_submission writes one answer per question, all of the
\* packaging configuration and source.
THEOREM ExactSubmission == Spec => []SubmissionIsExact
<1>1. IInv => SubmissionIsExact
    BY DEF IInv
<1>2. QED
    BY <1>1, Invariance, PTL
--------------------------------------------------------------------------------
(* What an export lacks, and what the reported status rests on *)

\* What is exported is not at risk.
LEMMA ExportedIsSafe ==
    ASSUME NEW Z, NEW z \in Z, NEW k \in Nat, NEW r \in Seq(Line), z.results = r
    PROVE  AllButIn(Z, r, k)
<1>1. Len(r) \in 0 .. Len(r) /\ Len(r) <= Len(r) + k
    OBVIOUS
<1>2. SubSeq(r, 1, Len(r)) = r
    OBVIOUS
<1>3. QED
    BY <1>1, <1>2 DEF AllButIn

\* An answer more puts one record more at risk.
LEMMA AppendedIsAtRisk ==
    ASSUME NEW Z, NEW k \in Nat, NEW r \in Seq(Line), NEW rec \in Line,
           AllButIn(Z, r, k)
    PROVE  AllButIn(Z, Append(r, rec), k + 1)
<1>1. PICK n \in 0 .. Len(r) :
        Len(r) <= n + k /\ (n = 0 \/ \E z \in Z : z.results = SubSeq(r, 1, n))
    BY DEF AllButIn
<1>2. SubSeq(Append(r, rec), 1, n) = SubSeq(r, 1, n)
    OBVIOUS
<1>3. /\ n \in 0 .. Len(Append(r, rec))
      /\ Len(Append(r, rec)) <= n + (k + 1)
    BY <1>1
<1>4. QED
    BY <1>1, <1>2, <1>3 DEF AllButIn

\* What a restore can find counts: the records of the manifest are in the
\* machine's archives as far as those of a session that resumed from it.
RiskInv ==
    /\ OneAnswerAtRiskPerKill
    /\ manifest[Solo] # NoFile =>
         AllButIn(ArchivesHere, manifest[Solo].sha,
                  cuts + IF pc[Solo] = "zip" THEN 1 ELSE 0)

\* No step of a session that publishes no export brings more at risk than it
\* counts.
LEMMA StepKeepsRisk ==
    ASSUME IInv, RiskInv, Step
    PROVE  RiskInv'
<1>. USE SoloIsTheWorker
<1>0. /\ SessionTypeOK /\ DirectoryInv(Solo) /\ cuts \in Nat
      /\ SessionStep(Solo) /\ attached' = attached
      /\ cuts' = IF pc[Solo] \in {"zip", "finalize"} THEN 0 ELSE cuts
    BY DEF IInv, TypeOK, Step, operatorVars
<1>1. CASE RestoreFresh(Solo)
    <2>1. /\ records'[Solo] = <<>> /\ pc'[Solo] \in {"build", "finalize"}
          /\ manifest'[Solo] = NoFile
        BY <1>0, <1>1 DEF RestoreFresh, Fresh, ResumeFrom, SessionTypeOK, disk
    <2>2. ASSUME NEW Z, NEW k \in Nat PROVE AllButIn(Z, <<>>, k)
        BY DEF AllButIn
    <2>3. cuts' \in Nat
        BY <1>0
    <2>4. QED
        BY <2>1, <2>2, <2>3 DEF RiskInv, OneAnswerAtRiskPerKill, BeingPublished
\* A restored file is the one the manifest digests.
<1>2. CASE RestoreCheckpoint(Solo)
    <2>1. /\ records'[Solo] = manifest[Solo].sha /\ manifest[Solo] # NoFile
          /\ pc[Solo] = "restore" /\ pc'[Solo] \in {"build", "finalize"}
          /\ UNCHANGED <<manifest, latestZip>>
        BY <1>0, <1>2
        DEF RestoreCheckpoint, Restorable, ResumeFrom, SessionTypeOK, disk
    <2>2. ArchivesHere' = ArchivesHere /\ cuts' = cuts
        BY <1>0, <2>1 DEF ArchivesHere
    <2>3. AllButIn(ArchivesHere, manifest[Solo].sha, cuts + 0)
        BY <2>1 DEF RiskInv
    <2>4. QED
        BY <2>1, <2>2, <2>3 DEF RiskInv, OneAnswerAtRiskPerKill, BeingPublished
<1>3. CASE RestoreRefused(Solo)
    <2>1. /\ pc[Solo] = "restore" /\ pc'[Solo] = "dead"
          /\ UNCHANGED <<manifest, latestZip>>
        BY <1>0, <1>3 DEF RestoreRefused, Exit, disk
    <2>2. ArchivesHere' = ArchivesHere /\ cuts' = cuts
        BY <1>0, <2>1 DEF ArchivesHere
    <2>3. QED
        BY <2>1, <2>2 DEF RiskInv, OneAnswerAtRiskPerKill, Running
<1>4. CASE BuildRuntime(Solo) \/ StopForBudget(Solo) \/ EndLoop(Solo)
    <2>1. /\ pc[Solo] \in {"build", "loop"} /\ pc'[Solo] \in {"loop", "finalize"}
          /\ UNCHANGED <<records, manifest, latestZip>>
        BY <1>0, <1>4 DEF BuildRuntime, StopForBudget, EndLoop, SessionTypeOK, disk
    <2>2. ArchivesHere' = ArchivesHere /\ cuts' = cuts
        BY <1>0, <2>1 DEF ArchivesHere
    <2>3. QED
        BY <2>1, <2>2 DEF RiskInv, OneAnswerAtRiskPerKill, BeingPublished, Running
<1>5. CASE AnswerQuestion(Solo)
    <2>1. PICK rec \in Record : records'[Solo] = Append(records[Solo], rec)
        BY <1>0, <1>5, AnswerAppends
    <2>2. /\ pc[Solo] = "loop" /\ pc'[Solo] = "manifest"
          /\ UNCHANGED <<manifest, latestZip>>
        BY <1>0, <1>5, AnswerAppends
    <2>3. ArchivesHere' = ArchivesHere /\ cuts' = cuts
        BY <1>0, <2>2 DEF ArchivesHere
    <2>4. AllButIn(ArchivesHere, records[Solo], cuts)
        BY <1>0, <2>2 DEF RiskInv, OneAnswerAtRiskPerKill, BeingPublished, Running
    <2>5. records[Solo] \in Seq(Line) /\ rec \in Line
        BY <1>0 DEF SessionTypeOK, Line
    <2>6. AllButIn(ArchivesHere, records'[Solo], cuts + 1)
        BY <1>0, <2>1, <2>4, <2>5, AppendedIsAtRisk
    <2>7. QED
        BY <2>2, <2>3, <2>6 DEF RiskInv, OneAnswerAtRiskPerKill, BeingPublished
<1>6. CASE PublishManifest(Solo)
    <2>1. /\ pc[Solo] = "manifest" /\ pc'[Solo] = "zip"
          /\ manifest'[Solo].sha = results[Solo]
          /\ UNCHANGED <<records, latestZip>>
        BY <1>0, <1>6 DEF PublishManifest, SessionTypeOK
    <2>2. results[Solo] = records[Solo]
        BY <1>0, <2>1 DEF DirectoryInv, FileIsMemory, Running, Writing
    <2>3. ArchivesHere' = ArchivesHere /\ cuts' = cuts
        BY <1>0, <2>1 DEF ArchivesHere
    <2>4. AllButIn(ArchivesHere, records[Solo], cuts + 1)
        BY <2>1 DEF RiskInv, OneAnswerAtRiskPerKill, BeingPublished, Running
    <2>5. QED
        BY <2>1, <2>2, <2>3, <2>4
        DEF RiskInv, OneAnswerAtRiskPerKill, BeingPublished
\* The export holds the file, which is what the session has in memory and what
\* the manifest digests.
<1>7. CASE RefreshZip(Solo) \/ Finalize(Solo)
    <2>1. /\ pc[Solo] \in {"zip", "finalize"}
          /\ pc'[Solo] \in {"loop", "done"}
          /\ RefreshZip(Solo) => UNCHANGED records
          /\ Finalize(Solo) => pc'[Solo] = "done"
          /\ latestZip'[Solo] = ExportOf(Solo)
          /\ UNCHANGED <<results, manifest>>
        BY <1>0, <1>7 DEF RefreshZip, Finalize, Exit, SessionTypeOK
    <2>2. cuts' = 0
        BY <1>0, <2>1
    <2>3. ExportOf(Solo) \in ArchivesHere'
        <3>1. ExportOf(Solo) # NoFile
            BY <1>0, ExportTypes, MarkerAssumption
        <3>2. QED
            BY <2>1, <3>1 DEF ArchivesHere
    <2>4. ASSUME NEW r \in Seq(Line), results[Solo] = r
          PROVE  AllButIn(ArchivesHere', r, cuts')
        BY <2>2, <2>3, <2>4, ExportedIsSafe DEF ExportOf
    <2>5. manifest'[Solo] # NoFile => AllButIn(ArchivesHere', manifest'[Solo].sha, cuts')
        <3>1. CASE manifest[Solo] # NoFile
            <4>1. manifest[Solo].sha = results[Solo]
                BY <1>0, <2>1, <3>1 DEF DirectoryInv, ManifestIsCurrent, Running
            <4>2. manifest[Solo].sha \in Seq(Line)
                BY <1>0, <3>1 DEF SessionTypeOK, ManifestOrNone, Manifest
            <4>3. QED
                BY <2>1, <2>4, <4>1, <4>2
        <3>2. QED
            BY <2>1, <3>1
    <2>6. pc'[Solo] = "loop" => AllButIn(ArchivesHere', records'[Solo], cuts')
        <3>1. CASE RefreshZip(Solo)
            <4>1. results[Solo] = records[Solo]
                BY <1>0, <3>1
                DEF RefreshZip, DirectoryInv, FileIsMemory, Running, Writing
            <4>2. records[Solo] \in Seq(Line)
                BY <1>0 DEF SessionTypeOK, Line
            <4>3. QED
                BY <2>1, <2>4, <3>1, <4>1, <4>2
        <3>2. QED
            BY <1>7, <2>1, <3>1
    <2>7. QED
        BY <2>1, <2>2, <2>5, <2>6
        DEF RiskInv, OneAnswerAtRiskPerKill, BeingPublished, Running
<1>8. QED
    BY <1>0, <1>1, <1>2, <1>3, <1>4, <1>5, <1>6, <1>7 DEF SessionStep

LEMMA RiskIsInductive == IInv /\ RiskInv /\ [Next]_vars => RiskInv'
<1>. SUFFICES ASSUME IInv, RiskInv, [Next]_vars PROVE RiskInv'
    OBVIOUS
<1>. USE SoloIsTheWorker
<1>0. SessionTypeOK /\ cuts \in Nat
    BY DEF IInv, TypeOK
\* Nothing runs, and manifest and archives are as they were.
<1>1. ASSUME pc'[Solo] \notin Running, manifest'[Solo] = manifest[Solo],
             latestZip'[Solo] = latestZip[Solo], attached' = attached,
             cuts' = cuts + IF pc[Solo] = "zip" THEN 1 ELSE 0
      PROVE  RiskInv'
    <2>1. ArchivesHere' = ArchivesHere
        BY <1>1 DEF ArchivesHere
    <2>2. pc'[Solo] # "zip" /\ cuts' + 0 = cuts'
        BY <1>0, <1>1 DEF Running
    <2>3. QED
        BY <1>1, <2>1, <2>2 DEF RiskInv, OneAnswerAtRiskPerKill
<1>2. CASE Step
    BY <1>2, StepKeepsRisk
<1>3. CASE StartSession
    <2>1. /\ pc[Solo] \in Idle /\ pc'[Solo] \in {"restore", "extractResults"}
          /\ UNCHANGED <<manifest, latestZip, attached, cuts>>
        BY <1>0, <1>3 DEF StartSession, Launch, operatorVars, disk
    <2>2. QED
        BY <1>0, <1>1, <2>1 DEF Idle, Running
\* What is attached is sound: the manifest that is extracted digests the results
\* beside it in the archive.
<1>4. CASE Extract
    <2>1. /\ pc[Solo] \in {"extractResults", "extractManifest"}
          /\ pc'[Solo] \in {"extractManifest", "restore"}
          /\ UNCHANGED <<latestZip, attached, cuts>>
          /\ manifest'[Solo] = manifest[Solo] \/ manifest'[Solo] = attached.manifest
        BY <1>0, <1>4 DEF Extract, ExtractResults, ExtractManifest, operatorVars,
                          SessionTypeOK
    <2>2. CASE manifest'[Solo] = manifest[Solo]
        BY <1>0, <1>1, <2>1, <2>2 DEF Running
    <2>3. CASE manifest'[Solo] = attached.manifest
        <3>1. attached \in Export /\ SoundExport(Solo, attached)
            BY <1>4 DEF Extract, IInv, TypeOK, ExportOrNone
        <3>2. ASSUME manifest'[Solo] # NoFile
              PROVE  AllButIn(ArchivesHere', manifest'[Solo].sha, cuts')
            <4>1. /\ manifest'[Solo] \in Manifest
                  /\ attached.results = manifest'[Solo].sha
                BY <2>3, <3>1, <3>2 DEF SoundExport, Export, ManifestOrNone
            <4>2. attached \in ArchivesHere'
                BY <1>4, <2>1 DEF Extract, ArchivesHere
            <4>3. manifest'[Solo].sha \in Seq(Line) /\ cuts' \in Nat
                BY <1>0, <2>1, <4>1 DEF Manifest
            <4>4. QED
                BY <4>1, <4>2, <4>3, ExportedIsSafe
        <3>3. pc'[Solo] \notin Running /\ cuts' + 0 = cuts'
            BY <1>0, <2>1 DEF Running
        <3>4. QED
            BY <2>1, <3>2, <3>3 DEF RiskInv, OneAnswerAtRiskPerKill
    <2>4. QED
        BY <2>1, <2>2, <2>3
<1>5. CASE FailedBuild
    <2>1. /\ pc[Solo] = "build" /\ pc'[Solo] = "dead"
          /\ UNCHANGED <<manifest, latestZip, attached, cuts>>
        BY <1>5 DEF FailedBuild, BuildFails, Exit, disk
    <2>2. QED
        BY <1>0, <1>1, <2>1 DEF Running
\* A kill between the manifest and its export is counted.
<1>6. CASE Kill
    <2>1. /\ pc'[Solo] = "dead"
          /\ UNCHANGED <<manifest, latestZip, attached>>
          /\ cuts' = IF pc[Solo] = "zip" THEN cuts + 1 ELSE cuts
        BY <1>6 DEF Kill, Killed, Exit
    <2>2. QED
        BY <1>0, <1>1, <2>1 DEF Running
<1>7. CASE LoseMachine \/ NewMachine
    <2>1. pc'[Solo] = "off" /\ manifest'[Solo] = NoFile
        BY <1>0, <1>7 DEF LoseMachine, NewMachine, FreshMachine, Exit, SessionTypeOK
    <2>2. QED
        BY <2>1 DEF RiskInv, OneAnswerAtRiskPerKill, Running
<1>8. CASE Download \/ Package \/ UNCHANGED vars
    <2>1. UNCHANGED <<pc, records, manifest, latestZip, attached, cuts>>
        BY <1>8 DEF Download, Package, vars, runnerVars, process, disk, operatorVars
    <2>2. ArchivesHere' = ArchivesHere /\ BeingPublished' = BeingPublished
        BY <2>1 DEF ArchivesHere, BeingPublished
    <2>3. QED
        BY <2>1, <2>2 DEF RiskInv, OneAnswerAtRiskPerKill
<1>9. QED
    BY <1>2, <1>3, <1>4, <1>5, <1>6, <1>7, <1>8 DEF Next

\* Of the records a running session holds, the restored ones included, the
\* machine's archives lack at most the answer being published and one for each
\* kill between a manifest and its export since the last export.
THEOREM OneIsAtRiskPerKill == Spec => []OneAnswerAtRiskPerKill
<1>1. Init => RiskInv
    BY SoloIsTheWorker
    DEF Init, SessionInit, RiskInv, OneAnswerAtRiskPerKill, Running
<1>2. RiskInv => OneAnswerAtRiskPerKill
    BY DEF RiskInv
<1>3. QED
    BY <1>1, <1>2, InitEstablishes, StepPreserves, RiskIsInductive, PTL DEF Spec

LEMMA CompletesIsInductive ==
    ASSUME 0 \notin Caps
    PROVE  IInv /\ CompletesItsList(Solo) /\ [Next]_vars => CompletesItsList(Solo)'
<1>. SUFFICES ASSUME IInv, CompletesItsList(Solo), [Next]_vars
              PROVE  CompletesItsList(Solo)'
    OBVIOUS
<1>. USE SoloIsTheWorker
<1>0. TypeOK /\ SessionTypeOK
    BY DEF IInv, TypeOK
<1>1. CASE Step
    BY <1>0, <1>1, SessionStepCompletes DEF Step, IInv
<1>2. CASE StartSession
    <2>1. PICK c \in Configs, s \in Sources, b \in Budgets, n \in Caps :
            Launch({Solo}, IF attached = NoFile THEN "restore" ELSE "extractResults",
                   c, [w \in Workers |-> s], b, n)
        BY <1>2 DEF StartSession
    <2>2. pc'[Solo] # "finalize" /\ quota'[Solo] = n
        BY <1>0, <2>1 DEF Launch
    <2>3. n > 0
        BY SessionParametersAssumption
    <2>4. QED
        BY <2>2, <2>3 DEF CompletesItsList
<1>3. CASE Extract
    BY <1>0, <1>3
    DEF Extract, ExtractResults, ExtractManifest, SessionTypeOK, CompletesItsList
<1>4. CASE FailedBuild \/ Kill \/ LoseMachine \/ NewMachine
    <2>1. pc'[Solo] \in {"dead", "off"}
        BY <1>0, <1>4 DEF FailedBuild, BuildFails, Kill, Killed, LoseMachine, Exit,
                          NewMachine, SessionTypeOK
    <2>2. QED
        BY <2>1 DEF CompletesItsList
<1>5. CASE Download \/ Package \/ UNCHANGED vars
    <2>1. UNCHANGED <<pc, quota, status, records>>
        BY <1>5 DEF Download, Package, vars, runnerVars, process
    <2>2. QED
        BY <2>1 DEF CompletesItsList, QidsIn
<1>6. QED
    BY <1>1, <1>2, <1>3, <1>4, <1>5 DEF Next

\* READY FOR SUBMISSION PACKAGING is announced only of a complete list, as long as
\* no session is started with max_questions_in_session = 0, which takes an empty
\* slice for a finished list.
THEOREM CompletionIsComplete ==
    ASSUME 0 \notin Caps
    PROVE  Spec => []CompletionIsReal
<1>1. Init => CompletesItsList(Solo)
    BY SoloIsTheWorker DEF Init, SessionInit, CompletesItsList
<1>2. CompletesItsList(Solo) => CompletionIsReal
    BY DEF CompletesItsList, CompletionIsReal
<1>3. QED
    BY <1>1, <1>2, InitEstablishes, StepPreserves, CompletesIsInductive, PTL DEF Spec

\* An export without a manifest holds no results file either.
NoBareExport ==
    \A z \in {latestZip[Solo], archive, attached} :
        z # NoFile => ~ Bare(z.results, z.manifest)

AnsweredInv == OpenedIsAnswered(Solo) /\ NoBareExport

LEMMA AnsweredIsInductive ==
    ASSUME "short" \notin Budgets
    PROVE  IInv /\ AnsweredInv /\ [Next]_vars => AnsweredInv'
<1>. SUFFICES ASSUME IInv, AnsweredInv, [Next]_vars
              PROVE  AnsweredInv'
    OBVIOUS
<1>. USE SoloIsTheWorker
<1>0. TypeOK /\ SessionTypeOK /\ OpenedIsAnswered(Solo) /\ NoBareExport
    BY DEF IInv, TypeOK, AnsweredInv
<1>1. CASE Step
    <2>1. SessionStep(Solo) /\ UNCHANGED <<archive, attached>>
        BY <1>1 DEF Step, operatorVars
    <2>2. OpenedIsAnswered(Solo)'
        BY <1>0, <2>1, SessionStepAnswers DEF IInv
    <2>3. \/ latestZip'[Solo] = latestZip[Solo]
          \/ /\ latestZip'[Solo] = ExportOf(Solo)
             /\ pc[Solo] \in {"zip", "finalize"}
        BY <1>0, <2>1
        DEF SessionStep, RestoreFresh, RestoreCheckpoint, ResumeFrom, RestoreRefused,
            BuildRuntime, StopForBudget, AnswerQuestion, EndLoop, PublishManifest,
            RefreshZip, Finalize, disk, SessionTypeOK
    <2>4. latestZip'[Solo] # NoFile
            => ~ Bare(latestZip'[Solo].results, latestZip'[Solo].manifest)
        BY <1>0, <2>3 DEF NoBareExport, OpenedIsAnswered, ExportOf
    <2>5. NoBareExport'
        BY <1>0, <2>1, <2>4 DEF NoBareExport
    <2>6. QED
        BY <2>2, <2>5 DEF AnsweredInv
<1>2. CASE StartSession
    <2>1. PICK c \in Configs, s \in Sources, b \in Budgets, n \in Caps :
            Launch({Solo}, IF attached = NoFile THEN "restore" ELSE "extractResults",
                   c, [w \in Workers |-> s], b, n)
        BY <1>2 DEF StartSession
    <2>2. /\ pc'[Solo] \in {"restore", "extractResults"}
          /\ budget'[Solo] = b
          /\ UNCHANGED <<latestZip, archive, attached>>
        BY <1>0, <1>2, <2>1 DEF Launch, StartSession, operatorVars, disk
    <2>3. b = "ample"
        BY SessionParametersAssumption
    <2>4. QED
        BY <1>0, <2>2, <2>3 DEF AnsweredInv, OpenedIsAnswered, NoBareExport
<1>3. CASE Extract
    <2>1. /\ pc'[Solo] \in {"extractManifest", "restore"}
          /\ UNCHANGED <<budget, latestZip, archive, attached>>
        BY <1>0, <1>3 DEF Extract, ExtractResults, ExtractManifest, operatorVars,
                          SessionTypeOK
    <2>2. QED
        BY <1>0, <2>1 DEF AnsweredInv, OpenedIsAnswered, NoBareExport
<1>4. CASE FailedBuild \/ Kill
    <2>1. /\ pc'[Solo] = "dead" /\ budget'[Solo] = "ample"
          /\ UNCHANGED <<latestZip, archive, attached>>
        BY <1>0, <1>4 DEF FailedBuild, BuildFails, Kill, Killed, Exit, disk
    <2>2. QED
        BY <1>0, <2>1 DEF AnsweredInv, OpenedIsAnswered, NoBareExport
<1>5. CASE LoseMachine \/ NewMachine
    <2>1. /\ pc'[Solo] = "off" /\ budget'[Solo] = "ample"
          /\ latestZip'[Solo] = NoFile
          /\ archive' = archive /\ attached' = archive
        BY <1>0, <1>5 DEF LoseMachine, NewMachine, FreshMachine, Exit,
                          SessionTypeOK, OpenedIsAnswered
    <2>2. QED
        BY <1>0, <2>1 DEF AnsweredInv, OpenedIsAnswered, NoBareExport
<1>6. CASE Download \/ Package \/ UNCHANGED vars
    <2>1. /\ UNCHANGED runnerVars
          /\ archive' \in {archive, latestZip[Solo]} /\ attached' = attached
        BY <1>6 DEF Download, Package, vars, operatorVars
    <2>2. OpenedIsAnswered(Solo)'
        BY <1>0, <2>1 DEF OpenedIsAnswered, HasPending, NextPending, Unanswered,
                          runnerVars, process, disk, Bare
    <2>3. NoBareExport'
        BY <1>0, <2>1 DEF NoBareExport, runnerVars, disk
    <2>4. QED
        BY <2>2, <2>3 DEF AnsweredInv
<1>7. QED
    BY <1>1, <1>2, <1>3, <1>4, <1>5, <1>6 DEF Next

\* Every export a session announces can be resumed from, unless a budget below the
\* safety margin ends a session between the creation of its results file and the
\* first answer.
THEOREM ExportsCanBeResumed ==
    ASSUME "short" \notin Budgets
    PROVE  Spec => []ExportsAreResumable
<1>1. Init => AnsweredInv
    BY SoloIsTheWorker
    DEF Init, SessionInit, AnsweredInv, OpenedIsAnswered, NoBareExport
<1>2. IInv /\ AnsweredInv => ExportsAreResumable
    <2>. SUFFICES ASSUME IInv, AnsweredInv,
                         NEW z \in {latestZip[Solo], archive, attached}, z # NoFile
                  PROVE  \/ Fresh(z.results, z.manifest)
                         \/ z.manifest # NoFile
                            /\ Restorable(Solo, z.results, z.manifest,
                                          z.manifest.conf, z.manifest.src)
        BY DEF ExportsAreResumable
    <2>1. z \in Export /\ SoundExport(Solo, z) /\ ~ Bare(z.results, z.manifest)
        BY SoloIsTheWorker
        DEF IInv, TypeOK, SessionTypeOK, ExportOrNone, DirectoryInv, AnsweredInv,
            NoBareExport
    <2>2. CASE z.manifest = NoFile
        BY <2>1, <2>2 DEF SoundExport, Bare, Fresh
    <2>3. CASE z.manifest # NoFile
        <3>1. z.manifest \in Manifest /\ z.results = z.manifest.sha
              /\ CoherentManifest(Solo, z.manifest)
            BY <2>1, <2>3 DEF SoundExport, Export, ManifestOrNone
        <3>2. z.results \in Seq(Line)
            BY <3>1 DEF Manifest
        <3>3. QED
            BY <2>3, <3>1, <3>2, MarkerAssumption DEF Restorable, CoherentManifest
    <2>4. QED
        BY <2>2, <2>3
<1>3. QED
    BY <1>1, <1>2, InitEstablishes, StepPreserves, AnsweredIsInductive, PTL DEF Spec
================================================================================
