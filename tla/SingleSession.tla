----------------------------- MODULE SingleSession -----------------------------
(***************************************************************************)
(* The single-GPU run as an operator drives it from the notebook cells: a   *)
(* virtual machine with one working directory, a checkpoint archive that is *)
(* attached to the machine when it is created and that the execution cell   *)
(* always passes to run_session, the archive the operator downloaded last,  *)
(* and the packaging cell.  The notebook kernel can be killed at any point  *)
(* and the machine can be lost with its disk.                               *)
(***************************************************************************)
EXTENDS SessionRunner

CONSTANTS
    Solo,           \* the only worker
    MaxFailures     \* bound on kills, lost machines and failed builds

ASSUME SoloAssumption == Workers = {Solo} /\ MaxFailures \in Nat

VARIABLES
    attached,       \* the archive the machine was created with
    archive,        \* the archive the operator holds
    submission,     \* what the packaging cell wrote last
    failures,
    cuts            \* history, read by no action: the kills between a manifest
                    \* and its export, since the last export of the machine

operatorVars == <<attached, archive, submission, failures>>
vars == <<runnerVars, operatorVars, cuts>>

\* A submission keeps, per question, the record its answer was taken from, and
\* the configuration and source of the process that packaged it.
Submission == [answers : [Qids -> Record], conf : Configs, src : Sources]

TypeOK ==
    /\ SessionTypeOK
    /\ attached \in ExportOrNone
    /\ archive \in ExportOrNone
    /\ submission \in Submission \cup {NoFile}
    /\ failures \in Nat
    /\ cuts \in Nat

Init ==
    /\ SessionInit
    /\ attached = NoFile
    /\ archive = NoFile
    /\ submission = NoFile
    /\ failures = 0
    /\ cuts = 0

\* The execution cell: a new runner on the working directory.
StartSession ==
    /\ \E c \in Configs, s \in Sources, b \in Budgets, n \in Caps :
         Launch({Solo},
                IF attached = NoFile THEN "restore" ELSE "extractResults",
                c, [w \in Workers |-> s], b, n)
    /\ UNCHANGED <<operatorVars, cuts>>

Extract ==
    /\ attached # NoFile
    /\ ExtractResults(Solo, attached) \/ ExtractManifest(Solo, attached)
    /\ UNCHANGED <<operatorVars, cuts>>

Step ==
    /\ SessionStep(Solo)
    /\ cuts' = IF pc[Solo] \in {"zip", "finalize"} THEN 0 ELSE cuts
    /\ UNCHANGED operatorVars

Fail ==
    /\ failures < MaxFailures
    /\ failures' = failures + 1

FailedBuild ==
    /\ BuildFails(Solo)
    /\ Fail
    /\ UNCHANGED <<attached, archive, submission, cuts>>

Kill ==
    /\ Killed({Solo}, "dead")
    /\ Fail
    /\ cuts' = IF pc[Solo] = "zip" THEN cuts + 1 ELSE cuts
    /\ UNCHANGED <<attached, archive, submission>>

\* A new machine has an empty disk and the archive the operator holds.
FreshMachine ==
    /\ results' = [results EXCEPT ![Solo] = NoFile]
    /\ manifest' = [manifest EXCEPT ![Solo] = NoFile]
    /\ latestZip' = [latestZip EXCEPT ![Solo] = NoFile]
    /\ attached' = archive
    /\ cuts' = 0
    /\ UNCHANGED <<archive, submission>>

NewMachine ==
    /\ pc[Solo] \in Idle
    /\ FreshMachine
    /\ pc' = [pc EXCEPT ![Solo] = "off"]
    /\ UNCHANGED <<conf, src, budget, quota, records, base, status, failures>>

LoseMachine ==
    /\ pc[Solo] \notin Idle
    /\ FreshMachine
    /\ Exit({Solo}, "off")
    /\ Fail
    /\ UNCHANGED status

\* The operator downloads the export named in the banner.
Download ==
    /\ pc[Solo] \in Idle
    /\ latestZip[Solo] # NoFile
    /\ archive' = latestZip[Solo]
    /\ UNCHANGED <<runnerVars, attached, submission, failures, cuts>>

\* package_final_submission, by the runner object of the last session or of a
\* new one: restore without extraction, then the three gates.
Package ==
    /\ pc[Solo] \in Idle
    /\ \E c \in Configs, s \in Sources :
         LET r == results[Solo]
         IN  /\ Restorable(Solo, r, manifest[Solo], c, s)
             /\ Len(r) = Total(Solo)
             /\ QidsIn(r) = QidSet(Solo)
             /\ submission' =
                  [answers |-> [q \in Qids |->
                                  r[CHOOSE i \in DOMAIN r : r[i].qid = q]],
                   conf |-> c, src |-> s]
    /\ UNCHANGED <<runnerVars, attached, archive, failures, cuts>>

Next ==
    \/ StartSession \/ Extract \/ Step
    \/ FailedBuild \/ Kill \/ LoseMachine
    \/ NewMachine \/ Download \/ Package

Spec == Init /\ [][Next]_vars

\* A process that can take a step takes it.  The operator follows the banner
\* again and again: downloads the export, creates a machine from it, runs the
\* cell, packages.
FairSpec ==
    /\ Spec
    /\ WF_vars(Extract) /\ WF_vars(Step)
    /\ SF_vars(StartSession) /\ SF_vars(NewMachine)
    /\ SF_vars(Download) /\ SF_vars(Package)
--------------------------------------------------------------------------------
(* Properties *)

\* The results file of a running session is what the session holds in memory.
SessionOwnsItsFile == FileIsMemory(Solo)

\* No question is answered twice and no answer is dropped by a session ("zero
\* reruns"): its records are distinct questions answered in one run, and they
\* extend those it restored.
SessionExtendsBase == RecordsOfOneRun(Solo) /\ ExtendsBase(Solo)

\* Every archive that can leave the machine loses nothing: it is restorable by
\* the configuration and source in its manifest, or it holds no answer.
ExportsAreSound ==
    \A z \in {latestZip[Solo], archive, attached} \ {NoFile} :
        SoundExport(Solo, z)

\* The first records of r, all but k at most, are the results in one of the
\* archives in Z.
AllButIn(Z, r, k) ==
    \E n \in 0 .. Len(r) :
        /\ Len(r) <= n + k
        /\ n = 0 \/ \E z \in Z : z.results = SubSeq(r, 1, n)

ArchivesHere == {latestZip[Solo], attached} \ {NoFile}
BeingPublished == IF pc[Solo] \in {"manifest", "zip"} THEN 1 ELSE 0

\* The export is refreshed after every manifest, and a restore refreshes
\* nothing: of the records a running session holds, those it restored included,
\* the machine's archives lack the answer being published and one for each kill
\* that has fallen between a manifest and its export since the last export.
\* Without such a kill, whatever else was killed, cut or extracted before, a
\* kill costs one answer at most.
OneAnswerAtRiskPerKill ==
    pc[Solo] \in Running =>
        AllButIn(ArchivesHere, records[Solo], cuts + BeingPublished)

\* A packaged submission has one answer for every question of the list, all
\* produced under the packaging configuration, from its question source.
SubmissionIsExact ==
    submission # NoFile =>
        \A q \in Qids :
            /\ submission.answers[q].qid = q
            /\ submission.answers[q].conf = submission.conf
            /\ submission.answers[q].src = submission.src

\* A session reports ALL_QUESTIONS_COMPLETED (the banner: READY FOR SUBMISSION
\* PACKAGING) only when every question has a record.
CompletionIsReal ==
    pc[Solo] = "finalize" /\ status[Solo] = "ALL_QUESTIONS_COMPLETED" =>
        QidsIn(records[Solo]) = QidSet(Solo)

\* Every export a finished session announces can be resumed from by a session
\* of the same configuration and source.
ExportsAreResumable ==
    \A z \in {latestZip[Solo], archive, attached} \ {NoFile} :
        \/ Fresh(z.results, z.manifest)
        \/ z.manifest # NoFile /\ Restorable(Solo, z.results, z.manifest,
                                             z.manifest.conf, z.manifest.src)

\* Within a machine the export only grows: running the cell again never
\* answers an exported question a second time.
ExportOnlyGrows ==
    [][LET old == latestZip[Solo]  new == latestZip'[Solo]
       IN  old # NoFile /\ new # NoFile /\ old.results # NoFile =>
             /\ new.results # NoFile
             /\ Len(old.results) <= Len(new.results)
             /\ SubSeq(new.results, 1, Len(old.results)) = old.results]_vars

\* However sessions are cut by budgets, kills and lost machines, the operator
\* ends up with a packaged submission.
EventuallySubmitted == <>(submission # NoFile)
================================================================================
