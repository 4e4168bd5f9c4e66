------------------------------ MODULE DualSession ------------------------------
(***************************************************************************)
(* DualPublic1000SessionRunner: a coordinator that splits the questions by  *)
(* the parity of their index over two worker directories, runs one          *)
(* SessionRunner process in each, watches their exit codes, and packs both  *)
(* directories with a combined manifest into one export.  The combined      *)
(* manifest and export are written at the end of a session only: while the  *)
(* workers run, the last ones describe an earlier state of the directories. *)
(***************************************************************************)
EXTENDS SessionRunner

CONSTANTS
    Questions,      \* the public question ids, in canonical order
    MaxFailures     \* bound on kills, lost machines and failed builds

\* canonical_index_mod_2_v1
Partition(w) == [i \in 1 .. ((Len(Questions) + 1 - w) \div 2) |->
                   Questions[2 * i - 1 + w]]

ASSUME DualAssumption ==
    /\ Workers = {0, 1}
    /\ Questions \in Seq(Qids)
    /\ QuestionList = [w \in Workers |-> Partition(w)]
    /\ \A i, j \in DOMAIN Questions : Questions[i] = Questions[j] => i = j

ASSUME FailureBoundAssumption == MaxFailures \in Nat

CoordinatorPcs == {"idle", "extract", "init", "validate", "launch", "monitor",
                   "collect", "zip"}
DualStatuses == {"DUAL_GPU_WORKER_FAILURE_CHECKPOINT_READY",
                 "ALL_QUESTIONS_COMPLETED", "SESSION_CHECKPOINT_COMPLETE"}

VARIABLES
    cpc,            \* where the coordinator is
    cconf, csrc,    \* its configuration and the question file it loaded
    extracted,      \* members of the attached archive already extracted
    failed,         \* worker_failed
    qfile,          \* worker_questions.json: the source its texts come from
    cman,           \* the combined manifest file
    cstatus,        \* the status of the last collection (the audit file)
    czip,           \* the combined export file
    attached, archive, submission, failures     \* as in SingleSession

coordinator == <<cpc, cconf, csrc, extracted, failed>>
combined == <<qfile, cman, cstatus, czip>>
operatorVars == <<attached, archive, submission, failures>>
vars == <<runnerVars, coordinator, combined, operatorVars>>

CombinedManifest == [src : Sources, conf : Configs, count : Nat,
                     qids : SUBSET Qids]

\* A missing combined manifest is no manifest.
ASSUME CombinedMarkerAssumption == NoFile \notin CombinedManifest

CombinedExport == [man : CombinedManifest, status : DualStatuses,
                   qfile : [Workers -> Sources \cup {NoFile}],
                   results : [Workers -> FileOrNone],
                   manifest : [Workers -> ManifestOrNone]]
Submission == [answers : [Qids -> Record], conf : Configs, src : Sources]

TypeOK ==
    /\ SessionTypeOK
    /\ cpc \in CoordinatorPcs
    /\ cconf \in Configs /\ csrc \in Sources
    /\ extracted \in 0 .. 7
    /\ failed \in BOOLEAN
    /\ qfile \in [Workers -> Sources \cup {NoFile}]
    /\ cman \in CombinedManifest \cup {NoFile}
    /\ cstatus \in DualStatuses \cup {"none"}
    /\ czip \in CombinedExport \cup {NoFile}
    /\ attached \in CombinedExport \cup {NoFile}
    /\ archive \in CombinedExport \cup {NoFile}
    /\ submission \in Submission \cup {NoFile}
    /\ failures \in 0 .. MaxFailures

Init ==
    /\ SessionInit
    /\ cpc = "idle" /\ cconf \in Configs /\ csrc \in Sources
    /\ extracted = 0
    /\ failed = FALSE
    /\ qfile = [w \in Workers |-> NoFile]
    /\ cman = NoFile
    /\ cstatus = "none"
    /\ czip = NoFile
    /\ attached = NoFile /\ archive = NoFile /\ submission = NoFile
    /\ failures = 0
--------------------------------------------------------------------------------
(* restore_and_validate_checkpoint of the coordinator *)

Start ==
    /\ cpc = "idle"
    /\ cpc' = IF attached = NoFile THEN "init" ELSE "extract"
    /\ cconf' \in Configs /\ csrc' \in Sources
    /\ extracted' = 0
    /\ failed' = FALSE
    /\ UNCHANGED <<runnerVars, combined, operatorVars>>

\* The members in the order of the archive: the combined manifest, then each
\* worker's files sorted by name.
Members == <<[file |-> "combined", of |-> 0],
             [file |-> "manifest", of |-> 0], [file |-> "results", of |-> 0],
             [file |-> "questions", of |-> 0],
             [file |-> "manifest", of |-> 1], [file |-> "results", of |-> 1],
             [file |-> "questions", of |-> 1]>>

\* The file f after member m, which holds new, has been extracted over it.
Overwrite(f, m, name, new) ==
    IF m.file = name /\ new[m.of] # NoFile
    THEN [f EXCEPT ![m.of] = new[m.of]] ELSE f

ExtractMember ==
    /\ cpc = "extract"
    /\ LET m == Members[extracted + 1]
       IN  /\ cman' = IF m.file = "combined" THEN attached.man ELSE cman
           /\ manifest' = Overwrite(manifest, m, "manifest", attached.manifest)
           /\ results' = Overwrite(results, m, "results", attached.results)
           /\ qfile' = Overwrite(qfile, m, "questions", attached.qfile)
    /\ extracted' = extracted + 1
    /\ cpc' = IF extracted' = Len(Members) THEN "init" ELSE "extract"
    /\ UNCHANGED <<process, latestZip, cconf, csrc, failed, cstatus, czip,
                   operatorVars>>

\* _ensure_worker_question_files: an existing file is kept as it is.
EnsureQuestionFiles(s) ==
    qfile' = [w \in Workers |-> IF qfile[w] = NoFile THEN s ELSE qfile[w]]

InitWorkerRunners ==
    /\ cpc = "init"
    /\ EnsureQuestionFiles(csrc)
    /\ cpc' = "validate"
    /\ UNCHANGED <<runnerVars, cconf, csrc, extracted, failed, cman, cstatus,
                   czip, operatorVars>>

\* A runner of the coordinator on directory w: what its restore returns.
WorkerAccepts(w, r, m, c, q) == Fresh(r, m) \/ Restorable(w, r, m, c, q)
RecordsIn(r) == IF r = NoFile THEN <<>> ELSE r

Count(r) == Len(RecordsIn(r[0])) + Len(RecordsIn(r[1]))
AllQids(r) == QidsIn(RecordsIn(r[0])) \cup QidsIn(RecordsIn(r[1]))

\* A combined checkpoint (combined manifest cm, worker files r, m, q) that a
\* session of configuration c on source s resumes from.
CombinedRestorable(cm, r, m, q, c, s) ==
    /\ cm # NoFile
    /\ cm.src = s
    /\ cm.conf = c
    /\ \A w \in Workers : WorkerAccepts(w, r[w], m[w], c, q[w])
    /\ cm.count = Count(r)
    /\ cm.qids = AllQids(r)

CombinedFresh == cman = NoFile /\ results[0] = NoFile

ValidateCheckpoint ==
    /\ cpc = "validate"
    /\ CombinedFresh \/ CombinedRestorable(cman, results, manifest, qfile,
                                           cconf, csrc)
    /\ cpc' = "launch"
    /\ UNCHANGED <<runnerVars, cconf, csrc, extracted, failed, combined,
                   operatorVars>>

\* The exception leaves run_session: no worker starts, no export is written.
ValidateRefused ==
    /\ cpc = "validate"
    /\ ~ CombinedFresh
    /\ ~ CombinedRestorable(cman, results, manifest, qfile, cconf, csrc)
    /\ cpc' = "idle"
    /\ UNCHANGED <<runnerVars, cconf, csrc, extracted, failed, combined,
                   operatorVars>>
--------------------------------------------------------------------------------
(* run_session: the monitor, the collection and the combined export *)

\* p0.start(), p1.start(): each worker loads its own question file.
LaunchWorkers ==
    /\ cpc = "launch"
    /\ \E b \in Budgets, n \in Caps :
         Launch(Workers, "restore", cconf, qfile, b, n)
    /\ cpc' = "monitor"
    /\ UNCHANGED <<cconf, csrc, extracted, failed, combined, operatorVars>>

Worker(w) ==
    /\ SessionStep(w)
    /\ UNCHANGED <<coordinator, combined, operatorVars>>

\* Faults: the failure is not recorded; the other worker is left running; both
\* workers must fail.
WorkerFailureForgotten ==
    /\ cpc = "monitor"
    /\ \E w \in Workers : pc[w] = "dead"
    /\ Killed({w \in Workers : pc[w] \notin Idle}, "dead")
    /\ cpc' = "collect"
    /\ UNCHANGED <<cconf, csrc, extracted, failed, combined, operatorVars>>
WorkerFailureUncontained ==
    /\ cpc = "monitor"
    /\ \E w \in Workers : pc[w] = "dead"
    /\ failed' = TRUE
    /\ cpc' = "collect"
    /\ UNCHANGED <<runnerVars, cconf, csrc, extracted, combined, operatorVars>>
WorkerFailureOfBoth ==
    /\ cpc = "monitor"
    /\ \A w \in Workers : pc[w] = "dead"
    /\ failed' = TRUE
    /\ cpc' = "collect"
    /\ UNCHANGED <<runnerVars, cconf, csrc, extracted, combined, operatorVars>>

\* One worker exited with a failure code: the other is terminated wherever it
\* is.
WorkerFailureSeen ==
    /\ cpc = "monitor"
    /\ \E w \in Workers : pc[w] = "dead"
    /\ Killed({w \in Workers : pc[w] \notin Idle}, "dead")
    /\ failed' = TRUE
    /\ cpc' = "collect"
    /\ UNCHANGED <<cconf, csrc, extracted, combined, operatorVars>>

WorkersFinished ==
    /\ cpc = "monitor"
    /\ \A w \in Workers : pc[w] = "done"
    /\ cpc' = "collect"
    /\ UNCHANGED <<runnerVars, cconf, csrc, extracted, failed, combined,
                   operatorVars>>

\* What the coordinator reads back of worker w: the restored checkpoint, or,
\* when restore raises, the raw lines, which must all parse.
Readable(w) ==
    \/ WorkerAccepts(w, results[w], manifest[w], cconf, qfile[w])
    \/ \A i \in DOMAIN RecordsIn(results[w]) : results[w][i] # Torn

\* Fault: the count is looked at before the failure.
CollectRecordsCountFirst ==
    /\ cpc = "collect"
    /\ \A w \in Workers : Readable(w)
    /\ cman' = [src |-> csrc, conf |-> cconf, count |-> Count(results),
                qids |-> AllQids(results)]
    /\ cstatus' = IF Count(results) = Len(Questions)
                  THEN "ALL_QUESTIONS_COMPLETED"
                  ELSE IF failed THEN "DUAL_GPU_WORKER_FAILURE_CHECKPOINT_READY"
                       ELSE "SESSION_CHECKPOINT_COMPLETE"
    /\ cpc' = "zip"
    /\ UNCHANGED <<runnerVars, cconf, csrc, extracted, failed, qfile, czip,
                   operatorVars>>

\* Collection, then the combined manifest.
CollectRecords ==
    /\ cpc = "collect"
    /\ \A w \in Workers : Readable(w)
    /\ cman' = [src |-> csrc, conf |-> cconf, count |-> Count(results),
                qids |-> AllQids(results)]
    /\ cstatus' = IF failed THEN "DUAL_GPU_WORKER_FAILURE_CHECKPOINT_READY"
                  ELSE IF Count(results) = Len(Questions)
                       THEN "ALL_QUESTIONS_COMPLETED"
                       ELSE "SESSION_CHECKPOINT_COMPLETE"
    /\ cpc' = "zip"
    /\ UNCHANGED <<runnerVars, cconf, csrc, extracted, failed, qfile, czip,
                   operatorVars>>

\* A torn line raises out of run_session before any export.
CollectRaises ==
    /\ cpc = "collect"
    /\ \E w \in Workers : ~ Readable(w)
    /\ cpc' = "idle"
    /\ UNCHANGED <<runnerVars, cconf, csrc, extracted, failed, combined,
                   operatorVars>>

\* Every file below the worker directories goes into the export.  The workers'
\* own exports go too; no coordinator reads them.
RefreshCombinedZip ==
    /\ cpc = "zip"
    /\ czip' = [man |-> cman, status |-> cstatus, qfile |-> qfile,
                results |-> results, manifest |-> manifest]
    /\ cpc' = "idle"
    /\ UNCHANGED <<runnerVars, cconf, csrc, extracted, failed, qfile, cman,
                   cstatus, operatorVars>>
--------------------------------------------------------------------------------
(* Failures and the operator *)

Fail ==
    /\ failures < MaxFailures
    /\ failures' = failures + 1

WorkerBuildFails ==
    /\ \E w \in Workers : BuildFails(w)
    /\ Fail
    /\ UNCHANGED <<coordinator, combined, attached, archive, submission>>

WorkerKilled ==
    /\ \E w \in Workers : Killed({w}, "dead")
    /\ Fail
    /\ UNCHANGED <<coordinator, combined, attached, archive, submission>>

\* The kernel restarts: its process group, workers included, is killed.
CoordinatorKilled ==
    /\ cpc # "idle"
    /\ Killed({w \in Workers : pc[w] \notin Idle}, "dead")
    /\ cpc' = "idle"
    /\ Fail
    /\ UNCHANGED <<cconf, csrc, extracted, failed, combined, attached, archive,
                   submission>>

\* A new machine with the archive the operator holds; the old one ends between
\* two sessions.
NewMachine ==
    /\ cpc = "idle"
    /\ results' = [w \in Workers |-> NoFile]
    /\ manifest' = [w \in Workers |-> NoFile]
    /\ latestZip' = [w \in Workers |-> NoFile]
    /\ qfile' = [w \in Workers |-> NoFile]
    /\ cman' = NoFile /\ czip' = NoFile /\ cstatus' = "none"
    /\ attached' = archive
    /\ UNCHANGED <<process, coordinator, archive, submission, failures>>

Download ==
    /\ cpc = "idle"
    /\ czip # NoFile
    /\ archive' = czip
    /\ UNCHANGED <<runnerVars, coordinator, combined, attached, submission,
                   failures>>

Packageable(c, q) ==
    /\ \A w \in Workers : WorkerAccepts(w, results[w], manifest[w], c, q[w])
    /\ Count(results) = Len(Questions)
    /\ QidsIn(RecordsIn(results[0])) \cap QidsIn(RecordsIn(results[1])) = {}
    /\ AllQids(results) = Qids

\* package_final_submission: merge of the two directories; it also writes the
\* worker question files when they are missing.
Package ==
    /\ cpc = "idle"
    /\ \E c \in Configs, s \in Sources :
         /\ EnsureQuestionFiles(s)
         /\ IF Packageable(c, qfile')
            THEN submission' =
                   [answers |-> [q \in Qids |->
                      LET w == IF q \in QidsIn(RecordsIn(results[0]))
                               THEN 0 ELSE 1
                      IN  results[w][CHOOSE i \in DOMAIN results[w] :
                                       results[w][i].qid = q]],
                    conf |-> c, src |-> s]
            ELSE UNCHANGED submission
    /\ UNCHANGED <<runnerVars, coordinator, cman, cstatus, czip, attached,
                   archive, failures>>

CoordinatorStep ==
    \/ ExtractMember \/ InitWorkerRunners
    \/ ValidateCheckpoint \/ ValidateRefused \/ LaunchWorkers
    \/ WorkerFailureSeen \/ WorkersFinished
    \/ CollectRecords \/ CollectRaises \/ RefreshCombinedZip

Next ==
    \/ Start \/ CoordinatorStep
    \/ \E w \in Workers : Worker(w)
    \/ WorkerBuildFails \/ WorkerKilled \/ CoordinatorKilled
    \/ NewMachine \/ Download \/ Package

Spec == Init /\ [][Next]_vars

\* The processes run: the scheduler lets each of them step.
FairSpec ==
    /\ Spec
    /\ WF_vars(CoordinatorStep)
    /\ \A w \in Workers : WF_vars(Worker(w))
--------------------------------------------------------------------------------
(* Properties *)

\* While a worker runs, its results file is what it holds in memory: the
\* coordinator, the other worker and an earlier session never write under it.
WorkersOwnTheirFiles == \A w \in Workers : FileIsMemory(w)

\* The export of a session whose workers both exited normally can be resumed
\* from by a session of the same configuration and source, and holds every
\* answer of both workers.
CleanExportsAreResumable ==
    \A z \in {czip, archive, attached} \ {NoFile} :
        z.status # "DUAL_GPU_WORKER_FAILURE_CHECKPOINT_READY" =>
            CombinedRestorable(z.man, z.results, z.manifest, z.qfile,
                               z.man.conf, z.man.src)

\* ALL_QUESTIONS_COMPLETED is reported only of an export that packages: both
\* partitions restorable and every question answered once.
CompletionIsReal ==
    \A z \in {czip, archive, attached} \ {NoFile} :
        z.status = "ALL_QUESTIONS_COMPLETED" =>
            /\ \A w \in Workers : Restorable(w, z.results[w], z.manifest[w],
                                             z.man.conf, z.qfile[w])
            /\ AllQids(z.results) = Qids
            /\ Count(z.results) = Len(Questions)

\* The progress a combined manifest reports never exceeds what is durable in
\* the files exported with it, even after a worker was stopped mid-write.
ReportedProgressIsDurable ==
    \A z \in {czip, archive, attached} \ {NoFile} :
        /\ z.man.count = Count(z.results)
        /\ \A q \in z.man.qids :
             \E w \in Workers : q \in QidsIn(RecordsIn(z.results[w]))

\* A packaged submission answers every question once, under one configuration.
SubmissionIsExact ==
    submission # NoFile =>
        \A q \in Qids : /\ submission.answers[q].qid = q
                        /\ submission.answers[q].conf = submission.conf

\* ... and from the question file the submission is packaged for.
SubmissionAnswersItsQuestions ==
    submission # NoFile =>
        \A q \in Qids : submission.answers[q].src = submission.src

\* A worker failure never loses completed work: an export that holds answers can
\* be resumed from, whatever ended its session.
FailureExportsAreResumable ==
    czip # NoFile /\ Count(czip.results) > 0 =>
        CombinedRestorable(czip.man, czip.results, czip.manifest, czip.qfile,
                           czip.man.conf, czip.man.src)

\* A started session ends: a worker that dies takes the other down, workers
\* that finish are collected, whatever is on the disk.
SessionEnds == (cpc # "idle") ~> (cpc = "idle")
================================================================================
