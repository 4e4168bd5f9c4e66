----------------------------- MODULE SessionRunner -----------------------------
(***************************************************************************)
(* Public1000SessionRunner: one process that answers the questions of one   *)
(* directory and keeps every answer durable.  A directory holds             *)
(*   results    the JSONL file, one appended and fsynced line per answer,   *)
(*   manifest   a JSON file replaced atomically after every append; it      *)
(*              binds the SHA-256 of results to a configuration and to a    *)
(*              question source,                                            *)
(*   latestZip  the export archive, replaced atomically after the manifest. *)
(* The kernel or the machine can stop the process between any two of those  *)
(* writes.  The variables are functions on Workers: the single-GPU runner   *)
(* has one worker, the dual-GPU coordinator runs two.                       *)
(*                                                                         *)
(* A SHA-256 is modelled by the content it digests (no collisions).  The    *)
(* journal, the audit and the telemetry are written and never read back to  *)
(* decide anything; they are left out.                                      *)
(***************************************************************************)
EXTENDS Naturals, Sequences

CONSTANTS
    Workers,        \* directories, each with at most one live process
    QuestionList,   \* [Workers -> sequence of question ids], canonical order
    Configs,        \* resolved application configurations (their hash)
    Sources,        \* versions of the question file (its SHA-256)
    Answers,        \* what the runtime can return, the exception record included
    Caps,           \* values of max_questions_in_session
    Budgets,        \* subset of {"ample", "short"}, see AtBudgetEnd
    NoFile,         \* a file that does not exist
    Torn            \* a line cut short by a kill during the write

QidsIn(s) == {s[i].qid : i \in DOMAIN s}
QidSet(w) == {QuestionList[w][i] : i \in DOMAIN QuestionList[w]}
Qids == UNION {QidSet(w) : w \in Workers}
Total(w) == Len(QuestionList[w])

\* A question file in the dict form has no repeated id.
ASSUME QuestionListAssumption ==
    /\ DOMAIN QuestionList = Workers
    /\ \A w \in Workers :
         /\ QuestionList[w] \in Seq(Qids)
         /\ \A i, j \in DOMAIN QuestionList[w] :
              QuestionList[w][i] = QuestionList[w][j] => i = j

ASSUME SessionParametersAssumption ==
    /\ Caps \subseteq Nat
    /\ Budgets \subseteq {"ample", "short"}

Record == [qid : Qids, conf : Configs, src : Sources, answer : Answers]
Line == Record \cup {Torn}
Manifest == [sha : Seq(Line), count : Nat, conf : Configs, src : Sources]

FileOrNone == Seq(Line) \cup {NoFile}
ManifestOrNone == Manifest \cup {NoFile}
Export == [results : FileOrNone, manifest : ManifestOrNone]
ExportOrNone == Export \cup {NoFile}

\* A missing file is no file content, a torn line is no record.
ASSUME MarkerAssumption ==
    /\ NoFile \notin Seq(Line)
    /\ NoFile \notin Manifest
    /\ NoFile \notin Export
    /\ Torn \notin Record

Pcs == {"off", "extractResults", "extractManifest", "restore", "build", "loop",
        "manifest", "zip", "finalize", "done", "dead"}
Idle == {"off", "done", "dead"}
Statuses == {"none", "ALL_QUESTIONS_COMPLETED", "SESSION_CHECKPOINT_COMPLETE",
             "SESSION_BATCH_COMPLETE"}

VARIABLES
    pc,         \* where each process is
    conf,       \* its application configuration
    src,        \* the question file it loaded
    budget,     \* its session_budget_seconds, as a member of Budgets
    quota,      \* pending items it may still take in this session
    records,    \* existing_records, in memory
    base,       \* the records this session resumed from (what restore returned)
    status,     \* the status it finalizes with
    results, manifest, latestZip

process == <<pc, conf, src, budget, quota, records, base, status>>
disk == <<results, manifest, latestZip>>
runnerVars == <<process, disk>>

SessionTypeOK ==
    /\ pc \in [Workers -> Pcs]
    /\ conf \in [Workers -> Configs]
    /\ src \in [Workers -> Sources]
    /\ budget \in [Workers -> {"ample", "short"}]
    /\ quota \in [Workers -> Nat]
    /\ records \in [Workers -> Seq(Record)]
    /\ base \in [Workers -> Seq(Record)]
    /\ status \in [Workers -> Statuses]
    /\ results \in [Workers -> FileOrNone]
    /\ manifest \in [Workers -> ManifestOrNone]
    /\ latestZip \in [Workers -> ExportOrNone]

SessionInit ==
    /\ pc = [w \in Workers |-> "off"]
    /\ conf \in [Workers -> Configs]
    /\ src \in [Workers -> Sources]
    /\ budget = [w \in Workers |-> "ample"]
    /\ quota = [w \in Workers |-> 0]
    /\ records = [w \in Workers |-> <<>>]
    /\ base = [w \in Workers |-> <<>>]
    /\ status = [w \in Workers |-> "none"]
    /\ results = [w \in Workers |-> NoFile]
    /\ manifest = [w \in Workers |-> NoFile]
    /\ latestZip = [w \in Workers |-> NoFile]
--------------------------------------------------------------------------------
(* restore_and_validate_checkpoint *)

\* Every line parses, carries an expected question id, and none twice.
WellFormed(w, r) ==
    /\ \A i \in DOMAIN r : r[i] # Torn
    /\ \A i \in DOMAIN r : r[i].qid \in QidSet(w)
    /\ \A i, j \in DOMAIN r : r[i].qid = r[j].qid => i = j

\* Faults: a restore that trusts the configuration, trusts the digest, or takes
\* the expected total for the completed count.
RestorableAnyConfig(w, r, m, c, s) ==
    /\ r # NoFile /\ m # NoFile /\ m.src = s /\ m.sha = r
    /\ WellFormed(w, r) /\ m.count = Len(r)
RestorableAnyDigest(w, r, m, c, s) ==
    /\ r # NoFile /\ m # NoFile /\ m.src = s /\ m.conf = c /\ WellFormed(w, r)
RestorableWhenComplete(w, r, m, c, s) ==
    /\ RestorableAnyConfig(w, r, m, c, s) /\ m.conf = c
    /\ m.count = Total(w)

\* The directory content r, m is a checkpoint a process of w running
\* configuration c on question source s resumes from.
Restorable(w, r, m, c, s) ==
    /\ r # NoFile
    /\ m # NoFile
    /\ m.src = s
    /\ m.conf = c
    /\ m.sha = r
    /\ WellFormed(w, r)
    /\ m.count = Len(r)

Fresh(r, m) == r = NoFile /\ m = NoFile

\* The process starts on directory w, at the given point: "extractResults"
\* with an archive to restore, "restore" without.
Launch(S, at, c, sourceOf, b, n) ==
    /\ \A w \in S : pc[w] \in Idle
    /\ pc' = [w \in Workers |-> IF w \in S THEN at ELSE pc[w]]
    /\ conf' = [w \in Workers |-> IF w \in S THEN c ELSE conf[w]]
    /\ src' = [w \in Workers |-> IF w \in S THEN sourceOf[w] ELSE src[w]]
    /\ budget' = [w \in Workers |-> IF w \in S THEN b ELSE budget[w]]
    /\ quota' = [w \in Workers |-> IF w \in S THEN n ELSE quota[w]]
    /\ status' = [w \in Workers |-> IF w \in S THEN "none" ELSE status[w]]
    /\ UNCHANGED <<records, base, disk>>

\* extractall: the members of the archive overwrite the files of the
\* directory one by one, a member the archive lacks leaves its file alone.
ExtractResults(w, archive) ==
    /\ pc[w] = "extractResults"
    /\ pc' = [pc EXCEPT ![w] = "extractManifest"]
    /\ results' = IF archive.results = NoFile THEN results
                  ELSE [results EXCEPT ![w] = archive.results]
    /\ UNCHANGED <<conf, src, budget, quota, records, base, status,
                   manifest, latestZip>>

ExtractManifest(w, archive) ==
    /\ pc[w] = "extractManifest"
    /\ pc' = [pc EXCEPT ![w] = "restore"]
    /\ manifest' = IF archive.manifest = NoFile THEN manifest
                   ELSE [manifest EXCEPT ![w] = archive.manifest]
    /\ UNCHANGED <<conf, src, budget, quota, records, base, status,
                   results, latestZip>>

\* The head of run_session: without pending items it goes straight to
\* _finalize_session, without opening the results file.
ResumeFrom(w, recs) ==
    /\ records' = [records EXCEPT ![w] = recs]
    /\ base' = [base EXCEPT ![w] = recs]
    /\ IF QidSet(w) \subseteq QidsIn(recs) \/ quota[w] = 0
       THEN /\ pc' = [pc EXCEPT ![w] = "finalize"]
            /\ status' = [status EXCEPT ![w] = "ALL_QUESTIONS_COMPLETED"]
       ELSE /\ pc' = [pc EXCEPT ![w] = "build"]
            /\ UNCHANGED status
    /\ UNCHANGED <<conf, src, budget, quota, disk>>

RestoreFresh(w) ==
    /\ pc[w] = "restore"
    /\ Fresh(results[w], manifest[w])
    /\ ResumeFrom(w, <<>>)

RestoreCheckpoint(w) ==
    /\ pc[w] = "restore"
    /\ Restorable(w, results[w], manifest[w], conf[w], src[w])
    /\ ResumeFrom(w, results[w])

\* A process that ends, raises or is killed loses its memory.
Exit(S, at) ==
    /\ pc' = [w \in Workers |-> IF w \in S THEN at ELSE pc[w]]
    /\ records' = [w \in Workers |-> IF w \in S THEN <<>> ELSE records[w]]
    /\ base' = [w \in Workers |-> IF w \in S THEN <<>> ELSE base[w]]
    /\ quota' = [w \in Workers |-> IF w \in S THEN 0 ELSE quota[w]]
    /\ budget' = [w \in Workers |-> IF w \in S THEN "ample" ELSE budget[w]]
    /\ UNCHANGED <<conf, src>>

\* Anything else raises ArtifactCompatibilityError.
RestoreRefused(w) ==
    /\ pc[w] = "restore"
    /\ ~ Fresh(results[w], manifest[w])
    /\ ~ Restorable(w, results[w], manifest[w], conf[w], src[w])
    /\ Exit({w}, "dead")
    /\ UNCHANGED <<status, disk>>
--------------------------------------------------------------------------------
(* run_session *)

\* Fault: the results file opened with "w".
BuildRuntimeTruncating(w) ==
    /\ pc[w] = "build"
    /\ pc' = [pc EXCEPT ![w] = "loop"]
    /\ results' = [results EXCEPT ![w] = <<>>]
    /\ UNCHANGED <<conf, src, budget, quota, records, base, status,
                   manifest, latestZip>>

\* The runtime is built, then the results file is opened for appending,
\* which creates it.
BuildRuntime(w) ==
    /\ pc[w] = "build"
    /\ pc' = [pc EXCEPT ![w] = "loop"]
    /\ results' = IF results[w] = NoFile
                  THEN [results EXCEPT ![w] = <<>>] ELSE results
    /\ UNCHANGED <<conf, src, budget, quota, records, base, status,
                   manifest, latestZip>>

BuildFails(w) ==
    /\ pc[w] = "build"
    /\ Exit({w}, "dead")
    /\ UNCHANGED <<status, disk>>

Unanswered(w, i) == QuestionList[w][i] \notin QidsIn(records[w])

\* Faults: the slice is not applied; completed questions are not skipped.
NextPendingUncapped(w, i) ==
    /\ Unanswered(w, i)
    /\ \A j \in DOMAIN QuestionList[w] : Unanswered(w, j) => i <= j
NextPendingAgain(w, i) == quota[w] > 0

\* Position i holds the next of pending_items[:max_questions_in_session].
NextPending(w, i) ==
    /\ quota[w] > 0
    /\ Unanswered(w, i)
    /\ \A j \in DOMAIN QuestionList[w] : Unanswered(w, j) => i <= j

HasPending(w) == \E i \in DOMAIN QuestionList[w] : NextPending(w, i)

\* Before the first answer of a session the safety margin is the 450 s of
\* 2.5 * 180: a "short" budget is one below it and always stops there, an
\* "ample" one never does.  After an answer any latency is possible.
AtBudgetEnd(w) == records[w] # base[w] \/ budget[w] = "short"
WithinBudget(w) == records[w] # base[w] \/ budget[w] = "ample"

StopForBudget(w) ==
    /\ pc[w] = "loop"
    /\ HasPending(w)
    /\ AtBudgetEnd(w)
    /\ pc' = [pc EXCEPT ![w] = "finalize"]
    /\ status' = [status EXCEPT ![w] = "SESSION_CHECKPOINT_COMPLETE"]
    /\ UNCHANGED <<conf, src, budget, quota, records, base, disk>>

\* One question: the runtime answers or raises (either way there is a record),
\* the line is appended and fsynced, the record joins existing_records.
AnswerQuestion(w) ==
    /\ pc[w] = "loop"
    /\ WithinBudget(w)
    /\ \E i \in DOMAIN QuestionList[w], a \in Answers :
         /\ NextPending(w, i)
         /\ LET rec == [qid |-> QuestionList[w][i], conf |-> conf[w],
                        src |-> src[w], answer |-> a]
            IN  /\ results' = [results EXCEPT ![w] = Append(@, rec)]
                /\ records' = [records EXCEPT ![w] = Append(@, rec)]
    /\ quota' = [quota EXCEPT ![w] = @ - 1]
    /\ pc' = [pc EXCEPT ![w] = "manifest"]
    /\ UNCHANGED <<conf, src, budget, base, status, manifest, latestZip>>

\* Faults: the export is not refreshed; the count misses the last record.
PublishManifestOnly(w) ==
    /\ pc[w] = "manifest"
    /\ manifest' = [manifest EXCEPT ![w] =
                      [sha |-> results[w], count |-> Len(records[w]),
                       conf |-> conf[w], src |-> src[w]]]
    /\ pc' = [pc EXCEPT ![w] = "loop"]
    /\ UNCHANGED <<conf, src, budget, quota, records, base, status,
                   results, latestZip>>
PublishManifestEarlyCount(w) ==
    /\ pc[w] = "manifest"
    /\ manifest' = [manifest EXCEPT ![w] =
                      [sha |-> results[w], count |-> Len(records[w]) - 1,
                       conf |-> conf[w], src |-> src[w]]]
    /\ pc' = [pc EXCEPT ![w] = "zip"]
    /\ UNCHANGED <<conf, src, budget, quota, records, base, status,
                   results, latestZip>>

\* The manifest binds the file on the disk to this run.
PublishManifest(w) ==
    /\ pc[w] = "manifest"
    /\ manifest' = [manifest EXCEPT ![w] =
                      [sha |-> results[w], count |-> Len(records[w]),
                       conf |-> conf[w], src |-> src[w]]]
    /\ pc' = [pc EXCEPT ![w] = "zip"]
    /\ UNCHANGED <<conf, src, budget, quota, records, base, status,
                   results, latestZip>>

ExportOf(w) == [results |-> results[w], manifest |-> manifest[w]]

RefreshZip(w) ==
    /\ pc[w] = "zip"
    /\ latestZip' = [latestZip EXCEPT ![w] = ExportOf(w)]
    /\ pc' = [pc EXCEPT ![w] = "loop"]
    /\ UNCHANGED <<conf, src, budget, quota, records, base, status,
                   results, manifest>>

\* Fault: an exhausted slice is taken for an exhausted list.
EndLoopAllDone(w) ==
    /\ pc[w] = "loop"
    /\ ~ HasPending(w)
    /\ pc' = [pc EXCEPT ![w] = "finalize"]
    /\ status' = [status EXCEPT ![w] = "ALL_QUESTIONS_COMPLETED"]
    /\ UNCHANGED <<conf, src, budget, quota, records, base, disk>>

EndLoop(w) ==
    /\ pc[w] = "loop"
    /\ ~ HasPending(w)
    /\ pc' = [pc EXCEPT ![w] = "finalize"]
    /\ status' = [status EXCEPT ![w] =
                    IF Len(records[w]) = Total(w) THEN "ALL_QUESTIONS_COMPLETED"
                    ELSE "SESSION_BATCH_COMPLETE"]
    /\ UNCHANGED <<conf, src, budget, quota, records, base, disk>>

\* _finalize_session: the last export, then the banner.
Finalize(w) ==
    /\ pc[w] = "finalize"
    /\ latestZip' = [latestZip EXCEPT ![w] = ExportOf(w)]
    /\ Exit({w}, "done")
    /\ UNCHANGED <<status, results, manifest>>

\* The process is about to write or is writing the line of an answer.
Appending(w) == pc[w] = "loop" /\ HasPending(w) /\ WithinBudget(w)

\* A kill (SIGKILL, SIGTERM from the coordinator, out of memory) stops the
\* processes in S between two writes; during the append it can leave a torn
\* line.  The other files are replaced by rename: old or new, never torn.
Killed(S, at) ==
    /\ \A w \in S : pc[w] \notin Idle
    /\ Exit(S, at)
    /\ \E T \in SUBSET {w \in S : Appending(w)} :
         results' = [w \in Workers |-> IF w \in T THEN Append(results[w], Torn)
                                       ELSE results[w]]
    /\ UNCHANGED <<status, manifest, latestZip>>

\* What the process does by itself once the archive is extracted.
SessionStep(w) ==
    \/ RestoreFresh(w) \/ RestoreCheckpoint(w) \/ RestoreRefused(w)
    \/ BuildRuntime(w)
    \/ StopForBudget(w) \/ AnswerQuestion(w) \/ EndLoop(w)
    \/ PublishManifest(w) \/ RefreshZip(w) \/ Finalize(w)
--------------------------------------------------------------------------------
(* What a directory promises *)

\* Points at which the process holds its records, and among them those at which
\* the results file is open.
Running == {"build", "loop", "manifest", "zip", "finalize"}
Writing == {"loop", "manifest", "zip"}

\* The results file of a running session is exactly what the session holds in
\* memory: no second writer, no stale extraction and no torn tail of an earlier
\* kill is under the lines it appends.
FileIsMemory(w) ==
    pc[w] \in Running =>
        \/ results[w] = records[w]
        \/ pc[w] \notin Writing /\ results[w] = NoFile /\ records[w] = <<>>

\* The records a session holds are answers to distinct questions of its list,
\* all under its own configuration and from its own question source, whichever
\* session produced them.
RecordsOfOneRun(w) ==
    pc[w] \in Running =>
        /\ WellFormed(w, records[w])
        /\ \A i \in DOMAIN records[w] : /\ records[w][i].conf = conf[w]
                                        /\ records[w][i].src = src[w]

\* No answer is dropped, replaced or moved by a session: it extends the records
\* it restored.
ExtendsBase(w) ==
    pc[w] \in Running =>
        /\ Len(base[w]) <= Len(records[w])
        /\ \A i \in DOMAIN base[w] : records[w][i] = base[w][i]

\* Between an append and its manifest only, the two files disagree.
ManifestIsCurrent(w) ==
    pc[w] \in Running \ {"manifest"} =>
        \/ manifest[w] # NoFile /\ manifest[w].sha = results[w]
        \/ manifest[w] = NoFile /\ results[w] \in {NoFile, <<>>}

\* A manifest describes one run: well formed lines, all answered under its own
\* configuration and on its own question source.
CoherentManifest(w, m) ==
    /\ WellFormed(w, m.sha)
    /\ m.count = Len(m.sha)
    /\ \A i \in DOMAIN m.sha : m.sha[i].conf = m.conf /\ m.sha[i].src = m.src

\* An export loses nothing: either its manifest is coherent and describes the
\* results packed with it, or it holds no answer at all.
SoundExport(w, z) ==
    IF z.manifest # NoFile
    THEN z.results = z.manifest.sha /\ CoherentManifest(w, z.manifest)
    ELSE z.results \in {NoFile, <<>>}

\* The inductive invariant of a directory.
DirectoryInv(w) ==
    /\ FileIsMemory(w)
    /\ RecordsOfOneRun(w)
    /\ ExtendsBase(w)
    /\ ManifestIsCurrent(w)
    /\ manifest[w] # NoFile => CoherentManifest(w, manifest[w])
    /\ latestZip[w] # NoFile => SoundExport(w, latestZip[w])
================================================================================
