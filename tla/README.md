# TLA+ verification of legal-agentic-rag

Models, model-checking runs and machine-checked proofs about legal-agentic-rag: the long
runs that are cut by budgets, kills and lost machines and must be resumed without losing,
repeating or mixing anything (inference sessions, batches, builds), and the service they
feed, from the markup of a legal text to a verified answer.

Files: `*.tla` (specifications, `MC*` instances for TLC, `*Proofs` for TLAPS), `*.cfg`
(TLC configurations), `PROJECT.json` (components, runs, the map from definitions to
source lines, hazards, findings, theorems).

    tlc -workers 2 -config MCSingleSession.cfg MCSingleSession
    tlapm SingleSessionProofs.tla

## 1. The system

The package (`src/legal_agentic_rag`, 27k lines of Python) answers Vietnamese legal
questions from an indexed corpus and drives that over the 1000 questions of a
competition on rented notebook machines.

| Component | State it keeps | Operations | What is hard |
|---|---|---|---|
| Single-GPU session runner (`competition/uit_dsc_2026/public1000_session_runner.py`) | results JSONL, manifest, export archive in a working directory; records in memory | restore, answer loop, finalize, package | three durable writes per answer, kill between any two; archive extracted over a used directory; time budgets |
| Dual-GPU coordinator (`dual_session_runner.py`) | two worker directories, combined manifest, audit and export | restore, launch, monitor, collect, package | two processes, containment of failures, a manifest that lags the directories |
| Batch inference and submission (`batch_inference.py`, `submission.py`) | records, state and manifest files | run (resumable), build submission | kill between append and state, leftovers |
| Offline build (`runtime/competition_offline.py`, `artifact_store.py`, `build_validation.py`) | build state file, one directory per artifact | staged build, publish, validate | a kill between an artifact and its stage record, publication that is not atomic |
| Vector index (`indexing/vector/*`) | partial directory with matrix, chunk lines, checkpoint | checkpointed build, publish, load, search | resuming in the middle, torn tails |
| BM25 and graph indexes (`indexing/bm25/*`, `indexing/graph/*`) | SQLite file, adjacency lists | build, persist, load, search | publication, lifecycle of a backend |
| Document cleaning, parsing and chunking (`passage_cleaner.py`, `offline/*`) | none (pure) | clean, parse, chunk, validate | malformed markup, hierarchy, budgets |
| Retrieval and reranking (`retrieval/*`, `reranking/*`) | none (pure over backends) | fixed, hybrid, graph, multi-query, fusion, rerank | tie-breaking, bounds, deduplication |
| Agent workflow and tools (`agent/*`, `tools/*`) | attempt history, last response, context and grade | run: retrieve, grade, retry, generate, verify | stale state across attempts, stop reasons, retry rules |
| Answer generation and verification (`generation/*`) | none across calls; a lazily loaded model | generate, repair, fall back, verify | retry and fallback protocol |
| Online runtime and serving (`runtime/online.py`, `startup_validation.py`, `serving/*`) | loaded backends | start, answer | compatibility of artifacts, trust in a report |
| Evaluation (`evaluation/*`) | report files | run, compare, persist | all-or-nothing reports |
| Schemas, contracts, configuration | none | validation | - |

How they interact: the offline build turns the corpus into artifacts (documents, blocks,
chunks, BM25, vectors), each in a directory with a manifest; the online runtime loads
them and hands out an agent workflow, which invokes retrieval, grading, generation and
verification through the tool registry; a session runner (or the batch runner) calls
`runtime.answer` once per question and persists the result. The dual-GPU coordinator
starts two processes that each run a session runner; they share nothing but the disk:
the coordinator reads their directories after they exited. Calls are synchronous
everywhere else; concurrency is between the processes of a session, their heartbeat
thread, and with whatever kills them.

What makes each correct: the session runners must not lose, repeat or mix answers, must
export only what can be resumed from, must report completion only when it is one, and
must get there; the builds must publish each artifact once, whole and derived from the
recorded inputs, whatever interrupts them; the workflow must answer only with verified
citations of the evidence of the attempt it answers with, and must stop for the reason
it states; retrieval must return bounded, deduplicated, deterministic rankings.

## 2. Modules

| Module | Models |
|---|---|
| `SessionRunner` | one `Public1000SessionRunner` process per worker directory: types, state, actions, and the invariants of a directory |
| `SingleSession` | the single-GPU notebook run: one worker, the machine, the operator's archive, packaging |
| `DualSession` | the coordinator, two workers, the combined checkpoint, packaging |
| `AnswerLedger` | the promise of a batch directory: one owner, answers in order and never taken back, sealed when complete, submitted as sealed |
| `BatchInference` | `CompetitionBatchRunner` and the submission formatter on one directory; `KeepsLedger` instantiates `AnswerLedger` |
| `VectorArtifact` | the promise of a checkpointed vector build: claimed by one build, committed work kept, published once and whole |
| `VectorBuild` | `persist_vector_batches` fed by `VectorIndexBuilder`; `KeepsPromise` instantiates `VectorArtifact` |
| `ArtifactLedger` | the promise of an artifact root: pinned to one source and configuration, artifacts appear and stay, stages recorded in order |
| `ArtifactStore` | an artifact directory, its manifest, what a loader and the validator of a set accept |
| `OfflineBuild` | the five stages of `CompetitionOfflineBuildRuntime` on one root; `KeepsLedger` instantiates `ArtifactLedger` |
| `RuntimeStartup` | when `OnlineRuntimeFactory` starts a runtime on that root, in both startup modes |
| `LegalText` | tokens, lines and the helpers on sequences and sets the following modules share |
| `Cleaning`, `StructureParsing`, `Chunking` | markup to lines, lines to a hierarchy of blocks, blocks to chunks with search texts |
| `QueryPlanning`, `Retrieval` | analysis, variants and routes of a question; lexical, dense, hybrid, reranked and graph search |
| `EvidenceSelection`, `Grounding`, `AnswerGeneration` | context and its grade; claims, citations and the judge; the generator's attempts, repair, salvage and fallback |
| `AgentWorkflow` | one question through retrieval attempts, grading, generation and verification |
| `LegalService` | the composition: documents are processed, the graph is built, a runtime is loaded and answers question after question |
| `MC*` | small instances |
| `SessionRunnerProofs` | lemmas: how every action of a process changes the types and the directory invariant |
| `SingleSessionProofs`, `DualSessionProofs`, `VectorBuildProofs`, `BatchInferenceProofs`, `OfflineBuildProofs` | inductive invariants and theorems of the five systems |
| `CorpusProofs` | lemmas about making the corpus: helpers on orders, positions kept of a sequence and sums; what the cleaners keep of markup; the drafts and windows of the chunker; the block tree of the parser and the article of a line |
| `LegalServiceProofs` | what a search returns of a corpus and a context keeps of a search; the invariants of the build, of a run and of its material; the theorems of the service |

The modules compose in three ways. `SingleSession` and `DualSession` run the actions of
`SessionRunner` beside those of the machine or the coordinator. `RuntimeStartup` reads the
root that `OfflineBuild` writes. The service modules extend each other in the order data
flows: the corpus `LegalService` answers from is what `Cleaning`, `StructureParsing` and
`Chunking` made of its documents, and every search, context and answer of `AgentWorkflow`
is computed by the operators of the modules before it.

### SessionRunner

State, all functions on `Workers`: `pc` and the memory of the process (`conf`, `src`,
`budget`, `quota`, `records` = `existing_records`, `base` = what restore returned,
`status`), and the files `results`, `manifest`, `latestZip`. A SHA-256 is the content it
digests, so `manifest.sha = results` is the digest check of `restore_and_validate_checkpoint`,
and a manifest whose digest is out of date is one whose `sha` is an older content. A
record keeps the question id, the configuration and the question file it was answered
under, and one of `Answers`: provenance the JSON line does not carry but the properties
are about. The constants of the frozen authority (commits, model revisions, runtime
versions) do not vary inside the model and are left out, with the optional pointer to
the previous checkpoint, which no caller passes.

One action per durable write: `AnswerQuestion` (the appended, fsynced line, and the
record in memory), `PublishManifest` (replaced by rename), `RefreshZip` (replaced by
rename), `Finalize`. `Killed` stops a set of processes between any two of them; while a
line is being written it may leave it torn. The runtime is nondeterministic: it returns
any answer, and an exception is one of the answers because the code turns it into a
record. `AtBudgetEnd` and `WithinBudget` abstract the clock: before the first answer the
safety margin is exactly 450 s, so a session either always or never gets past it;
afterwards any latency, hence either outcome, is possible. `quota` is
`pending_items[:max_questions_in_session]`.

### SingleSession

`StartSession` is the execution cell (V4 cell 9): a new runner on the working directory,
always given the attached archive if there is one. `Extract` writes its members one by
one. `Package` is `package_final_submission`. `Download`, `NewMachine` and `LoseMachine`
are the operator and the platform. The archive of the machine (`attached`) and the one
in the operator's hands (`archive`) differ until the next machine: that is what makes
re-running a cell interesting.

`cuts` is a history variable: no action reads it, and the code has nothing like it. It counts the
kills that fell between a manifest and its export since the last export of the machine.
`run_session` refreshes the export after a manifest and at its end, never at a restore (302-343), so
each such kill leaves one more restored answer that is in the directory only; a kill at the next
append, before its manifest, then makes the restore refuse the directory (238), and with it these
answers. `OneAnswerAtRiskPerKill` says that no history puts more than that at risk: one answer being
published, and one per counted kill.

### DualSession

The coordinator's `cpc` follows `run_session`: extract, init (question files), validate,
launch, monitor, collect, zip. `Members` is the order in which `_refresh_combined_checkpoint_zip`
packs and `extractall` writes. `WorkerFailureSeen` and `WorkersFinished` are the exits of the
monitor loop; `Readable` is the two-level read-back (restore, else the raw lines). A
`Worker(w)` step is any `SessionStep` of that worker: the workers interleave freely with
each other and with failures. `CoordinatorKilled` takes the workers down with it, as a
kernel restart does to its process group. The heartbeat thread only reads and prints,
and the result queue repeats the exit code; both are left out.

### VectorBuild and VectorArtifact

`pc`, `build` (the identity `_manifest_identity` compares: everything in the manifest but
`created_at`), `cadence` (`checkpoint_interval_batches`), `offset` and `batches` are the process;
`partial` and `destination` are the two directories with their four files. A missing file or
directory is `Nothing`; a row is the embedding of one chunk by one build, or `Blank`; a line is a
chunk, or `Torn`. A digest is the content, and `chunks_byte_count` a number of lines: an offset
that splits a line is never written, because the offset is taken after the flush of whole lines.

`Start` to `FirstCheckpoint` follow `_prepare_vector_workspace`, `Resumable` collects every check
on the way to the batch loop, `WriteBatch` and the four ways out of the loop are its body,
`SyncPayload` and `PublishCheckpoint` are `_commit_vector_checkpoint`, and the tail is one action
per durable write. Writes are visible at once; `Crash` then takes back any subset of the rows and
any suffix of the lines after `synced`, with a torn line at the end, so a batch needs no finer
steps: what a kill in the middle of it leaves is among the outcomes. Losing a subset covers both
the kill (nothing lost that reached the kernel) and the loss of the machine. The code takes no
lock: there is one process per destination, which is how the offline build uses it.
Renames and the truncation on resume are taken to be durable once done, and the temporary file
of `_write_json_atomic`, which nothing reads, is left out. An exception of the provider or of the
checks on its batch is `EmbeddingFails`; an I/O error elsewhere has the outcomes of `Crash`.

`VectorArtifact` is what a reader of the build's documentation relies on: `Claim` (the first
checkpoint fixes whose destination it is), `Commit` (progress only grows, within distinct
chunks), `Publish` (the whole artifact in one step). The refinement mapping reads `owner` and
`committed` from the checkpoint until there is a destination, then from the destination.

### BatchInference and AnswerLedger

`pc`, `run` (source digest and configuration) and `records` are the process; `file`, `state`,
`manifest` the directory. `AnswerQuestion` is the append of a record and `RewriteState` the
rewrite of the recovery state, so a kill can fall between them; `KillInAppend` leaves what a
kill inside the append can leave. `Tails` names those outcomes: `batch_inference.py:126-127`
writes the record and its newline by two calls, and `_load_records` accepts a last line without
its newline, so `"unterminated"` is one of them. It is kept apart because it is a finding (run
`batch_newline`); without it every promise of the directory holds. `ended` remembers whether the
next append starts a new line. `Start` refuses another source or configuration, and a temporary
file of an interrupted first state makes it refuse for ever (`leftover`). `Format` is the
formatter with its own look at the sealed directory. A record is its question, the source it
was answered from and the configuration.

### OfflineBuild, ArtifactStore, ArtifactLedger

A root holds `state` (`competition_build_state.json`), the dataset manifest, the audit, the report
and eight artifact directories. A directory is the set of files that arrived in it and the
manifest it was staged with; a manifest is the source revision, the configuration that
produced it and the configurations its sources were produced under, which is what the hashes
stand for. `CreateDestination` and `MoveFile` are the publication file by file
(`artifact_store.py:133-137`); the vector index arrives by one rename, as `VectorBuild` shows.
`Start` compares the identity of the build; a stage that is recorded is only validated
(`EntryOf`, `CheckStage`), another one is built from what is missing (`ToBuild`) and reuses what
is there after loading it. The ingestor looks at the source twice (`Inspect`, `Verify`) and the
source can be replaced before, between and after. The environment kills, lets a move fail,
damages a payload, replaces the source, and the operator clears files a kill left behind,
which nothing in the code does. One process works on a root at a time, bytes of a source that
were replaced do not return during a build, and what was renamed stays renamed.

`RuntimeStartup` adds no state: a start only reads, so `Starts(c, mode)` is the condition on the
root under which it hands out a runtime, and the properties hold it against every state a build
can leave. `UsableBy` abstracts the agreement of two configurations on embedding provider,
analyzer, backends and artifact versions, which is all a start compares beyond lineage. The
approved dataset name is the only one in the model.

### The service

A text is a sequence of tokens (`LegalText`): words, numbers, negations, stop words, article and
document names. A line carries the marker it starts with, if any: the regular expressions that
recognise one are not modelled, what the parser does with it is. A source text is a sequence
of pieces, as the HTML parser hands them over, so that tags may be unbalanced.

`StructureParsing` keeps the stack of open levels that `structure_parser.py` keeps, `Chunking` the
packing of blocks into units, the windows of a long unit with their overlap, the context labels
and the validator, which may refuse. `Bm25Search` scores by the number of planned terms found
(the formula is SQLite's); `Similarity` is an external constant operator; fusion is in units in
which every contribution is an integer. The reranking model returns any of `ScoreSets`, or fails.

`AgentWorkflow` has one action per tool call. Its variables are those of the loop in
`agent/workflow.py`, with their survival across attempts: `found`, `evidence` and `missing` keep what
an earlier attempt left. The chat model returns any of `Completions` or an error; the judge
accepts, rejects or returns something malformed; a search may end in any of `RetrievalFaults`.
`AnswerGeneration` is the state machine of `model_generator.py`: corrections of malformed output,
retries, a repair, salvaged claims, a draft from the evidence.

`LegalService` processes one document per step, builds the graph (which refuses a relationship to
an unknown document), loads a runtime in one of several configurations and answers one question
after the other. `BuildAgain` starts over, with another library or budget, after a refusal.

## 3. Runs

| Run | Instance | Result |
|---|---|---|
| `single_session` | 2 questions, 2 configurations, 2 sources, 2 answers, caps 1 and 2, ample and short budgets, 2 failures; 1.6M states, counted kills (`cuts`) up to 2 | seven invariants hold |
| `single_liveness` | 3 questions, ample budget, 2 failures, fairness | `EventuallySubmitted`, `ExportsAreResumable` hold |
| `dual_session` | 3 questions (2 + 1), 2 configurations, caps 1 and 2, 2 failures, fairness; 0.7M states | six invariants and `SessionEnds` hold |
| `vector_build` | 5 builds of 4 or 5 chunks, batches of 2, cadences 1 and 2, 2 failures, fairness; 35k states | three invariants, the refinement and `BuildFinishes` hold |
| `offline_build` | 2 revisions, 2 configurations, 2 kills, failed moves or damages, one replaced source, fairness; 126k states | three invariants, the refinement and `SaneRootIsCompleted` hold |
| `batch_inference` | 2 files of 3 questions in different orders, 2 configurations, 3 failures, fairness | three invariants, the refinement and `ReadableBatchIsSubmitted` hold |
| `legal_service` | 2 libraries of 2 or 3 documents, 3 chunk budgets, 4 configurations, 4 questions; 15k states | eight invariants and `RunReturns` hold |
| `single_rerun` | as `single_session`, 1 configuration | `ExportOnlyGrows` is violated: a finding |
| `dual_failure_export` | 1 failure | `FailureExportsAreResumable` is violated: a finding |
| `dual_question_source` | 2 sources | `SubmissionAnswersItsQuestions` is violated: a finding |
| `batch_newline` | as `batch_inference`, a kill may fall before the newline | `CompletedBatchIsReadable` is violated: a finding |
| `cleaned_text` | a library with a page that leaves an end tag out | `VisibleTextIsRetained` is violated: a finding |

Bounds. Two questions are enough for an answer before and an answer after any event; the
third in the dual runs gives one worker an answer more than the other. Two
configurations and sources are the least that can be mixed. Two failures allow a failure
during the recovery from another. `MaxFailures` is the only bound in a guard; the
proofs hold for every value of it. Sessions, machines, downloads and packagings are not
bounded: they do not count anything. In the session runs deadlock is checked: the operator can
always start or replace something. A published vector artifact refuses every later build, so
there the system rightly stops and `vector_build` does not check for deadlock; nor do the
batch run (a sealed and submitted batch stops) and `offline_build` (a root with an invalid report
or a damaged payload refuses every build). Five chunks
in batches of two give two whole batches and a remainder, so that there are batches committed,
batches written and not committed, and a last commit that is not on the cadence. The five builds
are the sound one, the same source under another model, a source that repeats an id across
batches, and sources one shorter and one longer than their manifest says.

In `offline_build` the second configuration requires the full corpus and the source the first one
is replaced by is a sample, so that valid and invalid reports both happen; two failures are a kill
during the recovery from another, or a kill and a damage. In `batch_inference` the two files ask the
same ids in another order, the least that ids alone cannot tell apart; three failures allow a
torn line, a kill before the state and another kill.

In `legal_service` the documents cover every branch of the chain: a decree with preamble, chapter,
table, points, a bare heading and an appendix, an old one out of force without a number, and a page
with scripts; both HTML rules and passage rules; a relationship that leads to an unknown document.
The budgets are one everything fits in, one that cuts articles into windows, and one whose search
budget leaves no room for the label. The configurations are the extractive generator, a model
that only corrects, one with every recovery, and one that salvages claims. The questions take the
adaptive route by intent, a filter by document, a filter by status with a forced strategy, and
a question about the law out of force. The limits are at or below what the data reaches (three
candidates, two results, two pieces of evidence, two claims), so every truncation happens.
`MCStrategyOrder`, `Registered` and the 0/1 switches are one setting of the configuration; the modules
have the others.

Properties, and what each would catch:

- `SessionOwnsItsFile` / `WorkersOwnTheirFiles`: a second writer, a stale extraction or a
  torn tail under the lines a session appends.
- `SessionExtendsBase`: a question answered twice, a record dropped or moved, two runs mixed
  in a session.
- `ExportsAreSound`: an archive that pairs a manifest with results it does not digest.
- `OneAnswerAtRiskPerKill`: an export that falls behind the records of a session, restored or its
  own, by more than the answer being published and one for each kill that came between a manifest
  and its export.
- `SubmissionIsExact`: a submission with the answer of another question, configuration or
  (single-GPU) question file.
- `CompletionIsReal`: "READY FOR SUBMISSION PACKAGING" on something that does not package.
- `CleanExportsAreResumable`, `ReportedProgressIsDurable`: what a combined export claims
  against what is packed in it, when workers were stopped anywhere.
- `EventuallySubmitted`, `SessionEnds`, `BuildFinishes`: progress.
- `CheckpointIsResumable`: a checkpoint published before its lines are flushed, or that counts
  more or fewer than there are. It says what a restart looks at: lines, and the size of the matrix.
- `PublishedArtifactLoads`: a published directory with blank rows (the row check of the loader,
  `artifact_store.py:513-518`, is part of `Loadable`), repeated ids, or a manifest that does not digest it.
- `KeepsPromise`: rows of two builds in one matrix, chunks out of order, committed work lost, a
  second publication.
- `SuccessIsVerified`: a build that returns success on the word of its state file.
- `ServedSetIsOneBuild`: artifacts of two configurations or revisions under one root, a runtime that
  starts on a half-built or rejected set, a short start where no validation succeeded, a
  completed build no runtime starts from.
- `OfflineBuild!KeepsLedger`: a root that changes its identity, an artifact that disappears, a stage
  recorded before its artifacts.
- `SaneRootIsCompleted`: an interruption after which every later build refuses although nothing is
  wrong, or never records the last stage.
- `StateFollowsRecords`: a recovery state that runs ahead of the answers it stands for.
- `BatchInference!KeepsLedger`, `ReadableBatchIsSubmitted`: an answer taken back or given twice, a
  batch sealed early, a batch that never ends though its lines are readable.
- `ChunksKnowTheirArticle`: a cleaner that loses visible text, a parser that closes the wrong level,
  a packer or a window that loses words or gives them to another article.
- `OnlyTightBudgetsFail`: a chunker whose own validator refuses what it makes.
- `HitsRespectTheQuestion`: filters lost in the graph expansion, chunks twice, ranks with holes,
  paths that are no paths.
- `SufficientContextIsApplicable`: an answer generated from law out of force, or from another
  document or article than the one asked for.
- `VerifiedAnswerIsGrounded`: an answer that leaves as verified with a number or a negation its
  citations do not contain, through any of the recoveries.
- `RecoveredAnswerVerifies`: a recovery that produces what the verifier then rejects.
- `RunResultIsAligned`: variables of an earlier attempt in the result, an abstention called verified,
  a strategy tried twice.
- `RunReturns`: a loop of attempts, corrections, repairs and judgements that does not end.

Fairness. `SingleSession!FairSpec` gives weak fairness to the process (the scheduler runs
it) and strong fairness to the operator's four actions (the operator follows the banner:
downloads, creates a machine, runs the cell, packages, again and again); without the
operator nothing is ever submitted. Failures are not fair and are bounded.
`DualSession!FairSpec` is weak fairness of the coordinator and of each worker only. The
run's budgets are ample: with a budget below 450 s every session stops before its first
answer and no progress is possible.

`VectorBuild!FairSpec` is weak fairness of the running process and strong fairness of starting each
of the builds: whoever wants an index starts its build again after an interruption, whatever other
builds are started in between (a start is only possible while no process runs, hence strong). The
progress `BuildFinishes` promises is that of the build the workspace belongs to, because the others are
refused; and it is promised from the first checkpoint on, because a kill between `mkdir` and the
first checkpoint leaves a workspace that every later start refuses until somebody removes it
(`artifact_store.py:186-190`, 204). No document promises more.

`OfflineBuild!FairSpec` is weak fairness of the process, and strong fairness of the operator who
clears what was interrupted and starts each configuration through the last stage: without the
first a torn manifest stops every build, and a start is only possible between two builds. The
premise of `SaneRootIsCompleted` excludes what no build can repair: a source that changed, a damaged
payload, an invalid report. `BatchInference!FairSpec` is weak fairness of the process and strong
fairness of the operator's runs and of the formatter. `LegalService!FairSpec` says that a workflow
that has a next step does not stop; it is written out (infinitely often not at work, or
infinitely many steps of it) because the enabling condition of a whole question is too
large to evaluate at every state, and means the same as long as the workflow has no deadlock, which the
run checks.

Findings (each quoted in `PROJECT.json`):

1. A worker stopped between the append and the manifest makes the "failure checkpoint
   ready" export unresumable (`dual_session_runner.py:581-651`), although the
   documentation says it preserves all completed work.
2. The workers' question files outlive a change of the question file and the packaged
   submission is never compared with it (`dual_session_runner.py:262-268`, 683-731).
3. Re-running the execution cell replaces newer progress by the attached archive
   (`public1000_session_runner.py:195-199`), so exported questions are answered again.
4. A kill between a record and its newline (`batch_inference.py:126-127`) lets the resumed run append
   to the same line; the manifest then seals a file that can neither be loaded nor submitted.
5. The passage cleaner counts start and end tags inside an ignored subtree whatever their names
   (`passage_cleaner.py:107-110`, 149-150): one end tag left out there, as HTML allows, and the visible
   text after the subtree is dropped without an error.

## 4. Proofs

All by TLAPS, for every value of the constants the named assumptions allow; TLC evaluates every
one of them in the runs.

| Module | Assumption | What it says and why the code justifies it |
|---|---|---|
| sessions | `QuestionListAssumption`, `SessionParametersAssumption` | each worker's list has distinct ids (`_load_questions` refuses others); caps are naturals |
| | `MarkerAssumption`, `CombinedMarkerAssumption` | the values that stand for "no file" and "torn line" are no content |
| | `SoloAssumption`, `DualAssumption` | who the workers are; the question list is a sequence of distinct ids, dealt by parity |
| `VectorBuild` | `BuildAssumption`, `DamageAssumption` | types of the constants; a missing file, a torn line and a blank row are no content |
| `BatchInference` | `BatchAssumption`, `MarkerAssumption` | a question file is a non-empty list of distinct ids (a JSON object, refused when empty); as above |
| `OfflineBuild` | `BuildAssumption`, `StoreAssumption`, `StartupAssumption`, `MarkAssumption` | types of the constants; as above |
| service | `PlanningAssumption`, `RetrievalAssumption`, `EvidenceAssumption`, `GroundingAssumption` | the bounds the configuration classes validate; the tools registered are of the known strategies; the contribution of a rank to a fusion is an integer of `RrfUnit` |
| | `WorkflowAssumption` | a legal policy per configuration; texts of questions and of a completion's answer are sequences; limits are naturals; filters name a document field (`None` when unset); scores are integers |
| | `ServiceAssumption` | documents are distinct, names, sources and relationships are sequences, the pieces of a source carry what the marker patterns make of their text; a budget is legal (`ChunkingConfig`) and leaves room for a text beside the tokens the tokenizer adds, which refuses to split otherwise (`tokenizer.py:110-150`) |
| sessions, builds and batches | `FailureBoundAssumption` and its like | `MaxFailures` is a natural; nothing is assumed of its value |

Six theorems have a hypothesis of their own. Each is a boundary of the
code that TLC shows to be real, and the theorem says what holds on the right side of it:

- `CompletionIsComplete` assumes `0 \notin Caps`: `pending_items[:0]` is empty, and the code takes an
  empty list of pending questions for a finished one.
- `ExportsCanBeResumed` and `CleanExportsCanBeResumed` assume `"short" \notin Budgets`: a budget below the
  safety margin ends a session after `open(..., "a")` has created the results file and before the first
  answer has given it a manifest, and restore refuses that pair.
- `DualCompletionIsReal` assumes two questions at least: with one, worker 1 has nothing to do and no
  checkpoint to restore.
- `ArticlesAreKnown` assumes `ClearLibraries`, three conditions on the markup of the documents. Where
  something ignored meets its own end tag, everything opened in it has ended (`EndsTogether`): the cleaners
  count all tags (`passage_cleaner.py:107-110`, 149-150), and the run `cleaned_text` shows the text behind an end tag
  left out to be lost. A script without a tag holds code only up to the line that balances its braces
  (`ScriptsAreCode`, for the passage cleaner): `_remove_naked_script` drops whole lines. The lines tell their
  markers apart (`WellMarked`): a bare marker word is no other
  marker and a title no heading, which the patterns of the parser give, and the line behind a bare
  `PHỤ LỤC` is plain, which they do not: the number of an appendix is optional in its pattern
  (`structure_parser.py:78-82`), so whatever comes next is joined as its title (270-279), an article
  heading too, where `docs/08-DESIGN-DECISIONS.md:2002` lets a bare marker "join only its
  immediately following valid number line". `MCLegalService` has TLC evaluate three ASSUMEs about this:
  `LibrariesAreClear` for the libraries of the run, `TextIsLost` for the page with an end tag left out, and
  `HeadingIsTitle` for a decision whose article is lost behind such an appendix.
- `BatchKeepsLedger` assumes `"unterminated" \notin Tails`: a kill between a record and its newline is the
  finding of `batch_newline`. The other batch theorems hold with such kills.

The argument. `DirectoryInv(w)` is the invariant of one directory:

- a running session's file is its memory (`FileIsMemory`), its records are well formed and of
  one run (`RecordsOfOneRun`), they extend the restored ones (`ExtendsBase`);
- the manifest is current except between an append and its publication (`ManifestIsCurrent`);
- every manifest, wherever it came from, is coherent *by itself* (`CoherentManifest`: its digest
  stands for well formed lines of its own configuration and source), and every export is
  sound.

The last clause is the strengthening. A directory at rest may hold any pair of results and
manifest (a torn line, half an extraction, two different archives), so no relation between the
two files is invariant; but restore accepts only results with the manifest's digest, and a
coherent manifest then vouches for them. `SessionRunnerProofs` shows, action by action, that a
step of a process keeps the types and its own `DirectoryInv` and leaves other directories
alone. `SingleSessionProofs` adds sound archives and the submission. `DualSessionProofs` adds
`Supervised`: workers are alive only under the monitor, so extraction, validation, counting and
packing all see directories at rest, and that between counting and packing the combined
manifest counts the files on the disk.

Three more invariants carry the remaining theorems of a session. `RiskInv`: beside the property itself,
the records the manifest digests are in the machine's archives but for one per counted kill, because they are what
the next session resumes from; an extracted manifest digests the results beside it in the attached archive.
`CompletesItsList`: `ALL_QUESTIONS_COMPLETED` is set when no question is pending, and
`FirstUnanswered` shows that then every question has a record. `OpenedIsAnswered` follows the results file from
its creation to the first answer, the only time it has no manifest. For two workers `SupervisionInv` adds
what the coordinator relies on without looking: a worker it launched runs on the coordinator's configuration and
its own question file and, when done, has left a checkpoint (`RunsOnItsFiles`); a clean collection has two
such workers; the counts in the combined manifest are those of the files on the disk (`Report`). Completion is
then a matter of counting: the coordinator compares the sum of two counts with `Len(Questions)`; no worker
holds more than its own part (`DirectoryCount`), the parts add up (`PartitionsAddUp`), so a full sum makes both
parts full. `OpenedInv` carries `OpenedIsAnswered` through a session of two workers.

Where an argument needs "the first position that ...", a lemma like `LeastNumber` gives it: every non-empty
set of naturals has a least element. It follows from the library's first-order theorem on intervals and
replaces induction over sequences, whose library form takes an operator as a parameter. `NumberInduction`
draws from it induction for a set of numbers, which is enough for the bounded rounds of the graph expansion
(`Traverse`, a recursive function) and for the selection of evidence one candidate after the other (`Selected`).

`VectorBuildProofs` has an invariant in four parts. `CheckpointInv`: a checkpoint counts at most
`synced` rows, its build's first chunks are distinct, and rows and lines hold them. `PreparationInv`:
what the first steps have written. `WorkInv`: the running process's `offset` counts the rows and
lines it wrote, `synced` equals it wherever a checkpoint is about to be written. `DestinationInv`: a
destination is whole and there is no workspace beside it. The properties are not inductive
without them: that a checkpoint is resumable after a crash needs that its rows were flushed, and
that what is published is whole needs the content of every row written since the workspace was
made, by whichever process. The refinement follows step by step: the first checkpoint is
`Claim`, later ones `Commit`, the rename `Publish`, everything else a stutter (`KeepsCommitted`).
Assumptions: `BuildAssumption` (types of the constants) and `DamageAssumption` (the marks of a missing
file, a torn line and a blank row are no content).

The invariant of `BatchInferenceProofs` has six parts. `OwnerInv`: the state is the first durable thing and
binds every later run. `StateInv`: it names the first questions of its source. `FileInv`: the lines of a readable
file are the first answers of that run, at most one more than the state names. `WorkInv`: a process that
answers holds these lines in memory. `SealInv` and `SubmissionInv`: a sealed batch is complete and at rest, a
submission repeats it. They speak of readable files only, because a batch with a torn line can be neither
continued nor sealed; so the three invariants hold whatever a kill leaves. The refinement also needs
`TailInv` (a last line without its newline does not parse), the part a kill before the newline breaks.

That of `OfflineBuildProofs` has seven. `ProcessInv`: a build works for the identity of the root, one stage
after the recorded ones at most. `RootInv`: a root without a state is empty. `ArtifactInv`: every directory,
whole or not, was staged from the ingested revision under the configuration of the root, in a stage that was
begun. `RecordInv`: a recorded stage has its artifacts whole. `BuildInv`: what a running stage has published is a
prefix of its products. `ReportInv`: an approving report stands on a whole set of one revision. `QuietInv`: while
nothing is damaged, what a build validated still loads. None of the properties is inductive alone: what a
build returns rests on what earlier builds recorded, which rests on what was published before it was
recorded, which a kill can leave half done at any file.

Theorems, each stating a property some run checks unless it says otherwise:

- `SingleSession`: `TypeCorrect`, `OwnsItsFile`, `ExtendsItsBase`, `SoundExports`, `ExactSubmission`,
  `OneIsAtRiskPerKill`, `CompletionIsComplete`, `ExportsCanBeResumed`: every safety property of the runs;
- `DualSession`: `DualTypeCorrect`, `DualOwnTheirFiles`, `DualReportsDurable`, `DualExactSubmission`,
  `DualCompletionIsReal`, `CleanExportsCanBeResumed`: every safety property of the runs;
- `VectorBuild`: `VectorTypeCorrect`, `CheckpointsAreResumable`, `PublishedArtifactsLoad` and the refinement
  `BuildKeepsPromise`;
- `BatchInference`: `BatchTypeCorrect`, `BatchStateFollowsRecords`, `BatchSubmissionIsExact` and the refinement
  `BatchKeepsLedger`;
- `OfflineBuild` and `RuntimeStartup`: `BuildTypeCorrect`, `BuildSuccessIsVerified`, `ServedIsOneBuild` and the
  refinement `BuildKeepsLedger`.

- `LegalService`: `TypesAreRespected`, `OnlyTightBudgetsEndBuilds`, `ArticlesAreKnown`, `ResultsAreAligned`,
  `SearchesRespectTheQuestion`, `ContextsAreApplicable`, `RecoveryIsNeverInVain`, `VerifiedAnswersAreGrounded`:
  every safety property of its run.

Making the corpus. The cleaners, the parser, the chunker and the helpers they use are loops; the modules write them as
recursive functions of the number of pieces, lines, blocks, units or context lines read so far, and
`InductionUpTo`, induction for a set of numbers up to a bound, carries an invariant through each (`LoopExists`
says that the function satisfies its equation). What they keep:

- `LevelIs`, `VisibleIsSeen`: the depth an HTML parser keeps is at most the number of elements open since
  the last ignored one began, so when each ignored element `EndsTogether` with its contents, the depth
  is 0 again by the time a text is visible by the markup;
- `VisiblePartsAre`, `RemoveNakedScriptIs`, `NoticeFreeIs`, `NormalizeTextIs`: each step of a cleaner keeps every piece with
  visible text, as it was, and `CleanedLinesAre` composes them: a visible word of the source is in a cleaned line;
- `SplitIs`: the windows of a text are non-empty, within `max_tokens`, and every token is in one;
- `PathIs`, `SubtreeIs`, `ArticleUnitsAre`: in a tree written in order, where a block's parent comes before it
  and all that is between them is below the parent (`AreNested`), a subtree is a run of blocks, and the units of an
  article are its subtree, cut without a gap;
- `AddUnitIs`, `AddBlockIs`: at every block the drafts made so far are sound one by one (`IsDraft`: within
  the budget, with the text of their sources or a window of it), no two have the same id, and drafts, waiting
  headings and pending units together draw each block read so far exactly once (`DraftsAre`);
- `NothingIsWrong`: such drafts pass every check of the validator, with `SearchFits` for the search text, which is
  the one check that can fail, and only under a budget without room for the label;
- `ParseLineIs`, `ParserStepIs`: after every line the open levels are ascending, each on the path of the one
  below it, the innermost block of the last level is the last one written, and the article open is the one
  `GoverningArticle` finds in the text alone (`IsReader`, `HasParsed`); the parser reads one to three lines at once, so the
  invariant also says where it may stop;
- `ChunkDocumentIs` joins both: the chunk of a draft has the article of its blocks, because the blocks of a draft
  are in one article or in none (`BeneathArticle`, `AggregateNames`).

`BuildInv` then follows the build: the corpus is a list of chunks numbered by position, every document
processed is known to it (`CorpusKnows`, which only grows until a build begins again), and a build has failed
for a tight budget or a refused relationship only. `BuildInv` needs no similarity and no run of a question.

The service. `ServiceInv` has two halves. `RunInv` follows a question through the workflow: the
counters stay within the retries (`WithinLimits`), the history repeats the planned routes one by one
(`HistoryFollowsRoutes`), and an answer, wherever it is in its making, is by the strategy of the
attempt under way and cites its evidence only (`AnswerIsOfAttempt`). `MaterialInv` follows what it is
made of: the corpus is a list of chunks numbered by position (`BuildIsCorpus`), the last response was
found in it for the question (`SearchIsOfQuestion`), the context was selected from that response and
weighed against the question, and lacks nothing once the grade lets it through
(`ContextIsOfSearch`). Both halves are about the workflow's variables between two calls, which is where
the code could mix attempts: `latest_response`, `latest_context` and `latest_grade` outlive the iteration
that set them. No property is inductive alone: a verified answer says nothing of the search behind
its evidence, and a sufficient context nothing of the answer.

The steps rest on one lemma per stage. `SearchIsFinding`: every strategy, with any routes, variants,
reranking scores or graph expansion, returns chunks of the corpus, once each, within filters and
limit, a related one with a path. `ContextIsOfHits`: selection keeps chunks of the hits only, weighed
for the question. `CompletionIsProper`: whatever a provider returns, the generator's next state is a
proper one, and what it returns is cited from the evidence by this strategy. Three more carry the
last theorems: `SufficientLacksNothing` reads a grade as facts about the evidence,
`QuotationVerifies` shows that a quotation of such evidence passes the verifier, which is what the last
fallback returns; `SynthesisIsGrounded` takes an answer the verifier accepts apart, claim by claim, down
to the terms of the chunks a sentence cites.

The theorems about answers but `ResultsAreAligned` assume `SimilarityIsNumber`: the similarity of a text and a
chunk, an external function, is an integer (the code gets a finite float from the embedding backend). It is
the one assumption TLC does not evaluate, since it ranges over every text. `VerifiedAnswersAreGrounded`
assumes the claim verifier with its numbers and negation rules on, which is the default of the
configuration and what the property is about; with a rule off the code promises nothing of the kind.

Only model-checked:

- everything under fairness: `EventuallySubmitted`, `SessionEnds`, `BuildFinishes`, `SaneRootIsCompleted`,
  `ReadableBatchIsSubmitted`, `RunReturns`;
- the five violations, which are counterexamples.

## 5. Plan

Written, in this order: the single session and its proofs, the dual sessions, the vector build with its
promise, the batch and its ledger, the offline build with the startup that reads its root, the service
from markup to verified answer, and the proofs of each. The order was that of the damage a fault does
unseen: lost or mixed answers first, then artifacts, then the answers themselves.

Next, most important first:

1. the loader of the vector index with its serving metadata (`indexing/vector/serving_metadata.py`): which
   digests a start with a sidecar trusts, beside `RuntimeStartup`; its safety follows `ServedIsOneBuild`;
2. `FixedRAGService` (`generation/service.py`), one attempt of the workflow without retries, as a
   second user of `EvidenceSelection` and `AnswerGeneration`;
3. orphaned workers: a coordinator that dies alone while its workers go on, with a second pair on the
   same directories. It breaks the premise of `WorkersOwnTheirFiles`, that one process writes a
   directory, and needs a worker's actions twice per directory.

## 6. Not modelled

`PROJECT.json` lists every component with its status. Left out for good: the regular expressions
of markers, prompts, scoring formulas (BM25, embeddings), HTTP and UI, argument parsing, logging
and telemetry, model inference itself, the competition's metrics, evaluation reports (numbers over
finished answers), notebooks and scripts other than the cells that run the sessions. Inside
the modelled components:

- Sessions: the journal and audit files (written, never read to decide anything), the optional
  previous-checkpoint pointer, orphaned workers of a coordinator that dies alone, question
  files with repeated ids, failures of the disk itself other than a process stopping between two
  writes.
- Batches and builds: a second process on the same directory (the code takes no lock), power loss,
  the wording of rendered answers, quality issues of a report.
- Startup: serving metadata. With a sidecar beside the vector index a full start digests the vectors
  and the sidecar but not the chunk lines themselves (`indexing/vector/artifact_store.py:491-499`), so
  `ServedSetIsOneBuild` says nothing about such a start. The loading of models is not modelled.
- Service: the HTML cleaner is used by the parser's callers, not by the competition build, whose
  texts go through the passage cleaner; the model lets each document name its cleaner. Character
  offsets, parsing issues, retrieval warnings and traces are left out. `FixedRAGService`, the alternative to the workflow with one fixed strategy, is
  not modelled. Chat providers are what their callers see of them.
