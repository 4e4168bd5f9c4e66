------------------------------ MODULE OfflineBuild -----------------------------
(***************************************************************************)
(* CompetitionOfflineBuildRuntime.build: five stages build the artifacts of *)
(* one root, validate them and record the stage in the build state.  The    *)
(* process can be killed between any two durable steps and started again,   *)
(* under another configuration, while the source is replaced underneath it  *)
(* or a published payload is damaged.  One process works on a root at a     *)
(* time.                                                                   *)
(***************************************************************************)
EXTENDS ArtifactStore, Sequences

CONSTANTS
    Successor,      \* [Revisions -> Revisions]: what a source is replaced by
    MaxFailures,    \* bound of this model: kills, failures and damage
    Torn            \* a file whose writing was interrupted

ASSUME BuildAssumption ==
    /\ Successor \in [Revisions -> Revisions]
    /\ MaxFailures \in Nat

Stages == 1..5      \* corpus, document_processing, bm25, vector, validation

\* What a stage produces, in the order it is published.
Items ==
    <<<<"normalized", "cleaned", "audit", "relationships", "graph">>,
      <<"blocks", "chunks">>, <<"bm25">>, <<"vector">>, <<>>>>

ItemsOf(s) == {Items[s][i] : i \in DOMAIN Items[s]}
StageOf == [a \in Artifacts |-> CHOOSE s \in Stages : a \in ItemsOf(s)]

VARIABLES
    pc, run, stage, todo, ingested,     \* the process
    source,         \* the revision the source path holds
    state,          \* competition_build_state.json
    leftover,       \* its first temporary file, in a root without a state
    dataset,        \* dataset_manifest.json
    audit,          \* corpus_audit.json
    report,         \* the build validation report
    art,            \* [Artifacts -> directory]
    damaged,        \* artifacts whose payload was altered after publication
    quiet,          \* no damage since the process started
    failures

process == <<pc, run, stage, todo, ingested>>
root == <<state, leftover, dataset, audit, report, art>>
world == <<source, damaged, quiet, failures>>
vars == <<process, root, world>>

Run == [config : Configs, revision : Revisions, through : Stages]
State == [config : Configs, revision : Revisions, recorded : 0..5]
Reports == {"valid", "invalid"}

\* The marks of a missing and of an interrupted file are no content.
ASSUME MarkAssumption ==
    /\ Missing # Torn
    /\ {Missing, Torn} \cap (Revisions \cup Reports) = {}
    /\ Missing \notin State \cup Revisions \X Configs
    /\ \A a \in Artifacts : Missing \notin Directory(a)

TypeOK ==
    /\ pc \in {"off", "pin", "inspect", "verify", "dataset", "datasetWrite", "open",
               "build", "moving", "check", "report", "reportWrite", "done"}
    /\ run \in Run /\ stage \in Stages
    /\ todo \in Seq(Artifacts \cup {"audit"})
    /\ ingested \in Revisions /\ source \in Revisions
    /\ state \in State \cup {Missing}
    /\ leftover \in BOOLEAN /\ quiet \in BOOLEAN
    /\ dataset \in Revisions \cup {Missing, Torn}
    /\ audit \in Revisions \cup {Missing}
    /\ report \in Reports \cup {Missing, Torn}
    /\ DOMAIN art = Artifacts
    /\ \A a \in Artifacts : art[a] \in Directory(a) \cup {Missing}
    /\ damaged \subseteq Artifacts
    /\ failures \in 0..MaxFailures

Init ==
    /\ pc = "off" /\ stage = 1 /\ todo = <<>>
    /\ source \in Revisions /\ ingested = source
    /\ run \in Run /\ run.revision = source /\ run.through = 5
    /\ state = Missing /\ leftover = FALSE
    /\ dataset = Missing /\ audit = Missing /\ report = Missing
    /\ art = [a \in Artifacts |-> Missing]
    /\ damaged = {} /\ quiet = TRUE /\ failures = 0
--------------------------------------------------------------------------------
(* build, _prepare_state, _complete_stage *)

Refuse == pc' = "off" /\ UNCHANGED <<run, stage, todo, ingested, root>>

Recorded == IF state = Missing THEN 0 ELSE state.recorded

\* Where a stage begins: a recorded one is only validated.
EntryOf(s, recorded) ==
    IF s = 5 THEN "report"
    ELSE IF s <= recorded THEN "check"
    ELSE IF s = 1 THEN "inspect" ELSE "open"

\* Fault: the configuration is not part of the identity of a build.
SameSource(r) == state.revision = r.revision
SameBuild(r) == state.revision = r.revision /\ state.config = r.config

Start(c, s) ==
    /\ pc = "off"
    /\ run' = [config |-> c, revision |-> source, through |-> s]
    /\ IF state # Missing
       THEN /\ SameBuild(run')
            /\ pc' = EntryOf(1, Recorded) /\ UNCHANGED leftover
       ELSE ~leftover /\ pc' = "pin" /\ leftover' = TRUE
    /\ stage' = 1 /\ todo' = <<>> /\ quiet' = TRUE
    /\ UNCHANGED <<ingested, state, dataset, audit, report, art, source, damaged, failures>>

Pin ==
    /\ pc = "pin"
    /\ state' = [config |-> run.config, revision |-> run.revision, recorded |-> 0]
    /\ leftover' = FALSE
    /\ pc' = "inspect"
    /\ UNCHANGED <<run, stage, todo, ingested, dataset, audit, report, art, world>>

\* Fault: a validated stage is appended whether it was recorded before or not.
RecordedAfterEvery(s) == Recorded + 1
RecordedAfter(s) == IF s <= Recorded THEN Recorded ELSE Recorded + 1

\* The stage is recorded if it was not, and the build goes on or returns.
Advance ==
    /\ state' = [state EXCEPT !.recorded = RecordedAfter(stage)]
    /\ IF stage = run.through THEN pc' = "done" /\ UNCHANGED stage
       ELSE stage' = stage + 1 /\ pc' = EntryOf(stage + 1, Recorded)
    /\ todo' = <<>>
    /\ UNCHANGED <<run, ingested, leftover, dataset, audit, report, art>>

\* Faults: chunks are taken as they are; so is the corpus.
StageValidWithoutDigests(s) ==
    /\ \A a \in ItemsOf(s) \ {"audit"} :
          IF s = 2 THEN Whole(art[a]) ELSE Loads(art[a], a \in damaged)
    /\ s = 1 => dataset = run.revision /\ audit = run.revision

StageValidAnyRevision(s) ==
    /\ \A a \in ItemsOf(s) \ {"audit"} : Loads(art[a], a \in damaged)
    /\ s = 1 => dataset \in Revisions /\ audit \in Revisions

\* The _validate_*_stage methods.
StageValid(s) ==
    /\ \A a \in ItemsOf(s) \ {"audit"} : Loads(art[a], a \in damaged)
    /\ s = 1 => dataset = run.revision /\ audit = run.revision

CheckStage ==
    /\ pc = "check"
    /\ IF StageValid(stage) THEN Advance ELSE Refuse
    /\ UNCHANGED world

Return ==
    /\ pc = "done"
    /\ Refuse /\ UNCHANGED world
--------------------------------------------------------------------------------
(* _build_corpus_stage, with the ingestor's two looks at the source *)

Inspect ==
    /\ pc = "inspect"
    /\ ingested' = source /\ pc' = "verify"
    /\ UNCHANGED <<run, stage, todo, root, world>>

Verify ==
    /\ pc = "verify"
    /\ IF source = ingested
       THEN pc' = "dataset" /\ UNCHANGED <<run, stage, todo, ingested, root>>
       ELSE Refuse
    /\ UNCHANGED world

\* Written in place: a kill leaves it torn.
Dataset ==
    /\ pc = "dataset"
    /\ \/ /\ dataset = Missing
          /\ dataset' = Torn /\ pc' = "datasetWrite"
          /\ UNCHANGED <<run, stage, todo, ingested, state, leftover, audit, report, art>>
       \/ /\ dataset = ingested
          /\ pc' = "build" /\ todo' = Items[1]
          /\ UNCHANGED <<run, stage, ingested, root>>
       \/ dataset \notin {Missing, ingested} /\ Refuse
    /\ UNCHANGED world

DatasetWritten ==
    /\ pc = "datasetWrite"
    /\ dataset' = ingested /\ pc' = "build" /\ todo' = Items[1]
    /\ UNCHANGED <<run, stage, ingested, state, leftover, audit, report, art, world>>

\* Replaced atomically; an existing one must be the same.
Audit ==
    /\ pc = "build" /\ todo # <<>> /\ Head(todo) = "audit"
    /\ IF audit \in {Missing, ingested}
       THEN /\ audit' = ingested /\ todo' = Tail(todo)
            /\ UNCHANGED <<pc, run, stage, ingested, state, leftover, dataset, report, art>>
       ELSE Refuse
    /\ UNCHANGED world
--------------------------------------------------------------------------------
(* The publication of one artifact *)

\* What the ingestor, the empty relationship mapping and the graph declare.
CorpusManifest(a) ==
    [revision |-> ingested, config |-> run.config, from |-> [i \in Inputs[a] |-> run.config]]

\* The later artifacts take revision and source hashes from the stored ones.
DerivedManifest(a) ==
    [revision |-> art[CHOOSE i \in Inputs[a] : TRUE].manifest.revision,
     config |-> run.config,
     from |-> [i \in Inputs[a] |-> art[i].manifest.config]]

ManifestOf(a) == IF stage = 1 THEN CorpusManifest(a) ELSE DerivedManifest(a)

\* The graph of the corpus stage is loaded, the others are compared as well.
Reusable(a) ==
    /\ Loads(art[a], a \in damaged)
    /\ a # "graph" => SameIdentity(art[a], ManifestOf(a))

Reuse(a) ==
    /\ pc = "build" /\ todo # <<>> /\ a = Head(todo)
    /\ art[a] # Missing
    /\ IF Reusable(a)
       THEN todo' = Tail(todo) /\ UNCHANGED <<pc, run, stage, ingested, root>>
       ELSE Refuse
    /\ UNCHANGED world

\* The vector index arrives by one rename (VectorBuild).
CreateDestination(a) ==
    /\ pc = "build" /\ todo # <<>> /\ a = Head(todo)
    /\ art[a] = Missing
    /\ IF a = "vector"
       THEN /\ art' = [art EXCEPT ![a] = [NewDirectory(ManifestOf(a)) EXCEPT !.files = Files]]
            /\ todo' = Tail(todo) /\ UNCHANGED pc
       ELSE /\ art' = [art EXCEPT ![a] = NewDirectory(ManifestOf(a))]
            /\ pc' = "moving" /\ UNCHANGED todo
    /\ UNCHANGED <<run, stage, ingested, state, leftover, dataset, audit, report, world>>

MoveFile(f) ==
    /\ pc = "moving"
    /\ f \notin art[Head(todo)].files
    /\ art' = [art EXCEPT ![Head(todo)] = WithFile(@, f)]
    /\ IF Whole(art'[Head(todo)]) THEN pc' = "build" /\ todo' = Tail(todo)
                                  ELSE UNCHANGED <<pc, todo>>
    /\ UNCHANGED <<run, stage, ingested, state, leftover, dataset, audit, report, world>>

\* A failing move takes the destination back.
MoveFails ==
    /\ pc = "moving"
    /\ failures < MaxFailures /\ failures' = failures + 1
    /\ art' = [art EXCEPT ![Head(todo)] = Missing]
    /\ pc' = "off"
    /\ UNCHANGED <<run, stage, todo, ingested, state, leftover, dataset, audit, report,
                   source, damaged, quiet>>

Built ==
    /\ pc = "build" /\ todo = <<>>
    /\ pc' = "check"
    /\ UNCHANGED <<run, stage, todo, ingested, root, world>>
--------------------------------------------------------------------------------
(* _build_document_stage, _build_bm25_stage, _build_vector_stage *)

\* What is streamed, payload verified, before anything is written.
Reads(s) == IF s = 2 THEN {"cleaned", "normalized"} ELSE {"chunks"}

\* Fault: blocks without chunks are taken for a finished stage.
ToBuildFromScratch(s) ==
    IF \E a \in ItemsOf(s) : art[a] # Missing THEN <<>> ELSE Items[s]

\* What of a later stage is not there: all of it, or the chunks of finished blocks.
ToBuild(s) ==
    IF \A a \in ItemsOf(s) : art[a] # Missing THEN <<>>
    ELSE IF art[Head(Items[s])] = Missing THEN Items[s]
    ELSE Tail(Items[s])

Open ==
    /\ pc = "open"
    /\ IF ToBuild(stage) = <<>>
       THEN pc' = "check" /\ UNCHANGED <<run, stage, todo, ingested, root>>
       ELSE IF /\ stage = 2 => ~(art["chunks"] # Missing /\ art["blocks"] = Missing)
               /\ \A a \in Reads(stage) \cup {b \in ItemsOf(stage) : art[b] # Missing} :
                     Loads(art[a], a \in damaged)
       THEN pc' = "build" /\ todo' = ToBuild(stage) /\ UNCHANGED <<run, stage, ingested, root>>
       ELSE Refuse
    /\ UNCHANGED world
--------------------------------------------------------------------------------
(* _validation_report: an existing report is trusted, a new one created *)

Report ==
    /\ pc = "report"
    /\ \/ /\ report = Missing
          /\ report' = Torn /\ pc' = "reportWrite"
          /\ UNCHANGED <<run, stage, todo, ingested, state, leftover, dataset, audit, art>>
       \/ report = "valid" /\ Advance
       \/ report \in {"invalid", Torn} /\ Refuse
    /\ UNCHANGED world

ReportWritten ==
    /\ pc = "reportWrite"
    /\ report' = IF ValidSet(art, damaged, dataset, run.config) THEN "valid" ELSE "invalid"
    /\ pc' = "report"
    /\ UNCHANGED <<run, stage, todo, ingested, state, leftover, dataset, audit, art, world>>
--------------------------------------------------------------------------------
(* The environment *)

\* A kill or an exception between two durable steps.
Kill ==
    /\ pc # "off"
    /\ failures < MaxFailures /\ failures' = failures + 1
    /\ Refuse
    /\ UNCHANGED <<source, damaged, quiet>>

Damage(a) ==
    /\ failures < MaxFailures /\ failures' = failures + 1
    /\ Whole(art[a]) /\ a \notin damaged
    /\ damaged' = damaged \cup {a} /\ quiet' = FALSE
    /\ UNCHANGED <<process, root, source>>

\* Bytes once replaced do not come back during a build.
ReplaceSource ==
    /\ Successor[source] # source
    /\ source' = Successor[source]
    /\ UNCHANGED <<process, root, damaged, quiet, failures>>

\* The operator removes what every later build refuses: an interrupted file or
\* a destination that lacks one.
ClearInterrupted ==
    /\ pc = "off"
    /\ art' = [a \in Artifacts |-> IF Whole(art[a]) THEN art[a] ELSE Missing]
    /\ dataset' = IF dataset = Torn THEN Missing ELSE dataset
    /\ report' = IF report = Torn THEN Missing ELSE report
    /\ leftover' = FALSE
    /\ <<art, dataset, report, leftover>>' # <<art, dataset, report, leftover>>
    /\ UNCHANGED <<process, state, audit, world>>
--------------------------------------------------------------------------------
Step ==
    \/ Pin \/ CheckStage \/ Return \/ Inspect \/ Verify \/ Dataset \/ DatasetWritten
    \/ Audit \/ Open \/ Built \/ Report \/ ReportWritten
    \/ \E a \in Artifacts : Reuse(a) \/ CreateDestination(a)
    \/ \E f \in Files : MoveFile(f)

Next ==
    \/ Step
    \/ \E c \in Configs, s \in Stages : Start(c, s)
    \/ MoveFails \/ Kill \/ ReplaceSource \/ ClearInterrupted
    \/ \E a \in Artifacts : Damage(a)

Spec == Init /\ [][Next]_vars

\* The scheduler runs the process; the operator clears what was interrupted and
\* runs every configuration to the end again and again.
FairSpec ==
    /\ Spec
    /\ WF_vars(Step)
    /\ SF_vars(ClearInterrupted)
    /\ \A c \in Configs : SF_vars(Start(c, 5))
--------------------------------------------------------------------------------
(* Properties *)

\* A build that returns success while nothing is damaged returns on artifacts
\* that load: a recorded stage is never reused on the word of the state alone.
SuccessIsVerified ==
    (pc = "done" /\ quiet) =>
        \A a \in Artifacts : StageOf[a] <= run.through => Loads(art[a], a \in damaged)

\* A completely recorded root holds one build: every artifact comes from the
\* pinned source revision under the pinned configuration, and the corpus is the
\* full one where that is required, whatever was started on the root or happened
\* to the source in between.
CompletedSetIsOneBuild ==
    Recorded = 5 =>
        /\ dataset = state.revision
        /\ state.config \in RequireFull => dataset \in FullCorpus
        /\ \A a \in Artifacts :
              /\ Whole(art[a])
              /\ art[a].manifest.revision = state.revision
              /\ art[a].manifest.config = state.config

\* The root keeps the promise of ArtifactLedger.
Pinned == IF state = Missing THEN Missing ELSE <<state.revision, state.config>>

Ledger == INSTANCE ArtifactLedger WITH
    Identities <- Revisions \X Configs,
    RevisionOf <- [i \in Revisions \X Configs |-> i[1]],
    Stages <- 5,
    Unset <- Missing,
    pinned <- Pinned,
    corpus <- IF dataset = Torn THEN Missing ELSE dataset,
    published <- {a \in Artifacts : Whole(art[a])},
    recorded <- Recorded

KeepsLedger == Ledger!Spec

\* What no kill alone can spoil: the root belongs to the present source, nothing
\* is damaged, and no invalid report was written.
Sane ==
    /\ state # Missing /\ state.revision = source
    /\ dataset \in {source, Missing, Torn}
    /\ state.config \in RequireFull => source \in FullCorpus
    /\ damaged = {} /\ report # "invalid"

\* A root that stays sane is completed, however its builds were interrupted.
SaneRootIsCompleted == <>[]Sane => <>(Recorded = 5)
================================================================================
