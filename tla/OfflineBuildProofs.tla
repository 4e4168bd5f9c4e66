--------------------------- MODULE OfflineBuildProofs ---------------------------
(***************************************************************************)
(* The inductive invariant of OfflineBuild, and from it: type correctness,  *)
(* verified success, one build behind whatever a runtime starts on, and the *)
(* refinement of ArtifactLedger.                                            *)
(***************************************************************************)
EXTENDS RuntimeStartup, SequenceTheorems, TLAPS

\* The products of stage s from the k-th on, and those before it published.
From(s, k) == SubSeq(Items[s], k, Len(Items[s]))
Published(s, k) == \A i \in 1..k - 1 : Items[s][i] # "audit" => Whole(art[Items[s][i]])

StageOne == {"inspect", "verify", "dataset", "datasetWrite"}
Building == {"build", "moving"}

\* The process works for the identity of the root, one stage after the recorded
\* ones at most.
ProcessInv ==
    /\ pc = "pin" => state = Missing
    /\ pc # "off" => stage <= run.through
    /\ pc \notin {"off", "pin"} =>
          /\ state # Missing
          /\ run.config = state.config /\ run.revision = state.revision
          /\ stage <= Recorded + 1
    /\ pc \in StageOne \cup {"pin"} => stage = 1
    /\ pc = "open" => stage \in 2..4
    /\ pc \in Building \cup {"check"} => stage \in 1..4
    /\ pc \in {"report", "reportWrite"} => stage = 5
    /\ pc = "datasetWrite" => dataset = Torn
    /\ pc = "reportWrite" => report = Torn
    /\ pc = "done" => stage = run.through

\* A root without a state is empty.
RootInv ==
    state = Missing =>
        /\ dataset = Missing /\ report = Missing
        /\ \A a \in Artifacts : art[a] = Missing

\* Every directory, whole or not, comes from the ingested revision under the
\* configuration of the root, in a stage that was begun.
ArtifactInv ==
    \A a \in Artifacts : art[a] # Missing =>
        /\ state # Missing /\ dataset \in Revisions
        /\ StageOf[a] <= Recorded + 1
        /\ art[a].manifest.revision = dataset
        /\ art[a].manifest.config = state.config
        /\ \A i \in Inputs[a] : art[a].manifest.from[i] = state.config

\* What a recorded stage vouches for.
RecordInv ==
    /\ \A a \in Artifacts : StageOf[a] <= Recorded => Whole(art[a])
    /\ Recorded >= 1 => dataset = state.revision
    /\ Recorded = 5 => report = "valid"

\* How far the products of a stage are.
BuildInv ==
    pc \in Building =>
        /\ dataset \in Revisions /\ (stage = 1 => dataset = ingested)
        /\ \E k \in 1..Len(Items[stage]) + 1 :
              /\ todo = From(stage, k)
              /\ Published(stage, k)
              /\ pc = "moving" =>
                   /\ k <= Len(Items[stage]) /\ Items[stage][k] # "audit"
                   /\ art[Items[stage][k]] # Missing /\ ~Whole(art[Items[stage][k]])

\* What an approving report vouches for.
ReportInv ==
    report = "valid" =>
        /\ \A a \in Artifacts : Whole(art[a])
        /\ dataset = state.revision
        /\ state.config \in RequireFull => dataset \in FullCorpus

\* While nothing is damaged, what the process validated stays as it was.
QuietInv ==
    (quiet /\ pc # "off") =>
        \A a \in Artifacts :
            (StageOf[a] < stage \/ (pc = "done" /\ StageOf[a] = stage)) =>
                Loads(art[a], a \in damaged)

IInv ==
    /\ TypeOK /\ ProcessInv /\ RootInv /\ ArtifactInv /\ RecordInv
    /\ BuildInv /\ ReportInv /\ QuietInv
--------------------------------------------------------------------------------
(* The constant structure: stages, products, inputs *)

LEMMA ItemsLen ==
    /\ Len(Items[1]) = 5 /\ Len(Items[2]) = 2 /\ Len(Items[3]) = 1
    /\ Len(Items[4]) = 1 /\ Len(Items[5]) = 0
BY DEF Items

LEMMA ItemsAre ==
    /\ Items[1] = <<"normalized", "cleaned", "audit", "relationships", "graph">>
    /\ Items[2] = <<"blocks", "chunks">>
    /\ Items[3] = <<"bm25">>
    /\ Items[4] = <<"vector">>
    /\ Items[5] = <<>>
BY DEF Items

LEMMA ItemsOfAre ==
    /\ ItemsOf(1) = {"normalized", "cleaned", "audit", "relationships", "graph"}
    /\ ItemsOf(2) = {"blocks", "chunks"}
    /\ ItemsOf(3) = {"bm25"}
    /\ ItemsOf(4) = {"vector"}
    /\ ItemsOf(5) = {}
<1>1. ItemsOf(1) = {"normalized", "cleaned", "audit", "relationships", "graph"}
  BY ItemsAre DEF ItemsOf
<1>2. ItemsOf(2) = {"blocks", "chunks"}
  BY ItemsAre DEF ItemsOf
<1>3. ItemsOf(3) = {"bm25"} /\ ItemsOf(4) = {"vector"}
  BY ItemsAre DEF ItemsOf
<1>4. ItemsOf(5) = {}
  BY ItemsAre DEF ItemsOf
<1> QED
  BY <1>1, <1>2, <1>3, <1>4

LEMMA StageOfIs ==
    /\ \A a \in {"normalized", "cleaned", "relationships", "graph"} : StageOf[a] = 1
    /\ \A a \in {"blocks", "chunks"} : StageOf[a] = 2
    /\ StageOf["bm25"] = 3 /\ StageOf["vector"] = 4
<1>1. \A a \in Artifacts : StageOf[a] = CHOOSE s \in Stages : a \in ItemsOf(s)
  BY DEF StageOf
<1>2. \A s \in Stages : s \in {1,2,3,4,5}
  BY DEF Stages
<1>3. \A a \in {"normalized", "cleaned", "relationships", "graph"} : StageOf[a] = 1
  BY <1>1, <1>2, ItemsOfAre DEF Artifacts, Stages
<1>4. \A a \in {"blocks", "chunks"} : StageOf[a] = 2
  BY <1>1, <1>2, ItemsOfAre DEF Artifacts, Stages
<1>5. StageOf["bm25"] = 3
  BY <1>1, <1>2, ItemsOfAre DEF Artifacts, Stages
<1>6. StageOf["vector"] = 4
  BY <1>1, <1>2, ItemsOfAre DEF Artifacts, Stages
<1> QED
  BY <1>3, <1>4, <1>5, <1>6
LEMMA StageOfRange == \A a \in Artifacts : StageOf[a] \in 1..4
BY StageOfIs DEF Artifacts

LEMMA ItemsTyped ==
    ASSUME NEW s \in 1..4
    PROVE  /\ Items[s] \in Seq(Artifacts \cup {"audit"})
           /\ Len(Items[s]) \in Nat \ {0}
           /\ \A k \in 1..Len(Items[s]) :
                 /\ Items[s][k] \in Artifacts \cup {"audit"}
                 /\ Items[s][k] # "audit" => StageOf[Items[s][k]] = s
           /\ \A k \in 1..Len(Items[s]) : Items[s][k] = "audit" => s = 1
<1>1. CASE s = 1
  <2>1. Items[1] \in Seq(Artifacts \cup {"audit"})
    BY ItemsAre DEF Artifacts
  <2>2. ASSUME NEW k \in 1..5
        PROVE  /\ Items[1][k] \in Artifacts \cup {"audit"}
               /\ Items[1][k] # "audit" => StageOf[Items[1][k]] = 1
    BY ItemsAre, StageOfIs DEF Artifacts
  <2> QED
    BY <1>1, <2>1, <2>2, ItemsLen
<1>2. CASE s = 2
  <2>1. Items[2] \in Seq(Artifacts \cup {"audit"})
    BY ItemsAre DEF Artifacts
  <2>2. ASSUME NEW k \in 1..2
        PROVE  Items[2][k] \in Artifacts /\ Items[2][k] # "audit" /\ StageOf[Items[2][k]] = 2
    BY ItemsAre, StageOfIs DEF Artifacts
  <2> QED
    BY <1>2, <2>1, <2>2, ItemsLen
<1>3. CASE s = 3
  BY <1>3, ItemsAre, ItemsLen, StageOfIs DEF Artifacts
<1>4. CASE s = 4
  BY <1>4, ItemsAre, ItemsLen, StageOfIs DEF Artifacts
<1> QED
  BY <1>1, <1>2, <1>3, <1>4

LEMMA InputsTyped ==
    ASSUME NEW a \in Artifacts
    PROVE  Inputs[a] \subseteq Artifacts /\ (StageOf[a] # 1 => Inputs[a] # {})
BY StageOfIs DEF Inputs, Artifacts

\* An artifact is published after what it is derived from.
LEMMA InputsComeFirst ==
    ASSUME NEW s \in 1..4, NEW k \in 1..Len(Items[s]), Items[s][k] # "audit",
           NEW i \in Inputs[Items[s][k]]
    PROVE  StageOf[i] < s \/ \E j \in 1..k - 1 : Items[s][j] = i
<1>1. CASE s = 1
  <2>1. k \in 1..5
    BY <1>1, ItemsLen
  <2>2. CASE k = 1
    BY <1>1, <2>2, ItemsAre DEF Inputs, Artifacts
  <2>3. CASE k \in {2, 4}
    <3>1. i = "normalized" /\ Items[1][1] = i /\ 1 \in 1..k - 1
      BY <1>1, <2>3, ItemsAre DEF Inputs, Artifacts
    <3> QED
      BY <3>1, <1>1
  <2>4. CASE k = 5
    <3>1. /\ i \in {"normalized", "relationships"}
          /\ Items[1][1] = "normalized" /\ Items[1][4] = "relationships"
      BY <1>1, <2>4, ItemsAre DEF Inputs, Artifacts
    <3> QED
      BY <3>1, <1>1, <2>4
  <2> QED
    BY <1>1, <2>1, <2>2, <2>3, <2>4, ItemsAre
<1>2. CASE s = 2
  <2>1. k \in 1..2
    BY <1>2, ItemsLen
  <2>2. CASE k = 1
    <3>1. i = "cleaned"
      BY <1>2, <2>2, ItemsAre DEF Inputs, Artifacts
    <3> QED
      BY <3>1, <1>2, StageOfIs
  <2>3. CASE k = 2
    <3>1. i \in {"blocks", "normalized"} /\ Items[2][1] = "blocks"
      BY <1>2, <2>3, ItemsAre DEF Inputs, Artifacts
    <3> QED
      BY <3>1, <1>2, <2>3, StageOfIs
  <2> QED
    BY <2>1, <2>2, <2>3
<1>3. CASE s \in {3, 4}
  <2>1. k = 1
    BY <1>3, ItemsLen
  <2>2. i = "chunks"
    BY <1>3, <2>1, ItemsAre DEF Inputs, Artifacts
  <2> QED
    BY <1>3, <2>2, StageOfIs
<1> QED
  BY <1>1, <1>2, <1>3

LEMMA EveryArtifactIsAnItem ==
    ASSUME NEW a \in Artifacts
    PROVE  a \in ItemsOf(StageOf[a]) \ {"audit"}
BY ItemsOfAre, StageOfIs DEF Artifacts

LEMMA FromProperties ==
    ASSUME NEW s \in 1..4, NEW k \in 1..Len(Items[s]) + 1
    PROVE  /\ From(s, k) \in Seq(Artifacts \cup {"audit"})
           /\ From(s, k) = <<>> <=> k = Len(Items[s]) + 1
           /\ k <= Len(Items[s]) => /\ Head(From(s, k)) = Items[s][k]
                                    /\ Tail(From(s, k)) = From(s, k + 1)
           /\ From(s, 1) = Items[s]
<1>1. Items[s] \in Seq(Artifacts \cup {"audit"}) /\ Len(Items[s]) \in Nat
  BY ItemsTyped
<1>2. \A i \in k..Len(Items[s]) : Items[s][i] \in Artifacts \cup {"audit"}
  BY ItemsTyped, SMTT(40)
<1>3. /\ From(s, k) \in Seq(Artifacts \cup {"audit"})
      /\ Len(From(s, k)) = IF k <= Len(Items[s]) THEN Len(Items[s]) - k + 1 ELSE 0
  BY <1>1, <1>2, SubSeqProperties DEF From
<1>4. From(s, k) = <<>> <=> k = Len(Items[s]) + 1
  BY <1>1, <1>3, EmptySeq
<1>5. k <= Len(Items[s]) => /\ Head(From(s, k)) = Items[s][k]
                            /\ Tail(From(s, k)) = From(s, k + 1)
  <2> SUFFICES ASSUME k <= Len(Items[s])
               PROVE  /\ Head(From(s, k)) = Items[s][k]
                      /\ Tail(From(s, k)) = From(s, k + 1)
    OBVIOUS
  <2>1. k \in 1..Len(Items[s]) /\ Len(Items[s]) \in k..Len(Items[s])
    BY <1>1
  <2> QED
    BY <1>1, <2>1, HeadTailOfSubSeq DEF From
<1>6. From(s, 1) = Items[s]
  BY <1>1, SubSeqFull DEF From
<1> QED
  BY <1>3, <1>4, <1>5, <1>6
--------------------------------------------------------------------------------
(* Every action keeps the invariant *)

\* The parts of the invariant that speak of the root only.
RestInv == RootInv /\ ArtifactInv /\ RecordInv /\ ReportInv

LEMMA RestKeeps ==
    ASSUME RestInv, UNCHANGED <<state, dataset, report, art>>
    PROVE  RestInv'
BY DEF RestInv, RootInv, ArtifactInv, RecordInv, ReportInv, Recorded, Whole

LEMMA RecordedTyped ==
    ASSUME TypeOK
    PROVE  Recorded \in 0..5 /\ (state # Missing => state \in State /\ Recorded = state.recorded)
BY DEF TypeOK, Recorded, State

LEMMA InitKeeps == Init => IInv
<1> SUFFICES ASSUME Init PROVE IInv
  OBVIOUS
<1>1. <<>> \in Seq(Artifacts \cup {"audit"}) /\ 0 \in 0..MaxFailures /\ 1 \in Stages
  BY BuildAssumption, EmptySeq DEF Stages
<1>2. TypeOK
  BY <1>1 DEF Init, TypeOK
<1>3. ProcessInv /\ BuildInv /\ QuietInv
  BY DEF Init, ProcessInv, BuildInv, QuietInv, StageOne, Building
<1>4. RecordInv
  BY StageOfRange DEF Init, RecordInv, Recorded
<1>5. RootInv /\ ArtifactInv /\ ReportInv
  BY MarkAssumption DEF Init, RootInv, ArtifactInv, ReportInv, Reports
<1> QED
  BY <1>2, <1>3, <1>4, <1>5 DEF IInv

\* The process is gone, the root as it was.
LEMMA RefuseKeeps ==
    ASSUME IInv, Refuse, UNCHANGED <<source, damaged, quiet>>, failures' \in 0..MaxFailures
    PROVE  IInv'
<1>1. /\ pc' = "off"
      /\ UNCHANGED <<run, stage, todo, ingested, state, leftover, dataset, audit, report, art>>
  BY DEF Refuse, root
<1>2. TypeOK'
  BY <1>1 DEF IInv, TypeOK
<1>3. ProcessInv' /\ BuildInv' /\ QuietInv'
  BY <1>1 DEF ProcessInv, BuildInv, QuietInv, StageOne, Building
<1>4. RestInv'
  BY <1>1, RestKeeps DEF IInv, RestInv
<1> QED
  BY <1>2, <1>3, <1>4 DEF IInv, RestInv

LEMMA EntryTyped ==
    ASSUME NEW s \in Stages, NEW n \in 0..5
    PROVE  /\ EntryOf(s, n) \in {"inspect", "open", "check", "report"}
           /\ EntryOf(s, n) = "inspect" => s = 1
           /\ EntryOf(s, n) = "open" => s \in 2..4
           /\ EntryOf(s, n) = "check" => s \in 1..4
           /\ EntryOf(s, n) = "report" => s = 5
BY DEF EntryOf, Stages

LEMMA StartKeeps ==
    ASSUME IInv, NEW c \in Configs, NEW s \in Stages, Start(c, s)
    PROVE  IInv'
<1>1. /\ pc = "off" /\ run' = [config |-> c, revision |-> source, through |-> s]
      /\ stage' = 1 /\ todo' = <<>> /\ quiet' = TRUE
      /\ UNCHANGED <<ingested, state, dataset, audit, report, art, source, damaged, failures>>
  BY DEF Start
<1>2. \/ /\ state # Missing /\ SameBuild(run') /\ pc' = EntryOf(1, Recorded)
         /\ leftover' = leftover
      \/ state = Missing /\ pc' = "pin" /\ leftover' = TRUE
  BY DEF Start
<1>3. Recorded \in 0..5 /\ Recorded' = Recorded /\ 1 \in Stages
  BY <1>1, RecordedTyped DEF IInv, Recorded, Stages
<1>4. pc' \in {"pin", "inspect", "check"}
  BY <1>2, <1>3 DEF EntryOf
<1>5. TypeOK'
  <2>1. run' \in Run
    BY <1>1 DEF IInv, TypeOK, Run
  <2>2. <<>> \in Seq(Artifacts \cup {"audit"})
    BY EmptySeq
  <2> QED
    BY <1>1, <1>2, <1>3, <1>4, <2>1, <2>2 DEF IInv, TypeOK
<1>6. ProcessInv'
  <2>1. pc' # "pin" => /\ state' # Missing
                       /\ run'.config = state'.config /\ run'.revision = state'.revision
                       /\ stage' <= Recorded' + 1
    BY <1>1, <1>2, <1>3 DEF SameBuild
  <2>2. pc' = "pin" => state' = Missing
    BY <1>1, <1>2, <1>3, EntryTyped
  <2>3. stage' <= run'.through
    BY <1>1 DEF Stages
  <2> QED
    BY <1>1, <1>4, <2>1, <2>2, <2>3 DEF ProcessInv, StageOne, Building
<1>7. BuildInv' /\ QuietInv'
  BY <1>1, <1>4, StageOfRange DEF BuildInv, QuietInv, Building
<1>8. RestInv'
  BY <1>1, RestKeeps DEF IInv, RestInv
<1> QED
  BY <1>5, <1>6, <1>7, <1>8 DEF IInv, RestInv

LEMMA PinKeeps ==
    ASSUME IInv, Pin
    PROVE  IInv'
<1>1. /\ pc = "pin" /\ pc' = "inspect" /\ leftover' = FALSE
      /\ state' = [config |-> run.config, revision |-> run.revision, recorded |-> 0]
      /\ UNCHANGED <<run, stage, todo, ingested, dataset, audit, report, art>>
      /\ UNCHANGED <<source, damaged, quiet, failures>>
  BY DEF Pin, world
<1>2. /\ state = Missing /\ stage = 1 /\ dataset = Missing /\ report = Missing
      /\ \A a \in Artifacts : art[a] = Missing
  BY <1>1 DEF IInv, ProcessInv, RootInv, StageOne
<1>3. state' \in State /\ state' # Missing
  BY <1>1, MarkAssumption DEF IInv, TypeOK, Run, State
<1>4. Recorded' = 0
  BY <1>1, <1>3 DEF Recorded
<1>5. TypeOK'
  BY <1>1, <1>3 DEF IInv, TypeOK
<1>6. ProcessInv'
  BY <1>1, <1>2, <1>3, <1>4 DEF IInv, ProcessInv, StageOne, Building
<1>7. BuildInv' /\ QuietInv'
  BY <1>1, <1>2, StageOfRange DEF BuildInv, QuietInv, Building
<1>8. RootInv' /\ ArtifactInv'
  BY <1>1, <1>2, <1>3 DEF RootInv, ArtifactInv
<1>9. RecordInv'
  BY <1>4, StageOfRange DEF RecordInv
<1>10. ReportInv'
  BY <1>1, <1>2, MarkAssumption DEF ReportInv, Reports
<1> QED
  BY <1>5, <1>6, <1>7, <1>8, <1>9, <1>10 DEF IInv

\* A validated stage is recorded once.
LEMMA AdvanceKeeps ==
    ASSUME IInv, Advance, UNCHANGED world, pc \in {"check", "report"},
           \A a \in Artifacts : StageOf[a] = stage => Loads(art[a], a \in damaged),
           stage = 1 => dataset = run.revision,
           stage = 5 => report = "valid"
    PROVE  IInv'
<1>1. /\ state' = [state EXCEPT !.recorded = RecordedAfter(stage)]
      /\ \/ stage = run.through /\ pc' = "done" /\ stage' = stage
         \/ stage # run.through /\ stage' = stage + 1 /\ pc' = EntryOf(stage + 1, Recorded)
      /\ todo' = <<>>
      /\ UNCHANGED <<run, ingested, leftover, dataset, audit, report, art>>
      /\ UNCHANGED <<source, damaged, quiet, failures>>
  BY DEF Advance, world
<1>2. /\ state # Missing /\ state \in State /\ Recorded = state.recorded /\ Recorded \in 0..5
      /\ stage \in 1..5 /\ stage <= Recorded + 1
      /\ run.config = state.config /\ run.revision = state.revision /\ run.through \in 1..5
  BY RecordedTyped DEF IInv, TypeOK, ProcessInv, Stages, Run
<1> DEFINE n == RecordedAfter(stage)
<1>3. /\ n \in 0..5 /\ n >= Recorded /\ n >= stage
      /\ n = Recorded \/ (n = Recorded + 1 /\ n = stage)
  BY <1>2 DEF RecordedAfter
<1> HIDE DEF n
<1>4. /\ state' = [config |-> state.config, revision |-> state.revision, recorded |-> n]
      /\ state' \in State
  BY <1>1, <1>2, <1>3 DEF State, n
<1>5. state' # Missing /\ Recorded' = n
  BY <1>4, MarkAssumption DEF Recorded
<1>6. /\ stage <= run.through
      /\ stage # run.through => stage + 1 \in Stages /\ stage + 1 <= run.through
  BY <1>2 DEF IInv, ProcessInv, Stages
<1>7. /\ pc' \in {"done", "inspect", "open", "check", "report"}
      /\ stage' \in Stages /\ stage' <= n + 1 /\ stage' <= run.through
      /\ pc' = "done" => stage' = run.through
      /\ stage' = stage \/ (stage' = stage + 1 /\ pc' # "done")
      /\ pc' # "inspect"
      /\ pc' = "open" => stage' \in 2..4
      /\ pc' = "check" => stage' \in 1..4
      /\ pc' = "report" => stage' = 5
  <2>1. CASE stage = run.through
    BY <2>1, <1>1, <1>2, <1>3 DEF Stages
  <2>2. CASE stage # run.through
    <3>1. /\ pc' \in {"inspect", "open", "check", "report"}
          /\ pc' = "inspect" => stage + 1 = 1
          /\ pc' = "open" => stage + 1 \in 2..4
          /\ pc' = "check" => stage + 1 \in 1..4
          /\ pc' = "report" => stage + 1 = 5
      BY <2>2, <1>1, <1>2, <1>6, EntryTyped
    <3> QED
      BY <3>1, <2>2, <1>1, <1>2, <1>3, <1>6
  <2> QED
    BY <2>1, <2>2
<1>8. TypeOK'
  <2>1. <<>> \in Seq(Artifacts \cup {"audit"})
    BY EmptySeq
  <2> QED
    BY <1>1, <1>4, <1>7, <2>1 DEF IInv, TypeOK
<1>9. ProcessInv'
  BY <1>1, <1>2, <1>4, <1>5, <1>7 DEF ProcessInv, StageOne, Building
<1>10. BuildInv'
  BY <1>7 DEF BuildInv, Building
<1>11. RootInv' /\ ReportInv'
  BY <1>1, <1>2, <1>4, <1>5 DEF IInv, RootInv, ReportInv, Whole
<1>12. ArtifactInv'
  <2> SUFFICES ASSUME NEW a \in Artifacts, art'[a] # Missing
               PROVE  /\ dataset \in Revisions /\ StageOf[a] <= n + 1
                      /\ art[a].manifest.revision = dataset
                      /\ art[a].manifest.config = state.config
                      /\ \A i \in Inputs[a] : art[a].manifest.from[i] = state.config
    BY <1>1, <1>4, <1>5 DEF ArtifactInv
  <2>1. art[a] # Missing /\ StageOf[a] \in 1..4
    BY <1>1, StageOfRange
  <2> QED
    BY <1>2, <1>3, <2>1 DEF IInv, ArtifactInv
<1>13. RecordInv'
  <2>1. \A a \in Artifacts : StageOf[a] <= n => Whole(art[a])
    <3> SUFFICES ASSUME NEW a \in Artifacts, StageOf[a] <= n PROVE Whole(art[a])
      OBVIOUS
    <3>1. StageOf[a] \in 1..4
      BY StageOfRange
    <3>2. StageOf[a] <= Recorded \/ StageOf[a] = stage
      BY <1>2, <1>3, <3>1
    <3> QED
      BY <3>2 DEF IInv, RecordInv, Loads
  <2>2. n >= 1 => dataset = state.revision
    BY <1>2, <1>3 DEF IInv, RecordInv
  <2>3. n = 5 => report = "valid"
    BY <1>2, <1>3 DEF IInv, RecordInv
  <2> QED
    BY <1>1, <1>4, <1>5, <2>1, <2>2, <2>3 DEF RecordInv, Whole
<1>14. QuietInv'
  <2> SUFFICES ASSUME quiet', NEW a \in Artifacts,
                      StageOf[a] < stage' \/ (pc' = "done" /\ StageOf[a] = stage')
               PROVE  Loads(art[a], a \in damaged)
    BY <1>1 DEF QuietInv, Loads, Whole
  <2>1. StageOf[a] \in 1..4
    BY StageOfRange
  <2>2. StageOf[a] < stage \/ StageOf[a] = stage
    BY <1>1, <1>2, <1>7, <2>1
  <2> QED
    BY <1>1, <2>2 DEF IInv, QuietInv
<1> QED
  BY <1>8, <1>9, <1>10, <1>11, <1>12, <1>13, <1>14 DEF IInv

LEMMA StageValidMeans ==
    ASSUME NEW s \in Stages, StageValid(s)
    PROVE  /\ \A a \in Artifacts : StageOf[a] = s => Loads(art[a], a \in damaged)
           /\ s = 1 => dataset = run.revision
BY EveryArtifactIsAnItem DEF StageValid

LEMMA CheckStageKeeps ==
    ASSUME IInv, CheckStage
    PROVE  IInv'
<1>1. stage \in 1..4 /\ pc = "check" /\ UNCHANGED world
  BY DEF CheckStage, IInv, ProcessInv
<1>2. CASE Refuse
  BY <1>1, <1>2, RefuseKeeps DEF world, IInv, TypeOK
<1>3. CASE StageValid(stage) /\ Advance
  BY <1>1, <1>3, StageValidMeans, AdvanceKeeps DEF Stages
<1> QED
  BY <1>2, <1>3 DEF CheckStage

\* Steps between two phases that leave root and world alone.
LEMMA PhaseKeeps ==
    ASSUME IInv, UNCHANGED <<run, stage, root, world>>, pc # "off", pc # "pin", pc # "done",
           ingested' \in Revisions, todo' \in Seq(Artifacts \cup {"audit"}),
           pc' \in {"verify", "dataset", "build", "check"},
           pc' \in {"verify", "dataset"} => stage = 1,
           pc' \in {"build", "check"} => stage \in 1..4,
           BuildInv'
    PROVE  IInv'
<1>1. UNCHANGED <<state, leftover, dataset, audit, report, art, source, damaged, quiet, failures>>
  BY DEF root, world
<1>2. TypeOK'
  BY <1>1 DEF IInv, TypeOK
<1>3. ProcessInv'
  BY <1>1 DEF IInv, ProcessInv, StageOne, Building, Recorded
<1>4. QuietInv'
  BY <1>1 DEF IInv, QuietInv, Loads, Whole
<1>5. RestInv'
  BY <1>1, RestKeeps DEF IInv, RestInv
<1> QED
  BY <1>2, <1>3, <1>4, <1>5 DEF IInv, RestInv

LEMMA InspectVerifyKeeps ==
    ASSUME IInv, Inspect \/ Verify
    PROVE  IInv'
<1>1. stage = 1 /\ todo \in Seq(Artifacts \cup {"audit"}) /\ source \in Revisions
        /\ ingested \in Revisions
  BY DEF IInv, TypeOK, ProcessInv, StageOne, Inspect, Verify
<1>2. CASE Inspect
  <2>1. BuildInv'
    BY <1>2 DEF Inspect, BuildInv, Building
  <2> QED
    BY <1>1, <1>2, <2>1, PhaseKeeps DEF Inspect
<1>3. CASE Verify /\ ~Refuse
  <2>1. /\ pc = "verify" /\ pc' = "dataset"
        /\ UNCHANGED <<run, stage, todo, ingested, root, world>>
    BY <1>3 DEF Verify
  <2>2. BuildInv'
    BY <2>1 DEF BuildInv, Building
  <2> QED
    BY <1>1, <2>1, <2>2, PhaseKeeps
<1>4. CASE Verify /\ Refuse
  BY <1>4, RefuseKeeps DEF Verify, world, IInv, TypeOK
<1> QED
  BY <1>2, <1>3, <1>4

\* Building the corpus stage begins with nothing of it published.
LEMMA BuildBegins ==
    ASSUME stage' = 1, todo' = Items[1], pc' = "build",
           dataset' \in Revisions, dataset' = ingested'
    PROVE  BuildInv'
<1>1. todo' = From(1, 1)
  BY FromProperties, ItemsLen
<1>2. Published(1, 1)'
  BY DEF Published
<1>3. 1 \in 1..Len(Items[1]) + 1
  BY ItemsLen
<1> QED
  BY <1>1, <1>2, <1>3 DEF BuildInv

LEMMA DatasetKeeps ==
    ASSUME IInv, Dataset
    PROVE  IInv'
<1>1. stage = 1 /\ pc = "dataset" /\ UNCHANGED <<source, damaged, quiet, failures>>
        /\ ingested \in Revisions
  BY DEF IInv, TypeOK, ProcessInv, StageOne, Dataset, world
<1>2. CASE Refuse
  BY <1>1, <1>2, RefuseKeeps DEF IInv, TypeOK
<1>3. CASE /\ dataset = ingested /\ pc' = "build" /\ todo' = Items[1]
           /\ UNCHANGED <<run, stage, ingested, root, world>>
  <2>1. dataset' = ingested' /\ stage' = 1
    BY <1>1, <1>3 DEF root
  <2>2. BuildInv'
    BY <1>1, <1>3, <2>1, BuildBegins
  <2>3. todo' \in Seq(Artifacts \cup {"audit"})
    BY <1>3, ItemsTyped
  <2> QED
    BY <1>1, <1>3, <2>2, <2>3, PhaseKeeps
<1>4. CASE /\ dataset = Missing /\ dataset' = Torn /\ pc' = "datasetWrite"
           /\ UNCHANGED <<run, stage, todo, ingested, state, leftover, audit, report, art>>
  <2>1. TypeOK'
    BY <1>1, <1>4 DEF IInv, TypeOK
  <2>2. ProcessInv'
    BY <1>1, <1>4 DEF IInv, ProcessInv, StageOne, Building, Recorded
  <2>3. \A a \in Artifacts : art[a] = Missing
    BY <1>4, MarkAssumption DEF IInv, ArtifactInv
  <2>4. Recorded = 0
    <3>1. Recorded >= 1 => dataset \in Revisions
      <4>1. state # Missing => state.revision \in Revisions
        BY DEF IInv, TypeOK, State
      <4> QED
        BY <4>1 DEF IInv, RecordInv, Recorded
    <3> QED
      BY <3>1, <1>4, MarkAssumption, RecordedTyped DEF IInv
  <2>5. RootInv' /\ ArtifactInv'
    BY <1>1, <1>4, <2>3 DEF IInv, ProcessInv, RootInv, ArtifactInv
  <2>6. RecordInv'
    BY <1>4, <2>4, StageOfRange DEF RecordInv, Recorded
  <2>7. ReportInv'
    <3>1. report # "valid"
      BY <2>3 DEF IInv, ReportInv, Whole, Artifacts
    <3> QED
      BY <3>1, <1>4 DEF ReportInv
  <2>8. BuildInv' /\ QuietInv'
    BY <1>1, <1>4, StageOfRange DEF BuildInv, QuietInv, Building
  <2> QED
    BY <2>1, <2>2, <2>5, <2>6, <2>7, <2>8 DEF IInv
<1> QED
  BY <1>2, <1>3, <1>4 DEF Dataset

LEMMA DatasetWrittenKeeps ==
    ASSUME IInv, DatasetWritten
    PROVE  IInv'
<1>1. /\ pc = "datasetWrite" /\ dataset' = ingested /\ pc' = "build" /\ todo' = Items[1]
      /\ UNCHANGED <<run, stage, ingested, state, leftover, audit, report, art>>
      /\ UNCHANGED <<source, damaged, quiet, failures>>
  BY DEF DatasetWritten, world
<1>2. stage = 1 /\ dataset = Torn /\ ingested \in Revisions /\ state # Missing
  BY <1>1 DEF IInv, TypeOK, ProcessInv, StageOne
<1>3. \A a \in Artifacts : art[a] = Missing
  BY <1>2, MarkAssumption DEF IInv, ArtifactInv
<1>4. Recorded = 0
  <2>1. state.revision \in Revisions
    BY <1>2 DEF IInv, TypeOK, State
  <2>2. ~(Recorded >= 1)
    BY <2>1, <1>2, MarkAssumption DEF IInv, RecordInv
  <2> QED
    BY <2>2, RecordedTyped DEF IInv
<1>5. TypeOK'
  <2>1. todo' \in Seq(Artifacts \cup {"audit"})
    BY <1>1, ItemsTyped
  <2> QED
    BY <1>1, <1>2, <2>1 DEF IInv, TypeOK
<1>6. ProcessInv'
  BY <1>1, <1>2 DEF IInv, ProcessInv, StageOne, Building, Recorded
<1>7. RootInv' /\ ArtifactInv'
  BY <1>1, <1>2, <1>3 DEF RootInv, ArtifactInv
<1>8. RecordInv'
  BY <1>1, <1>4, StageOfRange DEF RecordInv, Recorded
<1>9. ReportInv'
  <2>1. report # "valid"
    BY <1>3 DEF IInv, ReportInv, Whole, Artifacts
  <2> QED
    BY <2>1, <1>1 DEF ReportInv
<1>10. BuildInv'
  BY <1>1, <1>2, BuildBegins
<1>11. QuietInv'
  BY <1>1, <1>2, StageOfRange DEF QuietInv
<1> QED
  BY <1>5, <1>6, <1>7, <1>8, <1>9, <1>10, <1>11 DEF IInv

\* What the process that publishes knows about the product it is at.
LEMMA AtItem ==
    ASSUME IInv, pc \in Building, todo # <<>>
    PROVE  /\ stage \in 1..4 /\ state # Missing /\ dataset \in Revisions
           /\ (stage = 1 => dataset = ingested)
           /\ stage <= Recorded + 1 /\ Recorded \in 0..5
           /\ run.config = state.config
           /\ \E k \in 1..Len(Items[stage]) :
                 /\ Head(todo) = Items[stage][k] /\ Tail(todo) = From(stage, k + 1)
                 /\ todo = From(stage, k) /\ Published(stage, k)
                 /\ Head(todo) \in Artifacts \cup {"audit"}
                 /\ Head(todo) # "audit" => StageOf[Head(todo)] = stage
                 /\ pc = "moving" => /\ Head(todo) # "audit" /\ art[Head(todo)] # Missing
                                     /\ ~Whole(art[Head(todo)])
<1>1. /\ stage \in 1..4 /\ state # Missing /\ dataset \in Revisions
      /\ (stage = 1 => dataset = ingested) /\ stage <= Recorded + 1 /\ Recorded \in 0..5
      /\ run.config = state.config
  BY RecordedTyped DEF IInv, ProcessInv, BuildInv, Building
<1>2. PICK k \in 1..Len(Items[stage]) + 1 :
              /\ todo = From(stage, k) /\ Published(stage, k)
              /\ pc = "moving" =>
                   /\ k <= Len(Items[stage]) /\ Items[stage][k] # "audit"
                   /\ art[Items[stage][k]] # Missing /\ ~Whole(art[Items[stage][k]])
  BY DEF IInv, BuildInv
<1>3. k \in 1..Len(Items[stage])
  <2>1. Len(Items[stage]) \in Nat
    BY <1>1, ItemsTyped
  <2>2. From(stage, k) = <<>> <=> k = Len(Items[stage]) + 1
    BY <1>1, FromProperties
  <2> QED
    BY <1>2, <2>1, <2>2
<1>4. Head(todo) = Items[stage][k] /\ Tail(todo) = From(stage, k + 1)
  <2>1. k <= Len(Items[stage]) /\ k \in 1..Len(Items[stage]) + 1
    BY <1>3
  <2>2. /\ Head(From(stage, k)) = Items[stage][k]
        /\ Tail(From(stage, k)) = From(stage, k + 1)
    BY <1>1, <2>1, FromProperties
  <2> QED
    BY <1>2, <2>2
<1>5. /\ Items[stage][k] \in Artifacts \cup {"audit"}
      /\ Items[stage][k] # "audit" => StageOf[Items[stage][k]] = stage
  BY <1>1, <1>3, ItemsTyped
<1> QED
  BY <1>1, <1>2, <1>3, <1>4, <1>5

\* The inputs of the artifact the process is at are published.
LEMMA InputsPublished ==
    ASSUME IInv, pc \in Building, todo # <<>>, Head(todo) # "audit",
           NEW i \in Inputs[Head(todo)]
    PROVE  i \in Artifacts /\ Whole(art[i])
<1>1. PICK k \in 1..Len(Items[stage]) :
              /\ Head(todo) = Items[stage][k] /\ Published(stage, k)
              /\ Head(todo) \in Artifacts
  BY AtItem
<1>2. stage \in 1..4 /\ Recorded \in 0..5 /\ stage <= Recorded + 1
  BY AtItem
<1>3. i \in Artifacts
  BY <1>1, InputsTyped
<1>4. CASE StageOf[i] < stage
  <2>1. StageOf[i] <= Recorded
    BY <1>2, <1>3, <1>4, StageOfRange
  <2> QED
    BY <2>1, <1>3 DEF IInv, RecordInv
<1>5. CASE \E j \in 1..k - 1 : Items[stage][j] = i
  <2>1. i # "audit"
    BY <1>3 DEF Artifacts
  <2> QED
    BY <1>1, <1>3, <1>5, <2>1 DEF Published
<1> QED
  BY <1>1, <1>2, <1>3, <1>4, <1>5, InputsComeFirst

\* The process goes on to the next product once this one is published.
LEMMA NextItem ==
    ASSUME IInv, pc \in Building, todo # <<>>,
           UNCHANGED <<stage, ingested, dataset>>, pc' = "build", todo' = Tail(todo),
           \A b \in Artifacts : Whole(art[b]) => Whole(art'[b]),
           Head(todo) # "audit" => Whole(art'[Head(todo)])
    PROVE  BuildInv' /\ todo' \in Seq(Artifacts \cup {"audit"})
<1>1. PICK k \in 1..Len(Items[stage]) :
              /\ Head(todo) = Items[stage][k] /\ Tail(todo) = From(stage, k + 1)
              /\ Published(stage, k)
  BY AtItem
<1>2. stage \in 1..4 /\ dataset \in Revisions /\ (stage = 1 => dataset = ingested)
  BY AtItem
<1>3. k + 1 \in 1..Len(Items[stage]) + 1 /\ Len(Items[stage]) \in Nat
  BY <1>2, ItemsTyped, SMTT(40)
<1>4. Published(stage, k + 1)'
  <2> SUFFICES ASSUME NEW i \in 1..k, Items[stage][i] # "audit"
               PROVE  Whole(art'[Items[stage][i]])
    BY <1>1, <1>3 DEF Published, Whole
  <2>1. Items[stage][i] \in Artifacts
    <3>1. i \in 1..Len(Items[stage])
      BY <1>3
    <3> QED
      BY <3>1, <1>2, ItemsTyped
  <2>2. CASE i = k
    BY <1>1, <2>2
  <2>3. CASE i # k
    <3>1. i \in 1..k - 1
      BY <1>1, <2>3
    <3> QED
      BY <3>1, <1>1, <2>1 DEF Published
  <2> QED
    BY <2>2, <2>3
<1>5. todo' = From(stage, k + 1)
  BY <1>1
<1>6. BuildInv'
  BY <1>2, <1>3, <1>4, <1>5 DEF BuildInv
<1> QED
  BY <1>2, <1>3, <1>5, <1>6, FromProperties

LEMMA AuditKeeps ==
    ASSUME IInv, Audit
    PROVE  IInv'
<1>1. pc = "build" /\ todo # <<>> /\ Head(todo) = "audit"
        /\ UNCHANGED <<source, damaged, quiet, failures>>
  BY DEF Audit, world
<1>2. CASE Refuse
  BY <1>1, <1>2, RefuseKeeps DEF IInv, TypeOK
<1>3. CASE ~Refuse
  <2>1. /\ audit' = ingested /\ todo' = Tail(todo)
        /\ UNCHANGED <<pc, run, stage, ingested, state, leftover, dataset, report, art>>
    BY <1>3 DEF Audit
  <2>2. BuildInv' /\ todo' \in Seq(Artifacts \cup {"audit"})
    BY <1>1, <2>1, NextItem DEF Building
  <2>3. TypeOK'
    BY <1>1, <2>1, <2>2 DEF IInv, TypeOK
  <2>4. ProcessInv'
    BY <1>1, <2>1 DEF IInv, ProcessInv, StageOne, Building, Recorded
  <2>5. RestInv'
    BY <2>1, RestKeeps DEF IInv, RestInv
  <2>6. QuietInv'
    BY <1>1, <2>1 DEF IInv, QuietInv, Loads, Whole
  <2> QED
    BY <2>2, <2>3, <2>4, <2>5, <2>6 DEF IInv, RestInv
<1> QED
  BY <1>2, <1>3

LEMMA ReuseKeeps ==
    ASSUME IInv, NEW a \in Artifacts, Reuse(a)
    PROVE  IInv'
<1>1. pc = "build" /\ todo # <<>> /\ Head(todo) = a /\ UNCHANGED world
  BY DEF Reuse
<1>2. CASE Refuse
  BY <1>1, <1>2, RefuseKeeps DEF IInv, TypeOK, world
<1>3. CASE ~Refuse
  <2>1. /\ Whole(art[a]) /\ todo' = Tail(todo)
        /\ UNCHANGED <<pc, run, stage, ingested, root>>
    BY <1>3 DEF Reuse, Reusable, Loads
  <2>2. UNCHANGED <<dataset, art>>
    BY <2>1 DEF root
  <2>3. BuildInv' /\ todo' \in Seq(Artifacts \cup {"audit"})
    BY <1>1, <2>1, <2>2, NextItem DEF Building
  <2>4. stage \in 1..4 /\ ingested \in Revisions
    BY <1>1 DEF IInv, TypeOK, ProcessInv, Building
  <2> QED
    BY <1>1, <2>1, <2>3, <2>4, PhaseKeeps
<1> QED
  BY <1>2, <1>3

LEMMA BuiltKeeps ==
    ASSUME IInv, Built
    PROVE  IInv'
<1>1. /\ pc = "build" /\ pc' = "check"
      /\ UNCHANGED <<run, stage, todo, ingested, root, world>>
  BY DEF Built
<1>2. stage \in 1..4 /\ ingested \in Revisions /\ todo \in Seq(Artifacts \cup {"audit"})
  BY <1>1 DEF IInv, TypeOK, ProcessInv, Building
<1>3. BuildInv'
  BY <1>1 DEF BuildInv, Building
<1> QED
  BY <1>1, <1>2, <1>3, PhaseKeeps

\* A directory that is not whole can change: what is recorded, reported or
\* validated does not depend on it.
LEMMA ArtKeeps ==
    ASSUME IInv, NEW a \in Artifacts, ~Whole(art[a]), NEW d,
           art' = [art EXCEPT ![a] = d],
           UNCHANGED <<state, dataset, report>>,
           d \in Directory(a) \cup {Missing},
           d # Missing =>
               /\ state # Missing /\ dataset \in Revisions /\ StageOf[a] <= Recorded + 1
               /\ d.manifest.revision = dataset /\ d.manifest.config = state.config
               /\ \A i \in Inputs[a] : d.manifest.from[i] = state.config
    PROVE  /\ RestInv'
           /\ DOMAIN art' = Artifacts
           /\ \A b \in Artifacts : art'[b] \in Directory(b) \cup {Missing}
           /\ art'[a] = d
           /\ \A b \in Artifacts : Whole(art[b]) => art'[b] = art[b] /\ Whole(art'[b])
<1>1. /\ DOMAIN art = Artifacts
      /\ \A b \in Artifacts : art[b] \in Directory(b) \cup {Missing}
  BY DEF IInv, TypeOK
<1>2. art'[a] = d /\ \A b \in Artifacts : b # a => art'[b] = art[b]
  BY <1>1
<1>3. DOMAIN art' = Artifacts /\ \A b \in Artifacts : art'[b] \in Directory(b) \cup {Missing}
  BY <1>1, <1>2
<1>4. \A b \in Artifacts : Whole(art[b]) => art'[b] = art[b] /\ Whole(art'[b])
  BY <1>2
<1>5. RootInv'
  BY <1>2 DEF IInv, RootInv
<1>6. ArtifactInv'
  <2> SUFFICES ASSUME NEW b \in Artifacts, art'[b] # Missing
               PROVE  /\ state # Missing /\ dataset \in Revisions
                      /\ StageOf[b] <= Recorded + 1
                      /\ art'[b].manifest.revision = dataset
                      /\ art'[b].manifest.config = state.config
                      /\ \A i \in Inputs[b] : art'[b].manifest.from[i] = state.config
    BY DEF ArtifactInv, Recorded
  <2>1. CASE b = a
    BY <2>1, <1>2
  <2>2. CASE b # a
    BY <2>2, <1>2 DEF IInv, ArtifactInv
  <2> QED
    BY <2>1, <2>2
<1>7. RecordInv'
  BY <1>4 DEF IInv, RecordInv, Recorded, Whole
<1>8. ReportInv'
  BY <1>4 DEF IInv, ReportInv, Whole
<1> QED
  BY <1>2, <1>3, <1>4, <1>5, <1>6, <1>7, <1>8 DEF RestInv

LEMMA QuietKeeps ==
    ASSUME IInv, UNCHANGED <<stage, damaged, quiet>>, pc \notin {"off", "done"}, pc' # "done",
           \A b \in Artifacts : Whole(art[b]) => art'[b] = art[b]
    PROVE  QuietInv'
<1> SUFFICES ASSUME quiet, NEW b \in Artifacts, StageOf[b] < stage
             PROVE  Whole(art'[b]) /\ b \notin damaged
  BY DEF QuietInv, Loads, Whole
<1> QED
  BY DEF IInv, QuietInv, Loads

\* The manifest a build writes: the ingested revision, its own configuration.
LEMMA ManifestOfItem ==
    ASSUME IInv, pc = "build", todo # <<>>, Head(todo) # "audit"
    PROVE  /\ Head(todo) \in Artifacts /\ StageOf[Head(todo)] <= Recorded + 1
           /\ ManifestOf(Head(todo)) \in Manifest(Head(todo))
           /\ ManifestOf(Head(todo)).revision = dataset
           /\ ManifestOf(Head(todo)).config = state.config
           /\ \A i \in Inputs[Head(todo)] : ManifestOf(Head(todo)).from[i] = state.config
<1> DEFINE a == Head(todo)
<1>1. /\ a \in Artifacts /\ StageOf[a] = stage /\ stage <= Recorded + 1
      /\ stage \in 1..4 /\ state # Missing /\ dataset \in Revisions
      /\ (stage = 1 => dataset = ingested) /\ run.config = state.config
  BY AtItem DEF Building
<1>2. state.config \in Configs
  BY <1>1 DEF IInv, TypeOK, State
<1>3. CASE stage = 1
  BY <1>1, <1>2, <1>3 DEF ManifestOf, CorpusManifest, Manifest
<1>4. CASE stage # 1
  <2>1. Inputs[a] # {} /\ Inputs[a] \subseteq Artifacts
    BY <1>1, <1>4, InputsTyped
  <2>2. \A i \in Inputs[a] : /\ art[i].manifest.revision = dataset
                             /\ art[i].manifest.config = state.config
    <3> SUFFICES ASSUME NEW i \in Inputs[a]
                 PROVE  /\ art[i].manifest.revision = dataset
                        /\ art[i].manifest.config = state.config
      OBVIOUS
    <3>1. i \in Artifacts /\ art[i] # Missing
      BY <1>1, InputsPublished DEF Building, Whole, Artifacts
    <3> QED
      BY <3>1 DEF IInv, ArtifactInv
  <2>3. (CHOOSE i \in Inputs[a] : TRUE) \in Inputs[a]
    BY <2>1
  <2>4. /\ ManifestOf(a).revision = dataset
        /\ ManifestOf(a).config = state.config
        /\ ManifestOf(a).from = [i \in Inputs[a] |-> state.config]
    <3> HIDE DEF a
    <3> QED
      BY <1>1, <1>4, <2>2, <2>3 DEF ManifestOf, DerivedManifest
  <2>5. ManifestOf(a) \in Manifest(a)
    <3> HIDE DEF a
    <3>1. ManifestOf(a) = [revision |-> dataset, config |-> state.config,
                           from |-> [i \in Inputs[a] |-> state.config]]
      BY <1>1, <1>4, <2>2, <2>3 DEF ManifestOf, DerivedManifest
    <3> QED
      BY <3>1, <1>1, <1>2 DEF Manifest
  <2> QED
    BY <1>1, <2>4, <2>5
<1> QED
  BY <1>1, <1>3, <1>4

LEMMA CreateDestinationKeeps ==
    ASSUME IInv, NEW a \in Artifacts, CreateDestination(a)
    PROVE  IInv'
<1> DEFINE m == ManifestOf(a)
           d == IF a = "vector" THEN [files |-> Files, manifest |-> m]
                                ELSE [files |-> {}, manifest |-> m]
<1>1. /\ pc = "build" /\ todo # <<>> /\ a = Head(todo) /\ art[a] = Missing
      /\ art' = [art EXCEPT ![a] = d]
      /\ IF a = "vector" THEN todo' = Tail(todo) /\ pc' = pc
                         ELSE pc' = "moving" /\ todo' = todo
      /\ UNCHANGED <<run, stage, ingested, state, leftover, dataset, audit, report>>
      /\ UNCHANGED <<source, damaged, quiet, failures>>
  BY DEF CreateDestination, NewDirectory, world
<1>2. a # "audit"
  BY DEF Artifacts
<1>3. /\ m \in Manifest(a) /\ m.revision = dataset /\ m.config = state.config
      /\ \A i \in Inputs[a] : m.from[i] = state.config
      /\ StageOf[a] <= Recorded + 1
  BY <1>1, <1>2, ManifestOfItem
<1>4. stage \in 1..4 /\ state # Missing /\ dataset \in Revisions
  BY <1>1, AtItem DEF Building
<1>5. /\ d \in Directory(a) /\ d.manifest = m
      /\ d.files = (IF a = "vector" THEN Files ELSE {})
  <2> HIDE DEF m
  <2> QED
    BY <1>3 DEF Directory, Files
<1>6. d # Missing /\ (Whole(d) <=> a = "vector")
  BY <1>5, MarkAssumption DEF Whole, Files
<1> HIDE DEF m, d
<1>7. ~Whole(art[a])
  BY <1>1 DEF Whole
<1>8. /\ RestInv'
      /\ DOMAIN art' = Artifacts
      /\ \A b \in Artifacts : art'[b] \in Directory(b) \cup {Missing}
      /\ art'[a] = d
      /\ \A b \in Artifacts : Whole(art[b]) => art'[b] = art[b] /\ Whole(art'[b])
  BY <1>1, <1>3, <1>4, <1>5, <1>7, ArtKeeps
<1>9. BuildInv' /\ todo' \in Seq(Artifacts \cup {"audit"})
  <2>1. CASE a = "vector"
    BY <2>1, <1>1, <1>6, <1>8, NextItem DEF Building
  <2>2. CASE a # "vector"
    <3>1. PICK k \in 1..Len(Items[stage]) :
                /\ a = Items[stage][k] /\ todo = From(stage, k) /\ Published(stage, k)
      BY <1>1, AtItem DEF Building
    <3>2. Published(stage, k)'
      <4> SUFFICES ASSUME NEW i \in 1..k - 1, Items[stage][i] # "audit"
                   PROVE  Whole(art'[Items[stage][i]])
        BY <1>1 DEF Published, Whole
      <4>1. i \in 1..Len(Items[stage])
        BY <3>1, <1>4, ItemsTyped
      <4>2. Items[stage][i] \in Artifacts
        BY <4>1, <1>4, ItemsTyped
      <4> QED
        BY <4>2, <3>1, <1>8 DEF Published
    <3>3. k \in 1..Len(Items[stage]) + 1
      BY <1>4, ItemsTyped
    <3>4. art'[a] # Missing /\ ~Whole(art'[a])
      BY <2>2, <1>6, <1>8
    <3>5. stage' = 1 => dataset' = ingested'
      BY <1>1, AtItem DEF Building
    <3> QED
      BY <2>2, <1>1, <1>2, <1>4, <3>1, <3>2, <3>3, <3>4, <3>5
         DEF BuildInv, IInv, TypeOK, Whole
  <2> QED
    BY <2>1, <2>2
<1>10. TypeOK'
  BY <1>1, <1>8, <1>9 DEF IInv, TypeOK
<1>11. ProcessInv'
  BY <1>1, <1>4 DEF IInv, ProcessInv, StageOne, Building, Recorded
<1>12. QuietInv'
  BY <1>1, <1>8, QuietKeeps
<1> QED
  BY <1>8, <1>9, <1>10, <1>11, <1>12 DEF IInv, RestInv

LEMMA MovingTodo ==
    ASSUME IInv, pc = "moving"
    PROVE  todo # <<>>
<1>1. PICK k \in 1..Len(Items[stage]) : stage \in 1..4 /\ todo = From(stage, k)
  BY DEF IInv, BuildInv, ProcessInv, Building
<1>2. Len(Items[stage]) \in Nat
  BY <1>1, ItemsTyped
<1>3. From(stage, k) = <<>> <=> k = Len(Items[stage]) + 1
  BY <1>1, <1>2, FromProperties, SMTT(40)
<1> QED
  BY <1>1, <1>2, <1>3

LEMMA MoveFileKeeps ==
    ASSUME IInv, NEW f \in Files, MoveFile(f)
    PROVE  IInv'
<1> DEFINE a == Head(todo)
           d == [art[a] EXCEPT !.files = @ \cup {f}]
<1>1. /\ pc = "moving" /\ art' = [art EXCEPT ![a] = d]
      /\ IF Whole(art'[a]) THEN pc' = "build" /\ todo' = Tail(todo)
                           ELSE pc' = pc /\ todo' = todo
      /\ UNCHANGED <<run, stage, ingested, state, leftover, dataset, audit, report>>
      /\ UNCHANGED <<source, damaged, quiet, failures>>
  BY DEF MoveFile, WithFile, world
<1>2. todo # <<>>
  BY <1>1, MovingTodo
<1>3. PICK k \in 1..Len(Items[stage]) :
            /\ a = Items[stage][k] /\ todo = From(stage, k) /\ Published(stage, k)
            /\ a \in Artifacts /\ a # "audit" /\ art[a] # Missing /\ ~Whole(art[a])
  BY <1>1, <1>2, AtItem DEF Building
<1>4. /\ stage \in 1..4 /\ state # Missing /\ dataset \in Revisions
      /\ stage' = 1 => dataset' = ingested'
  BY <1>1, <1>2, AtItem DEF Building
<1>5. art[a] \in Directory(a)
  BY <1>3 DEF IInv, TypeOK
<1>6. d \in Directory(a) /\ d.manifest = art[a].manifest
  BY <1>5 DEF Directory
<1>7. d # Missing
  BY <1>3, <1>6, MarkAssumption
<1>8. /\ StageOf[a] <= Recorded + 1
      /\ d.manifest.revision = dataset /\ d.manifest.config = state.config
      /\ \A i \in Inputs[a] : d.manifest.from[i] = state.config
  BY <1>3, <1>6 DEF IInv, ArtifactInv
<1> HIDE DEF a, d
<1>9. /\ RestInv'
      /\ DOMAIN art' = Artifacts
      /\ \A b \in Artifacts : art'[b] \in Directory(b) \cup {Missing}
      /\ art'[a] = d
      /\ \A b \in Artifacts : Whole(art[b]) => art'[b] = art[b] /\ Whole(art'[b])
  BY <1>1, <1>3, <1>4, <1>6, <1>8, ArtKeeps
<1>10. BuildInv' /\ todo' \in Seq(Artifacts \cup {"audit"})
  <2>1. CASE Whole(art'[a])
    BY <2>1, <1>1, <1>2, <1>9, NextItem DEF Building, a
  <2>2. CASE ~Whole(art'[a])
    <3>1. Published(stage, k)'
      <4> SUFFICES ASSUME NEW i \in 1..k - 1, Items[stage][i] # "audit"
                   PROVE  Whole(art'[Items[stage][i]])
        BY <1>1 DEF Published, Whole
      <4>1. i \in 1..Len(Items[stage])
        BY <1>3, <1>4, ItemsTyped
      <4>2. Items[stage][i] \in Artifacts
        BY <4>1, <1>4, ItemsTyped
      <4> QED
        BY <4>2, <1>3, <1>9 DEF Published
    <3>2. k \in 1..Len(Items[stage]) + 1 /\ k <= Len(Items[stage])
      BY <1>4, ItemsTyped
    <3>3. todo' = From(stage, k) /\ todo' \in Seq(Artifacts \cup {"audit"})
      BY <2>2, <1>1, <1>3 DEF IInv, TypeOK
    <3>4. art'[Items[stage][k]] # Missing /\ ~Whole(art'[Items[stage][k]])
      BY <2>2, <1>3, <1>7, <1>9
    <3> QED
      BY <1>1, <1>3, <1>4, <3>1, <3>2, <3>3, <3>4 DEF BuildInv, Whole
  <2> QED
    BY <2>1, <2>2
<1>11. pc' \in Building
  BY <1>1 DEF Building
<1>12. TypeOK'
  BY <1>1, <1>9, <1>10, <1>11 DEF IInv, TypeOK, Building
<1>13. ProcessInv'
  BY <1>1, <1>4, <1>11 DEF IInv, ProcessInv, StageOne, Building, Recorded
<1>14. QuietInv'
  BY <1>1, <1>9, <1>11, QuietKeeps DEF Building
<1> QED
  BY <1>9, <1>10, <1>12, <1>13, <1>14 DEF IInv, RestInv

LEMMA MoveFailsKeeps ==
    ASSUME IInv, MoveFails
    PROVE  IInv'
<1> DEFINE a == Head(todo)
<1>1. /\ pc = "moving" /\ art' = [art EXCEPT ![a] = Missing] /\ pc' = "off"
      /\ failures < MaxFailures /\ failures' = failures + 1
      /\ UNCHANGED <<run, stage, todo, ingested, state, leftover, dataset, audit, report>>
      /\ UNCHANGED <<source, damaged, quiet>>
  BY DEF MoveFails
<1>2. a \in Artifacts /\ ~Whole(art[a])
  BY <1>1, MovingTodo, AtItem DEF Building
<1> HIDE DEF a
<1>3. /\ RestInv'
      /\ DOMAIN art' = Artifacts
      /\ \A b \in Artifacts : art'[b] \in Directory(b) \cup {Missing}
  BY <1>1, <1>2, ArtKeeps
<1>4. failures' \in 0..MaxFailures
  BY <1>1, BuildAssumption DEF IInv, TypeOK
<1>5. TypeOK'
  BY <1>1, <1>3, <1>4 DEF IInv, TypeOK
<1>6. ProcessInv' /\ BuildInv' /\ QuietInv'
  BY <1>1 DEF ProcessInv, BuildInv, QuietInv, StageOne, Building
<1> QED
  BY <1>3, <1>5, <1>6 DEF IInv, RestInv

LEMMA OpenKeeps ==
    ASSUME IInv, Open
    PROVE  IInv'
<1>1. /\ pc = "open" /\ stage \in 2..4 /\ state # Missing /\ stage <= Recorded + 1
      /\ ingested \in Revisions /\ todo \in Seq(Artifacts \cup {"audit"})
      /\ UNCHANGED world
  BY DEF IInv, TypeOK, ProcessInv, Open
<1>2. CASE Refuse
  BY <1>1, <1>2, RefuseKeeps DEF IInv, TypeOK, world
<1>3. CASE pc' = "check" /\ UNCHANGED <<run, stage, todo, ingested, root>>
  <2>1. BuildInv'
    BY <1>3 DEF BuildInv, Building
  <2> QED
    BY <1>1, <1>3, <2>1, PhaseKeeps
<1>4. CASE /\ pc' = "build" /\ todo' = ToBuild(stage) /\ ToBuild(stage) # <<>>
           /\ \A a \in ItemsOf(stage) : art[a] # Missing => Loads(art[a], a \in damaged)
           /\ UNCHANGED <<run, stage, ingested, root>>
  <2>1. UNCHANGED <<art, dataset>> /\ dataset \in Revisions
    <3>1. Recorded >= 1 /\ state \in State
      BY <1>1, RecordedTyped DEF IInv
    <3> QED
      BY <3>1, <1>4 DEF IInv, RecordInv, State, root
  <2>2. Items[stage] \in Seq(Artifacts \cup {"audit"}) /\ Len(Items[stage]) \in Nat \ {0}
    BY <1>1, ItemsTyped
  <2>3. Items[stage] # <<>> /\ Head(Items[stage]) = Items[stage][1]
    BY <2>2, EmptySeq
  <2>4. \E k \in 1..Len(Items[stage]) + 1 : todo' = From(stage, k) /\ Published(stage, k)
    <3>1. CASE ToBuild(stage) = Items[stage]
      <4>1. From(stage, 1) = Items[stage] /\ 1 \in 1..Len(Items[stage]) + 1
        BY <1>1, <2>2, FromProperties
      <4>2. Published(stage, 1)
        BY DEF Published
      <4> QED
        BY <3>1, <4>1, <4>2, <1>4
    <3>2. CASE ToBuild(stage) # Items[stage]
      <4>1. ToBuild(stage) = Tail(Items[stage]) /\ art[Items[stage][1]] # Missing
        BY <1>4, <2>3, <3>2 DEF ToBuild
      <4>2. Tail(Items[stage]) = From(stage, 2)
        <5>1. /\ 1 \in 1..Len(Items[stage]) + 1 /\ 1 <= Len(Items[stage])
              /\ stage \in 1..4
          BY <1>1, <2>2
        <5>2. From(stage, 1) = Items[stage] /\ Tail(From(stage, 1)) = From(stage, 1 + 1)
          BY <5>1, FromProperties
        <5> QED
          BY <5>2
      <4>3. Items[stage][1] \in ItemsOf(stage)
        BY <2>2, LenProperties DEF ItemsOf
      <4>4. Published(stage, 2)
        BY <4>1, <4>3, <1>4 DEF Published, Loads
      <4>5. 2 \in 1..Len(Items[stage]) + 1
        BY <2>2
      <4> QED
        BY <1>4, <4>1, <4>2, <4>4, <4>5
    <3> QED
      BY <3>1, <3>2
  <2>5. PICK k \in 1..Len(Items[stage]) + 1 : todo' = From(stage, k) /\ Published(stage, k)
    BY <2>4
  <2>6. Published(stage, k)'
    BY <1>4, <2>1, <2>5 DEF Published, Whole
  <2>7. BuildInv'
    BY <1>1, <1>4, <2>1, <2>5, <2>6 DEF BuildInv
  <2>8. todo' \in Seq(Artifacts \cup {"audit"})
    BY <1>1, <2>5, FromProperties
  <2> QED
    BY <1>1, <1>4, <2>7, <2>8, PhaseKeeps
<1> QED
  BY <1>2, <1>3, <1>4 DEF Open

LEMMA ReportKeeps ==
    ASSUME IInv, Report
    PROVE  IInv'
<1>1. /\ pc = "report" /\ stage = 5 /\ UNCHANGED world /\ state # Missing
  BY DEF IInv, ProcessInv, Report
<1>2. CASE Refuse
  BY <1>1, <1>2, RefuseKeeps DEF IInv, TypeOK, world
<1>3. CASE report = "valid" /\ Advance
  <2>1. \A a \in Artifacts : StageOf[a] # stage
    BY <1>1, StageOfRange
  <2> QED
    BY <1>1, <1>3, <2>1, AdvanceKeeps
<1>4. CASE /\ report = Missing /\ report' = Torn /\ pc' = "reportWrite"
           /\ UNCHANGED <<run, stage, todo, ingested, state, leftover, dataset, audit, art>>
  <2>1. UNCHANGED <<source, damaged, quiet, failures>>
    BY <1>1 DEF world
  <2>2. TypeOK'
    BY <1>4, <2>1 DEF IInv, TypeOK
  <2>3. ProcessInv'
    BY <1>1, <1>4 DEF IInv, ProcessInv, StageOne, Building, Recorded
  <2>4. RootInv' /\ ArtifactInv'
    BY <1>1, <1>4 DEF IInv, RootInv, ArtifactInv, Recorded
  <2>5. RecordInv' /\ ReportInv'
    BY <1>4, MarkAssumption DEF IInv, RecordInv, ReportInv, Recorded, Whole, Reports
  <2>6. BuildInv'
    BY <1>4 DEF BuildInv, Building
  <2>7. QuietInv'
    BY <1>1, <1>4, <2>1, QuietKeeps DEF IInv
  <2> QED
    BY <2>2, <2>3, <2>4, <2>5, <2>6, <2>7 DEF IInv
<1> QED
  BY <1>2, <1>3, <1>4 DEF Report

LEMMA ReportWrittenKeeps ==
    ASSUME IInv, ReportWritten
    PROVE  IInv'
<1>1. /\ pc = "reportWrite" /\ pc' = "report"
      /\ report' = IF ValidSet(art, damaged, dataset, run.config) THEN "valid" ELSE "invalid"
      /\ UNCHANGED <<run, stage, todo, ingested, state, leftover, dataset, audit, art>>
      /\ UNCHANGED <<source, damaged, quiet, failures>>
  BY DEF ReportWritten, world
<1>2. /\ stage = 5 /\ report = Torn /\ state # Missing /\ run.config = state.config
      /\ stage <= Recorded + 1
  BY <1>1 DEF IInv, ProcessInv
<1>3. Recorded >= 1 /\ Recorded # 5
  BY <1>2, RecordedTyped, MarkAssumption DEF IInv, RecordInv, Reports
<1>4. report' \in Reports
  BY <1>1 DEF Reports
<1>5. TypeOK'
  BY <1>1, <1>4 DEF IInv, TypeOK
<1>6. ProcessInv'
  BY <1>1, <1>2 DEF IInv, ProcessInv, StageOne, Building, Recorded
<1>7. RootInv' /\ ArtifactInv'
  BY <1>1, <1>2 DEF IInv, RootInv, ArtifactInv, Recorded
<1>8. RecordInv'
  BY <1>1, <1>3 DEF IInv, RecordInv, Recorded, Whole
<1>9. ReportInv'
  <2> SUFFICES ASSUME ValidSet(art, damaged, dataset, state.config)
               PROVE  /\ \A a \in Artifacts : Whole(art[a])
                      /\ dataset = state.revision
                      /\ state.config \in RequireFull => dataset \in FullCorpus
    BY <1>1, <1>2 DEF ReportInv, Whole
  <2>1. dataset = state.revision
    BY <1>3 DEF IInv, RecordInv
  <2> QED
    BY <2>1 DEF ValidSet, Loads
<1>10. BuildInv'
  BY <1>1 DEF BuildInv, Building
<1>11. QuietInv'
  BY <1>1, QuietKeeps
<1> QED
  BY <1>5, <1>6, <1>7, <1>8, <1>9, <1>10, <1>11 DEF IInv

LEMMA ReturnKillKeeps ==
    ASSUME IInv, Return \/ Kill
    PROVE  IInv'
<1>1. failures' \in 0..MaxFailures
  BY BuildAssumption DEF IInv, TypeOK, Return, Kill, world
<1> QED
  BY <1>1, RefuseKeeps DEF Return, Kill, world

\* Changes of the world around the root.
LEMMA WorldKeeps ==
    ASSUME IInv, UNCHANGED <<process, root>>, source' \in Revisions,
           damaged' \subseteq Artifacts, quiet' \in BOOLEAN, failures' \in 0..MaxFailures,
           quiet' => quiet /\ damaged' = damaged
    PROVE  IInv'
<1>1. UNCHANGED <<pc, run, stage, todo, ingested, state, leftover, dataset, audit, report, art>>
  BY DEF process, root
<1>2. TypeOK'
  BY <1>1 DEF IInv, TypeOK
<1>3. ProcessInv'
  BY <1>1 DEF IInv, ProcessInv, Recorded
<1>4. BuildInv'
  BY <1>1 DEF IInv, BuildInv, Published, Whole
<1>5. QuietInv'
  BY <1>1 DEF IInv, QuietInv, Loads, Whole
<1>6. RestInv'
  BY <1>1, RestKeeps DEF IInv, RestInv
<1> QED
  BY <1>2, <1>3, <1>4, <1>5, <1>6 DEF IInv, RestInv

LEMMA DamageKeeps ==
    ASSUME IInv, NEW a \in Artifacts, Damage(a)
    PROVE  IInv'
<1>1. failures' \in 0..MaxFailures /\ source \in Revisions /\ damaged \subseteq Artifacts
  BY BuildAssumption DEF IInv, TypeOK, Damage
<1> QED
  BY <1>1, WorldKeeps DEF Damage

LEMMA ReplaceSourceKeeps ==
    ASSUME IInv, ReplaceSource
    PROVE  IInv'
<1>1. /\ source' \in Revisions /\ damaged \subseteq Artifacts /\ failures \in 0..MaxFailures
      /\ quiet \in BOOLEAN
  BY BuildAssumption DEF IInv, TypeOK, ReplaceSource
<1> QED
  BY <1>1, WorldKeeps DEF ReplaceSource

LEMMA ClearInterruptedKeeps ==
    ASSUME IInv, ClearInterrupted
    PROVE  IInv'
<1>1. /\ pc = "off" /\ pc' = "off"
      /\ art' = [a \in Artifacts |-> IF Whole(art[a]) THEN art[a] ELSE Missing]
      /\ dataset' = IF dataset = Torn THEN Missing ELSE dataset
      /\ report' = IF report = Torn THEN Missing ELSE report
      /\ leftover' = FALSE
      /\ UNCHANGED <<run, stage, todo, ingested, state, audit, source, damaged, quiet, failures>>
  BY DEF ClearInterrupted, process, world
<1>2. \A a \in Artifacts : /\ Whole(art[a]) => art'[a] = art[a]
                           /\ art'[a] # Missing => art'[a] = art[a]
  BY <1>1
<1>3. TypeOK'
  <2>1. \A a \in Artifacts : art'[a] \in Directory(a) \cup {Missing}
    BY <1>1 DEF IInv, TypeOK
  <2>2. DOMAIN art' = Artifacts
    BY <1>1
  <2>3. dataset' \in Revisions \cup {Missing, Torn} /\ report' \in Reports \cup {Missing, Torn}
    BY <1>1 DEF IInv, TypeOK
  <2> QED
    BY <1>1, <2>1, <2>2, <2>3 DEF IInv, TypeOK
<1>4. ProcessInv' /\ BuildInv' /\ QuietInv'
  BY <1>1 DEF ProcessInv, BuildInv, QuietInv, StageOne, Building
<1>5. dataset \in Revisions => dataset' = dataset
  BY <1>1, MarkAssumption
<1>6. RootInv'
  BY <1>1 DEF IInv, RootInv
<1>7. ArtifactInv'
  BY <1>1, <1>2, <1>5 DEF IInv, ArtifactInv, Recorded
<1>8. RecordInv'
  <2>1. state # Missing => state.revision \in Revisions
    BY DEF IInv, TypeOK, State
  <2>2. Recorded >= 1 => dataset' = state.revision
    BY <2>1, <1>5 DEF IInv, RecordInv, Recorded
  <2>3. Recorded = 5 => report' = "valid"
    BY <1>1, MarkAssumption DEF IInv, RecordInv, Reports
  <2> QED
    BY <1>1, <1>2, <2>2, <2>3 DEF IInv, RecordInv, Recorded, Whole
<1>9. ReportInv'
  <2>1. report' = "valid" => report = "valid"
    BY <1>1, MarkAssumption DEF Reports
  <2>2. report = "valid" => dataset' = dataset
    <3>1. report = "valid" => dataset \in Revisions
      <4>1. \A a \in Artifacts : art[a] # Missing => dataset \in Revisions
        BY DEF IInv, ArtifactInv
      <4> QED
        BY <4>1 DEF IInv, ReportInv, Whole, Artifacts
    <3> QED
      BY <3>1, <1>5
  <2> QED
    BY <1>1, <1>2, <2>1, <2>2 DEF IInv, ReportInv, Whole
<1> QED
  BY <1>3, <1>4, <1>6, <1>7, <1>8, <1>9 DEF IInv

LEMMA StutterKeeps ==
    ASSUME IInv, UNCHANGED vars
    PROVE  IInv'
<1>1. quiet \in BOOLEAN /\ source \in Revisions /\ damaged \subseteq Artifacts
        /\ failures \in 0..MaxFailures
  BY DEF IInv, TypeOK
<1> QED
  BY <1>1, WorldKeeps DEF vars, world

LEMMA NextKeeps == IInv /\ [Next]_vars => IInv'
<1> SUFFICES ASSUME IInv, [Next]_vars PROVE IInv'
  OBVIOUS
<1>1. CASE Pin \/ CheckStage \/ Return \/ Inspect \/ Verify
  BY <1>1, PinKeeps, CheckStageKeeps, ReturnKillKeeps, InspectVerifyKeeps
<1>2. CASE Dataset \/ DatasetWritten \/ Audit
  BY <1>2, DatasetKeeps, DatasetWrittenKeeps, AuditKeeps
<1>3. CASE Open \/ Built \/ Report \/ ReportWritten
  BY <1>3, OpenKeeps, BuiltKeeps, ReportKeeps, ReportWrittenKeeps
<1>4. CASE \E a \in Artifacts : Reuse(a) \/ CreateDestination(a)
  BY <1>4, ReuseKeeps, CreateDestinationKeeps
<1>5. CASE \E f \in Files : MoveFile(f)
  BY <1>5, MoveFileKeeps
<1>6. CASE \E c \in Configs, s \in Stages : Start(c, s)
  BY <1>6, StartKeeps
<1>7. CASE MoveFails \/ Kill \/ ReplaceSource \/ ClearInterrupted
  BY <1>7, MoveFailsKeeps, ReturnKillKeeps, ReplaceSourceKeeps, ClearInterruptedKeeps
<1>8. CASE \E a \in Artifacts : Damage(a)
  BY <1>8, DamageKeeps
<1>9. CASE UNCHANGED vars
  BY <1>9, StutterKeeps
<1> QED
  BY <1>1, <1>2, <1>3, <1>4, <1>5, <1>6, <1>7, <1>8, <1>9 DEF Next, Step

\* The invariant holds throughout every sequence of builds on a root.
THEOREM BuildInvariance == Spec => []IInv
BY InitKeeps, NextKeeps, PTL DEF Spec
--------------------------------------------------------------------------------
(* What follows from the invariant *)

\* Process, state, reports and directories keep their types.
THEOREM BuildTypeCorrect == Spec => []TypeOK
<1>1. IInv => TypeOK
  BY DEF IInv
<1> QED
  BY <1>1, BuildInvariance, PTL

\* A build that returns success with nothing damaged since it started returns on
\* artifacts that load, whichever stages it built and whichever it only validated.
THEOREM BuildSuccessIsVerified == Spec => []SuccessIsVerified
<1>1. IInv => SuccessIsVerified
  <2> SUFFICES ASSUME IInv, pc = "done", quiet, NEW a \in Artifacts,
                      StageOf[a] <= run.through
               PROVE  Loads(art[a], a \in damaged)
    BY DEF SuccessIsVerified
  <2>1. stage = run.through /\ stage \in 1..5
    BY DEF IInv, TypeOK, ProcessInv, Stages
  <2>2. StageOf[a] < stage \/ StageOf[a] = stage
    BY <2>1, StageOfRange
  <2> QED
    BY <2>2 DEF IInv, QuietInv
<1> QED
  BY <1>1, BuildInvariance, PTL

\* What is there of an artifact that is served says which build the root holds.
LEMMA ServedArtifact ==
    ASSUME IInv, NEW a \in Served, art[a] # Missing
    PROVE  /\ state # Missing
           /\ art[a].manifest.config = state.config
           /\ \A i \in Inputs[a] : art[a].manifest.from[i] = state.config
           /\ a # "graph" => art[a].manifest.revision = state.revision
           /\ art[a].manifest.revision = dataset
<1>1. a \in Artifacts
  BY DEF Served, Artifacts
<1>2. a # "graph" => Recorded >= 1
  <2>1. a # "graph" => StageOf[a] > 1
    BY StageOfIs DEF Served
  <2> QED
    BY <1>1, <2>1, StageOfRange, RecordedTyped DEF IInv, ArtifactInv
<1> QED
  BY <1>1, <1>2 DEF IInv, ArtifactInv, RecordInv

LEMMA CompletedIsOneBuild ==
    ASSUME IInv, Recorded = 5
    PROVE  /\ state # Missing /\ state.config \in Configs
           /\ dataset = state.revision /\ report = "valid"
           /\ state.config \in RequireFull => dataset \in FullCorpus
           /\ \A a \in Artifacts :
                 /\ Whole(art[a])
                 /\ art[a].manifest.revision = state.revision
                 /\ art[a].manifest.config = state.config
                 /\ \A i \in Inputs[a] : art[a].manifest.from[i] = state.config
<1>1. state # Missing /\ state.config \in Configs
  BY DEF IInv, TypeOK, Recorded, State
<1>2. dataset = state.revision /\ report = "valid"
  BY DEF IInv, RecordInv
<1>3. \A a \in Artifacts : Whole(art[a])
  BY <1>2 DEF IInv, ReportInv
<1>4. \A a \in Artifacts : art[a] # Missing
  BY <1>3 DEF Whole
<1> QED
  BY <1>1, <1>2, <1>3, <1>4 DEF IInv, ArtifactInv, ReportInv

LEMMA CompletedStarts == IInv => CompletedSetStarts
<1> SUFFICES ASSUME IInv, Recorded = 5,
                    NEW mode \in Modes, mode = "full" => Served \cap damaged = {}
             PROVE  Starts(state.config, mode)
  BY DEF CompletedSetStarts, Modes
<1>1. /\ state.config \in Configs /\ report = "valid"
      /\ \A a \in Artifacts :
            /\ Whole(art[a])
            /\ art[a].manifest.revision = state.revision
            /\ art[a].manifest.config = state.config
            /\ \A i \in Inputs[a] : art[a].manifest.from[i] = state.config
  BY CompletedIsOneBuild
<1>2. Served \subseteq Artifacts
  BY DEF Served, Artifacts
<1>3. \A a \in Served : ManifestReads(art[a])
  BY <1>1, <1>2 DEF ManifestReads, Whole, Files
<1>4. ChunksLoad(mode)
  BY <1>1, <1>2 DEF ChunksLoad, Loads, Served
<1>5. OneLineage
  <2>1. /\ "chunks" \in Inputs["bm25"] /\ "chunks" \in Inputs["vector"]
        /\ "normalized" \in Inputs["graph"] /\ "normalized" \in Inputs["chunks"]
    BY DEF Inputs, Artifacts
  <2>2. {"bm25", "vector", "graph", "chunks"} \subseteq Artifacts
    BY DEF Artifacts
  <2>3. \A a, b \in Served : art[a].manifest.revision = art[b].manifest.revision
    BY <1>1, <1>2
  <2>4. \A a \in {"bm25", "vector"} :
            art[a].manifest.from["chunks"] = art["chunks"].manifest.config
    BY <1>1, <2>1, <2>2
  <2>5. art["graph"].manifest.from["normalized"] = art["chunks"].manifest.from["normalized"]
    BY <1>1, <2>1, <2>2
  <2> QED
    BY <2>3, <2>4, <2>5 DEF OneLineage
<1>6. mode = "validated_report" => ReportApproves
  BY <1>1 DEF ReportApproves
<1>7. \A a \in Served \ {"chunks"} :
         IndexLoads(a, mode) /\ art[a].manifest.config \in UsableBy[state.config]
  BY <1>1, <1>2, StartupAssumption DEF IndexLoads
<1> QED
  BY <1>3, <1>4, <1>5, <1>6, <1>7 DEF Starts

LEMMA StartedIsOneBuild ==
    ASSUME IInv, NEW c, NEW mode \in Modes
    PROVE  StartedSetIsOneBuild(c, mode)
<1> SUFFICES ASSUME Starts(c, mode)
             PROVE  /\ state # Missing
                    /\ \A a \in Served : /\ art[a].manifest.revision = state.revision
                                         /\ art[a].manifest.config = state.config
                    /\ mode = "full" => Served \cap damaged = {}
  BY DEF StartedSetIsOneBuild
<1>1. \A a \in Served : art[a] # Missing
  BY DEF Starts, ManifestReads
<1>2. art["graph"].manifest.revision = art["chunks"].manifest.revision
  BY DEF Starts, OneLineage, Served
<1>3. "chunks" \in Served
  BY DEF Served
<1>4. /\ state # Missing
      /\ \A a \in Served : /\ art[a].manifest.revision = state.revision
                           /\ art[a].manifest.config = state.config
  BY <1>1, <1>2, <1>3, ServedArtifact
<1>5. mode = "full" => \A a \in Served : a \notin damaged
  BY DEF Starts, ChunksLoad, IndexLoads, Loads
<1> QED
  BY <1>4, <1>5

\* What a build completes and what a runtime starts on is one build: a runtime that
\* starts in either mode, on a root in whatever condition, serves artifacts of the
\* pinned revision and configuration, and a completed root can be served.
THEOREM ServedIsOneBuild == Spec => []ServedSetIsOneBuild
<1>1. IInv => ServedSetIsOneBuild
  <2> SUFFICES ASSUME IInv PROVE ServedSetIsOneBuild
    OBVIOUS
  <2>1. CompletedSetIsOneBuild
    BY CompletedIsOneBuild DEF CompletedSetIsOneBuild
  <2>2. \A c \in Configs : ShortStartWasValidated(c)
    BY DEF IInv, ReportInv, ShortStartWasValidated, Starts, ReportApproves
  <2> QED
    BY <2>1, <2>2, CompletedStarts, StartedIsOneBuild DEF ServedSetIsOneBuild
<1> QED
  BY <1>1, BuildInvariance, PTL
--------------------------------------------------------------------------------
(* The root implements the ledger *)

CorpusOf == IF dataset = Torn THEN Missing ELSE dataset
PublishedOf == {a \in Artifacts : Whole(art[a])}
Unmoved == UNCHANGED <<Pinned, CorpusOf, PublishedOf, Recorded>>

LEMMA InitIsLedgerInit == Init => Ledger!Init
BY MarkAssumption DEF Init, Ledger!Init, Pinned, Recorded, Whole

LEMMA SameRootIsStutter ==
    ASSUME UNCHANGED <<state, dataset>>,
           \A a \in Artifacts : Whole(art'[a]) <=> Whole(art[a])
    PROVE  Unmoved
BY DEF Unmoved, Pinned, CorpusOf, PublishedOf, Recorded, Whole

LEMMA PinIsPin ==
    ASSUME IInv, Pin
    PROVE  Ledger!Next
<1>1. /\ pc = "pin" /\ UNCHANGED <<dataset, art>>
      /\ state' = [config |-> run.config, revision |-> run.revision, recorded |-> 0]
  BY DEF Pin
<1>2. state = Missing /\ dataset = Missing
  BY <1>1 DEF IInv, ProcessInv, RootInv
<1>3. run.config \in Configs /\ run.revision \in Revisions /\ state' # Missing
  BY <1>1, MarkAssumption DEF IInv, TypeOK, Run, State
<1>4. <<run.revision, run.config>> \in Revisions \X Configs
  BY <1>3
<1>5. Pinned = Missing /\ Pinned' = <<run.revision, run.config>>
  BY <1>1, <1>2, <1>3 DEF Pinned
<1>6. Recorded' = Recorded
  BY <1>1, <1>2, <1>3 DEF Recorded
<1>7. Ledger!Pin(<<run.revision, run.config>>)
  BY <1>1, <1>2, <1>5, <1>6, MarkAssumption DEF Ledger!Pin, Whole
<1> QED
  BY <1>4, <1>7 DEF Ledger!Next

LEMMA DatasetWrittenIsIngest ==
    ASSUME IInv, DatasetWritten
    PROVE  Ledger!Next
<1>1. pc = "datasetWrite" /\ dataset' = ingested /\ UNCHANGED <<state, art>>
  BY DEF DatasetWritten
<1>2. /\ dataset = Torn /\ state # Missing /\ ingested \in Revisions
      /\ state.revision \in Revisions /\ state.config \in Configs
  BY <1>1 DEF IInv, TypeOK, ProcessInv, State
<1>3. ingested # Torn
  BY <1>2, MarkAssumption
<1>4. Pinned # Missing
  <2>1. <<state.revision, state.config>> \in Revisions \X Configs
    BY <1>2
  <2> QED
    BY <2>1, <1>2, MarkAssumption DEF Pinned
<1> DEFINE i == <<ingested, state.config>>
<1>5. i \in Revisions \X Configs /\ i[1] = ingested
  BY <1>2
<1>6. Ledger!Ingest(ingested)
  BY <1>1, <1>2, <1>3, <1>4 DEF Ledger!Ingest, Pinned, Recorded, Whole
<1>7. [j \in Revisions \X Configs |-> j[1]][i] = ingested
  BY <1>5
<1> HIDE DEF i
<1> QED
  BY <1>5, <1>6, <1>7 DEF Ledger!Next

\* The step that makes an artifact whole.
LEMMA WholeIsPublish ==
    ASSUME IInv, pc \in Building, todo # <<>>, NEW a \in Artifacts, a = Head(todo),
           ~Whole(art[a]), Whole(art'[a]),
           \A b \in Artifacts : b # a => art'[b] = art[b],
           UNCHANGED <<state, dataset>>
    PROVE  Ledger!Next
<1>1. dataset \in Revisions
  BY AtItem
<1>2. a # "audit"
  BY DEF Artifacts
<1>3. \A i \in Inputs[a] : i \in Artifacts /\ Whole(art[i])
  BY <1>2, InputsPublished
<1>4. PublishedOf' = PublishedOf \cup {a} /\ a \notin PublishedOf
  BY DEF PublishedOf, Whole
<1>5. Inputs[a] \subseteq PublishedOf
  BY <1>3 DEF PublishedOf
<1>6. CorpusOf' = CorpusOf /\ CorpusOf # Missing
  BY <1>1, MarkAssumption DEF CorpusOf
<1>7. Pinned' = Pinned /\ Recorded' = Recorded
  BY DEF Pinned, Recorded
<1>8. Ledger!Publish(a)
  BY <1>4, <1>5, <1>6, <1>7 DEF Ledger!Publish, PublishedOf, CorpusOf
<1> QED
  BY <1>8 DEF Ledger!Next

\* A validated stage that was not recorded is the next of the ledger's stages.
LEMMA AdvanceIsRecord ==
    ASSUME IInv, Advance, pc \in {"check", "report"},
           \A a \in Artifacts : StageOf[a] = stage => Whole(art[a]),
           stage = 1 => dataset = run.revision
    PROVE  Ledger!Next \/ Unmoved
<1>1. /\ state # Missing /\ state \in State /\ Recorded = state.recorded /\ Recorded \in 0..5
      /\ stage \in 1..5 /\ stage <= Recorded + 1 /\ run.revision = state.revision
  BY RecordedTyped DEF IInv, TypeOK, ProcessInv, Stages
<1>2. state' = [state EXCEPT !.recorded = RecordedAfter(stage)] /\ UNCHANGED <<dataset, art>>
  BY DEF Advance
<1>3. RecordedAfter(stage) \in 0..5
  BY <1>1 DEF RecordedAfter
<1>4. /\ state' \in State /\ state'.recorded = RecordedAfter(stage)
      /\ state'.revision = state.revision /\ state'.config = state.config
  BY <1>1, <1>2, <1>3 DEF State
<1>5. state' # Missing
  BY <1>4, MarkAssumption
<1>6. Recorded' = RecordedAfter(stage) /\ Pinned' = Pinned
  BY <1>1, <1>4, <1>5 DEF Recorded, Pinned
<1>7. CorpusOf' = CorpusOf /\ PublishedOf' = PublishedOf
  BY <1>2 DEF CorpusOf, PublishedOf, Whole
<1>8. CASE stage <= Recorded
  <2>1. Recorded' = Recorded
    BY <1>6, <1>8 DEF RecordedAfter
  <2> QED
    BY <2>1, <1>6, <1>7 DEF Unmoved
<1>9. CASE stage = Recorded + 1
  <2>1. Recorded' = Recorded + 1 /\ Recorded < 5
    BY <1>1, <1>6, <1>9 DEF RecordedAfter
  <2>2. \A a \in Artifacts : StageOf[a] <= Recorded + 1 => Whole(art[a])
    <3> SUFFICES ASSUME NEW a \in Artifacts, StageOf[a] <= Recorded + 1 PROVE Whole(art[a])
      OBVIOUS
    <3>1. StageOf[a] <= Recorded \/ StageOf[a] = stage
      BY <1>1, <1>9, StageOfRange
    <3> QED
      BY <3>1 DEF IInv, RecordInv
  <2>3. dataset = state.revision
    BY <1>1, <1>9 DEF IInv, RecordInv
  <2>4. state.revision \in Revisions /\ state.config \in Configs
    BY <1>1 DEF State
  <2>5. Pinned = <<state.revision, state.config>> /\ Pinned \in Revisions \X Configs
    BY <1>1, <2>4 DEF Pinned
  <2>6. Pinned # Missing /\ dataset # Torn
    BY <2>3, <2>4, <2>5, MarkAssumption
  <2>7. CorpusOf = [i \in Revisions \X Configs |-> i[1]][Pinned]
    <3>1. [i \in Revisions \X Configs |-> i[1]][Pinned] = Pinned[1]
      BY <2>5
    <3>2. Pinned[1] = state.revision
      BY <2>5
    <3> QED
      BY <3>1, <3>2, <2>3, <2>6 DEF CorpusOf
  <2>8. \A a \in Artifacts : StageOf[a] <= Recorded + 1 => a \in PublishedOf
    BY <2>2 DEF PublishedOf
  <2>9. Ledger!Record
    BY <1>6, <1>7, <2>1, <2>6, <2>7, <2>8 DEF Ledger!Record, CorpusOf, PublishedOf
  <2> QED
    BY <2>9 DEF Ledger!Next
<1> QED
  BY <1>1, <1>8, <1>9

LEMMA RefuseIsStutter ==
    ASSUME Refuse
    PROVE  Unmoved
BY SameRootIsStutter DEF Refuse, root

LEMMA CheckStageIsRecord ==
    ASSUME IInv, CheckStage
    PROVE  Ledger!Next \/ Unmoved
<1>1. stage \in Stages /\ pc = "check"
  BY DEF CheckStage, IInv, TypeOK
<1>2. CASE StageValid(stage) /\ Advance
  BY <1>1, <1>2, StageValidMeans, AdvanceIsRecord DEF Loads
<1> QED
  BY <1>2, RefuseIsStutter DEF CheckStage

LEMMA ReportIsRecord ==
    ASSUME IInv, Report
    PROVE  Ledger!Next \/ Unmoved
<1>1. stage = 5 /\ pc = "report"
  BY DEF IInv, ProcessInv, Report
<1>2. CASE report = "valid" /\ Advance
  <2>1. \A a \in Artifacts : StageOf[a] # stage
    BY <1>1, StageOfRange
  <2> QED
    BY <1>1, <1>2, <2>1, AdvanceIsRecord
<1>3. CASE UNCHANGED <<state, dataset, art>>
  BY <1>3, SameRootIsStutter
<1> QED
  BY <1>2, <1>3, RefuseIsStutter DEF Report

\* The dataset manifest is no corpus before it is written.
LEMMA DatasetIsStutter ==
    ASSUME Dataset
    PROVE  Unmoved
<1>1. CASE dataset = Missing /\ dataset' = Torn /\ UNCHANGED <<state, art>>
  <2>1. CorpusOf' = CorpusOf
    BY <1>1 DEF CorpusOf
  <2> QED
    BY <2>1, <1>1 DEF Unmoved, Pinned, PublishedOf, Recorded, Whole
<1>2. CASE UNCHANGED root
  BY <1>2, SameRootIsStutter DEF root
<1> QED
  BY <1>1, <1>2, RefuseIsStutter DEF Dataset

\* What the operator removes was never published.
LEMMA ClearInterruptedIsStutter ==
    ASSUME IInv, ClearInterrupted
    PROVE  Unmoved
<1>1. /\ art' = [a \in Artifacts |-> IF Whole(art[a]) THEN art[a] ELSE Missing]
      /\ dataset' = IF dataset = Torn THEN Missing ELSE dataset
      /\ UNCHANGED state
  BY DEF ClearInterrupted
<1>2. \A a \in Artifacts : Whole(art'[a]) <=> Whole(art[a])
  BY <1>1 DEF Whole
<1>3. PublishedOf' = PublishedOf
  BY <1>2 DEF PublishedOf, Whole
<1>4. CorpusOf' = CorpusOf
  BY <1>1, MarkAssumption DEF CorpusOf
<1> QED
  BY <1>1, <1>3, <1>4 DEF Unmoved, Pinned, Recorded

LEMMA CreateDestinationIsPublish ==
    ASSUME IInv, NEW a \in Artifacts, CreateDestination(a)
    PROVE  Ledger!Next \/ Unmoved
<1>1. /\ pc = "build" /\ todo # <<>> /\ a = Head(todo) /\ art[a] = Missing
      /\ \A b \in Artifacts : b # a => art'[b] = art[b]
      /\ UNCHANGED <<state, dataset>>
  BY DEF CreateDestination, IInv, TypeOK
<1>2. ~Whole(art[a])
  BY <1>1 DEF Whole
<1>3. CASE Whole(art'[a])
  BY <1>1, <1>2, <1>3, WholeIsPublish DEF Building
<1>4. CASE ~Whole(art'[a])
  BY <1>1, <1>2, <1>4, SameRootIsStutter DEF Whole
<1> QED
  BY <1>3, <1>4

\* The last file that is moved publishes the artifact.
LEMMA MoveFileIsPublish ==
    ASSUME IInv, NEW f \in Files, MoveFile(f)
    PROVE  Ledger!Next \/ Unmoved
<1> DEFINE a == Head(todo)
<1>1. pc = "moving" /\ UNCHANGED <<state, dataset>> /\ todo # <<>>
  BY MovingTodo DEF MoveFile
<1>2. a \in Artifacts /\ ~Whole(art[a])
  BY <1>1, AtItem DEF Building
<1>3. \A b \in Artifacts : b # a => art'[b] = art[b]
  BY DEF MoveFile, IInv, TypeOK
<1> HIDE DEF a
<1>4. CASE Whole(art'[a])
  BY <1>1, <1>2, <1>3, <1>4, WholeIsPublish DEF Building, a
<1>5. CASE ~Whole(art'[a])
  BY <1>1, <1>2, <1>3, <1>5, SameRootIsStutter DEF Whole
<1> QED
  BY <1>4, <1>5

LEMMA MoveFailsIsStutter ==
    ASSUME IInv, MoveFails
    PROVE  Unmoved
<1> DEFINE a == Head(todo)
<1>1. pc = "moving" /\ UNCHANGED <<state, dataset>> /\ todo # <<>>
  BY MovingTodo DEF MoveFails
<1>2. a \in Artifacts /\ ~Whole(art[a])
  BY <1>1, AtItem DEF Building
<1>3. art'[a] = Missing /\ \A b \in Artifacts : b # a => art'[b] = art[b]
  BY <1>2 DEF MoveFails, IInv, TypeOK
<1> HIDE DEF a
<1> QED
  BY <1>1, <1>2, <1>3, SameRootIsStutter DEF Whole

\* Every other step leaves what the ledger sees alone.
LEMMA OthersStutter ==
    ASSUME \/ Return \/ Inspect \/ Verify \/ Audit \/ Open \/ Built \/ ReportWritten
           \/ \E a \in Artifacts : Reuse(a)
           \/ \E c \in Configs, s \in Stages : Start(c, s)
           \/ Kill \/ ReplaceSource \/ \E a \in Artifacts : Damage(a)
           \/ UNCHANGED vars
    PROVE  Unmoved
<1>1. UNCHANGED <<state, dataset, art>>
  <2>1. CASE Return \/ Inspect \/ Verify \/ Audit \/ Open \/ Built \/ ReportWritten
    BY <2>1 DEF Return, Inspect, Verify, Audit, Open, Built, ReportWritten, Refuse, root
  <2>2. CASE \E a \in Artifacts : Reuse(a)
    BY <2>2 DEF Reuse, Refuse, root
  <2>3. CASE \E c \in Configs, s \in Stages : Start(c, s)
    BY <2>3 DEF Start
  <2>4. CASE Kill \/ ReplaceSource \/ (\E a \in Artifacts : Damage(a)) \/ UNCHANGED vars
    BY <2>4 DEF Kill, ReplaceSource, Damage, Refuse, root, vars
  <2> QED
    BY <2>1, <2>2, <2>3, <2>4
<1> QED
  BY <1>1, SameRootIsStutter

LEMMA NextIsLedgerNext ==
    ASSUME IInv, [Next]_vars
    PROVE  Ledger!Next \/ Unmoved
<1>1. CASE Pin \/ CheckStage
  BY <1>1, PinIsPin, CheckStageIsRecord
<1>2. CASE Dataset \/ DatasetWritten
  BY <1>2, DatasetIsStutter, DatasetWrittenIsIngest
<1>3. CASE Report
  BY <1>3, ReportIsRecord
<1>4. CASE \E a \in Artifacts : CreateDestination(a)
  BY <1>4, CreateDestinationIsPublish
<1>5. CASE \E f \in Files : MoveFile(f)
  BY <1>5, MoveFileIsPublish
<1>6. CASE MoveFails \/ ClearInterrupted
  BY <1>6, MoveFailsIsStutter, ClearInterruptedIsStutter
<1>7. CASE \/ Return \/ Inspect \/ Verify \/ Audit \/ Open \/ Built \/ ReportWritten
           \/ \E a \in Artifacts : Reuse(a)
           \/ \E c \in Configs, s \in Stages : Start(c, s)
           \/ Kill \/ ReplaceSource \/ \E a \in Artifacts : Damage(a)
           \/ UNCHANGED vars
  BY <1>7, OthersStutter
<1> QED
  BY <1>1, <1>2, <1>3, <1>4, <1>5, <1>6, <1>7 DEF Next, Step

\* A root implements the ledger, whatever interrupts its builds: it is pinned once,
\* its corpus is ingested once, every artifact is published once, whole and after
\* its inputs, and a stage is recorded when all up to it are published from the
\* pinned revision; nothing published or recorded is taken back.
THEOREM BuildKeepsLedger == Spec => KeepsLedger
<1>1. Init => IInv /\ Ledger!Init
  BY InitKeeps, InitIsLedgerInit
<1>2. IInv /\ [Next]_vars => IInv'
  BY NextKeeps
<1>3. IInv /\ [Next]_vars => Ledger!Next \/ Unmoved
  BY NextIsLedgerNext
<1>4. Ledger!Next \/ Unmoved => [Ledger!Next]_Ledger!ledger
  BY DEF Ledger!ledger, Unmoved, CorpusOf, PublishedOf
<1> QED
  BY <1>1, <1>2, <1>3, <1>4, PTL DEF Spec, KeepsLedger, Ledger!Spec
================================================================================
