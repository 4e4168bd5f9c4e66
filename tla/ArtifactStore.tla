---------------------------- MODULE ArtifactStore -----------------------------
(***************************************************************************)
(* The artifact directories of a build: how a writer publishes one, what a  *)
(* loader accepts, and what the validator of a whole set demands.           *)
(*                                                                         *)
(* A writer stages the payload and the manifest in a temporary directory,   *)
(* then creates the destination and moves the two files into it one at a    *)
(* time, in the order the file system lists them.  A directory is the set   *)
(* of the files that arrived and the manifest they were staged with; a      *)
(* payload digest is the damage the payload took or did not.                *)
(***************************************************************************)
EXTENDS Naturals, FiniteSets

CONSTANTS
    Revisions,      \* content digests of the official source
    Configs,        \* application configuration and code version
    FullCorpus,     \* revisions whose counts are the expected ones
    RequireFull,    \* configurations whose policy requires the full corpus
    Missing         \* no such file or directory

ASSUME StoreAssumption ==
    /\ FullCorpus \subseteq Revisions
    /\ RequireFull \subseteq Configs

Artifacts == {"normalized", "cleaned", "relationships", "graph",
              "blocks", "chunks", "bm25", "vector"}

\* The artifacts whose processing hash a manifest quotes as its source.
Inputs ==
    [a \in Artifacts |->
        CASE a = "normalized" -> {}
          [] a \in {"cleaned", "relationships"} -> {"normalized"}
          [] a = "graph" -> {"normalized", "relationships"}
          [] a = "blocks" -> {"cleaned"}
          [] a = "chunks" -> {"blocks", "normalized"}
          [] OTHER -> {"chunks"}]

\* A manifest: dataset revision, configuration hashed into it, the hashes of
\* its sources (the configuration that produced each).
Manifest(a) == [revision : Revisions, config : Configs, from : [Inputs[a] -> Configs]]

Files == {"payload", "manifest"}
Directory(a) == [files : SUBSET Files, manifest : Manifest(a)]

\* finalize: the destination is created before any file is moved.
NewDirectory(m) == [files |-> {}, manifest |-> m]
WithFile(d, f) == [d EXCEPT !.files = @ \cup {f}]

\* Both files arrived: what the loaders require before anything else.
Whole(d) == d # Missing /\ d.files = Files

\* The loaders: manifest readable and of the expected type, payload digest and
\* record count as the manifest says.
Loads(d, damaged) == Whole(d) /\ ~damaged

\* A stored artifact is reused when the manifest a build would write names the
\* same revision and the same processing hash.
SameIdentity(d, m) == d.manifest.revision = m.revision /\ d.manifest.config = m.config
--------------------------------------------------------------------------------
(* ArtifactSetValidator: art is [Artifacts -> Directory or Missing] *)

\* Every artifact derives from the stored artifacts it names.
Lineage(art) ==
    \A a \in Artifacts : \A i \in Inputs[a] :
        art[a].manifest.from[i] = art[i].manifest.config

ValidSet(art, damaged, dataset, config) ==
    /\ dataset \in Revisions
    /\ \A a \in Artifacts :
          /\ Loads(art[a], a \in damaged)
          /\ art[a].manifest.revision = dataset
    /\ Lineage(art)
    /\ config \in RequireFull => dataset \in FullCorpus
================================================================================
