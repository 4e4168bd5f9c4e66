---------------------------- MODULE ArtifactLedger ----------------------------
(***************************************************************************)
(* What a reader of an artifact root relies on, whatever interrupted the    *)
(* builds that worked on it: the root belongs to one build identity, every  *)
(* artifact is published once, whole, after the artifacts it is derived     *)
(* from, and a stage is recorded only when its artifacts are all there and  *)
(* come from the pinned source.                                             *)
(***************************************************************************)
EXTENDS Naturals

CONSTANTS
    Identities,     \* what a build state can pin: source revision, configuration
    RevisionOf,     \* [Identities -> revision]
    Artifacts,      \* the artifacts of a build
    Inputs,         \* [Artifacts -> SUBSET Artifacts], what each is derived from
    StageOf,        \* [Artifacts -> 1..Stages]
    Stages,         \* the number of recorded stages
    Unset           \* nothing pinned, nothing ingested

VARIABLES
    pinned,         \* the identity of the root
    corpus,         \* the revision of its dataset manifest
    published,      \* the artifacts that can be loaded
    recorded        \* the stages recorded as completed

ledger == <<pinned, corpus, published, recorded>>

Init ==
    /\ pinned = Unset
    /\ corpus = Unset
    /\ published = {}
    /\ recorded = 0

Pin(i) ==
    /\ pinned = Unset /\ corpus = Unset
    /\ pinned' = i
    /\ UNCHANGED <<corpus, published, recorded>>

\* The source can be replaced after the identity was pinned.
Ingest(r) ==
    /\ pinned # Unset /\ corpus = Unset
    /\ corpus' = r
    /\ UNCHANGED <<pinned, published, recorded>>

Publish(a) ==
    /\ a \notin published
    /\ corpus # Unset
    /\ Inputs[a] \subseteq published
    /\ published' = published \cup {a}
    /\ UNCHANGED <<pinned, corpus, recorded>>

Record ==
    /\ recorded < Stages /\ pinned # Unset
    /\ corpus = RevisionOf[pinned]
    /\ \A a \in Artifacts : StageOf[a] <= recorded + 1 => a \in published
    /\ recorded' = recorded + 1
    /\ UNCHANGED <<pinned, corpus, published>>

Next ==
    \/ \E i \in Identities : Pin(i) \/ Ingest(RevisionOf[i])
    \/ \E a \in Artifacts : Publish(a)
    \/ Record

Spec == Init /\ [][Next]_ledger
================================================================================
