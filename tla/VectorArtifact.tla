---------------------------- MODULE VectorArtifact -----------------------------
(***************************************************************************)
(* What a checkpointed vector build promises, whatever interrupts it: a     *)
(* destination belongs to the first build that committed anything to it,    *)
(* committed work is never taken back, and the artifact appears once, by    *)
(* one step, whole: one embedding of that build per chunk, in source order. *)
(***************************************************************************)
EXTENDS Naturals, Sequences

CONSTANTS
    Builds,         \* build identities: source artifact, model, code, settings
    Source,         \* [Builds -> the chunks of the source artifact, in its order]
    RecordCount,    \* [Builds -> the record_count its manifest declares]
    Nothing         \* no owner, no artifact

VARIABLES
    owner,          \* the build the destination belongs to
    committed,      \* how many of its chunks are embedded for good
    artifact        \* what the destination holds

abstractVars == <<owner, committed, artifact>>

Embedding(b, c) == <<b, c>>

Whole(b) ==
    [build  |-> b,
     rows   |-> [i \in DOMAIN Source[b] |-> Embedding(b, Source[b][i])],
     chunks |-> Source[b]]

DistinctUpTo(b, n) ==
    \A i, j \in 1..n : Source[b][i] = Source[b][j] => i = j

Init == owner = Nothing /\ committed = 0 /\ artifact = Nothing

Claim(b) ==
    /\ owner = Nothing
    /\ owner' = b
    /\ UNCHANGED <<committed, artifact>>

Commit(b) ==
    /\ owner = b /\ artifact = Nothing
    /\ committed' \in committed..Len(Source[b])
    /\ committed' <= RecordCount[b]
    /\ DistinctUpTo(b, committed')
    /\ UNCHANGED <<owner, artifact>>

Publish(b) ==
    /\ owner = b /\ artifact = Nothing
    /\ committed = Len(Source[b]) /\ committed = RecordCount[b]
    /\ artifact' = Whole(b)
    /\ UNCHANGED <<owner, committed>>

Next == \E b \in Builds : Claim(b) \/ Commit(b) \/ Publish(b)

Spec == Init /\ [][Next]_abstractVars
================================================================================
