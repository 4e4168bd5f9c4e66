---------------------------- MODULE RuntimeStartup ----------------------------
(***************************************************************************)
(* OnlineRuntimeFactory.build on the root of an offline build, at whatever  *)
(* point of the build, of a failure or of a later damage it is called: a    *)
(* start only reads, so it is the condition on the root under which it      *)
(* hands out a runtime.  The "full" mode digests every payload, the         *)
(* "validated_report" mode trusts the report of the build instead.  Without *)
(* serving metadata next to the vector index.                               *)
(***************************************************************************)
EXTENDS OfflineBuild

CONSTANT
    UsableBy    \* [Configs -> SUBSET Configs]: the configurations whose indexes
                \* suit the embedding provider, the analyzers and the backends
                \* of a runtime

ASSUME StartupAssumption ==
    /\ UsableBy \in [Configs -> SUBSET Configs]
    /\ \A c \in Configs : c \in UsableBy[c]

Modes == {"full", "validated_report"}
Served == {"chunks", "bm25", "vector", "graph"}

\* A manifest is read from any directory it arrived in, with or without payload.
ManifestReads(d) == d # Missing /\ "manifest" \in d.files

\* _validate_manifests: one dataset revision, text indexes of these chunks, and
\* a graph of the documents the chunks come from.
OneLineage ==
    /\ \A a, b \in Served : art[a].manifest.revision = art[b].manifest.revision
    /\ \A a \in {"bm25", "vector"} :
          art[a].manifest.from["chunks"] = art["chunks"].manifest.config
    /\ art["graph"].manifest.from["normalized"] = art["chunks"].manifest.from["normalized"]

\* Fault: a report that can be read is taken for one that approves.
ReportReads == report \in {"valid", "invalid"}

\* An artifact that was whole when the report was written is never replaced, so
\* the manifests of a valid report are those of the root.
ReportApproves == report = "valid"

\* The load of an index: all its files; the digests in full mode only.
IndexLoads(a, mode) == Whole(art[a]) /\ (mode = "full" => a \notin damaged)

\* The runtime takes nothing but the manifest from the chunks.
ChunksLoad(mode) == mode = "full" => Loads(art["chunks"], "chunks" \in damaged)

\* A runtime of configuration c starts in a mode.
Starts(c, mode) ==
    /\ \A a \in Served : ManifestReads(art[a])
    /\ ChunksLoad(mode)
    /\ OneLineage
    /\ mode = "validated_report" => ReportApproves
    /\ \A a \in Served \ {"chunks"} :
          IndexLoads(a, mode) /\ art[a].manifest.config \in UsableBy[c]
--------------------------------------------------------------------------------
(* Properties *)

\* A runtime that starts while or after builds run on its root serves the
\* artifacts of one build: of the pinned revision and configuration, whatever
\* was interrupted, replaced or started in between.
StartedSetIsOneBuild(c, mode) ==
    Starts(c, mode) =>
        /\ state # Missing
        /\ \A a \in Served : /\ art[a].manifest.revision = state.revision
                             /\ art[a].manifest.config = state.config
        /\ mode = "full" => Served \cap damaged = {}

\* The short start stands for a whole validation: the root it accepts has all
\* eight artifacts, and the full corpus where that is required.
ShortStartWasValidated(c) ==
    Starts(c, "validated_report") =>
        /\ \A a \in Artifacts : Whole(art[a])
        /\ dataset = state.revision
        /\ state.config \in RequireFull => dataset \in FullCorpus

\* A completed build is what a runtime can start from, in both modes, as long
\* as nothing damages it.
CompletedSetStarts ==
    Recorded = 5 =>
        /\ Starts(state.config, "validated_report")
        /\ Served \cap damaged = {} => Starts(state.config, "full")

\* What a build completes and what a runtime starts on is one build.
ServedSetIsOneBuild ==
    /\ CompletedSetIsOneBuild
    /\ CompletedSetStarts
    /\ \A c \in Configs : /\ \A mode \in Modes : StartedSetIsOneBuild(c, mode)
                          /\ ShortStartWasValidated(c)
================================================================================
