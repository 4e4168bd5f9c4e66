------------------------------- MODULE LegalService ----------------------------
(* The whole way of a legal text to an answer: documents are cleaned, parsed   *)
(* and chunked one by one, the graph is built over them, a runtime loads the   *)
(* result and the agent answers questions from it.                             *)
EXTENDS Chunking, AgentWorkflow

CONSTANTS
    Libraries,          \* the document collections a build may begin with
    Budgets             \* the chunking configurations it may have

\* What the marker patterns make of a stretch of text.
IsCleanLine(line) ==
    /\ DOMAIN line = {"kind", "number", "title", "text", "names", "titleLike"}
    /\ IsList(line.title) /\ IsList(line.text)

\* A library: its documents, with different ids, and the relationships read.
\* The tokens that are added to every text are fewer than a chunk may have: the
\* tokenizer refuses a window without room for a text.
ASSUME ServiceAssumption ==
    /\ \A b \in Budgets : /\ {b.maxTokens, b.maxSearch, b.overlap, b.added} \subseteq Nat
                          /\ LegalBudget(b) /\ b.added < b.maxTokens
    /\ \A library \in Libraries :
          /\ IsList(library.documents) /\ IsList(library.relationships)
          /\ IsInjective([i \in DOMAIN library.documents |-> library.documents[i].doc])
          /\ \A document \in ToSet(library.documents) :
                /\ IsList(document.name) /\ IsList(document.source)
                /\ \A piece \in ToSet(document.source) : IsCleanLine(piece.line)

VARIABLES
    library, budget,    \* of this build
    stage,              \* of the build: "documents", "graph", "built", "failed", "loaded"
    processed           \* documents parsed and chunked so far

building == <<library, budget, stage, processed>>
vars == <<serving, asked, searching, answering, phase, building>>

Init ==
    /\ library \in Libraries /\ budget \in Budgets
    /\ stage = "documents" /\ processed = 0
    /\ corpus = <<>> /\ graph = [documents |-> {}, relationships |-> <<>>]
    /\ WorkflowInit

\* StreamingDocumentProcessor: the lines of the next document become blocks, the
\* blocks chunks; a document whose chunks do not validate ends the build.  A
\* number stands for the digest that is a chunk's id: only its order is used later.
ProcessDocument ==
    /\ stage = "documents" /\ processed < Len(library.documents)
    /\ LET document == library.documents[processed + 1]
       IN  \E lines \in {CleanedLines(document)} :
           \E chunked \in {ChunkDocument(budget, document, ParseDocument(lines))} :
              IF chunked.error = "none"
              THEN /\ corpus' = corpus \o [i \in DOMAIN chunked.chunks |->
                                              [chunked.chunks[i] EXCEPT !.id = Len(corpus) + i]]
                   /\ processed' = processed + 1 /\ UNCHANGED stage
              ELSE stage' = "failed" /\ UNCHANGED <<corpus, processed>>
    /\ UNCHANGED <<library, budget, graph, config, phase, asked, searching, answering>>

\* AdjacencyGraphBackend._validate_build_inputs
GraphAccepts(documents, relationships) ==
    /\ IsInjective(relationships)
    /\ \A r \in ToSet(relationships) : /\ {r.source, r.target} \subseteq documents
                                       /\ r.source # r.target

\* Relationships are kept by source and target, whatever order they are read in.
BuildGraph ==
    LET documents == {library.documents[i].doc : i \in DOMAIN library.documents}
    IN  /\ stage = "documents" /\ processed = Len(library.documents)
        /\ IF GraphAccepts(documents, library.relationships)
           THEN /\ stage' = "built"
                /\ graph' = [documents |-> documents, relationships |-> library.relationships]
           ELSE stage' = "failed" /\ UNCHANGED graph
        /\ UNCHANGED <<library, budget, processed, corpus, config, phase,
                       asked, searching, answering>>

\* OnlineRuntimeFactory.build over the artifacts of this build.
LoadRuntime ==
    /\ stage = "built" /\ stage' = "loaded"
    /\ UNCHANGED <<library, budget, processed, serving, phase, asked, searching, answering>>

Answer ==
    /\ stage = "loaded"
    /\ (\E question \in Questions : Ask(question)) \/ WorkflowStep
    /\ UNCHANGED building

\* After a failure the build is begun again, with other documents or settings.
BuildAgain ==
    /\ stage = "failed" /\ stage' = "documents" /\ processed' = 0 /\ corpus' = <<>>
    /\ library' \in Libraries /\ budget' \in Budgets
    /\ UNCHANGED <<graph, config, phase, asked, searching, answering>>

Next == ProcessDocument \/ BuildGraph \/ LoadRuntime \/ BuildAgain \/ Answer

Spec == Init /\ [][Next]_vars

\* A run at work goes on: weak fairness of WorkflowStep, which is enabled exactly
\* while a run is at work, as the absence of a deadlock shows.
AtWork == phase \notin {"idle", "answered"}
FairSpec == Spec /\ ([]<>~AtWork \/ []<><<AtWork>>_vars)
--------------------------------------------------------------------------------
(* Properties *)

StopReasons == {None, "answer_verified", "max_retry_reached", "no_new_strategy",
                "non_retryable_tool_error", "timeout", "generation_failed",
                "citation_verification_failed"}

\* The state is what the declarations say, within the bounds of the retries.
TypeOK ==
    /\ stage \in {"documents", "built", "failed", "loaded"}
    /\ processed \in 0..Len(library.documents)
    /\ phase \in Phases /\ stop \in StopReasons /\ config \in Configurations
    /\ phase # "idle" => attempt \in 1..Len(Routes(query))
    /\ Len(history) <= MaxRetry + 1
    /\ gen.attempt \in 0..config.policy.structured
    /\ gen.retry \in 0..config.policy.modelRetries
    /\ judged \in 0..SemanticRetries
    /\ Len(evidence) <= MaxEvidence
    /\ \A i \in DOMAIN evidence : evidence[i].chunk \in ToSet(corpus)

\* A document as the theorem about its chunks needs it: what is ignored in it is
\* closed by its own end tag, its untagged scripts are all code, and the markers
\* of its lines are told apart.
IsClear(document) ==
    /\ EndsTogether(document.source, RulesOf(document))
    /\ document.cleaner = "html" \/ ScriptsAreCode(NoticeFree(document.source))
    /\ WellMarked(CleanedLines(document))
ClearLibraries == \A l \in Libraries : \A document \in ToSet(l.documents) : IsClear(document)

\* Every visible word of a processed document is in a chunk of that document,
\* and a word of an article in a chunk that names the article, however markup
\* cut the text into lines, and clauses and windows the article into chunks
\* (passage_cleaner.py, html_cleaner.py, structure_parser.py, legal_chunker.py).
ChunksKnowTheirArticle ==
    stage \in {"built", "failed"} => \A n \in 1..processed :
        LET document == library.documents[n]  lines == CleanedLines(document)
            chunks == {c \in ToSet(corpus) : c.doc = document.doc}
        IN  /\ LegalTokens(document) \subseteq UNION {ToSet(c.text) : c \in chunks}
            /\ \A i \in DOMAIN lines : \A t \in ToSet(lines[i].text) :
                  LET article == GoverningArticle(lines, i)
                  IN  \E c \in chunks : /\ t \in ToSet(c.text)
                                        /\ article # None => c.article = article

\* The chunker's own validation never refuses what the chunker makes when the
\* search budget leaves room for the content label; otherwise only relationships
\* that the graph of the documents does not take end a build (legal_chunker.py:221).
OnlyTightBudgetsFail ==
    stage = "failed" =>
        \/ budget.maxSearch < budget.maxTokens + Len(ContentLabel)
        \/ ~GraphAccepts({library.documents[i].doc : i \in DOMAIN library.documents},
                         library.relationships)

\* A path leads from document to document along edges of the graph to the
\* document of its hit.
IsPath(path, hit) ==
    /\ Len(path) <= HopLimit /\ path[Len(path)].target = hit.chunk.doc
    /\ ToSet(path) \subseteq ToSet(graph.relationships)
    /\ \A k \in 1..(Len(path) - 1) : path[k].target = path[k + 1].source

\* Whatever strategy, variant, reranking or expansion found them, the hits of a
\* search are ranked chunks of the loaded corpus, each once, within the filters
\* of the question, and a related one has a real path (retrieval/*.py).
HitsRespectTheQuestion ==
    found # <<>> =>
        LET hits == found[1].hits
        IN  /\ Len(hits) <= query.topK /\ Cardinality(ChunkIds(hits)) = Len(hits)
            /\ Chunks(hits) \subseteq ToSet(corpus)
            /\ \A i \in DOMAIN hits : /\ hits[i].rank = i
                                      /\ Passes(hits[i].chunk, query.filters)
                                      /\ hits[i].path # <<>> => IsPath(hits[i].path, hits[i])

\* An answer is generated only from a context in which one piece of evidence is
\* in force and is of the document and the article the question names, as far
\* as it names them (context_grader.py:23, evidence_selector.py:150).
SufficientContextIsApplicable ==
    phase \in {"generate", "verify"} \/ stop = "answer_verified" =>
        \E i \in DOMAIN evidence :
            LET chunk == evidence[i].chunk
                documents == query.analysis.documents
                articles == query.analysis.articles
            IN  /\ chunk.status \notin InactiveStatuses
                /\ articles # {} => chunk.article \in articles
                /\ documents # {} => chunk.number \in documents \/ chunk.title \in documents

\* An answer that leaves as verified cites chunks of the last search, and every
\* number and every negation of every sentence of it is in a chunk it cites,
\* whether a model wrote it, a repair, a salvage or a fallback
\* (model_generator.py:188, claim_grounding.py:123).
VerifiedAnswerIsGrounded ==
    stop = "answer_verified" =>
        LET answer == response[1].answer  citations == response[1].citations
            cited == {citations[i].chunk : i \in DOMAIN citations}
            known == UNION {ChunkTerms(c) : c \in cited}
        IN  /\ cited # {} /\ cited \subseteq Chunks(found[1].hits)
            /\ \A i \in DOMAIN answer :
                  LET said == ToSet(answer[i].text)
                  IN  /\ Numbers(said) \subseteq Numbers(known)
                      /\ Negations(said) \subseteq Negations(known)

\* With the strongest recovery the generator returns only answers the verifier
\* accepts, so that its recovery is never in vain (model_generator.py:341).
RecoveredAnswerVerifies ==
    /\ phase = "verify" /\ AnswersByModel
    /\ config.policy.onGroundingFailure = "supported_claims_or_top_evidence"
    => IsValid(Verify(response[1], evidence))

\* What a run returns fits its history, as the validators of agent_state.py:102
\* and 127 demand: an answer is verified exactly when it is no abstention, it
\* names the strategy of the last attempt, and every attempt was another one.
RunResultIsAligned ==
    phase = "answered" =>
        /\ (stop = "answer_verified") <=> ~response[1].insufficient
        /\ history # <<>> /\ response[1].strategy = history[Len(history)].strategy
        /\ \A i, j \in DOMAIN history : i < j => /\ history[i].attempt < history[j].attempt
                                               /\ history[i].strategy # history[j].strategy

\* Every run returns, if only with an abstention (workflow.py:94): the attempts,
\* the corrections, the repair and the judgements are all bounded.
RunReturns == phase = "search" ~> phase = "answered"

\* A cleaner retains the legal text outside the subtrees it ignores
\* (passage_cleaner.py:159, docs/08-DESIGN-DECISIONS.md:472).
VisibleTextIsRetained ==
    \A n \in 1..processed :
        LegalTokens(library.documents[n])
            \subseteq UNION {ToSet(c.text) : c \in ToSet(corpus)}
================================================================================
