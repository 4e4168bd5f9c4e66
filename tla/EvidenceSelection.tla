--------------------------- MODULE EvidenceSelection ---------------------------
(* From the hits of a search to the evidence an answer may use, and whether    *)
(* that evidence is enough: generation/evidence_selector.py,                   *)
(* context_builder.py and context_grader.py.                                   *)
EXTENDS Retrieval

CONSTANTS
    SelectionEnabled,                               \* EvidenceSelectionConfig
    ReferenceBoost, OverlapWeight, InactivePenalty,
    MaxPerDocument, MaxPerArticle,
    InactiveStatuses, MaxEvidence, MaxContextTokens,    \* GenerationConfig
    MinEvidence, RequireNumber, RequireArticle,         \* ContextGradingConfig
    IdentifiedDocuments,    \* document numbers whose type the code can spell out
    ScoreUnit               \* what 1.0 is, in integers

EvidenceSelectionConfig ==
    /\ SelectionEnabled \in BOOLEAN
    /\ {ReferenceBoost, OverlapWeight, InactivePenalty} \subseteq 0..10
    /\ {MaxPerDocument, MaxPerArticle} \subseteq 1..100
ContextGradingConfig == MinEvidence \in 1..100 /\ {RequireNumber, RequireArticle} \subseteq BOOLEAN

ASSUME EvidenceAssumption ==
    /\ EvidenceSelectionConfig /\ ContextGradingConfig
    /\ {MaxEvidence, MaxContextTokens, ScoreUnit} \subseteq Nat \ {0}

\* What can be said of a chunk: its text, its document number and its article.
ChunkTerms(chunk) ==
    ToSet(chunk.text)
        \cup {Token("document", n) : n \in {chunk.number} \ {None}}
        \cup {Token("article", n) : n \in {chunk.article} \ {None}}

Inactive(chunk) == chunk.status \in InactiveStatuses

\* A chunk without a document number still matches the number its title and its
\* address both begin with.
DocumentMatch(chunk, documents) ==
    IF documents = {} THEN "unasked"
    ELSE IF chunk.number \in documents THEN "yes"
    ELSE IF /\ chunk.number = None /\ chunk.title = chunk.url
            /\ chunk.title \in documents \cap IdentifiedDocuments
    THEN "yes" ELSE "no"

ArticleMatch(chunk, articles) ==
    IF articles = {} THEN "unasked" ELSE IF chunk.article \in articles THEN "yes" ELSE "no"

Applicability(chunk, document, article) ==
    CASE Inactive(chunk) -> "inactive"
      [] ~Inactive(chunk) /\ "no" \in {document, article} -> "reference_mismatch"
      [] ~Inactive(chunk) /\ "no" \notin {document, article}
                          /\ "yes" \in {document, article} -> "explicit_match"
      [] OTHER -> IF chunk.status = None THEN "unknown" ELSE "compatible"

\* A hit with everything the selection knows about it.
Candidate(q, hit) ==
    LET document == DocumentMatch(hit.chunk, q.analysis.documents)
        article == ArticleMatch(hit.chunk, q.analysis.articles)
        terms == ToSet(q.normalized)
        matches == Cardinality({k \in {1, 2} : <<document, article>>[k] = "yes"})
        overlap == IF terms = {} THEN 0
                   ELSE (ScoreUnit * Cardinality(terms \cap ChunkTerms(hit.chunk)))
                            \div Cardinality(terms)
        signals == matches * ReferenceBoost * ScoreUnit + overlap * OverlapWeight
                       - (IF Inactive(hit.chunk) THEN InactivePenalty * ScoreUnit ELSE 0)
    IN  [chunk |-> hit.chunk, rank |-> hit.rank, document |-> document,
         article |-> article, applicability |-> Applicability(hit.chunk, document, article),
         score |-> (ScoreUnit \div hit.rank) + (IF SelectionEnabled THEN signals ELSE 0)]

\* Order of selection: by score when enabled, active before inactive, by rank.
Precedes(a, b) ==
    LET late(c) == IF c.applicability = "inactive" THEN 1 ELSE 0
        key(c) == <<IF SelectionEnabled THEN -c.score ELSE 0, late(c), c.rank, c.chunk.id>>
    IN  \E k \in 1..4 : key(a)[k] < key(b)[k] /\ \A j \in 1..(k - 1) : key(a)[j] = key(b)[j]

TokenCount(chunk) == IF chunk.text = <<>> THEN 1 ELSE Len(chunk.text)

\* A candidate is kept whole or left out: the diversity limits come first, then
\* the number of evidence, then the tokens that are left.
Admits(evidence, candidate) ==
    LET same(Field(_)) == {i \in DOMAIN evidence :
                              Field(evidence[i].chunk) = Field(candidate.chunk)}
        tokens == Total(DOMAIN evidence, LAMBDA i : TokenCount(evidence[i].chunk))
    IN  /\ Cardinality(same(LAMBDA c : c.doc)) < MaxPerDocument
        /\ \/ candidate.chunk.article = None
           \/ Cardinality(same(LAMBDA c : <<c.doc, c.article>>)) < MaxPerArticle
        /\ Len(evidence) < MaxEvidence
        /\ tokens + TokenCount(candidate.chunk) <= MaxContextTokens

\* One after the other, a candidate is kept when those kept before it admit it.
Selected(ranked) ==
    LET kept == CHOOSE K \in SUBSET DOMAIN ranked :
                    \A i \in DOMAIN ranked :
                        i \in K <=> Admits(At(ranked, K \cap (1..(i - 1))), ranked[i])
    IN  At(ranked, kept)

\* The evidence selected from hits; the position of an item is its id (E1, E2...).
\* Two hits of one chunk id that differ in the chunk are an error.
BuildContext(q, hits) ==
    LET unique == Deduplicated(hits)
        candidates == {Candidate(q, unique[i]) : i \in DOMAIN unique}
        ranked == Sorted(candidates, Precedes)
    IN  IF Cardinality(ChunkIds(hits)) < Len(unique)
        THEN [error |-> "DATA_VALIDATION_ERROR", evidence |-> <<>>]
        ELSE [error |-> "none", evidence |-> Selected(ranked)]
--------------------------------------------------------------------------------
(* Context grading *)

\* Evidence that is not in force, or not of what the question names.
RejectsInactive(candidate) == candidate.applicability = "inactive"
Rejects(candidate) == candidate.applicability \in {"inactive", "reference_mismatch"}

\* What is missing for an answer, the empty set when the context is sufficient.
MissingAspects(q, evidence) ==
    LET items == ToSet(evidence)
        missing == [
            minimum_evidence_count |-> Len(evidence) < MinEvidence,
            document_number |-> RequireNumber /\ \E e \in items : e.chunk.number = None,
            article_number |-> RequireArticle /\ \E e \in items : e.chunk.article = None,
            unique_evidence_identity |->
                Cardinality({e.chunk.id : e \in items}) < Len(evidence),
            document_reference_match |-> /\ q.analysis.documents # {}
                                         /\ \A e \in items : e.document # "yes",
            article_reference_match |-> /\ q.analysis.articles # {}
                                        /\ \A e \in items : e.article # "yes",
            applicable_evidence |-> /\ items # {}
                                    /\ \A e \in items : Rejects(e)]
    IN  {aspect \in DOMAIN missing : missing[aspect]}

IsSufficient(q, evidence) == MissingAspects(q, evidence) = {}
================================================================================
