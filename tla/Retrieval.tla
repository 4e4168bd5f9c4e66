------------------------------- MODULE Retrieval -------------------------------
(* The fixed retrieval strategies over one loaded corpus: the two branches,    *)
(* their fusion, reranking and graph expansion.  A search is an operator: it   *)
(* returns its hits, whose position is their rank, or the error it raises.     *)
EXTENDS QueryPlanning

CONSTANTS
    Similarity(_, _),   \* cosine of a text's and a chunk's embedding, external
    MaxQueryTerms, MaxFrequencyPercent,     \* BM25RuntimeConfig
    MatchAll,                               \* BM25IndexConfig.match_mode = "all"
    MultiQuery,                             \* multi_query_enabled
    RrfConstant,
    RrfUnit,                                \* what 1.0 is, in integers
    Reranker,                               \* "cross_encoder" or "jina_native_listwise"
    MaxCandidates,                          \* RerankerConfig.max_candidates
    HopLimit, SeedChunkK, SeedDocumentK, RelatedDocumentK,
    RelationshipTypes                       \* followed by the expansion, {} for all

RetrievalConfig ==
    /\ {RrfConstant, RrfUnit} \subseteq Nat \ {0} /\ HopLimit \in 1..2
    /\ {SeedChunkK, SeedDocumentK, RelatedDocumentK} \subseteq 1..100
BM25RuntimeConfig == MaxQueryTerms \in 1..64 /\ MaxFrequencyPercent \in 1..100
RerankerConfig ==
    Reranker \in {"cross_encoder", "jina_native_listwise"} /\ MaxCandidates \in 1..100

\* In units of RrfUnit every contribution of a branch is an integer.
ASSUME RetrievalAssumption ==
    /\ RetrievalConfig /\ BM25RuntimeConfig /\ RerankerConfig
    /\ \A r \in 1..MaxCandidates : RrfUnit % (RrfConstant + r) = 0

\* What the query service lets through of a question and its limits.
AcceptsRequest(query) ==
    /\ query.normalized # NoText /\ IsInjective(query.variants)
    /\ 0 < query.topK /\ query.topK <= query.candidateK /\ query.candidateK <= MaxCandidates

Answered(hits) == [error |-> "none", hits |-> hits]
Failed(error) == [error |-> error, hits |-> <<>>]

\* A chunk is a record with an id, whose order is that of chunk_id, its
\* document, article and effect status, its text, and the text with its context
\* that both indexes are built from (search).  A corpus is a sequence of chunks.
Hit(chunk, rank, score) == [chunk |-> chunk, rank |-> rank, score |-> score, path |-> <<>>]
Chunks(hits) == {hits[i].chunk : i \in DOMAIN hits}
ChunkIds(hits) == {hits[i].chunk.id : i \in DOMAIN hits}

\* An empty filter lets everything pass; a chunk without the field passes none.
Passes(chunk, filters) ==
    \A field \in DOMAIN filters : filters[field] = {} \/ chunk[field] \in filters[field]

\* The place decides between chunks of the same score.
Scored(chunk, score, place) == [chunk |-> chunk, score |-> score, place |-> place]
Before(a, b) == a.score > b.score \/ (a.score = b.score /\ a.place < b.place)

\* The best topK of a set of scored chunks.
TopRanked(scored, topK) ==
    LET best == Prefix(Sorted(scored, Before), topK)
    IN  [i \in DOMAIN best |-> Hit(best[i].chunk, i, best[i].score)]
--------------------------------------------------------------------------------
(* Lexical branch: indexing/bm25 *)

DocumentFrequency(corpus, term) ==
    Cardinality({i \in DOMAIN corpus : Contains(corpus[i].search, term)})

\* Numbers and modifiers first, then the terms of few documents, rarest first;
\* the selected terms keep their order in the question.
PlanTerms(corpus, text) ==
    LET unique == Unique(text)
        df(term) == DocumentFrequency(corpus, term)
        known == At(unique, {i \in DOMAIN unique : df(unique[i]) > 0})
        priority == At(known, {i \in DOMAIN known : IsNumeric(known[i]) \/ IsModifier(known[i])})
        others == ToSet(known) \ ToSet(priority)
        rare == {t \in others : df(t) * 100 <= Len(corpus) * MaxFrequencyPercent}
        position(t) == CHOOSE i \in DOMAIN unique : unique[i] = t
        discriminative == Sorted(IF rare = {} THEN others ELSE rare,
                                 LAMBDA a, b : \/ df(a) < df(b)
                                               \/ df(a) = df(b) /\ position(a) < position(b))
        selected == ToSet(Prefix(priority \o discriminative, MaxQueryTerms))
    IN  IF known = <<>> THEN Prefix(unique, MaxQueryTerms)
        ELSE At(unique, {i \in DOMAIN unique : unique[i] \in selected})

\* FTS5 ranks a match; here by the number of planned terms, then by row.
Bm25Search(corpus, q) ==
    LET plan == PlanTerms(corpus, EffectiveText(q))
        matched(chunk) == Cardinality(ToSet(plan) \cap ToSet(chunk.search))
        needed == IF MatchAll THEN Len(plan) ELSE 1
        found == {i \in DOMAIN corpus : /\ Passes(corpus[i], q.filters)
                                        /\ matched(corpus[i]) >= needed}
    IN  IF plan = <<>> THEN <<>>
        ELSE TopRanked({Scored(corpus[i], matched(corpus[i]), i) : i \in found}, q.topK)
--------------------------------------------------------------------------------
(* Dense branch: indexing/vector/numpy_backend.py *)

\* The topK best by partition: everything above the score of the last one,
\* filled up with the smallest chunk ids among those that reach it.
RankedOffsets(scored, topK) ==
    LET limit == IF topK < Cardinality(scored) THEN topK ELSE Cardinality(scored)
        threshold == CHOOSE s \in {c.score : c \in scored} :
                        /\ Cardinality({c \in scored : c.score > s}) < limit
                        /\ Cardinality({c \in scored : c.score >= s}) >= limit
        above == {c \in scored : c.score > threshold}
        tied == {c \in scored : c.score = threshold}
    IN  IF limit = Cardinality(scored) THEN scored
        ELSE above \cup ToSet(Prefix(Sorted(tied, Before), limit - Cardinality(above)))

DenseSearch(corpus, q) ==
    LET found == {c \in ToSet(corpus) : Passes(c, q.filters)}
        scored == {Scored(c, Similarity(EffectiveText(q), c), c.id) : c \in found}
    IN  TopRanked(RankedOffsets(scored, q.topK), q.topK)
--------------------------------------------------------------------------------
(* Hybrid: retrieval/fixed.py, rrf.py, multi_query.py *)

ActiveVariants(q) ==
    IF MultiQuery /\ q.rewritten = NoText /\ q.variants # <<>>
    THEN Prefix(q.variants, MaxVariants) ELSE <<EffectiveText(q)>>

Contribution(rank) == RrfUnit \div (RrfConstant + rank)

\* What a branch adds for a chunk: a list without it adds nothing.
BranchScore(hits, chunk) ==
    LET at == {i \in DOMAIN hits : hits[i].chunk = chunk}
    IN  Amount(at, LAMBDA i : Contribution(hits[i].rank))

ReciprocalRankFusion(sparse, dense, topK) ==
    TopRanked({Scored(c, BranchScore(sparse, c) + BranchScore(dense, c), c.id) :
                  c \in Chunks(sparse) \cup Chunks(dense)}, topK)

FuseQueryBranches(branches, topK) ==
    LET total(c) == Amount(DOMAIN branches, LAMBDA i : BranchScore(branches[i], c))
    IN  TopRanked({Scored(c, total(c), c.id) :
                      c \in UNION {Chunks(branches[i]) : i \in DOMAIN branches}}, topK)

\* One form of the question is fused by branch, several over all branches.
Fused(sparse, dense, topK) ==
    IF Len(sparse) = 1 THEN ReciprocalRankFusion(sparse[1], dense[1], topK)
    ELSE FuseQueryBranches(sparse \o dense, topK)

HybridSearch(corpus, q) ==
    LET variants == ActiveVariants(q)
        branch(v) == [q EXCEPT !.topK = q.candidateK,
                               !.rewritten = IF v = q.normalized THEN NoText ELSE v]
    IN  Fused([i \in DOMAIN variants |-> Bm25Search(corpus, branch(variants[i]))],
              [i \in DOMAIN variants |-> DenseSearch(corpus, branch(variants[i]))], q.topK)
--------------------------------------------------------------------------------
(* Reranking: reranking/*.py, retrieval/rerank.py, rerank_validation.py *)

NoScores == [c \in {} |-> 0]

\* The listwise backend wants the ranks of its candidates to be their positions.
AcceptsCandidates(q, hits) ==
    \/ /\ Reranker = "cross_encoder"
       /\ Len(hits) <= q.candidateK /\ Len(hits) <= MaxCandidates
       /\ Cardinality(ChunkIds(hits)) = Len(hits)
    \/ /\ Reranker = "jina_native_listwise"
       /\ Len(hits) <= MaxCandidates
       /\ \A i \in DOMAIN hits : hits[i].rank = i

\* By score, then by the rank a candidate came with (its position for the
\* listwise backend), then by id.
RerankOrder(hits, scores) ==
    LET came(i) == IF Reranker = "cross_encoder" THEN hits[i].rank ELSE i
        score(i) == scores[hits[i].chunk.id]
    IN  Sorted(DOMAIN hits,
               LAMBDA i, j : \/ score(i) > score(j)
                             \/ score(i) = score(j) /\ came(i) < came(j)
                             \/ /\ score(i) = score(j) /\ came(i) = came(j)
                                /\ hits[i].chunk.id < hits[j].chunk.id)

\* scores is what the model returned, NoScores when it failed or returned
\* something that is not a number for every candidate.
Rerank(q, hits, scores) ==
    IF ~AcceptsCandidates(q, hits) THEN Failed("RETRIEVAL_ERROR")
    ELSE IF hits = <<>> THEN Answered(<<>>)
    ELSE IF ~(ChunkIds(hits) \subseteq DOMAIN scores) THEN Failed("MODEL_ERROR")
    ELSE LET order == RerankOrder(hits, scores)
         IN  Answered([i \in DOMAIN Prefix(order, q.topK) |->
                         [hits[order[i]] EXCEPT !.rank = i,
                                                !.score = scores[hits[order[i]].chunk.id]]])

\* A reranked answer consists of candidates, each once and unchanged.
ValidReranking(q, hits, reranked) ==
    /\ Len(reranked) <= q.topK
    /\ Cardinality(ChunkIds(reranked)) = Len(reranked)
    /\ Chunks(reranked) \subseteq Chunks(hits)
    /\ \A i \in DOMAIN reranked : reranked[i].rank = i

Reranked(q, hits, scores) ==
    LET answer == Rerank(q, hits, scores)
    IN  IF answer.error = "none" /\ ~ValidReranking(q, hits, answer.hits)
        THEN Failed("RETRIEVAL_ERROR") ELSE answer

HybridRerankSearch(corpus, q, scores) ==
    IF q.candidateK > MaxCandidates THEN Failed("RETRIEVAL_ERROR")
    ELSE Reranked(q, HybridSearch(corpus, [q EXCEPT !.topK = q.candidateK]), scores)
--------------------------------------------------------------------------------
(* Graph expansion: retrieval/graph.py over indexing/graph/adjacency_backend.py *)

\* One step of the breadth-first search: the first relationship, in adjacency
\* order, from a document reached in fewer hops than the limit to a new one.
\* relationships are sorted by source and target; reached lists what the
\* search has found, in the order it found it.
NextDiscovery(relationships, reached) ==
    LET open == {e \in (DOMAIN reached) \X (DOMAIN relationships) :
                    LET from == reached[e[1]]  edge == relationships[e[2]]
                    IN  /\ from.hop < HopLimit /\ edge.source = from.document
                        /\ RelationshipTypes = {} \/ edge.type \in RelationshipTypes
                        /\ \A k \in DOMAIN reached : reached[k].document # edge.target}
    IN  {e \in open : \A f \in open : e[1] < f[1] \/ (e[1] = f[1] /\ e[2] <= f[2])}

\* At most one discovery for every document the relationships name.
Traverse(relationships, seeds) ==
    LET start == [i \in DOMAIN seeds |-> [document |-> seeds[i], hop |-> 0, via |-> <<>>]]
        discover(reached, e) ==
            LET from == reached[e[1]]  edge == relationships[e[2]]
            IN  Append(reached, [document |-> edge.target, hop |-> from.hop + 1,
                                 via |-> Append(from.via, edge)])
        step(reached) ==
            LET next == NextDiscovery(relationships, reached)
            IN  IF next = {} THEN reached ELSE discover(reached, CHOOSE e \in next : TRUE)
        after[n \in 0..Len(relationships)] == IF n = 0 THEN start ELSE step(after[n - 1])
    IN  after[Len(relationships)]

\* The documents of the first seeds.
SeedDocuments(hits) ==
    Prefix(Unique([i \in DOMAIN hits |-> hits[i].chunk.doc]), SeedDocumentK)

DocumentsAt(reached, positions) ==
    Prefix(At([i \in DOMAIN reached |-> reached[i].document], positions), RelatedDocumentK)

TargetDocumentsUnfiltered(q, reached) ==
    DocumentsAt(reached, {i \in DOMAIN reached : reached[i].hop > 0})

\* The documents reached that a document filter allows, in discovery order.
TargetDocuments(q, reached) ==
    DocumentsAt(reached, {i \in DOMAIN reached :
                             /\ reached[i].hop > 0
                             /\ \/ q.filters.doc = {}
                                \/ reached[i].document \in q.filters.doc})

\* Every related hit carries the path that led to its document.
WithPaths(hits, reached) ==
    [i \in DOMAIN hits |->
        [hits[i] EXCEPT !.path =
            (CHOOSE r \in ToSet(reached) : r.document = hits[i].chunk.doc).via]]

\* The first hit of a chunk stays.
Deduplicated(hits) ==
    At(hits, FirstPositions([i \in DOMAIN hits |-> hits[i].chunk]))

\* At least one candidate is left for the related chunks, when there is room.
Seeds(corpus, q) ==
    LET slots == IF q.candidateK > 1 THEN q.candidateK - 1 ELSE 1
    IN  HybridSearch(corpus, [q EXCEPT !.topK = IF SeedChunkK < slots
                                                THEN SeedChunkK ELSE slots])

\* Candidates of the graph strategy: seeds, then related chunks.
GraphCandidates(corpus, seeds, reached, q) ==
    LET targets == ToSet(TargetDocuments(q, reached))
        remaining == q.candidateK - Len(seeds)
        related == IF targets = {} \/ remaining = 0 THEN <<>>
                   ELSE HybridSearch(corpus, [q EXCEPT !.topK = remaining,
                                                       !.filters.doc = targets])
    IN  Prefix(Deduplicated(seeds \o WithPaths(related, reached)), q.candidateK)

\* A graph has documents and relationships, sorted by source and target.
Expanded(corpus, graph, q, seeds, scores) ==
    LET documents == SeedDocuments(seeds)
    IN  IF q.candidateK > MaxCandidates \/ ~(ToSet(documents) \subseteq graph.documents)
        THEN Failed("RETRIEVAL_ERROR")
        ELSE Reranked(q, GraphCandidates(corpus, seeds,
                                         Traverse(graph.relationships, documents), q), scores)

GraphSearch(corpus, graph, q, scores) ==
    Expanded(corpus, graph, q, Seeds(corpus, q), scores)

Search(corpus, graph, q, scores) ==
    CASE q.strategy = "BM25" -> Answered(Bm25Search(corpus, q))
      [] q.strategy = "DENSE" -> Answered(DenseSearch(corpus, q))
      [] q.strategy = "HYBRID" -> Answered(HybridSearch(corpus, q))
      [] q.strategy = "HYBRID_RERANK" -> HybridRerankSearch(corpus, q, scores)
      [] q.strategy = "GRAPH" -> GraphSearch(corpus, graph, q, scores)
================================================================================
