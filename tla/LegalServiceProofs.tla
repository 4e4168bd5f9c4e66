--------------------------- MODULE LegalServiceProofs ---------------------------
(***************************************************************************)
(* Theorems of LegalService.  First what the branches, their fusion, the     *)
(* reranking, the graph expansion and the selection of evidence return over *)
(* a corpus, then the run of a question, then the service as a whole.        *)
(***************************************************************************)
EXTENDS LegalService, CorpusProofs

--------------------------------------------------------------------------------
(* Corpora and hits *)

\* A loaded corpus: chunks numbered by their place.
IsCorpus(chunks) ==
    /\ Listed(chunks)
    /\ \A i \in 1..Len(chunks) : chunks[i].id = i

LEMMA CorpusIsDistinct ==
    ASSUME NEW C, IsCorpus(C)
    PROVE  /\ IsFiniteSet(ToSet(C)) /\ ToSet(C) = Range(C)
           /\ \A c \in ToSet(C) : c.id \in Nat
           /\ \A c, d \in ToSet(C) : c # d => c.id # d.id
           /\ \A i \in DOMAIN C : C[i] \in ToSet(C) /\ i \in Nat
           /\ \A i, j \in DOMAIN C : i # j => C[i] # C[j]
<1>1. Listed(C) /\ DOMAIN C = 1..Len(C) /\ Len(C) \in Nat
      /\ \A i \in 1..Len(C) : C[i].id = i
    BY DEF IsCorpus, Listed
<1>2. IsFiniteSet(ToSet(C)) /\ ToSet(C) = Range(C)
    BY <1>1, ListedIsFinite
<1>3. \A c \in ToSet(C) : \E i \in 1..Len(C) : c = C[i] /\ c.id = i
    BY <1>1 DEF ToSet
<1>4. \A i \in DOMAIN C : C[i] \in ToSet(C) /\ i \in Nat
    BY <1>1 DEF ToSet
<1>5. \A i, j \in DOMAIN C : i # j => C[i] # C[j]
    BY <1>1
<1>6. QED
    BY <1>2, <1>3, <1>4, <1>5

\* Scored chunks with integer scores, no two with the same place or chunk.
Comparable(S) ==
    /\ IsFiniteSet(S)
    /\ \A x \in S : x.score \in Int /\ x.place \in Int
    /\ \A x, y \in S : x # y => x.place # y.place /\ x.chunk # y.chunk

LEMMA ScoredRanking ==
    ASSUME NEW S, Comparable(S)
    PROVE  /\ Sorted(S, Before) \in Seq(S) /\ Len(Sorted(S, Before)) = Cardinality(S)
           /\ Cardinality(S) \in Nat
           /\ \A i, j \in 1..Cardinality(S) :
                 i < j => Sorted(S, Before)[i] # Sorted(S, Before)[j]
<1>. DEFINE R == {p \in S \X S : Before(p[1], p[2])}
            s == Sorted(S, Before)
<1>1. TotalOrder(S, R)
    BY DEF TotalOrder, Before, Comparable
<1>2. \A x \in S : {y \in S : Before(y, x)} = Below(S, R, x)
    BY DEF Below
<1>3. \A i \in 1..Cardinality(S) :
         \E x \in S : Cardinality({y \in S : Before(y, x)}) = i - 1
    <2>1. \A i \in 1..Cardinality(S) :
             \E x \in S : Cardinality(Below(S, R, x)) = i - 1
        BY <1>1, EveryRank DEF Comparable
    <2>2. QED
        BY <2>1, <1>2
<1>4. s = [i \in 1..Cardinality(S) |->
             CHOOSE x \in S : Cardinality({y \in S : Before(y, x)}) = i - 1]
    BY DEF Sorted
<1>5. ASSUME NEW i \in 1..Cardinality(S)
      PROVE  s[i] \in S /\ Cardinality({y \in S : Before(y, s[i])}) = i - 1
    BY <1>3, <1>4
<1>. HIDE DEF s
<1>6. Ranking(S, R, s)
    BY <1>2, <1>4, <1>5 DEF Ranking
<1>. HIDE DEF R
<1>7. /\ Cardinality(S) \in Nat
      /\ s \in Seq(S) /\ Len(s) = Cardinality(S)
      /\ \A i, j \in 1..Cardinality(S) : i < j => <<s[i], s[j]>> \in R /\ s[i] # s[j]
    BY <1>1, <1>6, RankingIsOrder DEF Comparable
<1>8. QED
    BY <1>7 DEF s

\* A hit of a corpus.
IsHit(h, C) ==
    /\ DOMAIN h = {"chunk", "rank", "score", "path"}
    /\ h.chunk \in ToSet(C) /\ h.rank \in Nat \ {0} /\ h.score \in Int

\* Hits of a corpus, no two of the same chunk.
AreHits(hits, C) ==
    /\ Listed(hits)
    /\ \A i \in 1..Len(hits) : IsHit(hits[i], C)
    /\ \A i, j \in 1..Len(hits) : i # j => hits[i].chunk # hits[j].chunk

\* What a search answers: at most topK hits within the filters, ranked by position.
IsAnswer(hits, C, filters, topK) ==
    /\ AreHits(hits, C) /\ Len(hits) <= topK
    /\ \A i \in 1..Len(hits) : hits[i].rank = i /\ Passes(hits[i].chunk, filters)

LEMMA TopRankedIsAnswer ==
    ASSUME NEW C, NEW filters, NEW S, Comparable(S), NEW topK \in Nat,
           \A x \in S : x.chunk \in ToSet(C) /\ Passes(x.chunk, filters)
    PROVE  /\ IsAnswer(TopRanked(S, topK), C, filters, topK)
           /\ \A i \in DOMAIN TopRanked(S, topK) : TopRanked(S, topK)[i].path = <<>>
<1>. DEFINE sorted == Sorted(S, Before)
            best == Prefix(sorted, topK)
            hits == TopRanked(S, topK)
<1>1. /\ sorted \in Seq(S) /\ Len(sorted) = Cardinality(S) /\ Cardinality(S) \in Nat
      /\ \A i, j \in 1..Cardinality(S) : i < j => sorted[i] # sorted[j]
    BY ScoredRanking
<1>2. hits = [i \in DOMAIN best |-> Hit(best[i].chunk, i, best[i].score)]
    BY DEF TopRanked
<1>. HIDE DEF sorted, hits
<1>3. /\ Listed(best)
      /\ Len(best) = IF topK < Len(sorted) THEN topK ELSE Len(sorted)
      /\ \A i \in DOMAIN best : i \in DOMAIN sorted /\ best[i] = sorted[i]
    <2>1. topK \in Int /\ topK \in Nat
        OBVIOUS
    <2>2. sorted \in Seq(S)
        BY <1>1
    <2>3. QED
        BY <2>1, <2>2, PrefixIs
<1>. HIDE DEF best
<1>4. DOMAIN best = 1..Len(best) /\ Len(best) \in Nat /\ Len(best) <= topK
    BY <1>1, <1>3 DEF Listed
<1>5. ASSUME NEW i \in 1..Len(best)
      PROVE  /\ best[i] \in S /\ i \in 1..Cardinality(S) /\ best[i] = sorted[i]
             /\ hits[i] = Hit(best[i].chunk, i, best[i].score)
    BY <1>1, <1>2, <1>3, <1>4, SMTT(40)
<1>6. Listed(hits) /\ Len(hits) = Len(best)
    <2>1. hits = [i \in 1..Len(best) |-> hits[i]]
        BY <1>2, <1>4
    <2>2. QED
        BY <1>4, <2>1, ListedIs
<1>7. ASSUME NEW i \in 1..Len(best)
      PROVE  /\ IsHit(hits[i], C) /\ hits[i].rank = i /\ Passes(hits[i].chunk, filters)
             /\ hits[i].path = <<>> /\ hits[i].chunk = best[i].chunk
    <2>1. /\ best[i] \in S /\ best[i].score \in Int
          /\ hits[i] = [chunk |-> best[i].chunk, rank |-> i, score |-> best[i].score,
                        path |-> <<>>]
        BY <1>5 DEF Hit, Comparable
    <2>2. QED
        BY <2>1 DEF IsHit
<1>8. ASSUME NEW i \in 1..Len(best), NEW j \in 1..Len(best), i # j
      PROVE  hits[i].chunk # hits[j].chunk
    <2>1. sorted[i] # sorted[j]
        BY <1>1, <1>5, <1>8
    <2>2. best[i].chunk # best[j].chunk
        BY <1>5, <2>1 DEF Comparable
    <2>3. QED
        BY <1>7, <2>2
<1>9. IsAnswer(hits, C, filters, topK)
    BY <1>4, <1>6, <1>7, <1>8 DEF IsAnswer, AreHits
<1>10. QED
    BY <1>6, <1>7, <1>9 DEF hits, Listed
--------------------------------------------------------------------------------
(* The branches *)

QueryFields == {"id", "original", "normalized", "rewritten", "filters", "topK",
                "candidateK", "strategy", "analysis", "variants"}

\* A question with its limits and the forms it is searched in.
IsQuery(q) ==
    /\ DOMAIN q = QueryFields
    /\ Listed(q.original) /\ Listed(q.normalized) /\ Listed(q.rewritten)
    /\ Listed(q.variants) /\ \A i \in 1..Len(q.variants) : Listed(q.variants[i])
    /\ q.topK \in Nat /\ q.candidateK \in Nat
    /\ "doc" \in DOMAIN q.filters

LEMMA UniqueIsListed ==
    ASSUME NEW values, Listed(values)
    PROVE  Listed(Unique(values))
<1>1. FirstPositions(values) \subseteq DOMAIN values
    BY DEF FirstPositions
<1>2. QED
    BY <1>1, AtOfSubset DEF Unique

\* The plan of a lexical search is a sequence of terms.
LEMMA PlanIsListed ==
    ASSUME NEW C, NEW text, Listed(text)
    PROVE  Listed(PlanTerms(C, text))
<1>. DEFINE unique == Unique(text)
<1>1. Listed(unique)
    BY UniqueIsListed
<1>. HIDE DEF unique
<1>2. \A P : P \subseteq DOMAIN unique => Listed(At(unique, P))
    BY <1>1, AtOfSubset
<1>3. Listed(Prefix(unique, MaxQueryTerms))
    <2>1. unique \in Seq(Range(unique))
        BY <1>1 DEF Listed
    <2>2. MaxQueryTerms \in Int
        BY RetrievalAssumption DEF BM25RuntimeConfig
    <2>3. QED
        BY <2>1, <2>2, PrefixIs
<1>4. \E P : /\ P \subseteq DOMAIN unique
             /\ \/ PlanTerms(C, text) = Prefix(unique, MaxQueryTerms)
                \/ PlanTerms(C, text) = At(unique, P)
    <2>. DEFINE df(term) == DocumentFrequency(C, term)
                known == At(unique, {i \in DOMAIN unique : df(unique[i]) > 0})
                priority == At(known, {i \in DOMAIN known :
                                          IsNumeric(known[i]) \/ IsModifier(known[i])})
                others == ToSet(known) \ ToSet(priority)
                rare == {t \in others : df(t) * 100 <= Len(C) * MaxFrequencyPercent}
                position(t) == CHOOSE i \in DOMAIN unique : unique[i] = t
                discriminative == Sorted(IF rare = {} THEN others ELSE rare,
                                 LAMBDA a, b : \/ df(a) < df(b)
                                               \/ df(a) = df(b) /\ position(a) < position(b))
                selected == ToSet(Prefix(priority \o discriminative, MaxQueryTerms))
                P == {i \in DOMAIN unique : unique[i] \in selected}
    <2>1. PlanTerms(C, text) = IF known = <<>> THEN Prefix(unique, MaxQueryTerms)
                               ELSE At(unique, P)
        BY DEF PlanTerms, unique
    <2>. HIDE DEF selected, known
    <2>2. P \subseteq DOMAIN unique
        OBVIOUS
    <2>. HIDE DEF P
    <2>3. QED
        BY <2>1, <2>2
<1>5. QED
    BY <1>2, <1>3, <1>4

\* The set of scored chunks, one for every position of a finite set of them.
LEMMA Bm25IsAnswer ==
    ASSUME NEW C, IsCorpus(C), NEW q, IsQuery(q)
    PROVE  IsAnswer(Bm25Search(C, q), C, q.filters, q.topK)
<1>. DEFINE plan == PlanTerms(C, EffectiveText(q))
            matched(chunk) == Cardinality(ToSet(plan) \cap ToSet(chunk.search))
            needed == IF MatchAll THEN Len(plan) ELSE 1
            matching == {i \in DOMAIN C : Passes(C[i], q.filters) /\ matched(C[i]) >= needed}
            S == {Scored(C[i], matched(C[i]), i) : i \in matching}
<1>1. Listed(plan)
    <2>1. Listed(EffectiveText(q))
        BY DEF EffectiveText, IsQuery
    <2>2. QED
        BY <2>1, PlanIsListed
<1>2. IsFiniteSet(ToSet(plan))
    <2>. HIDE DEF plan
    <2>. QED
        BY <1>1, ListedIsFinite
<1>3. Bm25Search(C, q) = IF plan = <<>> THEN <<>> ELSE TopRanked(S, q.topK)
    BY DEF Bm25Search
<1>. HIDE DEF plan, needed
<1>4. ASSUME NEW chunk PROVE matched(chunk) \in Nat
    <2>1. IsFiniteSet(ToSet(plan) \cap ToSet(chunk.search))
        BY <1>2, FS_Subset
    <2>2. QED
        BY <2>1, FS_CardinalityType
<1>5. /\ matching \subseteq DOMAIN C /\ \A i \in matching : i \in Nat
      /\ \A i \in DOMAIN C : C[i] \in ToSet(C)
      /\ \A i, j \in DOMAIN C : i # j => C[i] # C[j]
    BY CorpusIsDistinct
<1>6. IsFiniteSet(matching)
    <2>1. IsFiniteSet(DOMAIN C)
        BY ListedIsFinite DEF IsCorpus
    <2>2. QED
        BY <1>5, <2>1, FS_Subset
<1>7. \A i \in matching : Passes(C[i], q.filters)
    OBVIOUS
<1>. HIDE DEF matching
<1>8. IsFiniteSet(S)
    <2>. DEFINE g == [i \in matching |-> Scored(C[i], matched(C[i]), i)]
    <2>1. IsFiniteSet({g[i] : i \in matching})
        BY <1>6, ImageIsFinite
    <2>2. S = {g[i] : i \in matching}
        OBVIOUS
    <2>3. QED
        BY <2>1, <2>2
<1>9. \A x \in S : \E i \in matching : /\ x.chunk = C[i] /\ x.place = i /\ x.score \in Int
                                    /\ x = Scored(C[i], matched(C[i]), i)
    BY <1>4 DEF Scored
<1>. HIDE DEF S
<1>10. Comparable(S)
    <2>1. ASSUME NEW x \in S, NEW y \in S, x # y
          PROVE  x.place # y.place /\ x.chunk # y.chunk
        <3>1. PICK i \in matching : x.chunk = C[i] /\ x.place = i /\ x = Scored(C[i], matched(C[i]), i)
            BY <1>9
        <3>2. PICK j \in matching : y.chunk = C[j] /\ y.place = j /\ y = Scored(C[j], matched(C[j]), j)
            BY <1>9
        <3>3. i # j
            BY <2>1, <3>1, <3>2
        <3>4. QED
            BY <1>5, <3>1, <3>2, <3>3
    <2>2. \A x \in S : x.score \in Int /\ x.place \in Int
        <3>1. \A i \in matching : i \in Int
            BY <1>5
        <3>2. QED
            BY <1>9, <3>1
    <2>3. QED
        BY <1>8, <2>1, <2>2 DEF Comparable
<1>11. \A x \in S : x.chunk \in ToSet(C) /\ Passes(x.chunk, q.filters)
    BY <1>5, <1>7, <1>9
<1>12. q.topK \in Nat
    BY DEF IsQuery
<1>13. IsAnswer(TopRanked(S, q.topK), C, q.filters, q.topK)
    BY <1>10, <1>11, <1>12, TopRankedIsAnswer
<1>14. IsAnswer(<<>>, C, q.filters, q.topK)
    <2>1. <<>> \in Seq({}) /\ Len(<<>>) = 0
        OBVIOUS
    <2>2. Listed(<<>>)
        BY <2>1, ListedSeq
    <2>3. QED
        BY <1>12, <2>1, <2>2 DEF IsAnswer, AreHits
<1>15. QED
    BY <1>3, <1>13, <1>14

\* What the cosine of embeddings is in the model: an integer.
SimilarityIsNumber == \A text, chunk : Similarity(text, chunk) \in Int

\* The offsets kept are among those scored.
LEMMA OffsetsAreScored ==
    ASSUME NEW S, Comparable(S), NEW topK \in Nat
    PROVE  RankedOffsets(S, topK) \subseteq S
<1>. DEFINE limit == IF topK < Cardinality(S) THEN topK ELSE Cardinality(S)
            threshold == CHOOSE s \in {c.score : c \in S} :
                            /\ Cardinality({c \in S : c.score > s}) < limit
                            /\ Cardinality({c \in S : c.score >= s}) >= limit
            above == {c \in S : c.score > threshold}
            tied == {c \in S : c.score = threshold}
            filled == Prefix(Sorted(tied, Before), limit - Cardinality(above))
<1>1. RankedOffsets(S, topK) = IF limit = Cardinality(S) THEN S ELSE above \cup ToSet(filled)
    BY DEF RankedOffsets
<1>2. limit \in Int
    BY FS_CardinalityType DEF Comparable
<1>. HIDE DEF threshold, limit
<1>3. above \subseteq S /\ tied \subseteq S
    OBVIOUS
<1>. HIDE DEF above, tied
<1>4. IsFiniteSet(above) /\ IsFiniteSet(tied)
    BY <1>3, FS_Subset DEF Comparable
<1>5. Cardinality(above) \in Nat
    BY <1>4, FS_CardinalityType
<1>6. Comparable(tied)
    BY <1>3, <1>4 DEF Comparable
<1>7. Sorted(tied, Before) \in Seq(tied)
    BY <1>6, ScoredRanking
<1>8. limit - Cardinality(above) \in Int
    BY <1>2, <1>5
<1>9. filled \in Seq(tied)
    BY <1>7, <1>8, PrefixIs
<1>. HIDE DEF filled
<1>10. ToSet(filled) \subseteq tied
    BY <1>9 DEF ToSet
<1>11. QED
    BY <1>1, <1>3, <1>10

\* Chunks of a corpus with integer scores, placed by their ids.
LEMMA ScoresById ==
    ASSUME NEW C, IsCorpus(C), NEW F, F \subseteq ToSet(C),
           NEW score, \A c \in F : score[c] \in Int
    PROVE  LET S == {Scored(c, score[c], c.id) : c \in F}
           IN  Comparable(S) /\ \A x \in S : x.chunk \in F
<1>. DEFINE S == {Scored(c, score[c], c.id) : c \in F}
            g == [c \in F |-> Scored(c, score[c], c.id)]
<1>1. /\ IsFiniteSet(ToSet(C))
      /\ \A c \in F : c.id \in Nat
      /\ \A c, d \in F : c # d => c.id # d.id
    BY CorpusIsDistinct
<1>2. IsFiniteSet(F)
    BY <1>1, FS_Subset
<1>3. IsFiniteSet({g[c] : c \in F})
    BY <1>2, ImageIsFinite
<1>4. S = {g[c] : c \in F}
    OBVIOUS
<1>5. \A x \in S : \E c \in F : /\ x.chunk = c /\ x.place = c.id /\ x.score = score[c]
                                /\ x = Scored(c, score[c], c.id)
    BY DEF Scored
<1>. HIDE DEF S, g
<1>6. ASSUME NEW x \in S, NEW y \in S, x # y
      PROVE  x.place # y.place /\ x.chunk # y.chunk
    <2>1. PICK c \in F : x.chunk = c /\ x.place = c.id /\ x = Scored(c, score[c], c.id)
        BY <1>5
    <2>2. PICK d \in F : y.chunk = d /\ y.place = d.id /\ y = Scored(d, score[d], d.id)
        BY <1>5
    <2>3. c # d
        BY <1>6, <2>1, <2>2
    <2>4. QED
        BY <1>1, <2>1, <2>2, <2>3
<1>7. \A x \in S : x.score \in Int /\ x.place \in Int /\ x.chunk \in F
    BY <1>1, <1>5
<1>8. Comparable(S)
    BY <1>3, <1>4, <1>6, <1>7 DEF Comparable
<1>9. QED
    BY <1>7, <1>8 DEF S

LEMMA DenseIsAnswer ==
    ASSUME SimilarityIsNumber, NEW C, IsCorpus(C), NEW q, IsQuery(q)
    PROVE  IsAnswer(DenseSearch(C, q), C, q.filters, q.topK)
<1>. DEFINE F == {c \in ToSet(C) : Passes(c, q.filters)}
            score == [c \in F |-> Similarity(EffectiveText(q), c)]
            S == {Scored(c, score[c], c.id) : c \in F}
            kept == RankedOffsets(S, q.topK)
<1>1. DenseSearch(C, q) = TopRanked(kept, q.topK)
    <2>1. S = {Scored(c, Similarity(EffectiveText(q), c), c.id) : c \in F}
        OBVIOUS
    <2>2. QED
        BY <2>1 DEF DenseSearch
<1>2. /\ F \subseteq ToSet(C) /\ \A c \in F : Passes(c, q.filters)
      /\ \A c \in F : score[c] \in Int
    BY DEF SimilarityIsNumber
<1>. HIDE DEF F, score
<1>3. Comparable(S) /\ \A x \in S : x.chunk \in F
    BY <1>2, ScoresById
<1>. HIDE DEF S
<1>4. q.topK \in Nat
    BY DEF IsQuery
<1>5. kept \subseteq S
    BY <1>3, <1>4, OffsetsAreScored
<1>. HIDE DEF kept
<1>6. IsFiniteSet(kept)
    BY <1>3, <1>5, FS_Subset DEF Comparable
<1>7. Comparable(kept)
    BY <1>3, <1>5, <1>6 DEF Comparable
<1>8. \A x \in kept : x.chunk \in ToSet(C) /\ Passes(x.chunk, q.filters)
    BY <1>2, <1>3, <1>5
<1>9. IsAnswer(TopRanked(kept, q.topK), C, q.filters, q.topK)
    BY <1>4, <1>7, <1>8, TopRankedIsAnswer
<1>10. QED
    BY <1>1, <1>9
--------------------------------------------------------------------------------
(* Fusion *)

LEMMA BranchScoreIsNumber ==
    ASSUME NEW C, NEW hits, AreHits(hits, C), NEW chunk
    PROVE  BranchScore(hits, chunk) \in Nat
<1>. DEFINE at == {i \in DOMAIN hits : hits[i].chunk = chunk}
            g == [i \in at |-> Contribution(hits[i].rank)]
            pairs == UNION {{i} \X (1..g[i]) : i \in at}
<1>1. Listed(hits) /\ DOMAIN hits = 1..Len(hits)
    BY DEF AreHits, Listed
<1>2. IsFiniteSet(at)
    <2>1. IsFiniteSet(DOMAIN hits)
        BY <1>1, ListedIsFinite
    <2>2. QED
        BY <2>1, FS_Subset
<1>3. ASSUME NEW i \in at PROVE g[i] \in Nat
    <2>1. hits[i].rank \in Nat \ {0}
        BY <1>1 DEF AreHits, IsHit
    <2>2. RrfUnit \in Nat /\ RrfConstant \in Nat \ {0}
        BY RetrievalAssumption DEF RetrievalConfig
    <2>. DEFINE n == RrfConstant + hits[i].rank
    <2>3. n \in Nat \ {0}
        BY <2>1, <2>2
    <2>. HIDE DEF n
    <2>4. RrfUnit \div n \in Nat
        BY <2>2, <2>3
    <2>5. QED
        BY <2>4 DEF Contribution, n
<1>4. Cardinality(pairs) \in Nat
    <2>1. \A i \in at : g[i] \in Nat
        BY <1>3
    <2>. HIDE DEF at, g
    <2>2. \A p \in pairs : \E i \in at : \E k \in 1..g[i] : p = <<i, k>>
        OBVIOUS
    <2>. HIDE DEF pairs
    <2>3. QED
        BY <1>2, <2>1, <2>2, AmountIsNumber
<1>5. BranchScore(hits, chunk) = Cardinality(pairs)
    <2>1. BranchScore(hits, chunk)
             = Cardinality(UNION {{i} \X (1..Contribution(hits[i].rank)) : i \in at})
        BY DEF BranchScore, Amount
    <2>2. {{i} \X (1..Contribution(hits[i].rank)) : i \in at} = {{i} \X (1..g[i]) : i \in at}
        OBVIOUS
    <2>3. QED
        BY <2>1, <2>2
<1>6. QED
    BY <1>4, <1>5

\* Branches: answers of searches with the same filters.
AreBranches(branches, C, filters, topK) ==
    /\ Listed(branches)
    /\ \A i \in 1..Len(branches) : IsAnswer(branches[i], C, filters, topK)

LEMMA ChunksOfAnswer ==
    ASSUME NEW C, NEW hits, NEW filters, NEW topK, IsAnswer(hits, C, filters, topK)
    PROVE  Chunks(hits) \subseteq {c \in ToSet(C) : Passes(c, filters)}
<1>1. DOMAIN hits = 1..Len(hits)
    BY DEF IsAnswer, AreHits, Listed
<1>2. QED
    BY <1>1 DEF IsAnswer, AreHits, IsHit, Chunks

LEMMA FusedIsAnswer ==
    ASSUME NEW C, IsCorpus(C), NEW filters, NEW topK \in Nat, NEW depth,
           NEW sparse, AreBranches(sparse, C, filters, depth),
           NEW dense, AreBranches(dense, C, filters, depth), Len(dense) = Len(sparse)
    PROVE  IsAnswer(Fused(sparse, dense, topK), C, filters, topK)
<1>. DEFINE allowed == {c \in ToSet(C) : Passes(c, filters)}
<1>1. \A S : Comparable(S) /\ (\A x \in S : x.chunk \in allowed)
                => IsAnswer(TopRanked(S, topK), C, filters, topK)
    BY TopRankedIsAnswer
<1>2. CASE Len(sparse) = 1
    <2>. DEFINE F == Chunks(sparse[1]) \cup Chunks(dense[1])
                score == [c \in F |-> BranchScore(sparse[1], c) + BranchScore(dense[1], c)]
                S == {Scored(c, score[c], c.id) : c \in F}
    <2>1. /\ IsAnswer(sparse[1], C, filters, depth) /\ IsAnswer(dense[1], C, filters, depth)
          /\ AreHits(sparse[1], C) /\ AreHits(dense[1], C)
        BY <1>2 DEF AreBranches, IsAnswer
    <2>2. F \subseteq allowed
        BY <2>1, ChunksOfAnswer
    <2>3. \A c \in F : score[c] \in Int
        <3>1. \A c \in F : /\ BranchScore(sparse[1], c) \in Nat
                           /\ BranchScore(dense[1], c) \in Nat
            BY <2>1, BranchScoreIsNumber
        <3>. HIDE DEF F
        <3>2. QED
            BY <3>1
    <2>4. Fused(sparse, dense, topK) = TopRanked(S, topK)
        <3>1. S = {Scored(c, BranchScore(sparse[1], c) + BranchScore(dense[1], c), c.id) :
                      c \in F}
            OBVIOUS
        <3>2. QED
            BY <1>2, <3>1 DEF Fused, ReciprocalRankFusion
    <2>5. F \subseteq ToSet(C)
        BY <2>2
    <2>. HIDE DEF F, score
    <2>6. Comparable(S) /\ \A x \in S : x.chunk \in F
        BY <2>3, <2>5, ScoresById
    <2>. HIDE DEF S, allowed
    <2>7. \A x \in S : x.chunk \in allowed
        BY <2>2, <2>6
    <2>8. QED
        BY <1>1, <2>4, <2>6, <2>7
<1>3. CASE Len(sparse) # 1
    <2>. DEFINE branches == sparse \o dense
    <2>1. /\ Listed(branches)
          /\ \A i \in DOMAIN branches : IsAnswer(branches[i], C, filters, depth)
        <3>1. sparse \in Seq(Range(sparse)) /\ dense \in Seq(Range(dense))
              /\ Len(sparse) \in Nat /\ Len(dense) \in Nat
              /\ DOMAIN sparse = 1..Len(sparse) /\ DOMAIN dense = 1..Len(dense)
            BY DEF AreBranches, Listed
        <3>. DEFINE V == Range(sparse) \cup Range(dense)
        <3>2. sparse \in Seq(V) /\ dense \in Seq(V)
            BY <3>1
        <3>3. branches \in Seq(V)
            BY <3>2
        <3>4. Listed(branches)
            BY <3>3, ListedSeq
        <3>5. \A b \in V : IsAnswer(b, C, filters, depth)
            BY <3>1 DEF Range, AreBranches
        <3>6. \A i \in DOMAIN branches : branches[i] \in V
            BY <3>3
        <3>7. QED
            BY <3>4, <3>5, <3>6
    <2>. DEFINE F == UNION {Chunks(branches[i]) : i \in DOMAIN branches}
                total(c) == Amount(DOMAIN branches, LAMBDA i : BranchScore(branches[i], c))
                score == [c \in F |-> total(c)]
                S == {Scored(c, score[c], c.id) : c \in F}
    <2>2. Fused(sparse, dense, topK) = TopRanked(S, topK)
        <3>1. S = {Scored(c, total(c), c.id) : c \in F}
            OBVIOUS
        <3>2. QED
            BY <1>3, <3>1 DEF Fused, FuseQueryBranches
    <2>. HIDE DEF branches
    <2>3. F \subseteq allowed
        BY <2>1, ChunksOfAnswer
    <2>4. ASSUME NEW c \in F PROVE total(c) \in Nat
        <3>. DEFINE g == [i \in DOMAIN branches |-> BranchScore(branches[i], c)]
        <3>1. \A i \in DOMAIN branches : g[i] \in Nat
            <4>1. \A i \in DOMAIN branches : AreHits(branches[i], C)
                BY <2>1 DEF IsAnswer
            <4>2. \A i \in DOMAIN branches : BranchScore(branches[i], c) \in Nat
                BY <4>1, BranchScoreIsNumber
            <4>3. QED
                BY <4>2
        <3>2. IsFiniteSet(DOMAIN branches)
            BY <2>1, ListedIsFinite
        <3>3. total(c) = Cardinality(UNION {{i} \X (1..BranchScore(branches[i], c)) :
                                               i \in DOMAIN branches})
            BY DEF Amount
        <3>4. {{i} \X (1..BranchScore(branches[i], c)) : i \in DOMAIN branches}
                 = {{i} \X (1..g[i]) : i \in DOMAIN branches}
            OBVIOUS
        <3>. DEFINE D == DOMAIN branches
                    pairs == UNION {{i} \X (1..g[i]) : i \in D}
        <3>5. Cardinality(pairs) \in Nat
            <4>1. IsFiniteSet(D) /\ \A i \in D : g[i] \in Nat
                BY <3>1, <3>2
            <4>. HIDE DEF g, D
            <4>2. \A p \in pairs : \E i \in D : \E k \in 1..g[i] : p = <<i, k>>
                OBVIOUS
            <4>. HIDE DEF pairs
            <4>3. QED
                BY <4>1, <4>2, AmountIsNumber
        <3>. HIDE DEF g
        <3>. HIDE DEF total
        <3>6. QED
            BY <3>3, <3>4, <3>5
    <2>5. \A c \in F : score[c] \in Int
        <3>. HIDE DEF F, total
        <3>. QED
            BY <2>4
    <2>6. F \subseteq ToSet(C)
        BY <2>3
    <2>. HIDE DEF F, score
    <2>7. Comparable(S) /\ \A x \in S : x.chunk \in F
        BY <2>5, <2>6, ScoresById
    <2>. HIDE DEF S, allowed
    <2>8. \A x \in S : x.chunk \in allowed
        BY <2>3, <2>7
    <2>9. QED
        BY <1>1, <2>2, <2>7, <2>8
<1>4. QED
    BY <1>2, <1>3

\* A question with another limit, and in another form.
LEMMA LimitedQuestion ==
    ASSUME NEW q, IsQuery(q), NEW n \in Nat
    PROVE  /\ IsQuery([q EXCEPT !.topK = n])
           /\ [q EXCEPT !.topK = n].filters = q.filters
           /\ [q EXCEPT !.topK = n].topK = n
           /\ [q EXCEPT !.topK = n].candidateK = q.candidateK
    BY DEF IsQuery, QueryFields

LEMMA VariantsAreForms ==
    ASSUME NEW q, IsQuery(q)
    PROVE  /\ Listed(ActiveVariants(q))
           /\ \A i \in DOMAIN ActiveVariants(q) : Listed(ActiveVariants(q)[i])
<1>1. CASE MultiQuery /\ q.rewritten = NoText /\ q.variants # <<>>
    <2>. DEFINE V == Range(q.variants)
    <2>1. q.variants \in Seq(V) /\ DOMAIN q.variants = 1..Len(q.variants)
        BY DEF IsQuery, Listed
    <2>2. MaxVariants \in Int
        BY PlanningAssumption DEF UnderstandingConfig
    <2>3. /\ Listed(Prefix(q.variants, MaxVariants))
          /\ Prefix(q.variants, MaxVariants) \in Seq(V)
        BY <2>1, <2>2, PrefixIs
    <2>4. \A v \in V : Listed(v)
        BY <2>1 DEF Range, IsQuery
    <2>. HIDE DEF V
    <2>5. \A i \in DOMAIN Prefix(q.variants, MaxVariants) :
              Listed(Prefix(q.variants, MaxVariants)[i])
        BY <2>3, <2>4
    <2>6. QED
        BY <1>1, <2>3, <2>5 DEF ActiveVariants
<1>2. CASE ~(MultiQuery /\ q.rewritten = NoText /\ q.variants # <<>>)
    <2>. DEFINE text == EffectiveText(q)
    <2>1. Listed(text)
        BY DEF EffectiveText, IsQuery
    <2>2. ActiveVariants(q) = <<text>>
        BY <1>2 DEF ActiveVariants
    <2>. HIDE DEF text
    <2>3. <<text>> \in Seq({text})
        OBVIOUS
    <2>4. Listed(<<text>>) /\ DOMAIN <<text>> = 1..1 /\ <<text>>[1] = text
        BY <2>3, ListedSeq
    <2>5. QED
        BY <2>1, <2>2, <2>4
<1>3. QED
    BY <1>1, <1>2

LEMMA HybridIsAnswer ==
    ASSUME SimilarityIsNumber, NEW C, IsCorpus(C), NEW q, IsQuery(q)
    PROVE  IsAnswer(HybridSearch(C, q), C, q.filters, q.topK)
<1>. DEFINE variants == ActiveVariants(q)
            form(v) == IF v = q.normalized THEN NoText ELSE v
            branch(v) == [q EXCEPT !.topK = q.candidateK, !.rewritten = form(v)]
            sparse == [i \in DOMAIN variants |-> Bm25Search(C, branch(variants[i]))]
            dense == [i \in DOMAIN variants |-> DenseSearch(C, branch(variants[i]))]
<1>1. HybridSearch(C, q) = Fused(sparse, dense, q.topK)
    BY DEF HybridSearch
<1>2. Listed(variants) /\ \A i \in DOMAIN variants : Listed(variants[i])
    BY VariantsAreForms
<1>. HIDE DEF variants
<1>3. ASSUME NEW i \in DOMAIN variants
      PROVE  /\ IsAnswer(sparse[i], C, q.filters, q.candidateK)
             /\ IsAnswer(dense[i], C, q.filters, q.candidateK)
    <2>. DEFINE b == branch(variants[i])
    <2>1. Listed(form(variants[i]))
        BY <1>2, EmptyIsListed DEF NoText
    <2>2. q.candidateK \in Nat
        BY DEF IsQuery
    <2>. DEFINE v == form(variants[i])  n == q.candidateK
    <2>3. IsQuery(b) /\ b.filters = q.filters /\ b.topK = q.candidateK
        <3>1. b = [q EXCEPT !.topK = n, !.rewritten = v]
            OBVIOUS
        <3>2. Listed(v) /\ n \in Nat
            BY <2>1, <2>2
        <3>. HIDE DEF b, v, n
        <3>3. IsQuery(b) /\ b.filters = q.filters /\ b.topK = n
            BY <3>1, <3>2 DEF IsQuery, QueryFields
        <3>4. QED
            BY <3>3 DEF n
    <2>. HIDE DEF b
    <2>4. /\ IsAnswer(Bm25Search(C, b), C, q.filters, q.candidateK)
          /\ IsAnswer(DenseSearch(C, b), C, q.filters, q.candidateK)
        <3>1. IsAnswer(Bm25Search(C, b), C, b.filters, b.topK)
            BY <2>3, Bm25IsAnswer
        <3>2. IsAnswer(DenseSearch(C, b), C, b.filters, b.topK)
            BY <2>3, DenseIsAnswer
        <3>3. QED
            BY <2>3, <3>1, <3>2
    <2>5. sparse[i] = Bm25Search(C, b) /\ dense[i] = DenseSearch(C, b)
        BY DEF b
    <2>6. QED
        BY <2>4, <2>5
<1>4. DOMAIN variants = 1..Len(variants) /\ Len(variants) \in Nat
    BY <1>2 DEF Listed
<1>5. /\ Listed(sparse) /\ Len(sparse) = Len(variants)
      /\ Listed(dense) /\ Len(dense) = Len(variants)
    <2>1. /\ sparse = [i \in 1..Len(variants) |-> sparse[i]]
          /\ dense = [i \in 1..Len(variants) |-> dense[i]]
        BY <1>4
    <2>. HIDE DEF sparse, dense
    <2>2. QED
        BY <1>4, <2>1, ListedIs
<1>. HIDE DEF sparse, dense
<1>6. /\ AreBranches(sparse, C, q.filters, q.candidateK)
      /\ AreBranches(dense, C, q.filters, q.candidateK)
    BY <1>3, <1>4, <1>5 DEF AreBranches
<1>7. q.topK \in Nat
    BY DEF IsQuery
<1>8. QED
    BY <1>1, <1>5, <1>6, <1>7, FusedIsAnswer
--------------------------------------------------------------------------------
(* Questions *)

LEMMA SuffixIsListed ==
    ASSUME NEW s, Listed(s), NEW n \in Nat, n <= Len(s)
    PROVE  Listed(SubSeq(s, n + 1, Len(s)))
<1>1. s \in Seq(Range(s)) /\ Len(s) \in Nat /\ DOMAIN s = 1..Len(s)
    BY ListedSeq DEF Listed
<1>2. \A i \in (n + 1)..Len(s) : s[i] \in Range(s)
    BY <1>1 DEF Range
<1>3. SubSeq(s, n + 1, Len(s)) \in Seq(Range(s))
    BY <1>1, <1>2
<1>4. QED
    BY <1>3, ListedSeq

LEMMA FramingIsStripped ==
    ASSUME NEW text, Listed(text)
    PROVE  Listed(StripFraming(text))
<1>. DEFINE framing == {i \in DOMAIN text : \A j \in 1..i : text[j].kind = "framing"}
            n == Cardinality(framing)
<1>1. IsFiniteSet(DOMAIN text) /\ Cardinality(DOMAIN text) = Len(text)
    BY ListedIsFinite
<1>2. framing \subseteq DOMAIN text
    OBVIOUS
<1>3. StripFraming(text) = SubSeq(text, n + 1, Len(text))
    BY DEF StripFraming
<1>. HIDE DEF framing
<1>4. n \in Nat /\ n <= Len(text)
    BY <1>1, <1>2, FS_Subset, FS_CardinalityType
<1>. HIDE DEF n
<1>5. QED
    BY <1>3, <1>4, SuffixIsListed

LEMMA VariantsAreListed ==
    ASSUME NEW text, Listed(text)
    PROVE  /\ Listed(PlanVariants(text))
           /\ \A i \in 1..Len(PlanVariants(text)) : Listed(PlanVariants(text)[i])
<1>. DEFINE a == StripFraming(text)  b == ReferenceVariant(text)
            forms == <<text, a, b>>
            P == {i \in FirstPositions(forms) : forms[i] # NoText}
            V == {text, a, b}
<1>1. Listed(a)
    BY FramingIsStripped
<1>2. Listed(b)
    <2>. DEFINE R == {i \in DOMAIN text : text[i].kind \in ReferenceKinds}
    <2>1. b = Unique(At(text, R))
        BY DEF ReferenceVariant
    <2>2. R \subseteq DOMAIN text
        OBVIOUS
    <2>. HIDE DEF R, b
    <2>3. QED
        BY <2>1, <2>2, AtOfSubset, UniqueIsListed
<1>3. PlanVariants(text) = Prefix(At(forms, P), MaxVariants)
    BY DEF PlanVariants
<1>. HIDE DEF a, b
<1>4. forms \in Seq(V) /\ DOMAIN forms = 1..3
    OBVIOUS
<1>. HIDE DEF forms
<1>5. Listed(forms)
    BY <1>4, ListedSeq
<1>6. P \in SUBSET DOMAIN forms
    BY DEF FirstPositions
<1>. HIDE DEF P
<1>7. At(forms, P) \in Seq(V)
    <2>1. \A i \in P : forms[i] \in V
        BY <1>4, <1>6, SMTT(40)
    <2>. HIDE DEF V
    <2>2. QED
        BY <1>5, <1>6, <2>1, AtKeeps
<1>8. \A v \in V : Listed(v)
    BY <1>1, <1>2
<1>. HIDE DEF V
<1>9. MaxVariants \in Int
    BY PlanningAssumption DEF UnderstandingConfig
<1>10. /\ Prefix(At(forms, P), MaxVariants) \in Seq(V)
       /\ Listed(Prefix(At(forms, P), MaxVariants))
    BY <1>7, <1>9, PrefixIs
<1>. DEFINE variants == Prefix(At(forms, P), MaxVariants)
<1>. HIDE DEF variants
<1>11. \A i \in 1..Len(variants) : Listed(variants[i])
    BY <1>8, <1>10 DEF variants
<1>12. QED
    BY <1>3, <1>10, <1>11 DEF variants

\* A retry searches a form of the question.
LEMMA RewriteIsForm ==
    ASSUME NEW q, IsQuery(q), NEW text, Listed(text), NEW tried
    PROVE  Listed(Rewrite(q, text, tried))
<1>. DEFINE forms == Append(Append(q.variants, q.original), q.normalized)
            unused == {i \in DOMAIN forms : forms[i] # text /\ forms[i] \notin tried}
            least == CHOOSE i \in unused : \A j \in unused : i <= j
            V == Range(q.variants) \cup {q.original, q.normalized}
<1>1. q.variants \in Seq(V)
    BY DEF IsQuery, Listed
<1>2. \A v \in V : Listed(v)
    <2>1. Listed(q.original) /\ Listed(q.normalized)
        BY DEF IsQuery
    <2>2. DOMAIN q.variants = 1..Len(q.variants)
        BY DEF IsQuery, Listed
    <2>3. \A v \in Range(q.variants) : Listed(v)
        BY <2>2 DEF IsQuery, Range
    <2>4. QED
        BY <2>1, <2>3
<1>3. q.original \in V /\ q.normalized \in V
    OBVIOUS
<1>. HIDE DEF V
<1>4. forms \in Seq(V)
    BY <1>1, <1>3
<1>5. Rewrite(q, text, tried) = IF unused = {} THEN text ELSE forms[least]
    BY DEF Rewrite
<1>. HIDE DEF forms
<1>6. CASE unused # {}
    <2>1. unused \in SUBSET Nat
        BY <1>4
    <2>2. \E i \in unused : \A j \in unused : i <= j
        BY <1>6, <2>1, LeastNumber
    <2>3. least \in unused
        BY <2>2
    <2>4. least \in DOMAIN forms
        BY <2>3
    <2>. HIDE DEF least
    <2>5. forms[least] \in V
        BY <1>4, <2>4
    <2>6. QED
        BY <1>2, <1>5, <1>6, <2>5
<1>7. QED
    BY <1>5, <1>6
--------------------------------------------------------------------------------
(* Reranking *)

AreScores(scores) == \A c \in DOMAIN scores : scores[c] \in Int

\* A chunk with the path that led to it, as a hit has them.
Leads(h, hits) == \E k \in 1..Len(hits) : h.chunk = hits[k].chunk /\ h.path = hits[k].path

\* The order of reranking is one of the positions, none twice.
LEMMA RerankOrderIs ==
    ASSUME NEW C, IsCorpus(C), NEW hits, AreHits(hits, C),
           NEW scores, AreScores(scores), ChunkIds(hits) \subseteq DOMAIN scores
    PROVE  LET order == RerankOrder(hits, scores)
           IN  /\ order \in Seq(DOMAIN hits)
               /\ \A i, j \in DOMAIN order : i # j => order[i] # order[j]
<1>. DEFINE came(i) == IF Reranker = "cross_encoder" THEN hits[i].rank ELSE i
            score(i) == scores[hits[i].chunk.id]
            lower(i, j) == \/ score(i) > score(j)
                           \/ score(i) = score(j) /\ came(i) < came(j)
                           \/ /\ score(i) = score(j) /\ came(i) = came(j)
                              /\ hits[i].chunk.id < hits[j].chunk.id
            D == DOMAIN hits
            R == {p \in D \X D : lower(p[1], p[2])}
            s == Sorted(D, lower)
<1>1. /\ D = 1..Len(hits) /\ Len(hits) \in Nat
      /\ IsFiniteSet(D) /\ Cardinality(D) = Len(hits)
    BY ListedIsFinite DEF AreHits, Listed
<1>2. ASSUME NEW i \in D
      PROVE  /\ score(i) \in Int /\ came(i) \in Int /\ hits[i].chunk.id \in Int
             /\ hits[i].chunk \in ToSet(C)
    <2>1. IsHit(hits[i], C) /\ i \in Int
        BY <1>1 DEF AreHits
    <2>2. hits[i].chunk \in ToSet(C) /\ hits[i].rank \in Int
        BY <2>1 DEF IsHit
    <2>3. hits[i].chunk.id \in Nat
        BY <2>2, CorpusIsDistinct
    <2>4. hits[i].chunk.id \in DOMAIN scores
        BY DEF ChunkIds
    <2>5. score(i) \in Int
        BY <2>4 DEF AreScores
    <2>6. QED
        BY <2>1, <2>2, <2>3, <2>5
<1>3. ASSUME NEW i \in D, NEW j \in D, i # j PROVE hits[i].chunk.id # hits[j].chunk.id
    <2>1. hits[i].chunk # hits[j].chunk
        BY <1>1, <1>3 DEF AreHits
    <2>2. QED
        BY <1>2, <2>1, CorpusIsDistinct
<1>4. RerankOrder(hits, scores) = s
    BY DEF RerankOrder
<1>. HIDE DEF came, score
<1>5. TotalOrder(D, R)
    <2>. DEFINE a == [i \in D |-> score(i)]  b == [i \in D |-> came(i)]
                c == [i \in D |-> hits[i].chunk.id]
    <2>1. \A i \in D : a[i] \in Int /\ b[i] \in Int /\ c[i] \in Int
        BY <1>2
    <2>2. \A i, j \in D : i # j => c[i] # c[j]
        BY <1>3
    <2>3. \A i, j \in D : <<i, j>> \in R <=>
              \/ a[i] > a[j]
              \/ a[i] = a[j] /\ b[i] < b[j]
              \/ a[i] = a[j] /\ b[i] = b[j] /\ c[i] < c[j]
        OBVIOUS
    <2>. HIDE DEF a, b, c, R, D
    <2>4. QED
        BY <2>1, <2>2, <2>3 DEF TotalOrder
<1>6. \A x \in D : {y \in D : lower(y, x)} = Below(D, R, x)
    BY DEF Below
<1>7. \A i \in 1..Cardinality(D) : \E x \in D : Cardinality({y \in D : lower(y, x)}) = i - 1
    <2>1. \A i \in 1..Cardinality(D) : \E x \in D : Cardinality(Below(D, R, x)) = i - 1
        <3>. HIDE DEF R, D
        <3>. QED
            BY <1>1, <1>5, EveryRank
    <2>2. QED
        BY <2>1, <1>6
<1>8. s = [i \in 1..Cardinality(D) |->
             CHOOSE x \in D : Cardinality({y \in D : lower(y, x)}) = i - 1]
    BY DEF Sorted
<1>. HIDE DEF lower
<1>9. ASSUME NEW i \in 1..Cardinality(D)
      PROVE  s[i] \in D /\ Cardinality({y \in D : lower(y, s[i])}) = i - 1
    BY <1>7, <1>8
<1>. HIDE DEF s
<1>10. Ranking(D, R, s)
    BY <1>6, <1>8, <1>9 DEF Ranking
<1>. HIDE DEF R, D
<1>11. /\ s \in Seq(D) /\ Len(s) = Cardinality(D)
       /\ \A i, j \in 1..Cardinality(D) : i < j => <<s[i], s[j]>> \in R /\ s[i] # s[j]
    BY <1>1, <1>5, <1>10, RankingIsOrder
<1>12. s \in Seq(D) /\ \A i, j \in DOMAIN s : i # j => s[i] # s[j]
    <2>1. DOMAIN s = 1..Cardinality(D) /\ Cardinality(D) \in Nat
        BY <1>1, <1>11
    <2>2. ASSUME NEW i \in DOMAIN s, NEW j \in DOMAIN s, i # j PROVE s[i] # s[j]
        <3>1. i < j \/ j < i
            BY <2>1, <2>2
        <3>2. QED
            BY <1>11, <2>1, <3>1
    <2>3. QED
        BY <1>11, <2>2
<1>13. QED
    BY <1>4, <1>12 DEF D

LEMMA RerankIsAnswer ==
    ASSUME NEW C, IsCorpus(C), NEW hits, AreHits(hits, C), NEW filters,
           \A i \in 1..Len(hits) : Passes(hits[i].chunk, filters),
           NEW q, q.topK \in Nat, NEW scores, AreScores(scores),
           Rerank(q, hits, scores).error = "none"
    PROVE  LET answer == Rerank(q, hits, scores).hits
           IN  /\ IsAnswer(answer, C, filters, q.topK)
               /\ \A i \in 1..Len(answer) : Leads(answer[i], hits)
<1>. DEFINE order == RerankOrder(hits, scores)
            best == Prefix(order, q.topK)
            answer == [i \in DOMAIN best |->
                         [hits[order[i]] EXCEPT !.rank = i,
                                                !.score = scores[hits[order[i]].chunk.id]]]
<1>1. \/ Rerank(q, hits, scores) = Answered(<<>>)
      \/ /\ Rerank(q, hits, scores) = Answered(answer)
         /\ ChunkIds(hits) \subseteq DOMAIN scores
    <2>1. Failed("RETRIEVAL_ERROR").error # "none" /\ Failed("MODEL_ERROR").error # "none"
        BY DEF Failed
    <2>2. QED
        BY <2>1 DEF Rerank
<1>2. CASE Rerank(q, hits, scores) = Answered(<<>>)
    <2>1. Rerank(q, hits, scores).hits = <<>>
        BY <1>2 DEF Answered
    <2>2. IsAnswer(<<>>, C, filters, q.topK)
        BY EmptyIsListed DEF IsAnswer, AreHits
    <2>3. QED
        BY <2>1, <2>2, EmptyIsListed
<1>3. CASE Rerank(q, hits, scores) = Answered(answer) /\ ChunkIds(hits) \subseteq DOMAIN scores
    <2>1. Rerank(q, hits, scores).hits = answer
        <3>. HIDE DEF answer
        <3>1. QED
            BY <1>3, SMTT(40) DEF Answered
    <2>2. /\ order \in Seq(DOMAIN hits)
          /\ \A i, j \in DOMAIN order : i # j => order[i] # order[j]
        BY <1>3, RerankOrderIs
    <2>. HIDE DEF order
    <2>3. /\ Listed(best)
          /\ Len(best) = IF q.topK < Len(order) THEN q.topK ELSE Len(order)
          /\ \A i \in DOMAIN best : i \in DOMAIN order
        <3>1. q.topK \in Int /\ q.topK \in Nat
            OBVIOUS
        <3>2. order \in Seq(DOMAIN hits)
            BY <2>2
        <3>3. QED
            BY <3>1, <3>2, PrefixIs
    <2>. HIDE DEF best
    <2>4. /\ DOMAIN best = 1..Len(best) /\ Len(best) \in Nat /\ Len(best) <= q.topK
        BY <2>2, <2>3 DEF Listed
    <2>5. Listed(answer) /\ Len(answer) = Len(best)
        <3>1. answer = [i \in 1..Len(best) |-> answer[i]]
            BY <2>4
        <3>. HIDE DEF answer
        <3>2. QED
            BY <2>4, <3>1, ListedIs
    <2>6. DOMAIN hits = 1..Len(hits)
        BY DEF AreHits, Listed
    <2>7. ASSUME NEW i \in 1..Len(best)
          PROVE  /\ order[i] \in 1..Len(hits) /\ i \in DOMAIN order
                 /\ answer[i].rank = i /\ answer[i].chunk = hits[order[i]].chunk
                 /\ answer[i].path = hits[order[i]].path /\ IsHit(answer[i], C)
        <3>. DEFINE k == order[i]  h == hits[k]
        <3>1. k \in 1..Len(hits) /\ i \in DOMAIN order
            BY <2>2, <2>3, <2>4, <2>6
        <3>2. answer[i] = [h EXCEPT !.rank = i, !.score = scores[h.chunk.id]]
            BY <2>4
        <3>3. IsHit(h, C)
            BY <3>1 DEF AreHits
        <3>4. scores[h.chunk.id] \in Int
            <4>1. h.chunk.id \in DOMAIN scores
                BY <1>3, <2>6, <3>1 DEF ChunkIds
            <4>2. QED
                BY <4>1, SMTT(40) DEF AreScores
        <3>. HIDE DEF answer, h
        <3>5. /\ answer[i].rank = i /\ answer[i].chunk = h.chunk
              /\ answer[i].path = h.path /\ IsHit(answer[i], C)
            BY <3>2, <3>3, <3>4 DEF IsHit
        <3>6. QED
            BY <3>1, <3>5 DEF h
    <2>. HIDE DEF answer
    <2>8. ASSUME NEW i \in 1..Len(best), NEW j \in 1..Len(best), i # j
          PROVE  answer[i].chunk # answer[j].chunk
        <3>1. order[i] # order[j]
            BY <2>2, <2>7, <2>8
        <3>2. order[i] \in 1..Len(hits) /\ order[j] \in 1..Len(hits)
            BY <2>7
        <3>3. hits[order[i]].chunk # hits[order[j]].chunk
            BY <3>1, <3>2 DEF AreHits
        <3>4. QED
            BY <2>7, <3>3
    <2>9. \A i \in 1..Len(best) : Passes(answer[i].chunk, filters)
        BY <2>7
    <2>10. IsAnswer(answer, C, filters, q.topK)
        BY <2>4, <2>5, <2>7, <2>8, <2>9 DEF IsAnswer, AreHits
    <2>11. \A i \in 1..Len(answer) : Leads(answer[i], hits)
        BY <2>5, <2>7 DEF Leads
    <2>12. QED
        BY <2>1, <2>10, <2>11
<1>4. QED
    BY <1>1, <1>2, <1>3

LEMMA RerankedIsAnswer ==
    ASSUME NEW C, IsCorpus(C), NEW hits, AreHits(hits, C), NEW filters,
           \A i \in 1..Len(hits) : Passes(hits[i].chunk, filters),
           NEW q, q.topK \in Nat, NEW scores, AreScores(scores),
           Reranked(q, hits, scores).error = "none"
    PROVE  LET answer == Reranked(q, hits, scores).hits
           IN  /\ IsAnswer(answer, C, filters, q.topK)
               /\ \A i \in 1..Len(answer) : Leads(answer[i], hits)
<1>1. Failed("RETRIEVAL_ERROR").error # "none"
    BY DEF Failed
<1>2. Reranked(q, hits, scores) = Rerank(q, hits, scores)
    BY <1>1 DEF Reranked
<1>3. QED
    BY <1>2, RerankIsAnswer
--------------------------------------------------------------------------------
(* Traversal *)

\* A path along relationships to a document.
IsTrail(path, relationships, document) ==
    /\ Listed(path) /\ Len(path) <= HopLimit
    /\ \A k \in 1..Len(path) : path[k] \in Range(relationships)
    /\ \A k \in 1..(Len(path) - 1) : path[k].target = path[k + 1].source
    /\ path # <<>> => path[Len(path)].target = document

\* Documents reached, each by a path as long as its hops.
AreReached(reached, relationships) ==
    /\ Listed(reached)
    /\ \A i \in 1..Len(reached) : /\ reached[i].hop = Len(reached[i].via)
                                  /\ IsTrail(reached[i].via, relationships, reached[i].document)

Discover(relationships, reached, e) ==
    Append(reached, [document |-> relationships[e[2]].target, hop |-> reached[e[1]].hop + 1,
                     via |-> Append(reached[e[1]].via, relationships[e[2]])])

Widen(relationships, reached) ==
    IF NextDiscovery(relationships, reached) = {} THEN reached
    ELSE Discover(relationships, reached,
                  CHOOSE e \in NextDiscovery(relationships, reached) : TRUE)

LEMMA DiscoveryIsReached ==
    ASSUME NEW relationships, Listed(relationships),
           NEW reached, AreReached(reached, relationships),
           NEW e \in NextDiscovery(relationships, reached)
    PROVE  AreReached(Discover(relationships, reached, e), relationships)
<1>. DEFINE from == reached[e[1]]  edge == relationships[e[2]]
            via == Append(from.via, edge)
            item == [document |-> edge.target, hop |-> from.hop + 1, via |-> via]
            all == Append(reached, item)
<1>1. /\ e[1] \in DOMAIN reached /\ e[2] \in DOMAIN relationships
      /\ from.hop < HopLimit /\ edge.source = from.document
    BY DEF NextDiscovery
<1>2. Listed(reached) /\ DOMAIN reached = 1..Len(reached) /\ Len(reached) \in Nat
    BY DEF AreReached, Listed
<1>3. /\ from.hop = Len(from.via)
      /\ IsTrail(from.via, relationships, from.document)
    BY <1>1, <1>2 DEF AreReached
<1>4. edge \in Range(relationships)
    BY <1>1 DEF Range
<1>5. all = Discover(relationships, reached, e)
    BY DEF Discover
<1>. HIDE DEF edge, from
<1>6. Listed(from.via) /\ Len(from.via) \in Nat
    BY <1>3 DEF IsTrail, Listed
<1>7. /\ Listed(via) /\ Len(via) = Len(from.via) + 1
      /\ \A i \in 1..Len(from.via) : via[i] = from.via[i]
      /\ via[Len(from.via) + 1] = edge
    BY <1>6, AppendIs
<1>. DEFINE n == Len(from.via)  old == from.via
<1>8. item.hop = Len(via) /\ item.via = via /\ item.document = edge.target
    BY <1>3, <1>7
<1>9. IsTrail(via, relationships, edge.target)
    <2>1. /\ n \in Nat /\ n < HopLimit /\ HopLimit \in Nat
        BY <1>1, <1>3, <1>6, RetrievalAssumption DEF RetrievalConfig
    <2>2. /\ \A k \in 1..n : old[k] \in Range(relationships)
          /\ \A k \in 1..(n - 1) : old[k].target = old[k + 1].source
          /\ old # <<>> => old[n].target = from.document
        BY <1>3 DEF IsTrail
    <2>3. n > 0 => old # <<>>
        BY EmptyIsListed
    <2>. HIDE DEF n, old, via
    <2>4. Len(via) = n + 1 /\ via[n + 1] = edge /\ \A i \in 1..n : via[i] = old[i]
        BY <1>7 DEF n, old
    <2>5. \A k \in 1..Len(via) : via[k] \in Range(relationships)
        BY <1>4, <2>1, <2>2, <2>4
    <2>6. ASSUME NEW k \in 1..(Len(via) - 1) PROVE via[k].target = via[k + 1].source
        <3>1. CASE k = n
            BY <1>1, <2>1, <2>2, <2>3, <2>4, <3>1
        <3>2. CASE k # n
            <4>1. k \in 1..(n - 1) /\ k \in 1..n /\ k + 1 \in 1..n
                BY <2>1, <2>4, <3>2
            <4>2. QED
                BY <2>2, <2>4, <4>1
        <3>3. QED
            BY <3>1, <3>2
    <2>7. Len(via) <= HopLimit /\ via[Len(via)].target = edge.target
        BY <2>1, <2>4
    <2>8. QED
        BY <1>7, <2>5, <2>6, <2>7 DEF IsTrail
<1>. HIDE DEF item, via, n, old
<1>10. /\ Listed(all) /\ Len(all) = Len(reached) + 1
       /\ \A i \in 1..Len(reached) : all[i] = reached[i]
       /\ all[Len(reached) + 1] = item
    BY <1>2, AppendIs
<1>. HIDE DEF all
<1>11. ASSUME NEW i \in 1..Len(all)
       PROVE  /\ all[i].hop = Len(all[i].via)
              /\ IsTrail(all[i].via, relationships, all[i].document)
    <2>1. CASE i = Len(reached) + 1
        BY <1>8, <1>9, <1>10, <2>1
    <2>2. CASE i # Len(reached) + 1
        <3>1. i \in 1..Len(reached) /\ all[i] = reached[i]
            BY <1>2, <1>10, <2>2
        <3>2. QED
            BY <3>1 DEF AreReached
    <2>3. QED
        BY <2>1, <2>2
<1>12. AreReached(all, relationships)
    BY <1>10, <1>11 DEF AreReached
<1>13. QED
    BY <1>5, <1>12

LEMMA TraversalIsReached ==
    ASSUME NEW relationships, Listed(relationships), NEW seeds, Listed(seeds)
    PROVE  AreReached(Traverse(relationships, seeds), relationships)
<1>. DEFINE N == Len(relationships)
            start == [i \in DOMAIN seeds |-> [document |-> seeds[i], hop |-> 0, via |-> <<>>]]
            step(reached) == Widen(relationships, reached)
            after == CHOOSE f : f = [n \in 0..N |-> IF n = 0 THEN start ELSE step(f[n - 1])]
<1>1. N \in Nat
    BY DEF Listed
<1>2. Traverse(relationships, seeds) = after[N]
    BY DEF Traverse, Widen, Discover
<1>3. start = [i \in 1..Len(seeds) |-> start[i]] /\ DOMAIN seeds = 1..Len(seeds)
      /\ \A i \in DOMAIN seeds : start[i].hop = 0 /\ start[i].via = <<>>
    BY DEF Listed
<1>4. Len(seeds) \in Nat /\ HopLimit \in Nat
    BY RetrievalAssumption DEF Listed, RetrievalConfig
<1>. HIDE DEF start
<1>5. AreReached(start, relationships)
    <2>1. Listed(start) /\ Len(start) = Len(seeds)
        BY <1>3, <1>4, ListedIs
    <2>2. IsTrail(<<>>, relationships, start) /\ \A d : IsTrail(<<>>, relationships, d)
        BY <1>4, EmptyIsListed DEF IsTrail
    <2>3. QED
        BY <1>3, <2>1, <2>2, EmptyIsListed DEF AreReached
<1>6. \A reached : AreReached(reached, relationships)
                     => AreReached(step(reached), relationships)
    <2>1. ASSUME NEW reached, AreReached(reached, relationships)
          PROVE  AreReached(step(reached), relationships)
        <3>. DEFINE next == NextDiscovery(relationships, reached)
        <3>1. CASE next = {}
            BY <2>1, <3>1 DEF Widen
        <3>2. CASE next # {}
            <4>. DEFINE e == CHOOSE x \in next : TRUE
            <4>1. e \in next
                BY <3>2
            <4>2. AreReached(Discover(relationships, reached, e), relationships)
                BY <2>1, <4>1, DiscoveryIsReached
            <4>3. step(reached) = Discover(relationships, reached, e)
                BY <3>2 DEF Widen
            <4>4. QED
                BY <4>2, <4>3
        <3>3. QED
            BY <3>1, <3>2
    <2>2. QED
        BY <2>1
<1>. HIDE DEF step, after
<1>. DEFINE Iterates(f, n) == f = [k \in 0..n |-> IF k = 0 THEN start ELSE step(f[k - 1])]
            T == {n \in Nat : \E f : Iterates(f, n)}
<1>7. \A n \in Nat : n \in T
    <2>1. 0 \in T
        <3>. DEFINE f == [k \in 0..0 |-> start]
        <3>1. f = [k \in 0..0 |-> IF k = 0 THEN start ELSE step(f[k - 1])]
            OBVIOUS
        <3>2. Iterates(f, 0)
            BY <3>1
        <3>3. QED
            BY <3>2
    <2>2. ASSUME NEW n \in Nat, n \in T PROVE n + 1 \in T
        <3>1. PICK f : Iterates(f, n)
            BY <2>2
        <3>. DEFINE g == [k \in 0..(n + 1) |-> IF k = n + 1 THEN step(f[n]) ELSE f[k]]
        <3>2. ASSUME NEW k \in 0..(n + 1)
              PROVE  g[k] = IF k = 0 THEN start ELSE step(g[k - 1])
            <4>1. CASE k = n + 1
                BY <4>1
            <4>2. CASE k # n + 1
                <5>1. k \in 0..n
                    BY <4>2
                <5>2. g[k] = f[k] /\ f[k] = IF k = 0 THEN start ELSE step(f[k - 1])
                    BY <3>1, <4>2, <5>1
                <5>3. k # 0 => g[k - 1] = f[k - 1]
                    BY <5>1
                <5>4. QED
                    BY <5>2, <5>3
            <4>3. QED
                BY <4>1, <4>2
        <3>3. g = [k \in 0..(n + 1) |-> g[k]]
            OBVIOUS
        <3>. HIDE DEF g
        <3>4. Iterates(g, n + 1)
            BY <3>2, <3>3
        <3>5. QED
            BY <3>4
    <2>. HIDE DEF T
    <2>3. QED
        BY <2>1, <2>2, NumberInduction
<1>8. Iterates(after, N)
    <2>1. \E f : f = [k \in 0..N |-> IF k = 0 THEN start ELSE step(f[k - 1])]
        BY <1>1, <1>7
    <2>2. QED
        BY <2>1 DEF after
<1>. DEFINE U == {n \in Nat : n <= N => AreReached(after[n], relationships)}
<1>9. \A n \in Nat : n \in U
    <2>1. 0 \in U
        <3>1. after[0] = start
            BY <1>1, <1>8
        <3>2. QED
            BY <1>5, <3>1
    <2>2. ASSUME NEW n \in Nat, n \in U PROVE n + 1 \in U
        <3>1. CASE n + 1 <= N
            <4>1. n + 1 \in 0..N /\ n + 1 # 0 /\ (n + 1) - 1 = n /\ n <= N
                BY <1>1, <3>1
            <4>2. after[n + 1] = step(after[n])
                BY <1>8, <4>1
            <4>3. AreReached(after[n + 1], relationships)
                BY <1>6, <2>2, <4>1, <4>2
            <4>4. QED
                BY <4>3
        <3>2. CASE ~(n + 1 <= N)
            BY <3>2
        <3>3. QED
            BY <3>1, <3>2
    <2>. HIDE DEF U
    <2>3. QED
        BY <2>1, <2>2, NumberInduction
<1>10. QED
    BY <1>1, <1>2, <1>9
--------------------------------------------------------------------------------
(* Graph expansion *)

\* What no expansion has touched has no path.
IsFresh(hits) == \A i \in DOMAIN hits : hits[i].path = <<>>

LEMMA HybridIsFresh ==
    ASSUME NEW C, NEW q
    PROVE  IsFresh(Bm25Search(C, q)) /\ IsFresh(DenseSearch(C, q)) /\ IsFresh(HybridSearch(C, q))
<1>1. \A S, topK : IsFresh(TopRanked(S, topK))
    BY DEF IsFresh, TopRanked, Hit
<1>2. IsFresh(<<>>)
    BY EmptyIsListed DEF IsFresh, Listed
<1>3. \A sparse, dense, topK : IsFresh(Fused(sparse, dense, topK))
    BY <1>1 DEF Fused, ReciprocalRankFusion, FuseQueryBranches
<1>4. IsFresh(HybridSearch(C, q))
    BY <1>3 DEF HybridSearch
<1>5. IsFresh(Bm25Search(C, q))
    BY <1>1, <1>2 DEF Bm25Search
<1>6. IsFresh(DenseSearch(C, q))
    BY <1>1 DEF DenseSearch
<1>7. QED
    BY <1>4, <1>5, <1>6

\* The first hits of the chunks of a list of hits.
LEMMA DeduplicatedAreHits ==
    ASSUME NEW C, NEW hits, Listed(hits), \A i \in 1..Len(hits) : IsHit(hits[i], C)
    PROVE  /\ AreHits(Deduplicated(hits), C)
           /\ Range(Deduplicated(hits)) \subseteq Range(hits)
<1>. DEFINE chunks == [i \in DOMAIN hits |-> hits[i].chunk]
            P == FirstPositions(chunks)
            place == Sorted(P, LAMBDA i, j : i < j)
            kept == At(hits, P)
<1>1. DOMAIN hits = 1..Len(hits) /\ Len(hits) \in Nat
    BY DEF Listed
<1>2. Listed(chunks) /\ Len(chunks) = Len(hits)
    <2>1. chunks = [i \in 1..Len(hits) |-> chunks[i]]
        BY <1>1
    <2>. HIDE DEF chunks
    <2>2. QED
        BY <1>1, <2>1, ListedIs
<1>3. P \in SUBSET DOMAIN hits /\ P \in SUBSET DOMAIN chunks
    BY DEF FirstPositions
<1>4. /\ kept = [k \in DOMAIN place |-> hits[place[k]]]
      /\ At(chunks, P) = [k \in DOMAIN place |-> chunks[place[k]]]
    <2>1. DOMAIN place = 1..Cardinality(P)
        BY DEF Sorted
    <2>2. /\ kept = [k \in 1..Cardinality(P) |-> hits[place[k]]]
          /\ At(chunks, P) = [k \in 1..Cardinality(P) |-> chunks[place[k]]]
        <3>. HIDE DEF P, chunks
        <3>. QED
            BY AtIsSorted
    <2>. HIDE DEF place
    <2>3. QED
        BY <2>1, <2>2
<1>5. Deduplicated(hits) = kept
    BY DEF Deduplicated
<1>6. P \in SUBSET FirstPositions(chunks)
    OBVIOUS
<1>. HIDE DEF P
<1>7. /\ Listed(kept)
      /\ \A k \in DOMAIN kept : \E i \in P : kept[k] = hits[i]
    <2>1. \A i \in P : hits[i] \in Range(hits)
        BY <1>3 DEF Range
    <2>2. QED
        BY <1>3, <2>1, AtKeeps
<1>8. \A k, l \in DOMAIN At(chunks, P) : k # l => At(chunks, P)[k] # At(chunks, P)[l]
    <2>. HIDE DEF chunks
    <2>. QED
        BY <1>2, <1>6, FirstsAreDistinct
<1>9. IsFiniteSet(P) /\ P \in SUBSET Nat
    <2>1. IsFiniteSet(DOMAIN hits) /\ DOMAIN hits \subseteq Nat
        BY <1>1, ListedIsFinite
    <2>2. QED
        BY <1>3, <2>1, FS_Subset
<1>10. Increasing(place, P)
    BY <1>9, SortedNumbers
<1>. HIDE DEF place
<1>11. \A k \in DOMAIN place : place[k] \in DOMAIN hits
    BY <1>3, <1>10 DEF Increasing
<1>12. /\ DOMAIN kept = DOMAIN place /\ DOMAIN At(chunks, P) = DOMAIN place
       /\ \A k \in DOMAIN place : At(chunks, P)[k] = kept[k].chunk
    BY <1>4, <1>11
<1>. HIDE DEF kept
<1>13. DOMAIN kept = 1..Len(kept)
    BY <1>7 DEF Listed
<1>14. \A k \in 1..Len(kept) : \E i \in 1..Len(hits) : kept[k] = hits[i]
    BY <1>1, <1>3, <1>7, <1>13
<1>15. \A k, l \in 1..Len(kept) : k # l => kept[k].chunk # kept[l].chunk
    BY <1>8, <1>12, <1>13
<1>16. AreHits(kept, C)
    BY <1>7, <1>14, <1>15 DEF AreHits
<1>17. Range(kept) \subseteq Range(hits)
    BY <1>1, <1>13, <1>14 DEF Range
<1>18. QED
    BY <1>5, <1>16, <1>17

LEMMA PrefixOfHits ==
    ASSUME NEW C, NEW hits, AreHits(hits, C), NEW limit \in Nat
    PROVE  /\ AreHits(Prefix(hits, limit), C) /\ Len(Prefix(hits, limit)) <= limit
           /\ \A i \in 1..Len(Prefix(hits, limit)) :
                 i \in 1..Len(hits) /\ Prefix(hits, limit)[i] = hits[i]
<1>. DEFINE best == Prefix(hits, limit)
<1>1. hits \in Seq(Range(hits)) /\ DOMAIN hits = 1..Len(hits) /\ Len(hits) \in Nat
    BY ListedSeq DEF AreHits, Listed
<1>2. limit \in Int /\ limit \in Nat
    OBVIOUS
<1>3. /\ Listed(best)
      /\ Len(best) = IF limit < Len(hits) THEN limit ELSE Len(hits)
      /\ \A i \in DOMAIN best : i \in DOMAIN hits /\ best[i] = hits[i]
    BY <1>1, <1>2, PrefixIs
<1>. HIDE DEF best
<1>4. DOMAIN best = 1..Len(best) /\ Len(best) <= limit
    BY <1>1, <1>2, <1>3 DEF Listed
<1>5. \A i \in 1..Len(best) : i \in 1..Len(hits) /\ best[i] = hits[i]
    BY <1>1, <1>3, <1>4
<1>6. AreHits(best, C)
    BY <1>3, <1>5 DEF AreHits
<1>7. QED
    BY <1>4, <1>5, <1>6 DEF best

\* The documents of the expansion were reached, and a document filter allows them.
LEMMA TargetsAreReached ==
    ASSUME NEW q, NEW reached, Listed(reached), NEW d \in ToSet(TargetDocuments(q, reached))
    PROVE  /\ \E i \in DOMAIN reached : reached[i].document = d
           /\ q.filters.doc = {} \/ d \in q.filters.doc
<1>. DEFINE documents == [i \in DOMAIN reached |-> reached[i].document]
            P == {i \in DOMAIN reached : /\ reached[i].hop > 0
                                         /\ \/ q.filters.doc = {}
                                            \/ reached[i].document \in q.filters.doc}
            all == At(documents, P)
<1>1. TargetDocuments(q, reached) = Prefix(all, RelatedDocumentK)
    BY DEF TargetDocuments, DocumentsAt
<1>2. Listed(documents)
    <2>1. documents = [i \in 1..Len(reached) |-> documents[i]] /\ Len(reached) \in Nat
        BY DEF Listed
    <2>. HIDE DEF documents
    <2>2. QED
        BY <2>1, ListedIs
<1>3. P \in SUBSET DOMAIN documents /\ \A i \in P : documents[i] \in Range(documents)
    BY DEF Range
<1>4. \A i \in P : /\ i \in DOMAIN reached /\ documents[i] = reached[i].document
                   /\ q.filters.doc = {} \/ documents[i] \in q.filters.doc
    OBVIOUS
<1>. HIDE DEF documents, P
<1>5. /\ all \in Seq(Range(documents))
      /\ \A k \in DOMAIN all : \E i \in P : all[k] = documents[i]
    BY <1>2, <1>3, AtKeeps
<1>. HIDE DEF all
<1>6. RelatedDocumentK \in Int
    BY RetrievalAssumption DEF RetrievalConfig
<1>7. \A k \in DOMAIN Prefix(all, RelatedDocumentK) :
         k \in DOMAIN all /\ Prefix(all, RelatedDocumentK)[k] = all[k]
    BY <1>5, <1>6, PrefixIs
<1>8. Listed(Prefix(all, RelatedDocumentK))
    BY <1>5, <1>6, PrefixIs
<1>9. PICK k \in DOMAIN Prefix(all, RelatedDocumentK) : d = Prefix(all, RelatedDocumentK)[k]
    BY <1>1, <1>8, ListedIsFinite DEF Range
<1>10. PICK i \in P : d = documents[i]
    BY <1>5, <1>7, <1>9
<1>11. QED
    BY <1>4, <1>10

\* Hits within the filters, a related one with the path that led to its document.
AreFound(hits, C, filters, relationships) ==
    /\ AreHits(hits, C)
    /\ \A i \in 1..Len(hits) :
          /\ Passes(hits[i].chunk, filters)
          /\ hits[i].path # <<>> => IsTrail(hits[i].path, relationships, hits[i].chunk.doc)

LEMMA NarrowedQuestion ==
    ASSUME NEW q, IsQuery(q), NEW n \in Nat, NEW targets, targets # {},
           q.filters.doc = {} \/ targets \subseteq q.filters.doc
    PROVE  LET r == [q EXCEPT !.topK = n, !.filters.doc = targets]
           IN  /\ IsQuery(r) /\ r.topK = n
               /\ \A c : Passes(c, r.filters) => Passes(c, q.filters) /\ c.doc \in targets
<1>. DEFINE f == [q.filters EXCEPT !.doc = targets]
            r == [q EXCEPT !.topK = n, !.filters.doc = targets]
<1>1. /\ "doc" \in DOMAIN q.filters /\ DOMAIN q = QueryFields
      /\ Listed(q.original) /\ Listed(q.normalized) /\ Listed(q.rewritten)
      /\ Listed(q.variants) /\ \A i \in 1..Len(q.variants) : Listed(q.variants[i])
      /\ q.candidateK \in Nat
    BY DEF IsQuery
<1>2. /\ DOMAIN r = QueryFields /\ r.topK = n /\ r.filters = f
      /\ r.original = q.original /\ r.normalized = q.normalized
      /\ r.rewritten = q.rewritten /\ r.variants = q.variants
      /\ r.candidateK = q.candidateK
    BY <1>1 DEF QueryFields
<1>3. /\ DOMAIN f = DOMAIN q.filters /\ f.doc = targets
      /\ \A field \in DOMAIN f : field # "doc" => f[field] = q.filters[field]
    BY <1>1
<1>. HIDE DEF r, f
<1>4. IsQuery(r)
    BY <1>1, <1>2, <1>3 DEF IsQuery
<1>5. ASSUME NEW c, Passes(c, f) PROVE Passes(c, q.filters) /\ c.doc \in targets
    <2>1. c.doc \in targets
        <3>1. "doc" \in DOMAIN f /\ f["doc"] = targets
            BY <1>1, <1>3
        <3>2. f["doc"] = {} \/ c["doc"] \in f["doc"]
            BY <1>5, <3>1 DEF Passes
        <3>3. QED
            BY <3>1, <3>2
    <2>2. ASSUME NEW field \in DOMAIN q.filters
          PROVE  q.filters[field] = {} \/ c[field] \in q.filters[field]
        <3>1. CASE field = "doc"
            BY <2>1, <3>1
        <3>2. CASE field # "doc"
            BY <1>3, <1>5, <3>2 DEF Passes
        <3>3. QED
            BY <3>1, <3>2
    <2>3. QED
        BY <2>1, <2>2 DEF Passes
<1>6. QED
    BY <1>2, <1>4, <1>5 DEF r

\* Related hits with the paths that led to their documents.
LEMMA RelatedHits ==
    ASSUME NEW C, NEW relationships,
           NEW reached, AreReached(reached, relationships),
           NEW filters, NEW related, AreHits(related, C),
           \A i \in 1..Len(related) : Passes(related[i].chunk, filters),
           \A i \in 1..Len(related) :
               \E k \in DOMAIN reached : reached[k].document = related[i].chunk.doc
    PROVE  AreFound(WithPaths(related, reached), C, filters, relationships)
<1>. DEFINE via(i) == (CHOOSE r \in ToSet(reached) : r.document = related[i].chunk.doc).via
            hits == [i \in DOMAIN related |-> [related[i] EXCEPT !.path = via(i)]]
<1>1. WithPaths(related, reached) = hits
    BY DEF WithPaths
<1>2. DOMAIN related = 1..Len(related) /\ Len(related) \in Nat
    BY DEF AreHits, Listed
<1>3. /\ DOMAIN reached = 1..Len(reached)
      /\ \A r \in ToSet(reached) : IsTrail(r.via, relationships, r.document)
    <2>1. Listed(reached) /\ ToSet(reached) = Range(reached)
        BY ListedIsFinite DEF AreReached
    <2>2. QED
        BY <2>1 DEF AreReached, Listed, Range
<1>4. ASSUME NEW i \in 1..Len(related)
      PROVE  IsTrail(via(i), relationships, related[i].chunk.doc)
    <2>. DEFINE r == CHOOSE x \in ToSet(reached) : x.document = related[i].chunk.doc
    <2>1. r \in ToSet(reached) /\ r.document = related[i].chunk.doc
        <3>1. PICK k \in DOMAIN reached : reached[k].document = related[i].chunk.doc
            OBVIOUS
        <3>2. reached[k] \in ToSet(reached)
            <4>1. ToSet(reached) = Range(reached)
                BY ListedIsFinite DEF AreReached
            <4>2. QED
                BY <4>1 DEF Range
        <3>3. QED
            BY <3>1, <3>2
    <2>2. via(i) = r.via
        OBVIOUS
    <2>. HIDE DEF r
    <2>3. QED
        BY <1>3, <2>1, <2>2
<1>. HIDE DEF via
<1>5. Listed(hits) /\ Len(hits) = Len(related)
    <2>1. hits = [i \in 1..Len(related) |-> hits[i]]
        BY <1>2
    <2>. HIDE DEF hits
    <2>2. QED
        BY <1>2, <2>1, ListedIs
<1>6. ASSUME NEW i \in 1..Len(related)
      PROVE  /\ hits[i].chunk = related[i].chunk /\ hits[i].path = via(i)
             /\ IsHit(hits[i], C)
    <2>1. IsHit(related[i], C)
        BY DEF AreHits
    <2>2. hits[i] = [related[i] EXCEPT !.path = via(i)]
        BY <1>2
    <2>. HIDE DEF hits
    <2>3. QED
        BY <2>1, <2>2 DEF IsHit
<1>. HIDE DEF hits
<1>7. AreHits(hits, C)
    <2>1. \A i, j \in 1..Len(hits) : i # j => hits[i].chunk # hits[j].chunk
        BY <1>5, <1>6 DEF AreHits
    <2>2. QED
        BY <1>5, <1>6, <2>1 DEF AreHits
<1>8. ASSUME NEW i \in 1..Len(hits)
      PROVE  /\ Passes(hits[i].chunk, filters)
             /\ IsTrail(hits[i].path, relationships, hits[i].chunk.doc)
    BY <1>4, <1>5, <1>6
<1>9. QED
    BY <1>1, <1>7, <1>8 DEF AreFound

LEMMA GraphCandidatesAreFound ==
    ASSUME SimilarityIsNumber, NEW C, IsCorpus(C), NEW q, IsQuery(q),
           NEW relationships, NEW reached, AreReached(reached, relationships),
           NEW seeds, AreHits(seeds, C), IsFresh(seeds), Len(seeds) <= q.candidateK,
           \A i \in 1..Len(seeds) : Passes(seeds[i].chunk, q.filters)
    PROVE  /\ AreFound(GraphCandidates(C, seeds, reached, q), C, q.filters, relationships)
           /\ Len(GraphCandidates(C, seeds, reached, q)) <= q.candidateK
<1>. DEFINE targets == ToSet(TargetDocuments(q, reached))
            remaining == q.candidateK - Len(seeds)
            narrow == [q EXCEPT !.topK = remaining, !.filters.doc = targets]
            related == IF targets = {} \/ remaining = 0 THEN <<>> ELSE HybridSearch(C, narrow)
            leading == WithPaths(related, reached)
            joined == seeds \o leading
            first == Deduplicated(joined)
<1>1. GraphCandidates(C, seeds, reached, q) = Prefix(first, q.candidateK)
    BY DEF GraphCandidates
<1>2. /\ q.candidateK \in Nat /\ Len(seeds) \in Nat /\ remaining \in Nat
      /\ DOMAIN seeds = 1..Len(seeds) /\ Listed(seeds)
    BY DEF IsQuery, AreHits, Listed
<1>3. \A d \in targets : /\ \E i \in DOMAIN reached : reached[i].document = d
                         /\ q.filters.doc = {} \/ d \in q.filters.doc
    BY TargetsAreReached DEF AreReached
<1>. HIDE DEF targets, remaining
<1>4. /\ AreHits(related, C)
      /\ \A i \in 1..Len(related) : /\ Passes(related[i].chunk, q.filters)
                                    /\ related[i].chunk.doc \in targets
    <2>1. CASE targets = {} \/ remaining = 0
        <3>1. related = <<>>
            BY <2>1
        <3>2. QED
            BY <3>1, EmptyIsListed DEF AreHits
    <2>2. CASE targets # {} /\ remaining # 0
        <3>1. q.filters.doc = {} \/ targets \subseteq q.filters.doc
            BY <1>3, SMTT(40)
        <3>2. /\ IsQuery(narrow)
              /\ \A c : Passes(c, narrow.filters) => Passes(c, q.filters) /\ c.doc \in targets
            BY <1>2, <2>2, <3>1, NarrowedQuestion
        <3>3. related = HybridSearch(C, narrow)
            BY <2>2
        <3>. HIDE DEF narrow
        <3>4. IsAnswer(HybridSearch(C, narrow), C, narrow.filters, narrow.topK)
            BY <3>2, HybridIsAnswer
        <3>. HIDE DEF related
        <3>5. QED
            BY <3>2, <3>3, <3>4 DEF IsAnswer
    <2>3. QED
        BY <2>1, <2>2
<1>. HIDE DEF related
<1>5. AreFound(leading, C, q.filters, relationships)
    <2>1. \A i \in 1..Len(related) : Passes(related[i].chunk, q.filters)
        BY <1>4
    <2>2. \A i \in 1..Len(related) :
               \E k \in DOMAIN reached : reached[k].document = related[i].chunk.doc
        BY <1>3, <1>4
    <2>3. QED
        BY <1>4, <2>1, <2>2, RelatedHits
<1>. HIDE DEF leading
<1>6. Listed(leading) /\ Len(leading) \in Nat
    BY <1>5 DEF AreFound, AreHits, Listed
<1>7. /\ Listed(joined) /\ Len(joined) = Len(seeds) + Len(leading)
      /\ \A i \in 1..Len(joined) : joined[i] = IF i <= Len(seeds) THEN seeds[i]
                                         ELSE leading[i - Len(seeds)]
    <2>. DEFINE V == Range(seeds) \cup Range(leading)
    <2>1. seeds \in Seq(V) /\ leading \in Seq(V)
        BY <1>2, <1>6 DEF Listed
    <2>2. joined \in Seq(V)
        BY <2>1
    <2>3. Listed(joined)
        BY <2>2, ListedSeq
    <2>4. Len(joined) = Len(seeds) + Len(leading)
        BY <2>1
    <2>5. \A i \in 1..Len(joined) : joined[i] = IF i <= Len(seeds) THEN seeds[i]
                                         ELSE leading[i - Len(seeds)]
        BY <2>1
    <2>6. QED
        BY <2>3, <2>4, <2>5
<1>. HIDE DEF joined
<1>8. ASSUME NEW i \in 1..Len(joined)
      PROVE  /\ IsHit(joined[i], C) /\ Passes(joined[i].chunk, q.filters)
             /\ joined[i].path # <<>> => IsTrail(joined[i].path, relationships, joined[i].chunk.doc)
    <2>1. CASE i <= Len(seeds)
        <3>1. i \in 1..Len(seeds) /\ joined[i] = seeds[i]
            BY <1>2, <1>7, <2>1
        <3>2. QED
            BY <1>2, <3>1 DEF AreHits, IsFresh
    <2>2. CASE ~(i <= Len(seeds))
        <3>1. i - Len(seeds) \in 1..Len(leading) /\ joined[i] = leading[i - Len(seeds)]
            BY <1>2, <1>6, <1>7, <2>2
        <3>2. QED
            BY <1>5, <3>1 DEF AreFound, AreHits
    <2>3. QED
        BY <2>1, <2>2
<1>9. AreHits(first, C) /\ Range(first) \subseteq Range(joined)
    <2>1. Listed(joined)
        BY <1>7
    <2>2. \A i \in 1..Len(joined) : IsHit(joined[i], C)
        BY <1>8
    <2>3. QED
        BY <2>1, <2>2, DeduplicatedAreHits
<1>. HIDE DEF first
<1>10. /\ AreHits(Prefix(first, q.candidateK), C)
       /\ Len(Prefix(first, q.candidateK)) <= q.candidateK
       /\ \A i \in 1..Len(Prefix(first, q.candidateK)) :
             i \in 1..Len(first) /\ Prefix(first, q.candidateK)[i] = first[i]
    BY <1>2, <1>9, PrefixOfHits
<1>. DEFINE best == Prefix(first, q.candidateK)
<1>. HIDE DEF best
<1>11. AreFound(best, C, q.filters, relationships)
    <2>1. ASSUME NEW k \in 1..Len(best) PROVE \E i \in 1..Len(joined) : best[k] = joined[i]
        <3>1. k \in DOMAIN first /\ best[k] = first[k]
            BY <1>9, <1>10 DEF best, AreHits, Listed
        <3>2. best[k] \in Range(joined) /\ DOMAIN joined = 1..Len(joined)
            BY <1>7, <1>9, <3>1 DEF Range, Listed
        <3>3. QED
            BY <3>2 DEF Range
    <2>2. \A k \in 1..Len(best) :
             /\ Passes(best[k].chunk, q.filters)
             /\ best[k].path # <<>> => IsTrail(best[k].path, relationships, best[k].chunk.doc)
        BY <1>8, <2>1
    <2>3. QED
        BY <1>10, <2>2 DEF AreFound, best
<1>12. QED
    BY <1>1, <1>10, <1>11 DEF best

\* What a search finds: at most topK ranked hits within the filters.
IsFinding(hits, C, q, relationships) ==
    /\ IsAnswer(hits, C, q.filters, q.topK)
    /\ AreFound(hits, C, q.filters, relationships)

LEMMA LeadingHits ==
    ASSUME NEW C, NEW q, NEW relationships,
           NEW hits, AreFound(hits, C, q.filters, relationships),
           NEW answer, IsAnswer(answer, C, q.filters, q.topK),
           \A i \in 1..Len(answer) : Leads(answer[i], hits)
    PROVE  IsFinding(answer, C, q, relationships)
<1>1. ASSUME NEW i \in 1..Len(answer), answer[i].path # <<>>
      PROVE  IsTrail(answer[i].path, relationships, answer[i].chunk.doc)
    <2>1. PICK k \in 1..Len(hits) : /\ answer[i].chunk = hits[k].chunk
                                    /\ answer[i].path = hits[k].path
        BY DEF Leads
    <2>2. QED
        BY <1>1, <2>1 DEF AreFound
<1>2. QED
    BY <1>1 DEF IsFinding, AreFound, IsAnswer

LEMMA FreshFinding ==
    ASSUME NEW C, NEW q, NEW relationships, NEW hits,
           IsAnswer(hits, C, q.filters, q.topK), IsFresh(hits)
    PROVE  IsFinding(hits, C, q, relationships)
<1>1. DOMAIN hits = 1..Len(hits)
    BY DEF IsAnswer, AreHits, Listed
<1>2. QED
    BY <1>1 DEF IsFinding, AreFound, IsAnswer, IsFresh

LEMMA SeedDocumentsAreListed ==
    ASSUME NEW hits, Listed(hits)
    PROVE  Listed(SeedDocuments(hits))
<1>. DEFINE docs == [i \in DOMAIN hits |-> hits[i].chunk.doc]
<1>1. Listed(docs)
    <2>1. docs = [i \in 1..Len(hits) |-> docs[i]] /\ Len(hits) \in Nat
        BY DEF Listed
    <2>. HIDE DEF docs
    <2>2. QED
        BY <2>1, ListedIs
<1>2. SeedDocuments(hits) = Prefix(Unique(docs), SeedDocumentK)
    BY DEF SeedDocuments
<1>. HIDE DEF docs
<1>3. Unique(docs) \in Seq(Range(Unique(docs)))
    BY <1>1, UniqueIsListed DEF Listed
<1>4. SeedDocumentK \in Int
    BY RetrievalAssumption DEF RetrievalConfig
<1>5. QED
    BY <1>2, <1>3, <1>4, PrefixIs

LEMMA GraphIsFinding ==
    ASSUME SimilarityIsNumber, NEW C, IsCorpus(C), NEW q, IsQuery(q), q.candidateK > 0,
           NEW G, Listed(G.relationships), NEW scores, AreScores(scores),
           GraphSearch(C, G, q, scores).error = "none"
    PROVE  IsFinding(GraphSearch(C, G, q, scores).hits, C, q, G.relationships)
<1>. DEFINE slots == IF q.candidateK > 1 THEN q.candidateK - 1 ELSE 1
            k == IF SeedChunkK < slots THEN SeedChunkK ELSE slots
            r == [q EXCEPT !.topK = k]
            seeds == HybridSearch(C, r)
            documents == SeedDocuments(seeds)
            reached == Traverse(G.relationships, documents)
            candidates == GraphCandidates(C, seeds, reached, q)
<1>1. q.candidateK \in Nat /\ SeedChunkK \in Nat /\ q.topK \in Nat
    <2>1. SeedChunkK \in 1..100
        BY RetrievalAssumption DEF RetrievalConfig
    <2>2. q.candidateK \in Nat /\ q.topK \in Nat
        BY DEF IsQuery
    <2>3. QED
        BY <2>1, <2>2
<1>2. k \in Nat /\ k <= q.candidateK
    BY <1>1
<1>3. Seeds(C, q) = seeds
    BY DEF Seeds
<1>. HIDE DEF k
<1>4. IsQuery(r) /\ r.filters = q.filters /\ r.topK = k
    BY <1>2, LimitedQuestion
<1>. HIDE DEF r
<1>5. IsAnswer(seeds, C, q.filters, k) /\ IsFresh(seeds)
    <2>1. IsAnswer(seeds, C, r.filters, r.topK)
        BY <1>4, HybridIsAnswer
    <2>2. QED
        BY <1>4, <2>1, HybridIsFresh
<1>6. /\ GraphSearch(C, G, q, scores).error = "none"
      /\ GraphSearch(C, G, q, scores) = Reranked(q, candidates, scores)
    <2>1. Failed("RETRIEVAL_ERROR").error # "none"
        BY DEF Failed
    <2>2. GraphSearch(C, G, q, scores)
            = IF q.candidateK > MaxCandidates \/ ~(ToSet(documents) \subseteq G.documents)
              THEN Failed("RETRIEVAL_ERROR") ELSE Reranked(q, candidates, scores)
        BY <1>3 DEF GraphSearch, Expanded
    <2>. HIDE DEF documents, candidates
    <2>3. QED
        BY <2>1, <2>2
<1>. HIDE DEF seeds
<1>7. Listed(seeds) /\ AreHits(seeds, C) /\ Len(seeds) <= q.candidateK
      /\ \A i \in 1..Len(seeds) : Passes(seeds[i].chunk, q.filters)
    <2>1. Len(seeds) \in Nat /\ Len(seeds) <= k
        BY <1>5 DEF IsAnswer, AreHits, Listed
    <2>2. Len(seeds) <= q.candidateK
        BY <1>1, <1>2, <2>1
    <2>3. QED
        BY <1>5, <2>2 DEF IsAnswer, AreHits
<1>8. AreReached(reached, G.relationships)
    <2>1. Listed(documents)
        BY <1>7, SeedDocumentsAreListed
    <2>. HIDE DEF documents
    <2>2. QED
        BY <2>1, TraversalIsReached
<1>. HIDE DEF reached
<1>9. AreFound(candidates, C, q.filters, G.relationships)
    BY <1>5, <1>7, <1>8, GraphCandidatesAreFound
<1>. HIDE DEF candidates
<1>10. AreHits(candidates, C) /\ \A i \in 1..Len(candidates) : Passes(candidates[i].chunk, q.filters)
    BY <1>9 DEF AreFound
<1>. DEFINE answer == Reranked(q, candidates, scores).hits
<1>11. /\ IsAnswer(answer, C, q.filters, q.topK)
       /\ \A i \in 1..Len(answer) : Leads(answer[i], candidates)
    BY <1>1, <1>6, <1>10, RerankedIsAnswer
<1>. HIDE DEF answer
<1>12. IsFinding(answer, C, q, G.relationships)
    BY <1>9, <1>11, LeadingHits
<1>13. QED
    BY <1>6, <1>12 DEF answer

LEMMA HybridRerankIsFinding ==
    ASSUME SimilarityIsNumber, NEW C, IsCorpus(C), NEW q, IsQuery(q),
           NEW relationships, NEW scores, AreScores(scores),
           HybridRerankSearch(C, q, scores).error = "none"
    PROVE  IsFinding(HybridRerankSearch(C, q, scores).hits, C, q, relationships)
<1>. DEFINE r == [q EXCEPT !.topK = q.candidateK]
            hits == HybridSearch(C, r)
            answer == Reranked(q, hits, scores).hits
<1>1. q.candidateK \in Nat /\ q.topK \in Nat
    BY DEF IsQuery
<1>2. IsQuery(r) /\ r.filters = q.filters /\ r.topK = q.candidateK
    BY <1>1, LimitedQuestion
<1>3. /\ HybridRerankSearch(C, q, scores) = Reranked(q, hits, scores)
      /\ Reranked(q, hits, scores).error = "none"
    <2>1. Failed("RETRIEVAL_ERROR").error # "none"
        BY DEF Failed
    <2>2. HybridRerankSearch(C, q, scores)
             = IF q.candidateK > MaxCandidates THEN Failed("RETRIEVAL_ERROR")
               ELSE Reranked(q, hits, scores)
        BY DEF HybridRerankSearch
    <2>. HIDE DEF hits
    <2>3. QED
        BY <2>1, <2>2
<1>. HIDE DEF r
<1>4. IsAnswer(hits, C, q.filters, q.candidateK) /\ IsFresh(hits)
    <2>1. IsAnswer(hits, C, r.filters, r.topK)
        BY <1>2, HybridIsAnswer
    <2>2. QED
        BY <1>2, <2>1, HybridIsFresh
<1>. HIDE DEF hits
<1>5. AreFound(hits, C, q.filters, relationships)
    <2>1. DOMAIN hits = 1..Len(hits)
        BY <1>4 DEF IsAnswer, AreHits, Listed
    <2>2. QED
        BY <1>4, <2>1 DEF AreFound, IsAnswer, IsFresh
<1>6. AreHits(hits, C) /\ \A i \in 1..Len(hits) : Passes(hits[i].chunk, q.filters)
    BY <1>5 DEF AreFound
<1>7. /\ IsAnswer(answer, C, q.filters, q.topK)
      /\ \A i \in 1..Len(answer) : Leads(answer[i], hits)
    BY <1>1, <1>3, <1>6, RerankedIsAnswer
<1>. HIDE DEF answer
<1>8. IsFinding(answer, C, q, relationships)
    BY <1>5, <1>7, LeadingHits
<1>9. QED
    BY <1>3, <1>8 DEF answer

\* Whatever its strategy, a search that raises nothing finds ranked hits of the
\* corpus within the limits and the filters of the question.
LEMMA SearchIsFinding ==
    ASSUME SimilarityIsNumber, NEW C, IsCorpus(C), NEW q, IsQuery(q), q.candidateK > 0,
           q.strategy \in Strategies,
           NEW G, Listed(G.relationships), NEW scores, AreScores(scores),
           Search(C, G, q, scores).error = "none"
    PROVE  IsFinding(Search(C, G, q, scores).hits, C, q, G.relationships)
<1>1. \A hits : Answered(hits).hits = hits
    BY DEF Answered
<1>2. CASE q.strategy = "BM25"
    BY <1>1, <1>2, Bm25IsAnswer, HybridIsFresh, FreshFinding DEF Search
<1>3. CASE q.strategy = "DENSE"
    BY <1>1, <1>3, DenseIsAnswer, HybridIsFresh, FreshFinding DEF Search
<1>4. CASE q.strategy = "HYBRID"
    BY <1>1, <1>4, HybridIsAnswer, HybridIsFresh, FreshFinding DEF Search
<1>5. CASE q.strategy = "HYBRID_RERANK"
    <2>1. Search(C, G, q, scores) = HybridRerankSearch(C, q, scores)
        BY <1>5 DEF Search
    <2>2. QED
        BY <2>1, HybridRerankIsFinding
<1>6. CASE q.strategy = "GRAPH"
    <2>1. Search(C, G, q, scores) = GraphSearch(C, G, q, scores)
        BY <1>6 DEF Search
    <2>2. QED
        BY <2>1, GraphIsFinding
<1>7. QED
    BY <1>2, <1>3, <1>4, <1>5, <1>6 DEF Strategies
--------------------------------------------------------------------------------
(* Evidence *)

\* What Admits says of the items kept before.
LEMMA AdmittedHasRoom ==
    ASSUME NEW items, NEW candidate, Admits(items, candidate)
    PROVE  Len(items) < MaxEvidence
BY DEF Admits

\* Some set of positions is what the greedy selection keeps.
LEMMA SelectionExists ==
    ASSUME NEW ranked, Listed(ranked)
    PROVE  \E K \in SUBSET DOMAIN ranked :
              \A i \in DOMAIN ranked :
                 i \in K <=> Admits(At(ranked, K \cap (1..(i - 1))), ranked[i])
<1>. DEFINE Keeps(K, n) == /\ K \subseteq 1..n
                           /\ \A i \in 1..n :
                                 i \in K <=> Admits(At(ranked, K \cap (1..(i - 1))), ranked[i])
            T == {n \in Nat : \E K : Keeps(K, n)}
<1>1. 0 \in T
    <2>1. Keeps({}, 0)
        OBVIOUS
    <2>2. QED
        BY <2>1
<1>2. ASSUME NEW n \in Nat, n \in T PROVE n + 1 \in T
    <2>1. PICK K : Keeps(K, n)
        BY <1>2
    <2>. DEFINE m == n + 1
                L == IF Admits(At(ranked, K), ranked[m]) THEN K \cup {m} ELSE K
    <2>2. m \in Nat /\ L \subseteq 1..m /\ m \notin K /\ K \subseteq 1..n
        BY <2>1
    <2>3. \A i \in 1..m : L \cap (1..(i - 1)) = K \cap (1..(i - 1))
        BY <2>2
    <2>4. K \cap (1..(m - 1)) = K
        <3>1. m - 1 = n
            OBVIOUS
        <3>. HIDE DEF m
        <3>2. QED
            BY <2>2, <3>1
    <2>5. ASSUME NEW i \in 1..m
          PROVE  i \in L <=> Admits(At(ranked, L \cap (1..(i - 1))), ranked[i])
        <3>1. CASE i = m
            <4>1. L \cap (1..(m - 1)) = K
                BY <2>2, <2>3, <2>4
            <4>2. m \in L <=> Admits(At(ranked, K), ranked[m])
                BY <2>2, Zenon DEF L
            <4>. HIDE DEF L
            <4>3. QED
                BY <3>1, <4>1, <4>2, Zenon
        <3>2. CASE i # m
            <4>1. i \in 1..n
                BY <3>2
            <4>2. i \in L <=> i \in K
                BY <3>2
            <4>3. i \in K <=> Admits(At(ranked, K \cap (1..(i - 1))), ranked[i])
                BY <2>1, <4>1
            <4>4. L \cap (1..(i - 1)) = K \cap (1..(i - 1))
                BY <2>3
            <4>. HIDE DEF L
            <4>5. QED
                BY <4>2, <4>3, <4>4, Zenon
        <3>3. QED
            BY <3>1, <3>2
    <2>. HIDE DEF L
    <2>6. Keeps(L, m)
        BY <2>2, <2>5
    <2>7. QED
        BY <2>2, <2>6
<1>. HIDE DEF T
<1>3. \A n \in Nat : n \in T
    BY <1>1, <1>2, NumberInduction
<1>4. DOMAIN ranked = 1..Len(ranked) /\ Len(ranked) \in Nat
    BY DEF Listed
<1>5. PICK K : Keeps(K, Len(ranked))
    BY <1>3, <1>4 DEF T
<1>6. QED
    BY <1>4, <1>5

\* A finite set of numbers with its greatest taken off.
LEMMA GreatestNumber ==
    ASSUME NEW n \in Nat, NEW K, K \subseteq 1..n, K # {}
    PROVE  \E m \in K : K = (K \cap (1..(m - 1))) \cup {m}
<1>. DEFINE T == {k \in Nat : K \subseteq 1..k}
<1>1. T \in SUBSET Nat /\ T # {} /\ n \in T
    OBVIOUS
<1>2. PICK m \in T : \A k \in T : m <= k
    BY <1>1, LeastNumber
<1>3. m \in K
    <2>1. SUFFICES ASSUME m \notin K PROVE FALSE
        OBVIOUS
    <2>2. CASE m = 0
        <3>1. K \subseteq 1..0
            BY <1>2, <2>2
        <3>2. 1..0 = {}
            OBVIOUS
        <3>3. QED
            BY <3>1, <3>2
    <2>3. CASE m # 0
        <3>1. m - 1 \in Nat /\ K \subseteq 1..(m - 1)
            BY <1>2, <2>1, <2>3
        <3>2. m - 1 \in T
            BY <3>1
        <3>3. QED
            BY <1>2, <3>2
    <2>4. QED
        BY <2>2, <2>3
<1>4. K = (K \cap (1..(m - 1))) \cup {m}
    <2>1. m \in Nat /\ K \subseteq 1..m
        BY <1>2
    <2>2. \A x \in K : x \in 1..(m - 1) \/ x = m
        BY <2>1
    <2>3. QED
        BY <1>3, <2>2
<1>5. QED
    BY <1>3, <1>4

\* The evidence selected is of the ranked items, within the limit on evidence.
LEMMA SelectedIsWithinLimit ==
    ASSUME NEW V, NEW ranked \in Seq(V)
    PROVE  /\ Selected(ranked) \in Seq(V) /\ Listed(Selected(ranked))
           /\ Len(Selected(ranked)) <= MaxEvidence
<1>. DEFINE kept == CHOOSE K \in SUBSET DOMAIN ranked :
                       \A i \in DOMAIN ranked :
                          i \in K <=> Admits(At(ranked, K \cap (1..(i - 1))), ranked[i])
<1>1. Listed(ranked) /\ DOMAIN ranked = 1..Len(ranked) /\ Len(ranked) \in Nat
    BY ListedSeq DEF Listed
<1>2. /\ kept \in SUBSET DOMAIN ranked
      /\ \A i \in DOMAIN ranked :
            i \in kept <=> Admits(At(ranked, kept \cap (1..(i - 1))), ranked[i])
    <2>1. \E K \in SUBSET DOMAIN ranked :
             \A i \in DOMAIN ranked :
                i \in K <=> Admits(At(ranked, K \cap (1..(i - 1))), ranked[i])
        BY <1>1, SelectionExists
    <2>2. QED
        BY <2>1, Zenon
<1>3. Selected(ranked) = At(ranked, kept)
    BY DEF Selected
<1>. HIDE DEF kept
<1>4. /\ At(ranked, kept) \in Seq(V) /\ Listed(At(ranked, kept))
      /\ Len(At(ranked, kept)) = Cardinality(kept)
    <2>1. \A i \in kept : ranked[i] \in V
        BY <1>2
    <2>2. QED
        BY <1>1, <1>2, <2>1, AtKeeps
<1>5. MaxEvidence \in Nat \ {0}
    BY EvidenceAssumption
<1>6. Cardinality(kept) <= MaxEvidence
    <2>1. CASE kept = {}
        <3>1. Cardinality(kept) = 0
            BY <2>1, FS_EmptySet
        <3>2. QED
            BY <1>5, <3>1
    <2>2. CASE kept # {}
        <3>1. PICK m \in kept : kept = (kept \cap (1..(m - 1))) \cup {m}
            BY <1>1, <1>2, <2>2, GreatestNumber
        <3>. DEFINE before == kept \cap (1..(m - 1))
        <3>2. Admits(At(ranked, before), ranked[m])
            BY <1>2
        <3>3. before \in SUBSET DOMAIN ranked /\ m \in Nat /\ m \notin before
            BY <1>1, <1>2
        <3>. HIDE DEF before
        <3>4. Len(At(ranked, before)) = Cardinality(before)
            <4>1. \A i \in before : ranked[i] \in V
                BY <3>3
            <4>2. QED
                BY <1>1, <3>3, <4>1, AtKeeps
        <3>5. IsFiniteSet(before) /\ Cardinality(before) \in Nat
            <4>1. IsFiniteSet(DOMAIN ranked)
                BY <1>1, ListedIsFinite
            <4>2. QED
                BY <3>3, <4>1, FS_Subset, FS_CardinalityType
        <3>6. Cardinality(before) < MaxEvidence
            BY <3>2, <3>4, AdmittedHasRoom
        <3>7. Cardinality(before \cup {m}) = Cardinality(before) + 1
            BY <3>3, <3>5, FS_AddElement
        <3>8. kept = before \cup {m}
            BY <3>1 DEF before
        <3>9. QED
            BY <1>5, <3>5, <3>6, <3>7, <3>8
    <2>3. QED
        BY <2>1, <2>2
<1>7. QED
    BY <1>3, <1>4, <1>6

LEMMA CandidateIs ==
    ASSUME NEW C, NEW q, IsQuery(q), NEW hit, IsHit(hit, C)
    PROVE  LET c == Candidate(q, hit)
           IN  /\ c.chunk = hit.chunk /\ c.rank = hit.rank
               /\ c.document = DocumentMatch(hit.chunk, q.analysis.documents)
               /\ c.article = ArticleMatch(hit.chunk, q.analysis.articles)
               /\ c.applicability = Applicability(hit.chunk, c.document, c.article)
               /\ c.score \in Int
<1>. DEFINE document == DocumentMatch(hit.chunk, q.analysis.documents)
            article == ArticleMatch(hit.chunk, q.analysis.articles)
            terms == ToSet(q.normalized)
            matches == Cardinality({k \in {1, 2} : <<document, article>>[k] = "yes"})
            common == Cardinality(terms \cap ChunkTerms(hit.chunk))
            overlap == IF terms = {} THEN 0 ELSE (ScoreUnit * common) \div Cardinality(terms)
            penalty == IF Inactive(hit.chunk) THEN InactivePenalty * ScoreUnit ELSE 0
            signals == matches * ReferenceBoost * ScoreUnit + overlap * OverlapWeight - penalty
            score == (ScoreUnit \div hit.rank) + (IF SelectionEnabled THEN signals ELSE 0)
<1>1. Candidate(q, hit)
        = [chunk |-> hit.chunk, rank |-> hit.rank, document |-> document, article |-> article,
           applicability |-> Applicability(hit.chunk, document, article), score |-> score]
    BY DEF Candidate
<1>2. ScoreUnit \in Nat /\ hit.rank \in Nat \ {0}
    BY EvidenceAssumption DEF IsHit
<1>3. ReferenceBoost \in Nat /\ OverlapWeight \in Nat /\ InactivePenalty \in Nat
    <2>1. ReferenceBoost \in 0..10 /\ OverlapWeight \in 0..10 /\ InactivePenalty \in 0..10
        BY EvidenceAssumption DEF EvidenceSelectionConfig
    <2>2. QED
        BY <2>1
<1>4. IsFiniteSet(terms)
    BY ListedIsFinite DEF IsQuery
<1>. HIDE DEF document, article, terms
<1>5. matches \in Nat
    <2>. DEFINE M == {k \in {1, 2} : <<document, article>>[k] = "yes"}
    <2>1. IsFiniteSet({1, 2})
        <3>1. 1..2 = {1, 2}
            OBVIOUS
        <3>2. IsFiniteSet(1..2)
            BY IntervalSize
        <3>3. QED
            BY <3>1, <3>2
    <2>2. IsFiniteSet(M)
        BY <2>1, FS_Subset
    <2>3. QED
        BY <2>2, FS_CardinalityType
<1>6. common \in Nat /\ Cardinality(terms) \in Nat
    <2>1. IsFiniteSet(terms \cap ChunkTerms(hit.chunk))
        BY <1>4, FS_Subset
    <2>2. QED
        BY <1>4, <2>1, FS_CardinalityType
<1>7. overlap \in Int
    <2>1. CASE terms = {}
        BY <2>1
    <2>2. CASE terms # {}
        <3>. DEFINE n == Cardinality(terms)  m == ScoreUnit * common
        <3>1. n # 0
            BY <1>4, <2>2, FS_EmptySet
        <3>2. n \in Nat \ {0} /\ m \in Nat
            BY <1>2, <1>6, <3>1
        <3>3. overlap = m \div n
            BY <2>2
        <3>. HIDE DEF n, m, overlap
        <3>4. QED
            BY <3>2, <3>3
    <2>3. QED
        BY <2>1, <2>2
<1>8. penalty \in Int
    BY <1>2, <1>3
<1>. HIDE DEF matches, overlap, penalty
<1>9. signals \in Int
    <2>1. matches * ReferenceBoost \in Int
        BY <1>3, <1>5
    <2>2. matches * ReferenceBoost * ScoreUnit \in Int
        BY <1>2, <2>1
    <2>3. overlap * OverlapWeight \in Int
        BY <1>3, <1>7
    <2>4. QED
        BY <1>8, <2>2, <2>3
<1>. HIDE DEF signals
<1>10. score \in Int
    <2>1. ScoreUnit \div hit.rank \in Int
        BY <1>2
    <2>2. QED
        BY <1>9, <2>1
<1>. HIDE DEF score
<1>11. QED
    BY <1>1, <1>10 DEF document, article

\* The order of selection is a total order of candidates of different chunks.
LEMMA SelectionOrder ==
    ASSUME NEW S, IsFiniteSet(S),
           \A x \in S : x.score \in Int /\ x.rank \in Int /\ x.chunk.id \in Int,
           \A x, y \in S : x # y => x.chunk.id # y.chunk.id
    PROVE  Sorted(S, Precedes) \in Seq(S)
<1>. DEFINE R == {p \in S \X S : Precedes(p[1], p[2])}
            s == Sorted(S, Precedes)
            first == [x \in S |-> IF SelectionEnabled THEN -x.score ELSE 0]
            late == [x \in S |-> IF x.applicability = "inactive" THEN 1 ELSE 0]
            rank == [x \in S |-> x.rank]
            id == [x \in S |-> x.chunk.id]
<1>1. ASSUME NEW a \in S, NEW b \in S
      PROVE  Precedes(a, b) <=>
                \/ first[a] < first[b]
                \/ first[a] = first[b] /\ late[a] < late[b]
                \/ first[a] = first[b] /\ late[a] = late[b] /\ rank[a] < rank[b]
                \/ /\ first[a] = first[b] /\ late[a] = late[b] /\ rank[a] = rank[b]
                   /\ id[a] < id[b]
    <2>. DEFINE x == <<first[a], late[a], rank[a], id[a]>>
                y == <<first[b], late[b], rank[b], id[b]>>
    <2>1. Precedes(a, b) <=> \E k \in 1..4 : x[k] < y[k] /\ \A j \in 1..(k - 1) : x[j] = y[j]
        BY DEF Precedes
    <2>. DEFINE a1 == first[a]  a2 == late[a]  a3 == rank[a]  a4 == id[a]
                b1 == first[b]  b2 == late[b]  b3 == rank[b]  b4 == id[b]
    <2>. HIDE DEF first, late, rank, id
    <2>2. /\ x[1] = a1 /\ x[2] = a2 /\ x[3] = a3 /\ x[4] = a4
          /\ y[1] = b1 /\ y[2] = b2 /\ y[3] = b3 /\ y[4] = b4
        OBVIOUS
    <2>3. 1..4 = {1, 2, 3, 4} /\ 1..0 = {} /\ 1..1 = {1} /\ 1..2 = {1, 2} /\ 1..3 = {1, 2, 3}
        OBVIOUS
    <2>4. 1 - 1 = 0 /\ 2 - 1 = 1 /\ 3 - 1 = 2 /\ 4 - 1 = 3
        OBVIOUS
    <2>. HIDE DEF x, y
    <2>5. (\E k \in 1..4 : x[k] < y[k] /\ \A j \in 1..(k - 1) : x[j] = y[j])
            <=> \/ x[1] < y[1] /\ \A j \in 1..0 : x[j] = y[j]
                \/ x[2] < y[2] /\ \A j \in 1..1 : x[j] = y[j]
                \/ x[3] < y[3] /\ \A j \in 1..2 : x[j] = y[j]
                \/ x[4] < y[4] /\ \A j \in 1..3 : x[j] = y[j]
        BY <2>3, <2>4
    <2>6. QED
        BY <2>1, <2>2, <2>3, <2>5
<1>2. \A x \in S : first[x] \in Int /\ late[x] \in Int /\ rank[x] \in Int /\ id[x] \in Int
    OBVIOUS
<1>3. \A x, y \in S : x # y => id[x] # id[y]
    OBVIOUS
<1>. HIDE DEF first, late, rank, id
<1>4. TotalOrder(S, R)
    <2>1. \A x, y \in S : <<x, y>> \in R <=>
                \/ first[x] < first[y]
                \/ first[x] = first[y] /\ late[x] < late[y]
                \/ first[x] = first[y] /\ late[x] = late[y] /\ rank[x] < rank[y]
                \/ /\ first[x] = first[y] /\ late[x] = late[y] /\ rank[x] = rank[y]
                   /\ id[x] < id[y]
        BY <1>1
    <2>. HIDE DEF R
    <2>2. QED
        BY <1>2, <1>3, <2>1 DEF TotalOrder
<1>5. \A x \in S : {y \in S : Precedes(y, x)} = Below(S, R, x)
    BY DEF Below
<1>6. \A i \in 1..Cardinality(S) :
         \E x \in S : Cardinality({y \in S : Precedes(y, x)}) = i - 1
    <2>1. \A i \in 1..Cardinality(S) : \E x \in S : Cardinality(Below(S, R, x)) = i - 1
        BY <1>4, EveryRank
    <2>2. QED
        BY <1>5, <2>1
<1>7. s = [i \in 1..Cardinality(S) |->
             CHOOSE x \in S : Cardinality({y \in S : Precedes(y, x)}) = i - 1]
    BY DEF Sorted
<1>8. ASSUME NEW i \in 1..Cardinality(S)
      PROVE  s[i] \in S /\ Cardinality({y \in S : Precedes(y, s[i])}) = i - 1
    BY <1>6, <1>7
<1>. HIDE DEF s
<1>9. Ranking(S, R, s)
    BY <1>5, <1>7, <1>8 DEF Ranking
<1>. HIDE DEF R
<1>10. s \in Seq(S)
    BY <1>4, <1>9, RankingIsOrder
<1>11. QED
    BY <1>10 DEF s

\* Evidence is made of hits of the search, and within its limit.
LEMMA ContextIsOfHits ==
    ASSUME NEW C, IsCorpus(C), NEW q, IsQuery(q), NEW hits, AreHits(hits, C),
           BuildContext(q, hits).error = "none"
    PROVE  LET items == BuildContext(q, hits).evidence
           IN  /\ Listed(items) /\ Len(items) <= MaxEvidence
               /\ \A i \in 1..Len(items) :
                     \E k \in 1..Len(hits) : items[i] = Candidate(q, hits[k])
<1>. DEFINE unique == Deduplicated(hits)
            S == {Candidate(q, unique[i]) : i \in DOMAIN unique}
            ranked == Sorted(S, Precedes)
<1>1. BuildContext(q, hits).evidence = Selected(ranked)
    BY DEF BuildContext
<1>2. AreHits(unique, C) /\ Range(unique) \subseteq Range(hits)
    <2>1. Listed(hits) /\ \A i \in 1..Len(hits) : IsHit(hits[i], C)
        BY DEF AreHits
    <2>2. QED
        BY <2>1, DeduplicatedAreHits
<1>. HIDE DEF unique
<1>3. Listed(unique) /\ DOMAIN unique = 1..Len(unique)
    BY <1>2 DEF AreHits, Listed
<1>4. \A x \in S : \E i \in 1..Len(unique) : x = Candidate(q, unique[i])
    BY <1>3
<1>5. IsFiniteSet(S)
    <2>. DEFINE g == [i \in DOMAIN unique |-> Candidate(q, unique[i])]
    <2>1. IsFiniteSet(DOMAIN unique)
        BY <1>3, ListedIsFinite
    <2>2. S = {g[i] : i \in DOMAIN unique} /\ DOMAIN g = DOMAIN unique
        OBVIOUS
    <2>. HIDE DEF g, S
    <2>3. QED
        BY <2>1, <2>2, ImageIsFinite
<1>. HIDE DEF S
<1>6. ASSUME NEW i \in 1..Len(unique)
      PROVE  /\ Candidate(q, unique[i]).chunk = unique[i].chunk
             /\ Candidate(q, unique[i]).rank \in Int /\ Candidate(q, unique[i]).score \in Int
             /\ unique[i].chunk.id \in Int /\ unique[i].chunk \in ToSet(C)
    <2>1. IsHit(unique[i], C)
        BY <1>2 DEF AreHits
    <2>2. unique[i].chunk \in ToSet(C) /\ unique[i].rank \in Int
        BY <2>1 DEF IsHit
    <2>3. unique[i].chunk.id \in Int
        BY <2>2, CorpusIsDistinct
    <2>4. QED
        BY <2>1, <2>2, <2>3, CandidateIs
<1>7. \A x \in S : x.score \in Int /\ x.rank \in Int /\ x.chunk.id \in Int
    BY <1>4, <1>6
<1>8. ASSUME NEW x \in S, NEW y \in S, x # y PROVE x.chunk.id # y.chunk.id
    <2>1. PICK i \in 1..Len(unique) : x = Candidate(q, unique[i])
        BY <1>4
    <2>2. PICK j \in 1..Len(unique) : y = Candidate(q, unique[j])
        BY <1>4
    <2>3. unique[i].chunk # unique[j].chunk
        BY <1>2, <1>8, <2>1, <2>2 DEF AreHits
    <2>4. unique[i].chunk.id # unique[j].chunk.id
        BY <1>6, <2>3, CorpusIsDistinct
    <2>5. QED
        BY <1>6, <2>1, <2>2, <2>4
<1>9. ranked \in Seq(S)
    BY <1>5, <1>7, <1>8, SelectionOrder
<1>. HIDE DEF ranked
<1>10. /\ Selected(ranked) \in Seq(S) /\ Listed(Selected(ranked))
       /\ Len(Selected(ranked)) <= MaxEvidence
    BY <1>9, SelectedIsWithinLimit
<1>11. ASSUME NEW i \in 1..Len(Selected(ranked))
       PROVE  \E k \in 1..Len(hits) : Selected(ranked)[i] = Candidate(q, hits[k])
    <2>1. Selected(ranked)[i] \in S
        BY <1>10
    <2>2. PICK j \in 1..Len(unique) : Selected(ranked)[i] = Candidate(q, unique[j])
        BY <1>4, <2>1
    <2>3. unique[j] \in Range(hits) /\ DOMAIN hits = 1..Len(hits)
        BY <1>2, <1>3 DEF Range, AreHits, Listed
    <2>4. QED
        BY <2>2, <2>3 DEF Range
<1>12. QED
    BY <1>1, <1>10, <1>11
--------------------------------------------------------------------------------
(* Routes *)

\* The strategies of a run are registered, each planned once, no more than the
\* retries allow.
LEMMA RoutesAreDistinct ==
    ASSUME NEW q
    PROVE  /\ Routes(q) \in Seq(Registered)
           /\ Len(Routes(q)) \in 0..(MaxRetry + 1)
           /\ \A i, j \in 1..Len(Routes(q)) : i # j => Routes(q)[i] # Routes(q)[j]
<1>. DEFINE requested == IF q.strategy = None THEN <<>> ELSE <<q.strategy>>
            order == requested \o AdaptiveOrder(q) \o StrategyOrder
            V == Strategies \cup {q.strategy}
            P == {i \in FirstPositions(order) : order[i] \in Registered}
            kept == At(order, P)
<1>1. requested \in Seq(V)
    <2>1. <<q.strategy>> \in Seq(V) /\ <<>> \in Seq(V)
        OBVIOUS
    <2>2. QED
        BY <2>1
<1>2. AdaptiveOrder(q) \in Seq(Strategies)
    <2>1. /\ <<"GRAPH", "HYBRID_RERANK", "HYBRID">> \in Seq(Strategies)
          /\ <<"HYBRID_RERANK", "BM25", "HYBRID">> \in Seq(Strategies)
          /\ <<>> \in Seq(Strategies)
        BY DEF Strategies
    <2>2. QED
        BY <2>1 DEF AdaptiveOrder
<1>3. StrategyOrder \in Seq(V) /\ AdaptiveOrder(q) \in Seq(V)
    BY <1>2, PlanningAssumption DEF AgentConfig
<1>. HIDE DEF requested, V
<1>4. order \in Seq(V)
    BY <1>1, <1>3
<1>. HIDE DEF order
<1>5. Listed(order)
    BY <1>4, ListedSeq
<1>6. P \subseteq FirstPositions(order) /\ P \subseteq DOMAIN order
    BY DEF FirstPositions
<1>7. \A i \in P : order[i] \in Registered
    OBVIOUS
<1>. HIDE DEF P
<1>8. kept \in Seq(Registered)
    BY <1>5, <1>6, <1>7, AtKeeps
<1>9. \A k, l \in DOMAIN kept : k # l => kept[k] # kept[l]
    BY <1>5, <1>6, FirstsAreDistinct
<1>. HIDE DEF kept
<1>. DEFINE limit == MaxRetry + 1
<1>10. Routes(q) = Prefix(kept, limit)
    BY DEF Routes, kept, P, order, requested
<1>11. limit \in Nat /\ limit \in Int /\ MaxRetry \in Nat
    BY PlanningAssumption DEF AgentConfig
<1>. HIDE DEF limit
<1>12. /\ Prefix(kept, limit) \in Seq(Registered)
       /\ Len(Prefix(kept, limit)) = IF limit < Len(kept) THEN limit ELSE Len(kept)
       /\ \A i \in DOMAIN Prefix(kept, limit) :
             i \in DOMAIN kept /\ Prefix(kept, limit)[i] = kept[i]
    BY <1>8, <1>11, PrefixIs
<1>13. Len(kept) \in Nat /\ Len(Routes(q)) \in 0..(MaxRetry + 1)
    <2>1. Len(kept) \in Nat /\ Len(Routes(q)) \in 0..limit
        BY <1>8, <1>10, <1>11, <1>12
    <2>2. QED
        BY <2>1 DEF limit
<1>. DEFINE routes == Prefix(kept, limit)
<1>14. Routes(q) = routes
    BY <1>10
<1>15. routes \in Seq(Registered) /\ DOMAIN routes = 1..Len(routes)
    BY <1>12
<1>16. \A i, j \in 1..Len(routes) : i # j => routes[i] # routes[j]
    BY <1>9, <1>12, <1>15
<1>. HIDE DEF routes
<1>17. QED
    BY <1>13, <1>14, <1>15, <1>16
--------------------------------------------------------------------------------
(* Generation *)

\* The state of a generation, with its counters within their limits.
Counted(g, policy) ==
    /\ g = [stage |-> g.stage, attempt |-> g.attempt, retry |-> g.retry, first |-> g.first]
    /\ g.attempt \in 0..policy.structured /\ g.retry \in 0..policy.modelRetries

\* An answer is an abstention, sentences that cite evidence, or a quotation of it.
IsMaterial(answer, items) ==
    \/ answer.insufficient
    \/ /\ answer.synthesis /\ Listed(answer.answer)
       /\ answer.citations = [i \in DOMAIN answer.citations |-> answer.citations[i]]
    \/ \E n : answer = Quotation(items, n, answer.strategy)

\* Such an answer by the strategy of an attempt.
IsBy(answer, items, strategy) == answer.strategy = strategy /\ IsMaterial(answer, items)

\* A repair is of one answer by the strategy of the attempt.
InProgress(g, items, strategy) ==
    /\ g.stage \in {"draft", "repair"}
    /\ g.stage = "repair" => g.first = <<g.first[1]>> /\ IsBy(g.first[1], items, strategy)

Verifies(answer, items) == IsValid(Verify(answer, items))

\* The evidence can be quoted from its beginning, as far as one likes.
Quotable(items, strategy) ==
    /\ Len(items) \in Nat \ {0}
    /\ \A n \in 1..Len(items) : Verifies(Quotation(items, n, strategy), items)

Strongest(policy) == policy.onGroundingFailure = "supported_claims_or_top_evidence"

\* What a provider call leads to: another call, an error, or an answer by the
\* strategy, which verifies when the recovery is the strongest.
Proper(o, policy, items, strategy) ==
    /\ Counted(o.gen, policy) /\ o.error \in {"none", "MODEL_ERROR"}
    /\ o.gen.stage # "done" => InProgress(o.gen, items, strategy)
    /\ o.gen.stage = "done" /\ o.error = "none" =>
          /\ o.response = <<o.response[1]>> /\ IsBy(o.response[1], items, strategy)
          /\ Strongest(policy) /\ Quotable(items, strategy) =>
                o.response[1].insufficient \/ Verifies(o.response[1], items)

LEMMA ReturnIsProper ==
    ASSUME NEW policy, NEW g, Counted(g, policy), NEW items, NEW strategy,
           NEW answer, IsBy(answer, items, strategy),
           Strongest(policy) /\ Quotable(items, strategy) =>
                answer.insufficient \/ Verifies(answer, items)
    PROVE  Proper(Return(g, answer), policy, items, strategy)
<1>. DEFINE o == Return(g, answer)
<1>1. /\ o.gen = [g EXCEPT !.stage = "done"] /\ o.error = "none"
      /\ o.response = <<answer>>
    BY DEF Return
<1>2. Counted(o.gen, policy) /\ o.gen.stage = "done"
    BY <1>1 DEF Counted
<1>. HIDE DEF o
<1>3. o.response[1] = answer
    BY <1>1
<1>4. Proper(o, policy, items, strategy)
    BY <1>1, <1>2, <1>3 DEF Proper
<1>5. QED
    BY <1>4 DEF o

LEMMA RaiseIsProper ==
    ASSUME NEW policy, NEW g, Counted(g, policy), NEW items, NEW strategy
    PROVE  Proper(Raise(g, "MODEL_ERROR"), policy, items, strategy)
<1>. DEFINE o == Raise(g, "MODEL_ERROR")
<1>1. o.gen = [g EXCEPT !.stage = "done"] /\ o.error = "MODEL_ERROR"
    BY DEF Raise
<1>2. Counted(o.gen, policy) /\ o.gen.stage = "done"
    BY <1>1 DEF Counted
<1>. HIDE DEF o
<1>3. Proper(o, policy, items, strategy)
    BY <1>1, <1>2 DEF Proper
<1>4. QED
    BY <1>3 DEF o

LEMMA ContinueIsProper ==
    ASSUME NEW policy, NEW g, Counted(g, policy), NEW items, NEW strategy,
           InProgress(g, items, strategy)
    PROVE  Proper(Continue(g), policy, items, strategy)
<1>. DEFINE o == Continue(g)
<1>1. o.gen = g /\ o.error = "none" /\ o.gen.stage # "done"
    BY DEF Continue, InProgress
<1>. HIDE DEF o
<1>2. Proper(o, policy, items, strategy)
    BY <1>1 DEF Proper
<1>3. QED
    BY <1>2 DEF o

\* A fallback quotes evidence, and names the strategy.
LEMMA FallbackIsProper ==
    ASSUME NEW policy \in Policies, NEW g, Counted(g, policy), NEW items, NEW strategy
    PROVE  Proper(Return(g, ExtractiveFallback(policy, items, strategy)),
                  policy, items, strategy)
<1>. DEFINE answer == ExtractiveFallback(policy, items, strategy)
            count == IF policy.fallbackEvidence < Len(items)
                     THEN policy.fallbackEvidence ELSE Len(items)
<1>1. answer = Quotation(items, count, strategy)
    BY DEF ExtractiveFallback
<1>2. IsBy(answer, items, strategy)
    <2>1. answer.strategy = strategy
        BY <1>1 DEF Quotation, Response
    <2>2. answer = Quotation(items, count, answer.strategy)
        BY <1>1, <2>1
    <2>. HIDE DEF answer, count
    <2>3. QED
        BY <2>1, <2>2 DEF IsBy, IsMaterial
<1>3. policy.fallbackEvidence \in 1..3
    BY DEF Policies
<1>4. ASSUME Quotable(items, strategy) PROVE Verifies(answer, items)
    <2>1. count \in 1..Len(items)
        BY <1>3, <1>4 DEF Quotable
    <2>. HIDE DEF count
    <2>2. QED
        BY <1>1, <1>4, <2>1 DEF Quotable
<1>. HIDE DEF answer
<1>5. Proper(Return(g, answer), policy, items, strategy)
    BY <1>2, <1>4, ReturnIsProper
<1>6. QED
    BY <1>5 DEF answer

LEMMA ClaimsAreListed ==
    ASSUME NEW answer, Listed(answer)
    PROVE  Listed(Claims(answer)) /\ Listed(Prefix(Claims(answer), MaxClaims))
<1>. DEFINE begins == {i \in DOMAIN answer : i = 1 \/ answer[i].text # NoText}
            markers(i, j) == Flat([k \in 1..(j - i) |-> answer[i + k - 1].markers])
            next(i) == CHOOSE j \in (begins \cup {Len(answer) + 1}) \ (1..i) :
                          \A k \in begins : k <= i \/ j <= k
            sentences == [i \in DOMAIN answer |->
                             Sentence(answer[i].text, markers(i, next(i)))]
<1>1. Claims(answer) = At(sentences, begins)
    BY DEF Claims
<1>2. begins \subseteq DOMAIN sentences
    OBVIOUS
<1>3. sentences = [i \in DOMAIN answer |-> sentences[i]]
    OBVIOUS
<1>. HIDE DEF sentences, begins
<1>4. Listed(sentences)
    <2>1. sentences = [i \in 1..Len(answer) |-> sentences[i]] /\ Len(answer) \in Nat
        BY <1>3 DEF Listed
    <2>2. QED
        BY <2>1, ListedIs
<1>5. Listed(Claims(answer))
    BY <1>1, <1>2, <1>4, AtOfSubset
<1>6. MaxClaims \in Int
    <2>1. MaxClaims \in 1..100
        BY GroundingAssumption DEF ClaimVerificationConfig
    <2>2. QED
        BY <2>1
<1>7. Claims(answer) \in Seq(Range(Claims(answer)))
    BY <1>5 DEF Listed
<1>8. QED
    BY <1>5, <1>6, <1>7, PrefixIs

LEMMA AbstentionIsBy ==
    ASSUME NEW items, NEW strategy
    PROVE  IsBy(Abstention(strategy), items, strategy) /\ Abstention(strategy).insufficient
BY DEF Abstention, IsBy, IsMaterial

\* A draft that has sentences becomes an answer.
LEMMA DraftedIsBy ==
    ASSUME NEW draft, ~draft.insufficient => Listed(draft.answer), NEW items, NEW strategy
    PROVE  IsBy(ResponseFromDraft(draft, items, strategy), items, strategy)
<1>1. CASE draft.insufficient
    BY <1>1, AbstentionIsBy DEF ResponseFromDraft
<1>2. CASE ~draft.insufficient
    <2>. DEFINE cites == [i \in DOMAIN draft.cited |-> Citation(items, draft.cited[i])]
                answer == ResponseFromDraft(draft, items, strategy)
    <2>1. answer = [answer |-> draft.answer, citations |-> cites, insufficient |-> FALSE,
                    strategy |-> strategy, synthesis |-> TRUE]
        BY <1>2 DEF ResponseFromDraft, Response
    <2>2. cites = [i \in DOMAIN cites |-> cites[i]]
        OBVIOUS
    <2>. HIDE DEF cites, answer
    <2>3. IsBy(answer, items, strategy)
        BY <1>2, <2>1, <2>2 DEF IsBy, IsMaterial
    <2>4. QED
        BY <2>3 DEF answer
<1>3. QED
    BY <1>1, <1>2

\* The claims of an answer are a sequence, and so are those looked at.
LEMMA CheckedAreListed ==
    ASSUME NEW items, NEW answer, IsMaterial(answer, items)
    PROVE  Listed(CheckedClaims(answer, items))
<1>. DEFINE claims == Prefix(Claims(answer.answer), MaxClaims)
            checked == [i \in DOMAIN claims |->
                           VerifyClaim(claims[i], items, CitedIds(answer))]
<1>1. CASE answer.insufficient \/ ~ClaimsEnabled \/ ~answer.synthesis
    BY <1>1, EmptyIsListed DEF CheckedClaims
<1>2. CASE ~(answer.insufficient \/ ~ClaimsEnabled \/ ~answer.synthesis)
    <2>1. CheckedClaims(answer, items) = checked
        BY <1>2 DEF CheckedClaims
    <2>2. Listed(answer.answer)
        <3>1. ASSUME NEW n, answer = Quotation(items, n, answer.strategy) PROVE FALSE
            <4>1. Quotation(items, n, answer.strategy).synthesis = FALSE
                BY DEF Quotation, Response
            <4>2. QED
                BY <1>2, <3>1, <4>1
        <3>2. QED
            BY <1>2, <3>1 DEF IsMaterial
    <2>3. Listed(claims)
        BY <2>2, ClaimsAreListed
    <2>. HIDE DEF claims
    <2>4. checked = [i \in 1..Len(claims) |-> checked[i]] /\ Len(claims) \in Nat
        BY <2>3 DEF Listed
    <2>. HIDE DEF checked
    <2>5. Listed(checked)
        BY <2>4, ListedIs
    <2>6. QED
        BY <2>1, <2>5
<1>3. QED
    BY <1>1, <1>2

\* What is salvaged of an answer is an answer by the same strategy.
LEMMA SalvageIsBy ==
    ASSUME NEW policy, NEW items, NEW answer, IsMaterial(answer, items)
    PROVE  IsBy(SalvageSupportedClaims(policy, answer, CheckedClaims(answer, items), items),
                items, answer.strategy)
<1>. DEFINE claims == CheckedClaims(answer, items)
            P == {i \in DOMAIN claims : IsSupported(claims[i])}
            supported == At(claims, P)
            rendered == [i \in DOMAIN supported |->
                            Sentence(SalvageText(policy, supported[i].text),
                                     SelectSeq(supported[i].ids,
                                               LAMBDA id : id \in DOMAIN items))]
            usable == {i \in DOMAIN rendered : /\ rendered[i].text # NoText
                                                /\ rendered[i].markers # <<>>}
            Q == {i \in usable : \A j \in usable :
                     j < i => rendered[j].text # rendered[i].text}
            kept == At(rendered, Q)
            draft == Draft(kept, ExtractMarkers(kept), FALSE)
<1>1. SalvageSupportedClaims(policy, answer, claims, items)
        = IF kept = <<>> THEN Abstention(answer.strategy)
          ELSE ResponseFromDraft(draft, items, answer.strategy)
    BY DEF SalvageSupportedClaims
<1>2. Listed(claims)
    BY CheckedAreListed
<1>. HIDE DEF claims
<1>3. P \subseteq DOMAIN claims
    OBVIOUS
<1>. HIDE DEF P
<1>4. Listed(supported)
    BY <1>2, <1>3, AtOfSubset
<1>. HIDE DEF supported
<1>5. rendered = [i \in 1..Len(supported) |-> rendered[i]] /\ Len(supported) \in Nat
    BY <1>4 DEF Listed
<1>. HIDE DEF rendered
<1>6. Listed(rendered)
    BY <1>5, ListedIs
<1>7. Q \subseteq DOMAIN rendered
    OBVIOUS
<1>. HIDE DEF Q
<1>8. Listed(kept)
    BY <1>6, <1>7, AtOfSubset
<1>. HIDE DEF kept
<1>9. draft.answer = kept
    BY DEF Draft
<1>. HIDE DEF draft
<1>10. QED
    BY <1>1, <1>8, <1>9, AbstentionIsBy, DraftedIsBy DEF claims

\* Answers salvaged from candidates name the strategy, and one that is no
\* abstention has been verified.
LEMMA SalvagedVerifies ==
    ASSUME NEW policy, NEW items, NEW strategy,
           NEW n \in Nat \ {0}, NEW candidates, DOMAIN candidates = 1..n,
           \A i \in 1..n : IsBy(candidates[i], items, strategy)
    PROVE  LET salvaged == Salvaged(policy, candidates, items)
           IN  /\ IsBy(salvaged, items, strategy)
               /\ salvaged.insufficient \/ Verifies(salvaged, items)
<1>. DEFINE each == [i \in DOMAIN candidates |->
                        SalvageSupportedClaims(policy, candidates[i],
                            CheckedClaims(candidates[i], items), items)]
            good == {i \in DOMAIN each : ~each[i].insufficient /\ IsValid(Verify(each[i], items))}
            best == CHOOSE i \in good : \A j \in good : i <= j
            salvaged == FirstVerified(each, items)
<1>1. ASSUME NEW i \in 1..n PROVE IsBy(each[i], items, strategy)
    <2>. DEFINE c == candidates[i]
    <2>1. each[i] = SalvageSupportedClaims(policy, c, CheckedClaims(c, items), items)
        OBVIOUS
    <2>2. c.strategy = strategy /\ IsMaterial(c, items)
        BY DEF IsBy
    <2>. HIDE DEF each, c
    <2>3. QED
        BY <2>1, <2>2, SalvageIsBy
<1>2. DOMAIN each = 1..n
    OBVIOUS
<1>3. Salvaged(policy, candidates, items) = salvaged
    BY DEF Salvaged
<1>. HIDE DEF each
<1>4. CASE good = {}
    <2>1. salvaged = Abstention(each[1].strategy)
        BY <1>4 DEF FirstVerified
    <2>2. IsBy(salvaged, items, strategy) /\ salvaged.insufficient
        BY <1>1, <2>1, AbstentionIsBy DEF IsBy
    <2>3. QED
        BY <1>3, <2>2
<1>5. CASE good # {}
    <2>1. good \subseteq Nat
        BY <1>2
    <2>2. \E i \in good : \A j \in good : i <= j
        BY <1>5, <2>1, LeastNumber
    <2>3. best \in good
        BY <2>2
    <2>4. salvaged = each[best]
        BY <1>5 DEF FirstVerified
    <2>5. IsBy(each[best], items, strategy)
        BY <1>1, <1>2, <2>3
    <2>6. Verifies(each[best], items)
        BY <2>3 DEF Verifies
    <2>7. QED
        BY <1>3, <2>4, <2>5, <2>6
<1>6. QED
    BY <1>4, <1>5

LEMMA RecoveredIsProper ==
    ASSUME NEW policy \in Policies, NEW g, Counted(g, policy), NEW items, NEW strategy,
           NEW salvaged, IsBy(salvaged, items, strategy),
           salvaged.insufficient \/ Verifies(salvaged, items),
           NEW otherwise, ~Strongest(policy) => Proper(otherwise, policy, items, strategy)
    PROVE  Proper(Recovered(policy, g, salvaged, otherwise, items, strategy),
                  policy, items, strategy)
<1>1. CASE ~salvaged.insufficient
    <2>1. Proper(Return(g, salvaged), policy, items, strategy)
        BY ReturnIsProper
    <2>2. QED
        BY <1>1, <2>1 DEF Recovered
<1>2. CASE salvaged.insufficient /\ Strongest(policy)
    BY <1>2, FallbackIsProper DEF Recovered, Strongest
<1>3. CASE salvaged.insufficient /\ ~Strongest(policy)
    BY <1>3 DEF Recovered, Strongest
<1>4. QED
    BY <1>1, <1>2, <1>3

\* One provider call, whatever it returned, leads to something proper.
LEMMA CallIsProper ==
    ASSUME NEW policy, LegalPolicy(policy), NEW g, Counted(g, policy),
           NEW items, NEW strategy, InProgress(g, items, strategy), NEW failed \in BOOLEAN, NEW draft,
           failed => ~draft.accepted,
           draft.accepted /\ ~draft.insufficient => Listed(draft.answer)
    PROVE  Proper(Called(policy, g, failed, draft, items, strategy), policy, items, strategy)
<1>. DEFINE answer == ResponseFromDraft(draft, items, strategy)
            o == Called(policy, g, failed, draft, items, strategy)
<1>1. draft.accepted => IsBy(answer, items, strategy)
    BY DraftedIsBy
<1>2. policy \in Policies /\ (Strongest(policy) => policy.repairs = 1)
    BY DEF LegalPolicy, Strongest
<1>3. policy.structured \in 0..1 /\ policy.modelRetries \in 0..1 /\ policy.repairs \in 0..1
    BY <1>2 DEF Policies
<1>. HIDE DEF answer
<1>4. CASE failed /\ g.retry < policy.modelRetries
    <2>. DEFINE h == [g EXCEPT !.retry = @ + 1]
    <2>1. Counted(h, policy) /\ InProgress(h, items, strategy)
        BY <1>3, <1>4 DEF Counted, InProgress
    <2>2. o = Continue(h)
        BY <1>4 DEF Called
    <2>. HIDE DEF h
    <2>3. QED
        BY <2>1, <2>2, ContinueIsProper
<1>5. CASE ~(failed /\ g.retry < policy.modelRetries) /\ g.stage = "draft" /\ draft.accepted
    <2>. DEFINE h == [g EXCEPT !.retry = 0]
                k == [h EXCEPT !.stage = "repair", !.first = <<answer>>]
    <2>1. Counted(h, policy)
        BY <1>3 DEF Counted
    <2>2. o = DraftAccepted(policy, h, answer, items)
        BY <1>5 DEF Called, answer
    <2>3. Counted(k, policy) /\ k.stage = "repair" /\ k.first = <<answer>>
        <3>. DEFINE l == [h EXCEPT !.stage = "repair"]
        <3>. HIDE DEF h
        <3>1. k = [l EXCEPT !.first = <<answer>>]
            OBVIOUS
        <3>2. Counted(l, policy) /\ l.stage = "repair"
            BY <2>1 DEF Counted
        <3>. HIDE DEF l, k
        <3>3. QED
            BY <3>1, <3>2 DEF Counted
    <2>. HIDE DEF h, k
    <2>4. InProgress(k, items, strategy)
        BY <1>1, <1>5, <2>3 DEF InProgress
    <2>. DEFINE direct == \/ answer.insufficient \/ policy.repairs = 0
                          \/ ~HasGroundingVerifier(policy) \/ IsValid(Verify(answer, items))
    <2>5. CASE direct
        <3>1. Strongest(policy) => answer.insufficient \/ Verifies(answer, items)
            BY <1>2, <2>5 DEF Verifies, HasGroundingVerifier
        <3>2. DraftAccepted(policy, h, answer, items) = Return(h, answer)
            BY <2>5 DEF DraftAccepted
        <3>3. QED
            BY <1>1, <1>5, <2>1, <2>2, <3>1, <3>2, ReturnIsProper
    <2>6. CASE ~direct
        <3>1. DraftAccepted(policy, h, answer, items) = Continue(k)
            BY <2>6 DEF DraftAccepted, k
        <3>2. QED
            BY <2>2, <2>3, <2>4, <3>1, ContinueIsProper
    <2>7. QED
        BY <2>5, <2>6
<1>6. CASE /\ g.stage = "draft" /\ ~failed /\ ~draft.accepted
           /\ g.attempt < policy.structured
    <2>. DEFINE h == Correct(g)
    <2>1. Counted(h, policy) /\ InProgress(h, items, strategy)
        <3>. DEFINE l == [g EXCEPT !.retry = 0]
        <3>1. h = [l EXCEPT !.attempt = @ + 1]
            BY DEF Correct
        <3>2. Counted(l, policy) /\ l.stage = "draft" /\ l.attempt = g.attempt
            BY <1>3, <1>6 DEF Counted
        <3>3. g.attempt + 1 \in 0..policy.structured
            BY <1>3, <1>6 DEF Counted
        <3>. HIDE DEF l, h
        <3>4. QED
            BY <3>1, <3>2, <3>3 DEF Counted, InProgress
    <2>2. o = Continue(h)
        BY <1>6 DEF Called
    <2>. HIDE DEF h
    <2>3. QED
        BY <2>1, <2>2, ContinueIsProper
<1>7. CASE ~(failed /\ g.retry < policy.modelRetries) /\ g.stage = "repair" /\ draft.accepted
    <2>. DEFINE first == g.first[1]
                candidates == IF SupportedCount(first, items) > SupportedCount(answer, items)
                              THEN <<first, answer>> ELSE <<answer, first>>
                salvaged == Salvaged(policy, candidates, items)
    <2>1. o = Repaired(policy, g, answer, items, strategy)
        BY <1>7 DEF Called, answer
    <2>2. IsBy(first, items, strategy)
        BY <1>7 DEF InProgress
    <2>. HIDE DEF first
    <2>3. DOMAIN candidates = 1..2 /\ \A i \in 1..2 : IsBy(candidates[i], items, strategy)
        BY <1>1, <1>7, <2>2
    <2>. HIDE DEF candidates
    <2>4. IsBy(salvaged, items, strategy) /\ (salvaged.insufficient \/ Verifies(salvaged, items))
        <3>1. 2 \in Nat \ {0}
            OBVIOUS
        <3>2. QED
            BY <2>3, <3>1, SalvagedVerifies
    <2>. HIDE DEF salvaged
    <2>. DEFINE direct == \/ answer.insufficient \/ policy.onGroundingFailure = "abstain"
                          \/ IsValid(Verify(answer, items))
    <2>5. CASE direct
        <3>1. Strongest(policy) => answer.insufficient \/ Verifies(answer, items)
            BY <2>5 DEF Verifies, Strongest
        <3>2. Repaired(policy, g, answer, items, strategy) = Return(g, answer)
            BY <2>5 DEF Repaired
        <3>3. QED
            BY <1>1, <1>7, <2>1, <3>1, <3>2, ReturnIsProper
    <2>6. CASE ~direct
        <3>1. Repaired(policy, g, answer, items, strategy)
                 = Recovered(policy, g, salvaged, Return(g, answer), items, strategy)
            BY <2>6 DEF Repaired, salvaged, candidates, first
        <3>2. ~Strongest(policy) => Proper(Return(g, answer), policy, items, strategy)
            BY <1>1, <1>7, ReturnIsProper
        <3>3. QED
            BY <1>2, <2>1, <2>4, <3>1, <3>2, RecoveredIsProper
    <2>7. QED
        BY <2>5, <2>6
<1>8. CASE /\ ~(failed /\ g.retry < policy.modelRetries)
           /\ ~draft.accepted /\ g.stage = "draft"
           /\ ~(~failed /\ g.attempt < policy.structured)
    <2>1. o = DraftFailed(policy, g, items, strategy)
        BY <1>8 DEF Called
    <2>2. CASE policy.onModelFailure = "top_evidence"
        BY <1>2, <2>1, <2>2, FallbackIsProper DEF DraftFailed
    <2>3. CASE policy.onModelFailure # "top_evidence"
        BY <2>1, <2>3, RaiseIsProper DEF DraftFailed
    <2>4. QED
        BY <2>2, <2>3
<1>9. CASE /\ ~(failed /\ g.retry < policy.modelRetries)
           /\ ~draft.accepted /\ g.stage = "repair"
    <2>. DEFINE salvaged == Salvaged(policy, g.first, items)
    <2>1. o = RepairFailed(policy, g, items, strategy)
        BY <1>9 DEF Called
    <2>2. g.first = <<g.first[1]>> /\ IsBy(g.first[1], items, strategy)
        BY <1>9 DEF InProgress
    <2>3. DOMAIN g.first = 1..1 /\ \A i \in 1..1 : IsBy(g.first[i], items, strategy)
        BY <2>2
    <2>4. IsBy(salvaged, items, strategy) /\ (salvaged.insufficient \/ Verifies(salvaged, items))
        <3>1. 1 \in Nat \ {0}
            OBVIOUS
        <3>2. QED
            BY <2>3, <3>1, SalvagedVerifies
    <2>5. o = Recovered(policy, g, salvaged, Raise(g, "MODEL_ERROR"), items, strategy)
        BY <2>1 DEF RepairFailed
    <2>. HIDE DEF salvaged
    <2>6. QED
        BY <1>2, <2>4, <2>5, RaiseIsProper, RecoveredIsProper
<1>10. g.stage \in {"draft", "repair"}
    BY DEF InProgress
<1>11. QED
    <2>. DEFINE again == failed /\ g.retry < policy.modelRetries
    <2>. HIDE DEF o
    <2>1. CASE g.stage = "draft" /\ ~again /\ ~draft.accepted
        BY <1>6, <1>8, <2>1
    <2>2. CASE g.stage = "draft" /\ ~again /\ draft.accepted
        BY <1>5, <2>2
    <2>3. CASE g.stage = "repair" /\ ~again
        BY <1>7, <1>9, <2>3
    <2>4. QED
        BY <1>4, <1>10, <2>1, <2>2, <2>3

\* A completion that raised is not a draft.
LEMMA CompletionIsProper ==
    ASSUME NEW policy, LegalPolicy(policy), NEW g, Counted(g, policy),
           NEW items, NEW strategy, InProgress(g, items, strategy), NEW completion \in Completions
    PROVE  Proper(Complete(policy, g, completion, items, strategy), policy, items, strategy)
<1>. DEFINE failed == completion = ProviderError
            draft == ReadDraft(policy, completion, items)
<1>1. ASSUME failed PROVE ~draft.accepted
    <2>1. completion.kind = "error"
        BY <1>1 DEF ProviderError
    <2>2. ParseDraft(policy, completion) = NoDraft
        BY <2>1 DEF ParseDraft
    <2>3. draft = ValidateDraft(NoDraft, items)
        BY <2>2 DEF ReadDraft
    <2>4. ~NoDraft.accepted
        BY DEF NoDraft
    <2>5. draft = NoDraft
        BY <2>3, <2>4 DEF ValidateDraft
    <2>6. QED
        BY <2>4, <2>5
<1>0. ASSUME draft.accepted, ~draft.insufficient PROVE Listed(draft.answer)
    <2>. DEFINE parsed == ParseDraft(policy, completion)
    <2>1. draft = ValidateDraft(parsed, items)
        BY DEF ReadDraft
    <2>2. Listed(parsed.answer)
        <3>1. /\ Draft(<<>>, <<>>, TRUE).answer = <<>> /\ NoDraft.answer = <<>>
              /\ \A a, c, i : Draft(a, c, i).answer = a
            BY DEF Draft, NoDraft
        <3>2. completion.kind \in {"json", "prose"} => Listed(completion.answer)
            BY WorkflowAssumption, ListedIs DEF IsList
        <3>3. \/ completion.kind \in {"json", "prose"} /\ parsed.answer = completion.answer
              \/ parsed.answer = <<>>
            <4>. DEFINE c == completion
                        markers == ExtractMarkers(c.answer)
                        json == /\ c.kind = "json" /\ (c.insufficient <=> c.cited = <<>>)
                                /\ IsInjective(c.cited)
                        prose == c.kind = "prose" /\ policy.plainText /\ markers # <<>>
                        refusal == c.kind = "refusal" /\ policy.plainText
            <4>1. parsed = CASE json -> Draft(c.answer, c.cited, c.insufficient)
                             [] ~json /\ prose -> Draft(c.answer, markers, FALSE)
                             [] refusal -> Draft(<<>>, <<>>, TRUE)
                             [] OTHER -> NoDraft
                BY DEF ParseDraft
            <4>2. json => c.kind = "json"
                OBVIOUS
            <4>3. prose => c.kind = "prose"
                OBVIOUS
            <4>4. refusal => ~json /\ ~prose
                OBVIOUS
            <4>. HIDE DEF markers, json, prose, refusal, parsed
            <4>5. CASE json
                <5>1. parsed = Draft(c.answer, c.cited, c.insufficient)
                    BY <4>1, <4>4, <4>5
                <5>2. QED
                    BY <3>1, <4>2, <4>5, <5>1
            <4>6. CASE ~json /\ prose
                <5>1. parsed = Draft(c.answer, markers, FALSE)
                    BY <4>1, <4>4, <4>6
                <5>2. QED
                    BY <3>1, <4>3, <4>6, <5>1, ZenonT(40)
            <4>7. CASE ~json /\ ~prose
                <5>1. parsed = Draft(<<>>, <<>>, TRUE) \/ parsed = NoDraft
                    BY <4>1, <4>7
                <5>2. QED
                    BY <3>1, <5>1
            <4>8. QED
                BY <4>5, <4>6, <4>7
        <3>. HIDE DEF parsed
        <3>4. QED
            BY <3>2, <3>3, EmptyIsListed
    <2>3. parsed = [answer |-> parsed.answer, cited |-> parsed.cited,
                    insufficient |-> parsed.insufficient, accepted |-> parsed.accepted]
        BY DEF ParseDraft, Draft, NoDraft
    <2>. HIDE DEF parsed
    <2>. DEFINE markers == ExtractMarkers(parsed.answer)
                appended == Append(parsed.answer, Sentence(NoText, parsed.cited))
    <2>4. \/ draft = NoDraft \/ draft = parsed
          \/ draft = [parsed EXCEPT !.answer = appended]
          \/ draft = [parsed EXCEPT !.cited = markers]
        BY <2>1 DEF ValidateDraft
    <2>5. ~NoDraft.accepted
        BY DEF NoDraft
    <2>6. Listed(appended)
        BY <2>2, AppendIs
    <2>. HIDE DEF appended, markers, draft
    <2>7. draft.answer = parsed.answer \/ draft.answer = appended
        BY <1>0, <2>3, <2>4, <2>5
    <2>8. QED
        BY <2>2, <2>6, <2>7
<1>2. Complete(policy, g, completion, items, strategy)
         = Called(policy, g, failed, draft, items, strategy)
    BY DEF Complete
<1>3. failed \in BOOLEAN
    OBVIOUS
<1>. HIDE DEF failed, draft
<1>4. QED
    BY <1>0, <1>1, <1>2, <1>3, CallIsProper
--------------------------------------------------------------------------------
(* The run *)

\* The counters, each within its limit.
WithinLimits ==
    /\ phase \in Phases /\ config \in Configurations /\ stop \in StopReasons
    /\ phase # "answered" => stop = None
    /\ Counted(gen, config.policy) /\ judged \in 0..SemanticRetries

\* An attempt is remembered once it is decided, in the order of the routes.
HistoryFollowsRoutes ==
    /\ Listed(history)
    /\ phase = "idle" => history = <<>>
    /\ phase # "idle" =>
          /\ attempt \in 1..Len(Routes(query))
          /\ Len(history) = IF phase \in {"search", "grade"} THEN attempt - 1 ELSE attempt
          /\ \A i \in 1..Len(history) : /\ history[i].attempt = i
                                        /\ history[i].strategy = Routes(query)[i]

\* A model's answers from these items are recovered until they verify.
Recovers(items, strategy) ==
    /\ AnswersByModel /\ Strongest(config.policy) /\ Quotable(items, strategy)

\* What is under way or returned is of the strategy of the last attempt and of
\* its evidence; what is verified has been checked.
AnswerIsOfAttempt ==
    /\ phase = "generate" => InProgress(gen, evidence, Strategy)
    /\ phase = "verify" => /\ IsBy(response[1], evidence, Strategy)
                           /\ ~response[1].insufficient
                           /\ Recovers(evidence, Strategy) => Verifies(response[1], evidence)
    /\ phase = "answered" => /\ response[1].strategy = Strategy
                             /\ (stop = "answer_verified") <=> ~response[1].insufficient
    /\ stop = "answer_verified" => /\ IsMaterial(response[1], evidence)
                                   /\ Verifies(response[1], evidence)

RunInv == WithinLimits /\ HistoryFollowsRoutes /\ AnswerIsOfAttempt

Undecided == phase \in {"search", "grade"}

LEMMA EveryConfigurationIsLegal ==
    ASSUME NEW c \in Configurations
    PROVE  LegalPolicy(c.policy) /\ c.policy \in Policies
           /\ c.policy.structured \in 0..1 /\ c.policy.modelRetries \in 0..1
           /\ Counted(Start, c.policy)
<1>1. LegalPolicy(c.policy) /\ c.policy \in Policies
    BY WorkflowAssumption DEF Configured, LegalPolicy
<1>2. c.policy.structured \in 0..1 /\ c.policy.modelRetries \in 0..1
    BY <1>1 DEF Policies
<1>3. Counted(Start, c.policy)
    BY <1>2 DEF Counted, Start
<1>4. QED
    BY <1>1, <1>2, <1>3

LEMMA AttemptIsRemembered ==
    ASSUME HistoryFollowsRoutes, Undecided, NEW form, NEW error, Remember(form, error)
    PROVE  /\ Listed(history') /\ Len(history') = attempt
           /\ \A i \in 1..attempt : /\ history'[i].attempt = i
                                    /\ history'[i].strategy = Routes(query)[i]
<1>. DEFINE entry == [attempt |-> attempt, form |-> form,
                      strategy |-> Strategy, error |-> error]
<1>1. /\ Listed(history) /\ attempt \in Nat /\ Len(history) = attempt - 1
      /\ \A i \in 1..Len(history) : /\ history[i].attempt = i
                                    /\ history[i].strategy = Routes(query)[i]
    <2>. HIDE DEF Routes
    <2>1. Listed(history) /\ attempt \in 1..Len(Routes(query)) /\ Len(history) = attempt - 1
        BY DEF HistoryFollowsRoutes, Undecided
    <2>2. QED
        BY <2>1 DEF HistoryFollowsRoutes, Undecided
<1>2. history' = Append(history, entry)
    BY DEF Remember
<1>3. entry.attempt = attempt /\ entry.strategy = Routes(query)[attempt]
    BY DEF Strategy
<1>. HIDE DEF entry
<1>4. /\ Listed(history') /\ Len(history') = attempt
      /\ \A i \in 1..Len(history) : history'[i] = history[i]
      /\ history'[attempt] = entry
    BY <1>1, <1>2, AppendIs
<1>5. ASSUME NEW i \in 1..attempt
      PROVE  history'[i].attempt = i /\ history'[i].strategy = Routes(query)[i]
    <2>1. CASE i = attempt
        BY <1>3, <1>4, <2>1
    <2>2. CASE i # attempt
        <3>1. i \in 1..Len(history)
            BY <1>1, <2>2
        <3>2. QED
            BY <1>1, <1>4, <3>1
    <2>3. QED
        BY <2>1, <2>2
<1>6. QED
    BY <1>4, <1>5

\* A run that ends with an abstention, its last attempt remembered.
LEMMA AbstentionKeepsRun ==
    ASSUME RunInv, phase # "idle", UNCHANGED <<config, query, attempt>>,
           Counted(gen', config.policy), judged' \in 0..SemanticRetries,
           NEW reason \in StopReasons \ {"answer_verified"},
           Finish(Abstention(Strategy), reason),
           \/ ~Undecided /\ UNCHANGED history
           \/ Undecided /\ \E form, error : Remember(form, error)
    PROVE  RunInv'
<1>1. /\ phase' = "answered" /\ stop' = reason /\ reason # "answer_verified"
      /\ response' = <<Abstention(Strategy)>>
    BY DEF Finish
<1>2. attempt \in 1..Len(Routes(query))
    BY DEF RunInv, HistoryFollowsRoutes
<1>3. /\ Listed(history') /\ Len(history') = attempt
      /\ \A i \in 1..attempt : /\ history'[i].attempt = i
                               /\ history'[i].strategy = Routes(query)[i]
    <2>1. CASE ~Undecided /\ UNCHANGED history
        BY <2>1 DEF RunInv, HistoryFollowsRoutes, Undecided
    <2>2. CASE Undecided /\ \E form, error : Remember(form, error)
        BY <2>2, AttemptIsRemembered DEF RunInv
    <2>3. QED
        BY <2>1, <2>2
<1>4. query' = query /\ attempt' = attempt /\ config' = config
    OBVIOUS
<1>5. HistoryFollowsRoutes'
    <2>. DEFINE routes == Routes(query)
    <2>1. Routes(query)' = routes
        BY <1>4 DEF Routes, AdaptiveOrder
    <2>2. attempt' \in 1..Len(routes)
        BY <1>2, <1>4
    <2>3. Len(history)' = attempt'
        BY <1>3, <1>4
    <2>4. \A i \in 1..Len(history)' : history'[i].attempt = i /\ history'[i].strategy = routes[i]
        BY <1>3
    <2>. HIDE DEF routes
    <2>5. QED
        BY <1>1, <1>3, <2>1, <2>2, <2>3, <2>4 DEF HistoryFollowsRoutes, Listed
<1>6. WithinLimits'
    BY <1>1, <1>4 DEF RunInv, WithinLimits, Phases
<1>7. AnswerIsOfAttempt'
    <2>1. response'[1].strategy = Strategy /\ response'[1].insufficient
        BY <1>1, SMTT(40) DEF Abstention
    <2>2. Strategy' = Strategy
        BY <1>4, ZenonT(40) DEF Strategy, Routes, AdaptiveOrder
    <2>3. QED
        BY <1>1, <2>1, <2>2 DEF AnswerIsOfAttempt
<1>8. QED
    BY <1>5, <1>6, <1>7 DEF RunInv

\* A run that goes on to its next attempt, or has none left.
LEMMA TryAgainKeepsRun ==
    ASSUME RunInv, Undecided, UNCHANGED <<config, query>>,
           Counted(gen', config.policy), judged' \in 0..SemanticRetries,
           NEW form, NEW error, Remember(form, error), TryAgain
    PROVE  RunInv'
<1>1. attempt \in 1..Len(Routes(query)) /\ Len(Routes(query)) \in Nat /\ phase # "idle"
    BY RoutesAreDistinct DEF RunInv, HistoryFollowsRoutes, Undecided
<1>2. CASE attempt < Len(Routes(query))
    <2>. DEFINE routes == Routes(query)
    <2>1. attempt' = attempt + 1 /\ phase' = "search" /\ stop' = stop /\ stop = None
        BY <1>2 DEF TryAgain, RunInv, WithinLimits, Undecided
    <2>2. /\ Listed(history') /\ Len(history') = attempt
          /\ \A i \in 1..attempt : history'[i].attempt = i /\ history'[i].strategy = routes[i]
        BY AttemptIsRemembered DEF RunInv
    <2>3. Routes(query)' = routes
        BY DEF Routes, AdaptiveOrder
    <2>4. attempt' \in 1..Len(routes)
        BY <1>1, <1>2, <2>1
    <2>5. Len(history)' = attempt' - 1
        BY <1>1, <2>1, <2>2
    <2>6. \A i \in 1..Len(history)' : history'[i].attempt = i /\ history'[i].strategy = routes[i]
        BY <2>2
    <2>. HIDE DEF routes
    <2>7. HistoryFollowsRoutes'
        BY <2>1, <2>2, <2>3, <2>4, <2>5, <2>6 DEF HistoryFollowsRoutes, Listed
    <2>8. WithinLimits'
        BY <2>1 DEF RunInv, WithinLimits, Phases
    <2>9. AnswerIsOfAttempt'
        BY <2>1 DEF AnswerIsOfAttempt, None
    <2>10. QED
        BY <2>7, <2>8, <2>9 DEF RunInv
<1>3. CASE ~(attempt < Len(Routes(query)))
    <2>1. Finish(Abstention(Strategy), BoundedStopReason) /\ UNCHANGED attempt
        BY <1>3 DEF TryAgain
    <2>2. BoundedStopReason \in StopReasons \ {"answer_verified"}
        BY DEF BoundedStopReason, StopReasons
    <2>3. QED
        BY <1>1, <2>1, <2>2, AbstentionKeepsRun
<1>4. QED
    BY <1>2, <1>3

LEMMA RetrieveKeepsRun ==
    ASSUME RunInv, Retrieve PROVE RunInv'
<1>. DEFINE form == NextForm
            routed == Routed(form)
<1>1. phase = "search" /\ Undecided /\ phase # "idle"
    BY DEF Retrieve, Undecided
<1>2. UNCHANGED <<config, query, gen, judged>>
    BY DEF Retrieve, serving, asked
<1>3. Counted(gen', config.policy) /\ judged' \in 0..SemanticRetries
    BY <1>2 DEF RunInv, WithinLimits
<1>4. PICK result \in SearchResults(routed) :
          \/ /\ result.error # "none" /\ Remember(form, result.error)
             /\ ToolFailed(result.error) /\ UNCHANGED <<found, evidence>>
          \/ result.error = "none" /\ Observe(routed, form, result.hits)
    BY DEF Retrieve
<1>. HIDE DEF form, routed
<1>5. CASE Remember(form, result.error) /\ ToolFailed(result.error)
    <2>1. CASE TryAgain
        BY <1>1, <1>2, <1>3, <1>5, <2>1, TryAgainKeepsRun
    <2>2. ASSUME ~TryAgain
          PROVE  UNCHANGED attempt /\ \E reason \in StopReasons \ {"answer_verified"} :
                    Finish(Abstention(Strategy), reason)
        <3>1. /\ UNCHANGED attempt
              /\ \/ Finish(Abstention(Strategy), "timeout")
                 \/ Finish(Abstention(Strategy), "non_retryable_tool_error")
            BY <1>5, <2>2 DEF ToolFailed
        <3>2. {"timeout", "non_retryable_tool_error"} \subseteq StopReasons \ {"answer_verified"}
            BY DEF StopReasons
        <3>3. QED
            BY <3>1, <3>2
    <2>3. QED
        BY <1>1, <1>2, <1>3, <1>5, <2>1, <2>2, AbstentionKeepsRun
<1>6. CASE Observe(routed, form, result.hits)
    <2>. DEFINE context == BuildContext(routed, result.hits)
    <2>1. CASE context.error = "none"
        <3>1. /\ phase' = "grade" /\ UNCHANGED <<attempt, history, response, stop>>
              /\ stop = None
            BY <1>1, <1>6, <2>1 DEF Observe, RunInv, WithinLimits
        <3>2. Routes(query)' = Routes(query)
            BY <1>2 DEF Routes, AdaptiveOrder
        <3>3. HistoryFollowsRoutes'
            BY <1>1, <1>2, <3>1, <3>2 DEF RunInv, HistoryFollowsRoutes, Listed
        <3>4. WithinLimits'
            BY <1>2, <3>1 DEF RunInv, WithinLimits, Phases
        <3>5. AnswerIsOfAttempt'
            BY <3>1 DEF AnswerIsOfAttempt, None
        <3>6. QED
            BY <3>3, <3>4, <3>5 DEF RunInv
    <2>2. CASE context.error # "none"
        <3>1. /\ Remember(form, context.error) /\ UNCHANGED attempt
              /\ Finish(Abstention(Strategy), "non_retryable_tool_error")
            BY <1>6, <2>2 DEF Observe
        <3>2. "non_retryable_tool_error" \in StopReasons \ {"answer_verified"}
            BY DEF StopReasons
        <3>3. QED
            BY <1>1, <1>2, <1>3, <3>1, <3>2, AbstentionKeepsRun
    <2>3. QED
        BY <2>1, <2>2
<1>7. QED
    BY <1>4, <1>5, <1>6

LEMMA GradingKeepsRun ==
    ASSUME RunInv, Grade \/ GradeLate PROVE RunInv'
<1>1. phase = "grade" /\ Undecided /\ phase # "idle"
    BY DEF Grade, GradeLate, Undecided
<1>2. UNCHANGED <<config, query, judged>>
    BY DEF Grade, GradeLate, serving, asked
<1>3. judged' \in 0..SemanticRetries /\ config \in Configurations
    BY <1>2 DEF RunInv, WithinLimits
<1>4. CASE Grade /\ missing'[1] = {}
    <2>. DEFINE routes == Routes(query)
    <2>1. /\ phase' = "generate" /\ gen' = Start /\ UNCHANGED <<attempt, response, stop>>
          /\ stop = None
        BY <1>1, <1>4 DEF Grade, RunInv, WithinLimits
    <2>2. Remember(current, "none")
        BY <1>4 DEF Grade
    <2>3. /\ Listed(history') /\ Len(history') = attempt
          /\ \A i \in 1..attempt : history'[i].attempt = i /\ history'[i].strategy = routes[i]
        BY <1>1, <2>2, AttemptIsRemembered DEF RunInv
    <2>4. Routes(query)' = routes
        BY <1>2 DEF Routes, AdaptiveOrder
    <2>5. attempt' \in 1..Len(routes)
        BY <1>1, <2>1 DEF RunInv, HistoryFollowsRoutes
    <2>6. Len(history)' = attempt'
        BY <2>1, <2>3
    <2>7. \A i \in 1..Len(history)' : history'[i].attempt = i /\ history'[i].strategy = routes[i]
        BY <2>3
    <2>. HIDE DEF routes
    <2>8. HistoryFollowsRoutes'
        BY <2>1, <2>3, <2>4, <2>5, <2>6, <2>7 DEF HistoryFollowsRoutes, Listed
    <2>9. Counted(gen, config.policy)'
        BY <1>2, <1>3, <2>1, EveryConfigurationIsLegal
    <2>10. WithinLimits'
        BY <1>2, <2>1, <2>9 DEF RunInv, WithinLimits, Phases
    <2>11. AnswerIsOfAttempt'
        BY <2>1 DEF AnswerIsOfAttempt, None, InProgress, Start
    <2>12. QED
        BY <2>8, <2>10, <2>11 DEF RunInv
<1>5. CASE Grade /\ missing'[1] # {}
    <2>1. TryAgain /\ UNCHANGED gen /\ Remember(current, "none")
        BY <1>5 DEF Grade
    <2>2. Counted(gen', config.policy)
        BY <2>1 DEF RunInv, WithinLimits
    <2>3. QED
        BY <1>1, <1>2, <1>3, <2>1, <2>2, TryAgainKeepsRun
<1>6. CASE GradeLate
    <2>1. /\ Remember(current, "TIMEOUT") /\ Finish(Abstention(Strategy), "timeout")
          /\ UNCHANGED <<attempt, gen>>
        BY <1>6 DEF GradeLate
    <2>2. Counted(gen', config.policy)
        BY <2>1 DEF RunInv, WithinLimits
    <2>3. "timeout" \in StopReasons \ {"answer_verified"}
        BY DEF StopReasons
    <2>4. QED
        BY <1>1, <1>2, <1>3, <2>1, <2>2, <2>3, AbstentionKeepsRun
<1>7. QED
    BY <1>4, <1>5, <1>6

\* What a run carries while it answers, when the history stays.
LEMMA HistoryStays ==
    ASSUME RunInv, phase \in {"generate", "verify"},
           phase' \in {"generate", "verify", "answered"},
           UNCHANGED <<query, attempt, history>>
    PROVE  HistoryFollowsRoutes' /\ Strategy' = Strategy
<1>1. Routes(query)' = Routes(query)
    BY DEF Routes, AdaptiveOrder
<1>2. Strategy' = Strategy
    BY <1>1 DEF Strategy
<1>3. /\ Listed(history) /\ attempt \in 1..Len(Routes(query)) /\ Len(history) = attempt
      /\ \A i \in 1..Len(history) : /\ history[i].attempt = i
                                    /\ history[i].strategy = Routes(query)[i]
    BY DEF RunInv, HistoryFollowsRoutes
<1>4. HistoryFollowsRoutes'
    BY <1>1, <1>3 DEF HistoryFollowsRoutes, Listed
<1>5. QED
    BY <1>2, <1>4

\* What the generator has returned names the strategy.
LEMMA GeneratedKeepsRun ==
    ASSUME RunInv, phase = "generate",
           UNCHANGED <<config, query, attempt, history, judged, evidence>>,
           Counted(gen', config.policy),
           NEW outcome,
           outcome.error = "none" =>
               /\ outcome.response = <<outcome.response[1]>>
               /\ IsBy(outcome.response[1], evidence, Strategy)
               /\ Recovers(evidence, Strategy) =>
                     outcome.response[1].insufficient
                     \/ Verifies(outcome.response[1], evidence),
           Generated(outcome)
    PROVE  RunInv'
<1>1. CASE outcome.error # "none"
    <2>1. Finish(Abstention(Strategy), "generation_failed")
        BY <1>1 DEF Generated
    <2>2. "generation_failed" \in StopReasons \ {"answer_verified"}
        BY DEF StopReasons
    <2>3. ~Undecided /\ phase # "idle" /\ judged' \in 0..SemanticRetries
        BY DEF Undecided, RunInv, WithinLimits
    <2>4. QED
        BY <2>1, <2>2, <2>3, AbstentionKeepsRun
<1>2. CASE outcome.error = "none" /\ outcome.response[1].insufficient
    <2>1. Finish(outcome.response[1], "generation_failed")
        BY <1>2 DEF Generated
    <2>2. /\ phase' = "answered" /\ stop' = "generation_failed"
          /\ response' = <<outcome.response[1]>>
        BY <2>1 DEF Finish
    <2>3. HistoryFollowsRoutes' /\ Strategy' = Strategy
        BY <2>2, HistoryStays
    <2>4. WithinLimits'
        BY <2>2 DEF RunInv, WithinLimits, Phases, StopReasons
    <2>5. AnswerIsOfAttempt'
        <3>1. outcome.response[1].strategy = Strategy
            BY <1>2 DEF IsBy
        <3>2. QED
            BY <1>2, <2>2, <2>3, <3>1 DEF AnswerIsOfAttempt
    <2>6. QED
        BY <2>3, <2>4, <2>5 DEF RunInv
<1>3. CASE outcome.error = "none" /\ ~outcome.response[1].insufficient
    <2>1. phase' = "verify" /\ response' = outcome.response /\ stop' = stop /\ stop = None
        BY <1>3 DEF Generated, RunInv, WithinLimits
    <2>2. HistoryFollowsRoutes' /\ Strategy' = Strategy
        BY <2>1, HistoryStays
    <2>3. WithinLimits'
        BY <2>1 DEF RunInv, WithinLimits, Phases
    <2>4. /\ IsBy(response'[1], evidence, Strategy) /\ ~response'[1].insufficient
          /\ Recovers(evidence, Strategy) => Verifies(response'[1], evidence)
        BY <1>3, <2>1
    <2>5. AnswerIsOfAttempt'
        BY <2>1, <2>2, <2>4 DEF AnswerIsOfAttempt, Recovers, AnswersByModel, None
    <2>6. QED
        BY <2>2, <2>3, <2>5 DEF RunInv
<1>4. QED
    BY <1>1, <1>2, <1>3

LEMMA GenerationKeepsRun ==
    ASSUME RunInv, CallModel \/ QuoteEvidence PROVE RunInv'
<1>1. /\ phase = "generate"
      /\ UNCHANGED <<config, query, attempt, history, judged, evidence>>
    BY DEF CallModel, QuoteEvidence, serving, asked, searching
<1>2. /\ Counted(gen, config.policy) /\ InProgress(gen, evidence, Strategy)
      /\ config \in Configurations
    BY <1>1 DEF RunInv, WithinLimits, AnswerIsOfAttempt
<1>3. CASE CallModel
    <2>1. PICK completion \in Completions :
             LET outcome == Complete(config.policy, gen, completion, evidence, Strategy)
             IN  /\ gen' = outcome.gen
                 /\ IF outcome.gen.stage # "done" THEN UNCHANGED <<phase, response, stop>>
                    ELSE Generated(outcome)
        BY <1>3 DEF CallModel
    <2>. DEFINE outcome == Complete(config.policy, gen, completion, evidence, Strategy)
    <2>2. Proper(outcome, config.policy, evidence, Strategy)
        BY <1>2, EveryConfigurationIsLegal, CompletionIsProper
    <2>3. gen' = outcome.gen
        BY <2>1
    <2>4. outcome.gen.stage # "done" => UNCHANGED <<phase, response, stop>>
        BY <2>1
    <2>5. outcome.gen.stage = "done" => Generated(outcome)
        BY <2>1
    <2>. HIDE DEF outcome
    <2>6. Counted(gen', config.policy)
        BY <2>2, <2>3 DEF Proper
    <2>7. CASE outcome.gen.stage # "done"
        <3>1. phase' = "generate" /\ stop' = stop /\ stop = None
            BY <1>1, <2>4, <2>7 DEF RunInv, WithinLimits
        <3>2. HistoryFollowsRoutes' /\ Strategy' = Strategy
            BY <1>1, <3>1, HistoryStays
        <3>3. WithinLimits'
            BY <1>1, <2>6, <3>1 DEF RunInv, WithinLimits, Phases
        <3>4. InProgress(gen', evidence, Strategy)
            BY <2>2, <2>3, <2>7 DEF Proper
        <3>5. AnswerIsOfAttempt'
            BY <1>1, <3>1, <3>2, <3>4 DEF AnswerIsOfAttempt, None
        <3>6. QED
            BY <3>2, <3>3, <3>5 DEF RunInv
    <2>8. CASE outcome.gen.stage = "done"
        <3>1. outcome.error = "none" =>
                  /\ outcome.response = <<outcome.response[1]>>
                  /\ IsBy(outcome.response[1], evidence, Strategy)
                  /\ Recovers(evidence, Strategy) =>
                        outcome.response[1].insufficient
                        \/ Verifies(outcome.response[1], evidence)
            BY <2>2, <2>8 DEF Proper, Recovers
        <3>2. QED
            BY <1>1, <2>5, <2>6, <2>8, <3>1, GeneratedKeepsRun
    <2>9. QED
        BY <2>7, <2>8
<1>4. CASE QuoteEvidence
    <2>. DEFINE answer == Quotation(evidence, Len(evidence), Strategy)
                outcome == Return(gen, answer)
    <2>1. Generated(outcome) /\ gen' = gen
        BY <1>4 DEF QuoteEvidence
    <2>2. IsBy(answer, evidence, Strategy)
        <3>1. answer.strategy = Strategy
            BY DEF Quotation, Response
        <3>2. answer = Quotation(evidence, Len(evidence), answer.strategy)
            BY <3>1
        <3>. HIDE DEF answer
        <3>3. QED
            BY <3>1, <3>2 DEF IsBy, IsMaterial
    <2>. HIDE DEF answer
    <2>3. outcome.response = <<answer>>
        BY DEF Return
    <2>4. /\ outcome.response = <<outcome.response[1]>>
          /\ IsBy(outcome.response[1], evidence, Strategy)
        BY <2>2, <2>3
    <2>5. Counted(gen', config.policy) /\ ~Recovers(evidence, Strategy)
        BY <1>2, <1>4, <2>1 DEF QuoteEvidence, Recovers
    <2>. HIDE DEF outcome
    <2>6. QED
        BY <1>1, <2>1, <2>4, <2>5, GeneratedKeepsRun
<1>5. QED
    BY <1>3, <1>4

LEMMA VerificationKeepsRun ==
    ASSUME RunInv, AnswerLate \/ VerifyAnswer \/ Judge PROVE RunInv'
<1>1. /\ phase \in {"generate", "verify"} /\ stop = None
      /\ UNCHANGED <<config, query, attempt, history, gen, evidence>>
    BY DEF RunInv, WithinLimits, AnswerLate, VerifyAnswer, Judge, serving, asked, searching
<1>2. Counted(gen', config.policy) /\ ~Undecided /\ phase # "idle"
    BY <1>1 DEF RunInv, WithinLimits, Undecided
<1>3. judged' \in 0..SemanticRetries
    <2>1. judged \in 0..SemanticRetries /\ SemanticRetries \in 0..1
        BY WorkflowAssumption DEF RunInv, WithinLimits
    <2>2. judged' = judged \/ (judged < SemanticRetries /\ judged' = judged + 1)
        BY DEF AnswerLate, VerifyAnswer, Judge
    <2>3. QED
        BY <2>1, <2>2
<1>4. CASE AnswerLate
    <2>1. Finish(Abstention(Strategy), "timeout")
        BY <1>4 DEF AnswerLate
    <2>2. "timeout" \in StopReasons \ {"answer_verified"}
        BY DEF StopReasons
    <2>3. QED
        BY <1>1, <1>2, <1>3, <2>1, <2>2, AbstentionKeepsRun
<1>5. CASE Reject
    <2>1. Finish(Abstention(Strategy), "citation_verification_failed")
        BY <1>5 DEF Reject
    <2>2. "citation_verification_failed" \in StopReasons \ {"answer_verified"}
        BY DEF StopReasons
    <2>3. QED
        BY <1>1, <1>2, <1>3, <2>1, <2>2, AbstentionKeepsRun
<1>6. CASE phase = "verify" /\ Accept /\ Verifies(response[1], evidence)
    <2>1. phase' = "answered" /\ stop' = "answer_verified" /\ response' = <<response[1]>>
        BY <1>6 DEF Accept, Finish
    <2>2. HistoryFollowsRoutes' /\ Strategy' = Strategy
        BY <1>1, <2>1, HistoryStays
    <2>3. WithinLimits'
        BY <1>1, <1>2, <1>3, <2>1 DEF RunInv, WithinLimits, Phases, StopReasons
    <2>4. /\ response[1].strategy = Strategy /\ ~response[1].insufficient
          /\ IsMaterial(response[1], evidence)
        BY <1>6 DEF RunInv, AnswerIsOfAttempt, IsBy
    <2>5. response'[1] = response[1]
        BY <2>1
    <2>6. AnswerIsOfAttempt'
        BY <1>1, <1>6, <2>1, <2>2, <2>4, <2>5 DEF AnswerIsOfAttempt
    <2>7. QED
        BY <2>2, <2>3, <2>6 DEF RunInv
<1>7. CASE phase = "verify" /\ UNCHANGED <<phase, response, stop>>
    <2>1. HistoryFollowsRoutes' /\ Strategy' = Strategy
        BY <1>1, <1>7, HistoryStays
    <2>2. WithinLimits'
        BY <1>1, <1>2, <1>3, <1>7 DEF RunInv, WithinLimits
    <2>3. AnswerIsOfAttempt'
        BY <1>1, <1>7, <2>1 DEF RunInv, AnswerIsOfAttempt, Recovers, AnswersByModel
    <2>4. QED
        BY <2>1, <2>2, <2>3 DEF RunInv
<1>8. CASE VerifyAnswer
    BY <1>5, <1>6, <1>8 DEF VerifyAnswer, Verifies
<1>9. CASE Judge
    BY <1>5, <1>6, <1>7, <1>9 DEF Judge, NeedsJudgement, Verifies
<1>10. QED
    BY <1>4, <1>8, <1>9

LEMMA QuestionBeginsRun ==
    ASSUME RunInv, NEW question, Ask(question) PROVE RunInv'
<1>. DEFINE q == Query(question.id, question.original, question.normalized,
                       question.filters, question.topK, question.candidateK,
                       question.strategy)
            routes == Routes(q)
<1>1. /\ query' = q /\ phase' = "search" /\ attempt' = 1 /\ history' = <<>>
      /\ gen' = Start /\ judged' = 0 /\ stop' = None /\ config' = config
      /\ routes # <<>>
    BY DEF Ask, serving
<1>2. routes \in Seq(Registered)
    BY RoutesAreDistinct, SMTT(40)
<1>3. Routes(query)' = routes
    BY <1>1, ZenonT(40) DEF Routes, AdaptiveOrder
<1>. HIDE DEF routes, q
<1>4. 1 \in 1..Len(routes)
    BY <1>1, <1>2
<1>5. Listed(history') /\ Len(history') = 0
    <2>1. <<>> \in Seq({})
        OBVIOUS
    <2>2. QED
        BY <1>1, <2>1, ListedSeq
<1>6. HistoryFollowsRoutes'
    BY <1>1, <1>3, <1>4, <1>5 DEF HistoryFollowsRoutes, Listed
<1>7. Counted(gen, config.policy)' /\ config' \in Configurations
    BY <1>1, EveryConfigurationIsLegal DEF RunInv, WithinLimits
<1>8. judged' \in 0..SemanticRetries
    BY <1>1, WorkflowAssumption
<1>9. WithinLimits'
    BY <1>1, <1>7, <1>8 DEF WithinLimits, Phases, StopReasons
<1>10. AnswerIsOfAttempt'
    BY <1>1 DEF AnswerIsOfAttempt, None
<1>11. QED
    BY <1>6, <1>9, <1>10 DEF RunInv

LEMMA RunBegins == Init => RunInv
<1>1. SUFFICES ASSUME Init PROVE RunInv
    OBVIOUS
<1>2. /\ phase = "idle" /\ history = <<>> /\ gen = Start /\ judged = 0 /\ stop = None
      /\ config \in Configurations
    BY <1>1 DEF Init, WorkflowInit
<1>3. Listed(history)
    <2>1. <<>> \in Seq({})
        OBVIOUS
    <2>2. QED
        BY <1>2, <2>1, ListedSeq
<1>4. HistoryFollowsRoutes
    BY <1>2, <1>3 DEF HistoryFollowsRoutes
<1>5. judged \in 0..SemanticRetries
    BY <1>2, WorkflowAssumption
<1>6. WithinLimits
    BY <1>2, <1>5, EveryConfigurationIsLegal DEF WithinLimits, Phases, StopReasons
<1>7. AnswerIsOfAttempt
    BY <1>2 DEF AnswerIsOfAttempt, None
<1>8. QED
    BY <1>4, <1>6, <1>7 DEF RunInv

\* A step that leaves the run alone.
LEMMA RunStays ==
    ASSUME RunInv, UNCHANGED <<config, phase, asked, searching, answering>> PROVE RunInv'
<1>1. /\ UNCHANGED <<config, phase, query, attempt, history, gen, judged>>
      /\ UNCHANGED <<response, stop, evidence>>
    BY DEF asked, searching, answering
<1>2. Routes(query)' = Routes(query) /\ Strategy' = Strategy
    BY <1>1 DEF Routes, AdaptiveOrder, Strategy
<1>3. HistoryFollowsRoutes'
    BY <1>1, <1>2 DEF RunInv, HistoryFollowsRoutes, Listed
<1>4. WithinLimits'
    BY <1>1 DEF RunInv, WithinLimits
<1>5. AnswerIsOfAttempt'
    BY <1>1, <1>2 DEF RunInv, AnswerIsOfAttempt, Recovers, AnswersByModel
<1>6. QED
    BY <1>3, <1>4, <1>5 DEF RunInv

LEMMA StepKeepsRun == RunInv /\ [Next]_vars => RunInv'
<1>. SUFFICES ASSUME RunInv, [Next]_vars PROVE RunInv'
    BY SMTT(40)
<1>1. CASE ProcessDocument
    BY <1>1, RunStays DEF ProcessDocument
<1>2. CASE BuildGraph
    BY <1>2, RunStays DEF BuildGraph
<1>3. CASE LoadRuntime
    BY <1>3, RunStays DEF LoadRuntime, serving
<1>4. CASE BuildAgain
    BY <1>4, RunStays DEF BuildAgain
<1>5. CASE \E question \in Questions : Ask(question)
    BY <1>5, QuestionBeginsRun
<1>6. CASE WorkflowStep
    BY <1>6, RetrieveKeepsRun, GradingKeepsRun, GenerationKeepsRun, VerificationKeepsRun
    DEF WorkflowStep
<1>7. CASE UNCHANGED vars
    BY <1>7, RunStays DEF vars, serving
<1>8. QED
    BY <1>1, <1>2, <1>3, <1>4, <1>5, <1>6, <1>7 DEF Next, Answer

--------------------------------------------------------------------------------
(* What a run works with *)

\* A build is of a library, and questions are asked only once it is loaded.
BuildIsCorpus ==
    /\ library \in Libraries /\ budget \in Budgets
    /\ stage \in {"documents", "built", "failed", "loaded"}
    /\ processed \in 0..Len(library.documents)
    /\ IsCorpus(corpus) /\ Listed(graph.relationships)
    /\ phase # "idle" => stage = "loaded"

\* The last search found hits of the corpus for the question.
SearchIsOfQuestion ==
    /\ phase = "idle" => found = <<>> /\ evidence = <<>>
    /\ phase # "idle" => IsQuery(query) /\ query.candidateK > 0 /\ Listed(current)
    /\ found # <<>> => IsFinding(found[1].hits, corpus, query, graph.relationships)

\* Evidence as the selection sees it for a question.
IsWeighed(item, q) ==
    /\ item.document = DocumentMatch(item.chunk, q.analysis.documents)
    /\ item.article = ArticleMatch(item.chunk, q.analysis.articles)
    /\ item.applicability = Applicability(item.chunk, item.document, item.article)

InUse == phase \in {"grade", "generate", "verify"} \/ stop = "answer_verified"
Decided == phase \in {"generate", "verify"} \/ stop = "answer_verified"

\* The evidence in use is of the hits of the last search, and it was sufficient
\* before anything was generated from it.
ContextIsOfSearch ==
    /\ Listed(evidence) /\ Len(evidence) <= MaxEvidence
    /\ \A i \in 1..Len(evidence) : evidence[i].chunk \in ToSet(corpus)
    /\ InUse => /\ found # <<>> /\ found[1].query.analysis = query.analysis
                /\ \A i \in 1..Len(evidence) :
                      /\ IsWeighed(evidence[i], query)
                      /\ evidence[i].chunk \in Chunks(found[1].hits)
    /\ Decided => MissingAspects(found[1].query, evidence) = {}

MaterialInv == BuildIsCorpus /\ SearchIsOfQuestion /\ ContextIsOfSearch

LEMMA MaterialBegins == Init => MaterialInv
<1>. SUFFICES ASSUME Init PROVE MaterialInv
    OBVIOUS
<1>1. /\ library \in Libraries /\ budget \in Budgets /\ stage = "documents" /\ processed = 0
      /\ corpus = <<>> /\ graph = [documents |-> {}, relationships |-> <<>>]
      /\ phase = "idle" /\ found = <<>> /\ evidence = <<>> /\ stop = None
    BY DEF Init, WorkflowInit
<1>2. Len(library.documents) \in Nat
    BY <1>1, ServiceAssumption DEF IsList
<1>3. graph.relationships = <<>>
    BY <1>1
<1>4. Listed(<<>>) /\ Len(<<>>) = 0
    BY EmptyIsListed
<1>5. IsCorpus(corpus)
    BY <1>1, <1>4 DEF IsCorpus
<1>6. BuildIsCorpus
    BY <1>1, <1>2, <1>3, <1>4, <1>5 DEF BuildIsCorpus
<1>7. SearchIsOfQuestion
    BY <1>1 DEF SearchIsOfQuestion
<1>8. MaxEvidence \in Nat
    BY EvidenceAssumption
<1>9. ContextIsOfSearch
    BY <1>1, <1>4, <1>8 DEF ContextIsOfSearch, InUse, Decided, None
<1>10. QED
    BY <1>6, <1>7, <1>9 DEF MaterialInv

\* Before the first question there is nothing to keep but the build.
LEMMA BuildKeepsMaterial ==
    ASSUME RunInv, MaterialInv, phase = "idle",
           UNCHANGED <<phase, asked, searching, answering>>, BuildIsCorpus'
    PROVE  MaterialInv'
<1>1. found = <<>> /\ evidence = <<>> /\ stop = None
    BY DEF MaterialInv, SearchIsOfQuestion, RunInv, WithinLimits
<1>2. UNCHANGED <<phase, found, evidence, stop>>
    BY DEF searching, answering
<1>3. SearchIsOfQuestion'
    BY <1>1, <1>2 DEF SearchIsOfQuestion
<1>4. Listed(<<>>) /\ Len(<<>>) = 0 /\ MaxEvidence \in Nat
    BY EmptyIsListed, EvidenceAssumption
<1>5. ContextIsOfSearch'
    BY <1>1, <1>2, <1>4 DEF ContextIsOfSearch, InUse, Decided, None
<1>6. QED
    BY <1>3, <1>5 DEF MaterialInv

\* The chunks of a document continue the numbering of those before it.
LEMMA DocumentExtendsCorpus ==
    ASSUME NEW C, IsCorpus(C), NEW chunks, NEW n \in Nat, DOMAIN chunks = 1..n,
           \A i \in 1..n : "id" \in DOMAIN chunks[i]
    PROVE  LET D == C \o [i \in DOMAIN chunks |-> [chunks[i] EXCEPT !.id = Len(C) + i]]
           IN  /\ IsCorpus(D) /\ Len(D) = Len(C) + n /\ \A i \in 1..Len(C) : D[i] = C[i]
               /\ \A i \in 1..n : D[Len(C) + i] = [chunks[i] EXCEPT !.id = Len(C) + i]
<1>. DEFINE more == [i \in 1..n |-> [chunks[i] EXCEPT !.id = Len(C) + i]]
            D == C \o more
<1>1. Listed(C) /\ \A i \in 1..Len(C) : C[i].id = i
    BY DEF IsCorpus
<1>2. Len(C) \in Nat /\ C \in Seq(Range(C))
    BY <1>1 DEF Listed
<1>3. more = [i \in 1..n |-> more[i]]
    OBVIOUS
<1>4. \A i \in 1..n : more[i].id = Len(C) + i
    OBVIOUS
<1>5. [i \in DOMAIN chunks |-> [chunks[i] EXCEPT !.id = Len(C) + i]] = more
    OBVIOUS
<1>. HIDE DEF more
<1>6. Listed(more) /\ Len(more) = n
    BY <1>3, ListedIs
<1>. DEFINE V == Range(C) \cup Range(more)
<1>7. C \in Seq(V) /\ more \in Seq(V)
    BY <1>2, <1>6 DEF Listed
<1>8. /\ D \in Seq(V) /\ Len(D) = Len(C) + n
      /\ \A i \in 1..(Len(C) + n) : D[i] = IF i <= Len(C) THEN C[i] ELSE more[i - Len(C)]
    <2>. HIDE DEF V
    <2>1. QED
        BY <1>2, <1>6, <1>7, SMTT(40)
<1>9. Listed(D)
    BY <1>8, ListedSeq
<1>10. ASSUME NEW i \in 1..Len(D) PROVE D[i].id = i
    <2>1. CASE i <= Len(C)
        BY <1>1, <1>2, <1>8, <1>10, <2>1
    <2>2. CASE ~(i <= Len(C))
        <3>1. i - Len(C) \in 1..n
            BY <1>2, <1>8, <1>10, <2>2
        <3>2. D[i] = more[i - Len(C)]
            BY <1>2, <1>8, <1>10, <2>2
        <3>3. QED
            BY <1>2, <1>4, <3>1, <3>2
    <2>3. QED
        BY <2>1, <2>2
<1>11. IsCorpus(D)
    BY <1>9, <1>10 DEF IsCorpus
<1>12. \A i \in 1..Len(C) : D[i] = C[i]
    BY <1>2, <1>8
<1>13. ASSUME NEW i \in 1..n
       PROVE  D[Len(C) + i] = [chunks[i] EXCEPT !.id = Len(C) + i]
    <2>1. Len(C) + i \in 1..(Len(C) + n) /\ ~(Len(C) + i <= Len(C)) /\ (Len(C) + i) - Len(C) = i
        BY <1>2
    <2>2. more[i] = [chunks[i] EXCEPT !.id = Len(C) + i]
        BY DEF more
    <2>3. QED
        BY <1>8, <2>1, <2>2
<1>14. QED
    BY <1>5, <1>8, <1>11, <1>12, <1>13

\* What is ignored in the markup of a document ends with it.
IsMarkedUp(document) ==
    /\ EndsTogether(document.source, RulesOf(document))
    /\ document.cleaner = "html" \/ ScriptsAreCode(NoticeFree(document.source))
KeepWords(document) ==
    IsMarkedUp(document) => \A t \in LegalTokens(document) :
        \E i \in 1..Len(CleanedLines(document)) : t \in Range(CleanedLines(document)[i].text)

\* The documents of a build are what the lemmas about parsing and chunking need.
LEMMA DocumentsAreRead ==
    ASSUME NEW b \in Budgets, NEW l \in Libraries, NEW document \in ToSet(l.documents)
    PROVE  /\ IsBudget(b) /\ Listed(document.name) /\ KeepWords(document)
           /\ \E X : AreLines(CleanedLines(document), X)
<1>. DEFINE source == document.source
<1>1. IsBudget(b)
    BY ServiceAssumption DEF IsBudget
<1>2. /\ IsList(document.name) /\ IsList(source)
      /\ \A piece \in ToSet(source) : IsCleanLine(piece.line)
    BY ServiceAssumption
<1>. HIDE DEF source
<1>3. \A s : IsList(s) => Listed(s)
    BY ListedIs DEF IsList
<1>4. Listed(document.name) /\ Listed(source) /\ DOMAIN source = 1..Len(source)
    BY <1>2, <1>3 DEF Listed
<1>5. ASSUME NEW i \in 1..Len(source)
      PROVE  \E X : IsLine(source[i].line, X)
    <2>. DEFINE line == source[i].line
    <2>1. IsCleanLine(line)
        BY <1>2, <1>4 DEF ToSet
    <2>. HIDE DEF line
    <2>2. Listed(line.title) /\ line.text \in Seq(Range(line.text))
        BY <1>3, <2>1 DEF IsCleanLine, Listed
    <2>3. IsLine(line, Range(line.text))
        BY <2>1, <2>2 DEF IsLine, LineFields, IsCleanLine
    <2>4. QED
        BY <2>3 DEF line
<1>6. AreLines(CleanedLines(document), WordsOf(source)) /\ KeepWords(document)
    BY <1>4, <1>5, CleanedLinesAre DEF source, KeepWords, IsMarkedUp
<1>7. QED
    BY <1>1, <1>4, <1>6

\* Chunk c holds token t of line j and names the article the line is of.
Knows(c, lines, j, t) ==
    /\ t \in Range(c.text)
    /\ GoverningArticle(lines, j) # None => c.article = GoverningArticle(lines, j)

\* The chunks of a document whose markers are told apart know their article.
KnowArticles(C, document) ==
    LET lines == CleanedLines(document)
    IN  WellMarked(lines) =>
            \A j \in 1..Len(lines) : \A t \in Range(lines[j].text) :
                \E i \in 1..Len(C) : C[i].doc = document.doc /\ Knows(C[i], lines, j, t)

\* D begins with C.
Extends(D, C) == Len(C) <= Len(D) /\ \A i \in 1..Len(C) : D[i] = C[i]

LEMMA KnownStays ==
    ASSUME NEW C, NEW D, Len(C) \in Nat, Len(D) \in Nat, Extends(D, C),
           NEW document, KnowArticles(C, document)
    PROVE  KnowArticles(D, document)
<1>1. \A i \in 1..Len(C) : i \in 1..Len(D) /\ D[i] = C[i]
    BY DEF Extends
<1>2. QED
    BY <1>1 DEF KnowArticles

\* What a document whose chunks validate adds to the corpus.
LEMMA DocumentIsProcessed ==
    ASSUME NEW b \in Budgets, NEW l \in Libraries, NEW document \in ToSet(l.documents),
           NEW C, IsCorpus(C)
    PROVE  LET made == ChunkDocument(b, document, ParseDocument(CleanedLines(document)))
               D == C \o [i \in DOMAIN made.chunks |->
                             [made.chunks[i] EXCEPT !.id = Len(C) + i]]
           IN  /\ made.error # "none" => b.maxSearch < b.maxTokens + Len(ContentLabel)
               /\ made.error = "none" => IsCorpus(D) /\ Extends(D, C) /\ KnowArticles(D, document)
<1>. DEFINE lines == CleanedLines(document)
            made == ChunkDocument(b, document, ParseDocument(lines))
            chunks == made.chunks
            D == C \o [i \in DOMAIN chunks |-> [chunks[i] EXCEPT !.id = Len(C) + i]]
<1>1. IsBudget(b) /\ Listed(document.name)
    BY DocumentsAreRead
<1>2. PICK X : AreLines(lines, X)
    BY DocumentsAreRead
<1>. HIDE DEF lines
<1>3. /\ b.maxSearch >= b.maxTokens + Len(ContentLabel) => made.error = "none"
      /\ made.error = "none" => /\ AreChunks(chunks, document)
                                /\ WellMarked(lines) => NameArticles(chunks, lines)
    BY <1>1, <1>2, ChunkDocumentIs
<1>. HIDE DEF made
<1>4. made.error # "none" => b.maxSearch < b.maxTokens + Len(ContentLabel)
    <2>1. b.maxSearch \in Nat /\ b.maxTokens \in Nat
        BY <1>1 DEF IsBudget
    <2>2. Len(ContentLabel) \in Nat
        BY DEF ContentLabel
    <2>3. QED
        BY <1>3, <2>1, <2>2
<1>. HIDE DEF chunks
<1>5. ASSUME made.error = "none" PROVE IsCorpus(D) /\ Extends(D, C) /\ KnowArticles(D, document)
    <2>. DEFINE n == Len(chunks)
    <2>1. AreChunks(chunks, document) /\ (WellMarked(lines) => NameArticles(chunks, lines))
        BY <1>3, <1>5
    <2>2. /\ n \in Nat /\ DOMAIN chunks = 1..n
          /\ \A i \in 1..n : {"id", "doc", "text", "article"} \subseteq DOMAIN chunks[i]
          /\ \A i \in 1..n : chunks[i].doc = document.doc
        BY <2>1 DEF AreChunks, Listed
    <2>. HIDE DEF n
    <2>3. /\ IsCorpus(D) /\ Len(D) = Len(C) + n /\ \A i \in 1..Len(C) : D[i] = C[i]
          /\ \A i \in 1..n : D[Len(C) + i] = [chunks[i] EXCEPT !.id = Len(C) + i]
        <3>1. n \in Nat /\ DOMAIN chunks = 1..n /\ \A i \in 1..n : "id" \in DOMAIN chunks[i]
            BY <2>2
        <3>2. QED
            BY <3>1, DocumentExtendsCorpus
    <2>. HIDE DEF D
    <2>4. Len(C) \in Nat
        BY DEF IsCorpus, Listed
    <2>5. Extends(D, C)
        BY <2>2, <2>3, <2>4 DEF Extends
    <2>6. ASSUME NEW i \in 1..n
          PROVE  /\ Len(C) + i \in 1..Len(D)
                 /\ D[Len(C) + i].doc = document.doc
                 /\ D[Len(C) + i].text = chunks[i].text
                 /\ D[Len(C) + i].article = chunks[i].article
        <3>1. Len(C) + i \in 1..Len(D)
            BY <2>2, <2>3, <2>4
        <3>2. D[Len(C) + i] = [chunks[i] EXCEPT !.id = Len(C) + i]
            BY <2>3
        <3>3. {"doc", "text", "article"} \subseteq DOMAIN chunks[i]
            BY <2>2
        <3>4. QED
            BY <2>2, <3>1, <3>2, <3>3
    <2>7. ASSUME WellMarked(lines), NEW j \in 1..Len(lines), NEW t \in Range(lines[j].text)
          PROVE  \E i \in 1..Len(D) : D[i].doc = document.doc /\ Knows(D[i], lines, j, t)
        <3>1. PICK i \in 1..n : /\ t \in Range(chunks[i].text)
                                /\ GoverningArticle(lines, j) # None =>
                                      chunks[i].article = GoverningArticle(lines, j)
            BY <2>1, <2>7 DEF NameArticles, n
        <3>2. Knows(D[Len(C) + i], lines, j, t)
            BY <2>6, <3>1 DEF Knows
        <3>3. QED
            BY <2>6, <3>2
    <2>8. KnowArticles(D, document)
        BY <2>7 DEF KnowArticles, lines
    <2>9. QED
        BY <2>3, <2>5, <2>8
<1>6. QED
    BY <1>4, <1>5 DEF D, chunks, made, lines

\* Every document processed is known, and a build fails for a reason.
CorpusKnows == \A n \in 1..processed : KnowArticles(corpus, library.documents[n])

BuildInv == BuildIsCorpus /\ CorpusKnows /\ OnlyTightBudgetsFail

LEMMA BuildBegins == Init => BuildInv
<1>. SUFFICES ASSUME Init PROVE BuildInv
    OBVIOUS
<1>1. BuildIsCorpus
    BY MaterialBegins DEF MaterialInv
<1>2. processed = 0 /\ stage = "documents"
    BY DEF Init
<1>3. QED
    BY <1>1, <1>2 DEF BuildInv, CorpusKnows, OnlyTightBudgetsFail

LEMMA ProcessKeepsBuild ==
    ASSUME BuildIsCorpus, ProcessDocument
    PROVE  BuildIsCorpus' /\ (CorpusKnows => CorpusKnows') /\ OnlyTightBudgetsFail'
<1>. DEFINE document == library.documents[processed + 1]
            made == ChunkDocument(budget, document, ParseDocument(CleanedLines(document)))
            D == corpus \o [i \in DOMAIN made.chunks |->
                               [made.chunks[i] EXCEPT !.id = Len(corpus) + i]]
<1>1. /\ stage = "documents" /\ processed < Len(library.documents)
      /\ UNCHANGED <<library, budget, graph, phase>>
    BY SMTT(40) DEF ProcessDocument
<1>2. IF made.error = "none"
      THEN corpus' = D /\ processed' = processed + 1 /\ stage' = stage
      ELSE stage' = "failed" /\ UNCHANGED <<corpus, processed>>
    BY ZenonT(40) DEF ProcessDocument
<1>3. /\ library \in Libraries /\ budget \in Budgets /\ IsCorpus(corpus)
      /\ processed \in 0..Len(library.documents) /\ Listed(graph.relationships)
      /\ phase = "idle"
    BY <1>1 DEF BuildIsCorpus
<1>4. Len(library.documents) \in Nat /\ DOMAIN library.documents = 1..Len(library.documents)
    BY <1>3, ServiceAssumption DEF IsList
<1>5. document \in ToSet(library.documents)
    <2>1. processed + 1 \in DOMAIN library.documents
        BY <1>1, <1>3, <1>4
    <2>2. QED
        BY <2>1 DEF ToSet
<1>. HIDE DEF document
<1>6. /\ made.error # "none" => budget.maxSearch < budget.maxTokens + Len(ContentLabel)
      /\ made.error = "none" => IsCorpus(D) /\ Extends(D, corpus) /\ KnowArticles(D, document)
    BY <1>3, <1>5, DocumentIsProcessed
<1>. HIDE DEF made, D
<1>7. CASE made.error = "none"
    <2>1. corpus' = D /\ processed' = processed + 1 /\ stage' = "documents"
        BY <1>1, <1>2, <1>7
    <2>2. processed + 1 \in 0..Len(library.documents)
        BY <1>1, <1>3, <1>4
    <2>3. BuildIsCorpus'
        BY <1>1, <1>3, <1>6, <1>7, <2>1, <2>2 DEF BuildIsCorpus
    <2>4. ASSUME CorpusKnows, NEW n \in 1..(processed + 1)
          PROVE  KnowArticles(D, library.documents[n])
        <3>1. CASE n = processed + 1
            BY <1>6, <1>7, <3>1 DEF document
        <3>2. CASE n # processed + 1
            <4>1. n \in 1..processed
                BY <1>3, <1>4, <3>2
            <4>2. KnowArticles(corpus, library.documents[n])
                BY <2>4, <4>1 DEF CorpusKnows
            <4>3. Len(corpus) \in Nat /\ Len(D) \in Nat
                BY <1>3, <1>6, <1>7 DEF IsCorpus, Listed
            <4>4. QED
                BY <1>6, <1>7, <4>2, <4>3, KnownStays
        <3>3. QED
            BY <3>1, <3>2
    <2>5. CorpusKnows => CorpusKnows'
        BY <1>1, <2>1, <2>4 DEF CorpusKnows
    <2>6. OnlyTightBudgetsFail'
        BY <2>1 DEF OnlyTightBudgetsFail
    <2>7. QED
        BY <2>3, <2>5, <2>6
<1>8. CASE made.error # "none"
    <2>1. corpus' = corpus /\ processed' = processed /\ stage' = "failed"
        BY <1>2, <1>8
    <2>2. BuildIsCorpus'
        BY <1>1, <1>3, <2>1 DEF BuildIsCorpus
    <2>3. CorpusKnows => CorpusKnows'
        BY <1>1, <2>1 DEF CorpusKnows
    <2>4. OnlyTightBudgetsFail'
        BY <1>1, <1>6, <1>8 DEF OnlyTightBudgetsFail
    <2>5. QED
        BY <2>2, <2>3, <2>4
<1>9. QED
    BY <1>7, <1>8, SMTT(40)

LEMMA BuildingKeepsBuild ==
    ASSUME BuildIsCorpus, BuildGraph \/ LoadRuntime \/ BuildAgain
    PROVE  BuildIsCorpus' /\ (CorpusKnows => CorpusKnows') /\ OnlyTightBudgetsFail'
<1>1. stage # "loaded" /\ phase' = phase
    BY DEF BuildGraph, LoadRuntime, BuildAgain
<1>2. /\ library \in Libraries /\ budget \in Budgets /\ IsCorpus(corpus)
      /\ processed \in 0..Len(library.documents) /\ Listed(graph.relationships)
      /\ phase = "idle"
    BY <1>1 DEF BuildIsCorpus
<1>3. CASE BuildGraph
    <2>. DEFINE documents == {library.documents[i].doc : i \in DOMAIN library.documents}
                accepts == GraphAccepts(documents, library.relationships)
    <2>1. /\ UNCHANGED <<library, budget, processed, corpus>>
          /\ IF accepts
             THEN /\ stage' = "built"
                  /\ graph' = [documents |-> documents, relationships |-> library.relationships]
             ELSE stage' = "failed" /\ graph' = graph
        BY <1>3 DEF BuildGraph
    <2>2. stage' = "failed" => ~accepts
        BY <2>1
    <2>3. OnlyTightBudgetsFail'
        BY <2>1, <2>2 DEF OnlyTightBudgetsFail
    <2>. HIDE DEF documents, accepts
    <2>4. Listed(library.relationships)
        BY <1>2, ServiceAssumption, ListedIs DEF IsList
    <2>5. Listed(graph'.relationships) /\ stage' \in {"built", "failed"}
        BY <1>2, <2>1, <2>4
    <2>6. BuildIsCorpus'
        BY <1>1, <1>2, <2>1, <2>5 DEF BuildIsCorpus
    <2>7. CorpusKnows => CorpusKnows'
        BY <2>1 DEF CorpusKnows
    <2>8. QED
        BY <2>3, <2>6, <2>7
<1>4. CASE LoadRuntime
    <2>1. UNCHANGED <<library, budget, processed, corpus, graph>> /\ stage' = "loaded"
        BY <1>4 DEF LoadRuntime, serving
    <2>2. QED
        BY <1>1, <1>2, <2>1 DEF BuildIsCorpus, CorpusKnows, OnlyTightBudgetsFail
<1>5. CASE BuildAgain
    <2>1. /\ library' \in Libraries /\ budget' \in Budgets /\ processed' = 0
          /\ stage' = "documents" /\ corpus' = <<>> /\ graph' = graph
        BY <1>5 DEF BuildAgain
    <2>2. Len(library'.documents) \in Nat
        BY <2>1, ServiceAssumption DEF IsList
    <2>3. IsCorpus(<<>>)
        BY EmptyIsListed DEF IsCorpus
    <2>4. BuildIsCorpus'
        BY <1>1, <1>2, <2>1, <2>2, <2>3 DEF BuildIsCorpus
    <2>5. CorpusKnows' /\ OnlyTightBudgetsFail'
        BY <2>1 DEF CorpusKnows, OnlyTightBudgetsFail
    <2>6. QED
        BY <2>4, <2>5
<1>6. QED
    BY <1>3, <1>4, <1>5

\* Questions change nothing of the build.
LEMMA StepKeepsBuild == BuildInv /\ [Next]_vars => BuildInv'
<1>. SUFFICES ASSUME BuildInv, [Next]_vars PROVE BuildInv'
    OBVIOUS
<1>1. BuildIsCorpus /\ CorpusKnows /\ OnlyTightBudgetsFail
    BY DEF BuildInv
<1>2. CASE ProcessDocument
    BY <1>1, <1>2, ProcessKeepsBuild DEF BuildInv
<1>3. CASE BuildGraph \/ LoadRuntime \/ BuildAgain
    BY <1>1, <1>3, BuildingKeepsBuild DEF BuildInv
<1>4. CASE Answer
    <2>1. stage = "loaded" /\ UNCHANGED <<library, budget, stage, processed>>
        BY <1>4 DEF Answer, building
    <2>2. UNCHANGED <<corpus, graph>>
        <3>1. CASE \E question \in Questions : Ask(question)
            BY <3>1 DEF Ask, serving
        <3>2. CASE WorkflowStep
            BY <3>2 DEF WorkflowStep, Retrieve, Grade, GradeLate, CallModel, QuoteEvidence,
                        AnswerLate, VerifyAnswer, Judge, serving
        <3>3. QED
            BY <1>4, <3>1, <3>2 DEF Answer
    <2>3. QED
        BY <1>1, <2>1, <2>2 DEF BuildInv, BuildIsCorpus, CorpusKnows, OnlyTightBudgetsFail
<1>5. CASE UNCHANGED vars
    <2>1. UNCHANGED <<corpus, graph, phase, library, budget, stage, processed>>
        BY <1>5 DEF vars, serving, building
    <2>2. QED
        BY <1>1, <2>1 DEF BuildInv, BuildIsCorpus, CorpusKnows, OnlyTightBudgetsFail
<1>6. QED
    BY <1>2, <1>3, <1>4, <1>5 DEF Next

LEMMA BuildingKeepsMaterial ==
    ASSUME RunInv, MaterialInv,
           ProcessDocument \/ BuildGraph \/ LoadRuntime \/ BuildAgain
    PROVE  MaterialInv'
<1>1. /\ stage # "loaded" /\ UNCHANGED <<phase, asked, searching, answering>>
    BY ZenonT(40) DEF ProcessDocument, BuildGraph, LoadRuntime, BuildAgain
<1>2. BuildIsCorpus /\ phase = "idle"
    BY <1>1 DEF MaterialInv, BuildIsCorpus
<1>3. BuildIsCorpus'
    BY <1>2, ProcessKeepsBuild, BuildingKeepsBuild
<1>4. QED
    BY <1>1, <1>2, <1>3, BuildKeepsMaterial, SMTT(40)

\* The service understands a question before it asks it.
LEMMA QuestionIsQuery ==
    ASSUME NEW question \in Questions
    PROVE  LET q == Query(question.id, question.original, question.normalized,
                          question.filters, question.topK, question.candidateK,
                          question.strategy)
           IN  /\ IsQuery(q) /\ Listed(EffectiveText(q))
               /\ AcceptsRequest(q) => q.candidateK > 0
<1>. DEFINE variants == PlanVariants(question.normalized)
            analysis == Analyze(question.normalized)
            q == Query(question.id, question.original, question.normalized,
                       question.filters, question.topK, question.candidateK,
                       question.strategy)
<1>1. /\ Listed(question.original) /\ Listed(question.normalized)
      /\ question.topK \in Nat /\ question.candidateK \in Nat
      /\ "doc" \in DOMAIN question.filters
    BY WorkflowAssumption, ListedIs DEF IsList
<1>2. Listed(variants) /\ \A i \in 1..Len(variants) : Listed(variants[i])
    BY <1>1, VariantsAreListed
<1>3. q = [id |-> question.id, original |-> question.original,
           normalized |-> question.normalized, rewritten |-> NoText,
           filters |-> question.filters, topK |-> question.topK,
           candidateK |-> question.candidateK, strategy |-> question.strategy,
           analysis |-> analysis, variants |-> variants]
    BY DEF Query
<1>. HIDE DEF variants, analysis, q
<1>4. Listed(NoText)
    BY EmptyIsListed DEF NoText
<1>5. /\ q.original = question.original /\ q.normalized = question.normalized
      /\ q.rewritten = NoText /\ q.filters = question.filters /\ q.topK = question.topK
      /\ q.candidateK = question.candidateK /\ q.variants = variants
      /\ DOMAIN q = QueryFields
    BY <1>3 DEF QueryFields
<1>6. IsQuery(q)
    BY <1>1, <1>2, <1>4, <1>5 DEF IsQuery
<1>7. Listed(EffectiveText(q))
    BY <1>1, <1>5 DEF EffectiveText
<1>8. AcceptsRequest(q) => q.candidateK > 0
    BY <1>1, <1>5 DEF AcceptsRequest
<1>9. QED
    BY <1>6, <1>7, <1>8 DEF q

LEMMA QuestionBeginsMaterial ==
    ASSUME MaterialInv, stage = "loaded", NEW question \in Questions, Ask(question),
           UNCHANGED building
    PROVE  MaterialInv'
<1>. DEFINE q == Query(question.id, question.original, question.normalized,
                       question.filters, question.topK, question.candidateK,
                       question.strategy)
<1>1. /\ query' = q /\ phase' = "search" /\ current' = EffectiveText(q)
      /\ found' = <<>> /\ evidence' = <<>> /\ stop' = None /\ AcceptsRequest(q)
      /\ UNCHANGED <<corpus, graph, library, budget, stage, processed>>
    BY DEF Ask, serving, building
<1>2. IsQuery(q) /\ Listed(EffectiveText(q)) /\ q.candidateK > 0
    BY <1>1, QuestionIsQuery
<1>. HIDE DEF q
<1>3. BuildIsCorpus'
    BY <1>1 DEF MaterialInv, BuildIsCorpus
<1>4. SearchIsOfQuestion'
    BY <1>1, <1>2 DEF SearchIsOfQuestion
<1>5. Listed(<<>>) /\ Len(<<>>) = 0 /\ MaxEvidence \in Nat
    BY EmptyIsListed, EvidenceAssumption
<1>6. ContextIsOfSearch'
    BY <1>1, <1>5 DEF ContextIsOfSearch, InUse, Decided, None
<1>7. QED
    BY <1>3, <1>4, <1>6 DEF MaterialInv

\* What a search is made with.
LEMMA RoutedIsQuery ==
    ASSUME RunInv, MaterialInv, phase = "search"
    PROVE  LET routed == Routed(NextForm)
           IN  /\ Listed(NextForm) /\ IsQuery(routed) /\ routed.strategy \in Strategies
               /\ routed.filters = query.filters /\ routed.topK = query.topK
               /\ routed.analysis = query.analysis /\ routed.candidateK > 0
<1>. DEFINE form == NextForm
            rewritten == IF form = query.normalized THEN NoText ELSE form
            routed == [query EXCEPT !.rewritten = rewritten, !.strategy = Strategy]
<1>1. IsQuery(query) /\ query.candidateK > 0 /\ Listed(current)
    BY DEF MaterialInv, SearchIsOfQuestion
<1>2. Listed(form)
    BY <1>1, RewriteIsForm DEF NextForm
<1>3. Strategy \in Strategies
    <2>1. attempt \in 1..Len(Routes(query)) /\ Routes(query) \in Seq(Registered)
        BY RoutesAreDistinct DEF RunInv, HistoryFollowsRoutes
    <2>. DEFINE routes == Routes(query)
    <2>. HIDE DEF routes
    <2>2. routes[attempt] \in Registered
        BY <2>1 DEF routes
    <2>3. QED
        BY <2>2, PlanningAssumption DEF Strategy, routes
<1>4. Routed(form) = routed
    BY DEF Routed
<1>. HIDE DEF form
<1>5. Listed(rewritten)
    BY <1>2, EmptyIsListed DEF NoText
<1>. HIDE DEF rewritten
<1>6. DOMAIN query = QueryFields
    BY <1>1 DEF IsQuery
<1>7. /\ routed.rewritten = rewritten /\ routed.strategy = Strategy
      /\ routed.original = query.original /\ routed.normalized = query.normalized
      /\ routed.variants = query.variants /\ routed.topK = query.topK
      /\ routed.candidateK = query.candidateK /\ routed.filters = query.filters
      /\ routed.analysis = query.analysis /\ DOMAIN routed = QueryFields
    <2>1. \A s : LET r == [query EXCEPT !.rewritten = rewritten, !.strategy = s]
                 IN  /\ r.rewritten = rewritten /\ r.strategy = s
                     /\ r.original = query.original /\ r.normalized = query.normalized
                     /\ r.variants = query.variants /\ r.topK = query.topK
                     /\ r.candidateK = query.candidateK /\ r.filters = query.filters
                     /\ r.analysis = query.analysis /\ DOMAIN r = QueryFields
        BY <1>6 DEF QueryFields
    <2>2. QED
        BY <2>1
<1>. HIDE DEF routed
<1>8. IsQuery(routed)
    BY <1>1, <1>5, <1>7 DEF IsQuery
<1>9. QED
    BY <1>1, <1>2, <1>3, <1>4, <1>7, <1>8 DEF form

\* A search that fails leaves the run with what it had; a fault that is called
\* none has no hits.
LEMMA RetrieveKeepsMaterial ==
    ASSUME SimilarityIsNumber, RunInv, MaterialInv, Retrieve, UNCHANGED building
    PROVE  MaterialInv'
<1>. DEFINE form == NextForm
            routed == Routed(form)
<1>1. /\ phase = "search" /\ current' = form
      /\ UNCHANGED <<corpus, graph, config, query, library, budget, stage, processed>>
    BY DEF Retrieve, serving, asked, building
<1>2. /\ Listed(form) /\ IsQuery(routed) /\ routed.strategy \in Strategies
      /\ routed.filters = query.filters /\ routed.topK = query.topK
      /\ routed.analysis = query.analysis /\ routed.candidateK > 0
    BY <1>1, RoutedIsQuery
<1>3. PICK result \in SearchResults(routed) :
          \/ /\ result.error # "none" /\ Remember(form, result.error)
             /\ ToolFailed(result.error) /\ UNCHANGED <<found, evidence>>
          \/ result.error = "none" /\ Observe(routed, form, result.hits)
    BY DEF Retrieve
<1>. HIDE DEF form, routed
<1>4. /\ IsCorpus(corpus) /\ Listed(graph.relationships) /\ IsQuery(query)
      /\ query.candidateK > 0 /\ stage = "loaded" /\ stop = None
    BY <1>1 DEF MaterialInv, BuildIsCorpus, SearchIsOfQuestion, RunInv, WithinLimits
<1>5. BuildIsCorpus'
    BY <1>1, <1>4 DEF MaterialInv, BuildIsCorpus
<1>6. /\ Listed(evidence) /\ Len(evidence) <= MaxEvidence
      /\ \A i \in 1..Len(evidence) : evidence[i].chunk \in ToSet(corpus)
    BY DEF MaterialInv, ContextIsOfSearch
<1>7. ASSUME /\ phase' \in {"search", "answered"} /\ stop' # "answer_verified"
             /\ UNCHANGED <<found, evidence>>
      PROVE  MaterialInv'
    <2>1. SearchIsOfQuestion'
        BY <1>1, <1>2, <1>4, <1>7 DEF MaterialInv, SearchIsOfQuestion
    <2>2. ContextIsOfSearch'
        BY <1>1, <1>6, <1>7 DEF ContextIsOfSearch, InUse, Decided
    <2>3. QED
        BY <1>5, <2>1, <2>2 DEF MaterialInv
<1>8. CASE result.error # "none" /\ ToolFailed(result.error) /\ UNCHANGED <<found, evidence>>
    <2>1. phase' \in {"search", "answered"} /\ stop' # "answer_verified"
        BY <1>4, <1>8 DEF ToolFailed, TryAgain, Finish, BoundedStopReason, None
    <2>2. QED
        BY <1>7, <1>8, <2>1
<1>9. CASE result.error = "none" /\ Observe(routed, form, result.hits)
    <2>. DEFINE hits == result.hits
                context == BuildContext(routed, hits)
    <2>1. IsFinding(hits, corpus, routed, graph.relationships)
        <3>1. CASE \E scores \in ScoreSets : result = Search(corpus, graph, routed, scores)
            <4>1. PICK scores \in ScoreSets : result = Search(corpus, graph, routed, scores)
                BY <3>1
            <4>2. AreScores(scores)
                BY WorkflowAssumption DEF AreScores
            <4>3. QED
                BY <1>2, <1>4, <1>9, <4>1, <4>2, SearchIsFinding
        <3>2. CASE \E error \in RetrievalFaults : result = Failed(error)
            <4>1. hits = <<>>
                BY <3>2 DEF Failed
            <4>2. Listed(hits) /\ Len(hits) = 0 /\ routed.topK \in Nat
                BY <1>2, <4>1, EmptyIsListed DEF IsQuery
            <4>. HIDE DEF hits
            <4>3. AreHits(hits, corpus)
                BY <4>2 DEF AreHits
            <4>4. QED
                BY <4>2, <4>3 DEF IsFinding, IsAnswer, AreFound
        <3>3. QED
            BY <3>1, <3>2, WorkflowAssumption DEF SearchResults
    <2>2. AreHits(hits, corpus)
        BY <2>1 DEF IsFinding, IsAnswer
    <2>3. found' = <<[query |-> routed, hits |-> hits]>>
        BY <1>9 DEF Observe
    <2>4. found' # <<>> /\ found'[1].hits = hits /\ found'[1].query = routed
        BY <2>3
    <2>5. IsFinding(hits, corpus, query, graph.relationships)
        BY <1>2, <2>1 DEF IsFinding
    <2>6. phase' # "idle"
        BY <1>9 DEF Observe, Finish
    <2>7. SearchIsOfQuestion'
        BY <1>1, <1>2, <1>4, <2>4, <2>5, <2>6 DEF SearchIsOfQuestion
    <2>8. CASE context.error # "none"
        <3>1. phase' = "answered" /\ stop' # "answer_verified" /\ evidence' = evidence
            BY <1>9, <2>8 DEF Observe, Finish
        <3>2. ContextIsOfSearch'
            BY <1>1, <1>6, <3>1 DEF ContextIsOfSearch, InUse, Decided
        <3>3. QED
            BY <1>5, <2>7, <3>2 DEF MaterialInv
    <2>9. CASE context.error = "none"
        <3>. DEFINE items == context.evidence
        <3>1. evidence' = items /\ phase' = "grade" /\ stop' # "answer_verified"
            BY <1>4, <1>9, <2>9 DEF Observe, None
        <3>2. /\ Listed(items) /\ Len(items) <= MaxEvidence
              /\ \A i \in 1..Len(items) :
                    \E k \in 1..Len(hits) : items[i] = Candidate(routed, hits[k])
            BY <1>2, <1>4, <2>2, <2>9, ContextIsOfHits
        <3>. HIDE DEF context, hits
        <3>3. Listed(hits) /\ \A k \in 1..Len(hits) : IsHit(hits[k], corpus)
            BY <2>2 DEF AreHits
        <3>. HIDE DEF items
        <3>4. ASSUME NEW i \in 1..Len(items)
              PROVE  /\ items[i].chunk \in ToSet(corpus) /\ items[i].chunk \in Chunks(hits)
                     /\ IsWeighed(items[i], query)
            <4>1. PICK k \in 1..Len(hits) : items[i] = Candidate(routed, hits[k])
                BY <3>2
            <4>. DEFINE item == Candidate(routed, hits[k])
            <4>2. /\ item.chunk = hits[k].chunk
                  /\ item.document = DocumentMatch(hits[k].chunk, routed.analysis.documents)
                  /\ item.article = ArticleMatch(hits[k].chunk, routed.analysis.articles)
                  /\ item.applicability
                        = Applicability(hits[k].chunk, item.document, item.article)
                BY <1>2, <3>3, CandidateIs
            <4>3. hits[k].chunk \in ToSet(corpus) /\ hits[k].chunk \in Chunks(hits)
                BY <3>3 DEF IsHit, Chunks, Listed
            <4>. HIDE DEF item
            <4>4. QED
                BY <1>2, <4>1, <4>2, <4>3 DEF IsWeighed, item
        <3>5. ContextIsOfSearch'
            <4>1. found'[1].query.analysis = query.analysis
                BY <1>2, <2>4
            <4>2. /\ ~Decided' /\ query' = query /\ corpus' = corpus
                BY <1>1, <3>1 DEF Decided
            <4>3. \A i \in 1..Len(evidence') : /\ evidence'[i].chunk \in ToSet(corpus)
                                               /\ IsWeighed(evidence'[i], query')
                                               /\ evidence'[i].chunk \in Chunks(found'[1].hits)
                BY <2>4, <3>1, <3>4, <4>2
            <4>4. Listed(evidence') /\ Len(evidence') <= MaxEvidence
                BY <3>1, <3>2
            <4>5. QED
                BY <2>4, <4>1, <4>2, <4>3, <4>4 DEF ContextIsOfSearch
        <3>6. QED
            BY <1>5, <2>7, <3>5 DEF MaterialInv
    <2>10. QED
        BY <2>8, <2>9
<1>10. QED
    BY <1>3, <1>8, <1>9

\* Once the context is there, only its grade is new.
LEMMA AnsweringKeepsMaterial ==
    ASSUME RunInv, MaterialInv, UNCHANGED building,
           \/ Grade \/ GradeLate \/ CallModel \/ QuoteEvidence
           \/ AnswerLate \/ VerifyAnswer \/ Judge
    PROVE  MaterialInv'
<1>1. /\ UNCHANGED <<query, current, found, evidence, corpus, graph>>
      /\ UNCHANGED <<library, budget, stage, processed>>
    BY DEF building, Grade, GradeLate, CallModel, QuoteEvidence, AnswerLate, VerifyAnswer,
           Judge, serving, asked, searching
<1>2. phase \in {"grade", "generate", "verify"} /\ phase' # "idle"
    BY DEF Grade, GradeLate, CallModel, QuoteEvidence, AnswerLate, VerifyAnswer, Judge,
           TryAgain, Finish, Generated, Accept, Reject
<1>3. BuildIsCorpus'
    BY <1>1, <1>2 DEF MaterialInv, BuildIsCorpus
<1>4. SearchIsOfQuestion'
    BY <1>1, <1>2 DEF MaterialInv, SearchIsOfQuestion
<1>5. stop = None
    BY <1>2 DEF RunInv, WithinLimits
<1>6. Decided' => MissingAspects(found[1].query, evidence) = {}
    <2>1. CASE phase # "grade"
        BY <1>2, <2>1 DEF MaterialInv, ContextIsOfSearch, Decided
    <2>2. CASE phase = "grade" /\ GradeLate
        BY <2>2 DEF GradeLate, Finish, Decided
    <2>3. CASE phase = "grade" /\ Grade
        <3>. DEFINE aspects == MissingAspects(found[1].query, evidence)
        <3>1. missing' = <<aspects>>
            BY <2>3 DEF Grade
        <3>. HIDE DEF aspects
        <3>2. missing'[1] = aspects
            BY <3>1
        <3>3. CASE aspects = {}
            BY <3>3 DEF aspects
        <3>4. CASE aspects # {}
            <4>1. TryAgain
                BY <2>3, <3>2, <3>4 DEF Grade
            <4>2. phase' \in {"search", "answered"} /\ stop' # "answer_verified"
                BY <1>5, <4>1 DEF TryAgain, Finish, BoundedStopReason, None
            <4>3. QED
                BY <4>2 DEF Decided
        <3>5. QED
            BY <3>3, <3>4
    <2>4. phase = "grade" => Grade \/ GradeLate
        BY DEF CallModel, QuoteEvidence, AnswerLate, VerifyAnswer, Judge
    <2>5. QED
        BY <2>1, <2>2, <2>3, <2>4
<1>7. ContextIsOfSearch'
    <2>1. InUse
        BY <1>2 DEF InUse
    <2>2. QED
        BY <1>1, <1>6, <2>1 DEF MaterialInv, ContextIsOfSearch
<1>8. QED
    BY <1>3, <1>4, <1>7 DEF MaterialInv

ServiceInv == RunInv /\ MaterialInv

LEMMA StepKeepsMaterial ==
    ASSUME SimilarityIsNumber, ServiceInv, [Next]_vars PROVE MaterialInv'
<1>1. RunInv /\ MaterialInv
    BY DEF ServiceInv
<1>2. CASE ProcessDocument \/ BuildGraph \/ LoadRuntime \/ BuildAgain
    BY <1>1, <1>2, BuildingKeepsMaterial
<1>4. CASE Answer
    <2>1. stage = "loaded" /\ UNCHANGED building
        BY <1>4 DEF Answer
    <2>2. CASE \E question \in Questions : Ask(question)
        BY <1>1, <2>1, <2>2, QuestionBeginsMaterial
    <2>3. CASE Retrieve
        BY <1>1, <2>1, <2>3, RetrieveKeepsMaterial
    <2>4. CASE WorkflowStep /\ ~Retrieve
        BY <1>1, <2>1, <2>4, AnsweringKeepsMaterial DEF WorkflowStep
    <2>5. QED
        BY <1>4, <2>2, <2>3, <2>4 DEF Answer, WorkflowStep
<1>5. CASE UNCHANGED vars
    <2>1. /\ UNCHANGED <<corpus, graph, phase, query, current, found, evidence, stop>>
          /\ UNCHANGED <<library, budget, stage, processed>>
        BY <1>5 DEF vars, serving, asked, searching, answering, building
    <2>2. BuildIsCorpus' /\ SearchIsOfQuestion'
        BY <1>1, <2>1 DEF MaterialInv, BuildIsCorpus, SearchIsOfQuestion
    <2>3. ContextIsOfSearch'
        BY <1>1, <2>1 DEF MaterialInv, ContextIsOfSearch, InUse, Decided
    <2>4. QED
        BY <2>2, <2>3 DEF MaterialInv
<1>6. QED
    BY <1>2, <1>4, <1>5 DEF Next
--------------------------------------------------------------------------------
\* The invariant of a run holds throughout.
THEOREM RunIsOrderly == Spec => []RunInv
<1>1. QED
    BY RunBegins, StepKeepsRun, PTL DEF Spec

\* RunResultIsAligned holds: a result is verified exactly when it is no
\* abstention, names the strategy of the last attempt, and has a history of
\* ascending attempts by different strategies (agent_state.py:102, 127).
THEOREM ResultsAreAligned == Spec => []RunResultIsAligned
<1>1. ASSUME RunInv PROVE RunResultIsAligned
    <2>. SUFFICES ASSUME phase = "answered" PROVE RunResultIsAligned
        BY DEF RunResultIsAligned
    <2>1. /\ Listed(history) /\ attempt \in 1..Len(Routes(query)) /\ Len(history) = attempt
          /\ \A i \in 1..Len(history) : /\ history[i].attempt = i
                                        /\ history[i].strategy = Routes(query)[i]
        BY <1>1 DEF RunInv, HistoryFollowsRoutes
    <2>2. /\ response[1].strategy = Routes(query)[attempt]
          /\ (stop = "answer_verified") <=> ~response[1].insufficient
        BY <1>1 DEF RunInv, AnswerIsOfAttempt, Strategy
    <2>3. \A i, j \in 1..Len(Routes(query)) : i # j => Routes(query)[i] # Routes(query)[j]
        BY RoutesAreDistinct
    <2>4. Len(Routes(query)) \in Nat
        BY RoutesAreDistinct
    <2>. DEFINE routes == Routes(query)
    <2>. HIDE DEF routes
    <2>5. history # <<>> /\ DOMAIN history = 1..attempt /\ attempt \in 1..attempt
        BY <2>1 DEF Listed
    <2>6. response[1].strategy = history[Len(history)].strategy
        BY <2>1, <2>2, <2>5
    <2>7. \A i, j \in DOMAIN history : i < j => /\ history[i].attempt < history[j].attempt
                                                /\ history[i].strategy # history[j].strategy
        BY <2>1, <2>3, <2>4, <2>5
    <2>8. QED
        BY <2>2, <2>5, <2>6, <2>7 DEF RunResultIsAligned
<1>2. QED
    BY <1>1, RunIsOrderly, PTL
--------------------------------------------------------------------------------
(* What the service promises *)

\* OnlyTightBudgetsFail holds: whatever the lines of a document, the chunker's
\* own validation does not refuse what the chunker makes of the blocks the parser
\* makes of them, unless the search budget is too tight for the content label;
\* only relationships the graph does not take end a build otherwise
\* (structure_parser.py:233, legal_chunker.py:221, 229).
THEOREM OnlyTightBudgetsEndBuilds == Spec => []OnlyTightBudgetsFail
<1>1. BuildInv => OnlyTightBudgetsFail
    BY DEF BuildInv
<1>2. QED
    BY <1>1, BuildBegins, StepKeepsBuild, PTL DEF Spec

\* ChunksKnowTheirArticle holds for libraries in whose documents what is ignored
\* ends with its own end tag, untagged scripts are all code and markers are told
\* apart: then no piece, line, window or group a word passes through loses it,
\* and a chunk with the word names the article that governs its line
\* (passage_cleaner.py, html_cleaner.py, structure_parser.py, legal_chunker.py).
THEOREM ArticlesAreKnown ==
    ASSUME ClearLibraries
    PROVE  Spec => []ChunksKnowTheirArticle
<1>1. ASSUME BuildInv PROVE ChunksKnowTheirArticle
    <2>1. /\ library \in Libraries /\ IsCorpus(corpus)
          /\ processed \in 0..Len(library.documents)
          /\ \A n \in 1..processed : KnowArticles(corpus, library.documents[n])
        BY <1>1 DEF BuildInv, BuildIsCorpus, CorpusKnows
    <2>2. Len(library.documents) \in Nat /\ DOMAIN library.documents = 1..Len(library.documents)
        BY <2>1, ServiceAssumption DEF IsList
    <2>3. DOMAIN corpus = 1..Len(corpus)
        BY <2>1 DEF IsCorpus, Listed
    <2>4. ASSUME NEW n \in 1..processed
          PROVE  LET document == library.documents[n]  lines == CleanedLines(document)
                     chunks == {c \in ToSet(corpus) : c.doc = document.doc}
                 IN  /\ LegalTokens(document) \subseteq UNION {ToSet(c.text) : c \in chunks}
                     /\ \A i \in DOMAIN lines : \A t \in ToSet(lines[i].text) :
                           LET article == GoverningArticle(lines, i)
                           IN  \E c \in chunks : /\ t \in ToSet(c.text)
                                                 /\ article # None => c.article = article
        <3>. DEFINE document == library.documents[n]
                    lines == CleanedLines(document)
                    chunks == {c \in ToSet(corpus) : c.doc = document.doc}
        <3>1. n \in DOMAIN library.documents
            BY <2>1, <2>2
        <3>2. document \in ToSet(library.documents)
            BY <3>1 DEF ToSet
        <3>3. KnowArticles(corpus, document)
            BY <2>1
        <3>. HIDE DEF document
        <3>4. WellMarked(lines) /\ IsMarkedUp(document)
            BY <2>1, <3>2 DEF ClearLibraries, IsClear, IsMarkedUp
        <3>5. DOMAIN lines = 1..Len(lines)
            BY <2>1, <3>2, <1>1, DocumentsAreRead DEF BuildInv, BuildIsCorpus, AreLines, Listed
        <3>6. ASSUME NEW i \in DOMAIN lines, NEW t \in ToSet(lines[i].text)
              PROVE  \E c \in chunks : /\ t \in ToSet(c.text)
                                       /\ GoverningArticle(lines, i) # None =>
                                             c.article = GoverningArticle(lines, i)
            <4>1. t \in Range(lines[i].text)
                BY DEF ToSet, Range
            <4>2. PICK k \in 1..Len(corpus) :
                      corpus[k].doc = document.doc /\ Knows(corpus[k], lines, i, t)
                <5>. HIDE DEF chunks
                <5>1. QED
                    BY <3>3, <3>4, <3>5, <4>1 DEF KnowArticles
            <4>3. corpus[k] \in chunks
                BY <2>3, <4>2 DEF ToSet
            <4>4. t \in ToSet(corpus[k].text)
                BY <4>2 DEF Knows, ToSet, Range
            <4>5. QED
                BY <4>2, <4>3, <4>4 DEF Knows
        <3>7. ASSUME NEW t \in LegalTokens(document)
              PROVE  t \in UNION {ToSet(c.text) : c \in chunks}
            <4>1. KeepWords(document)
                BY <1>1, <2>1, <3>2, DocumentsAreRead DEF BuildInv, BuildIsCorpus
            <4>2. PICK i \in 1..Len(lines) : t \in Range(lines[i].text)
                BY <3>4, <4>1 DEF KeepWords
            <4>. HIDE DEF lines, chunks
            <4>3. i \in DOMAIN lines /\ t \in ToSet(lines[i].text)
                BY <3>5, <4>2 DEF ToSet, Range
            <4>4. QED
                BY <3>6, <4>3
        <3>8. QED
            BY <3>6, <3>7 DEF document, lines, chunks
    <2>5. QED
        BY <2>4 DEF ChunksKnowTheirArticle
<1>2. QED
    BY <1>1, BuildBegins, StepKeepsBuild, PTL DEF Spec

\* The runs and what they work with, throughout.
LEMMA ServiceIsOrderly ==
    ASSUME SimilarityIsNumber
    PROVE  Spec => []ServiceInv
<1>1. Init => ServiceInv
    BY RunBegins, MaterialBegins DEF ServiceInv
<1>2. ServiceInv /\ [Next]_vars => ServiceInv'
    BY StepKeepsRun, StepKeepsMaterial DEF ServiceInv
<1>3. QED
    BY <1>1, <1>2, PTL DEF Spec

\* TypeOK holds: the counters of a run stay within the retries and the budgets
\* of the configuration, and evidence is of the loaded corpus, at most
\* max_evidence of it (workflow.py:94, context_builder.py).
THEOREM TypesAreRespected ==
    ASSUME SimilarityIsNumber
    PROVE  Spec => []TypeOK
<1>1. ASSUME ServiceInv PROVE TypeOK
    <2>1. RunInv /\ MaterialInv
        BY <1>1 DEF ServiceInv
    <2>2. /\ stage \in {"documents", "built", "failed", "loaded"}
          /\ processed \in 0..Len(library.documents)
        BY <2>1 DEF MaterialInv, BuildIsCorpus
    <2>3. /\ phase \in Phases /\ stop \in StopReasons /\ config \in Configurations
          /\ gen.attempt \in 0..config.policy.structured
          /\ gen.retry \in 0..config.policy.modelRetries /\ judged \in 0..SemanticRetries
        BY <2>1 DEF RunInv, WithinLimits, Counted
    <2>4. /\ Listed(evidence) /\ Len(evidence) <= MaxEvidence
          /\ \A i \in 1..Len(evidence) : evidence[i].chunk \in ToSet(corpus)
        BY <2>1 DEF MaterialInv, ContextIsOfSearch
    <2>5. DOMAIN evidence = 1..Len(evidence)
        BY <2>4 DEF Listed
    <2>6. phase # "idle" => attempt \in 1..Len(Routes(query))
        BY <2>1 DEF RunInv, HistoryFollowsRoutes
    <2>7. Len(history) <= MaxRetry + 1
        <3>. DEFINE bound == Len(Routes(query))
        <3>1. bound \in 0..(MaxRetry + 1) /\ MaxRetry \in Nat
            BY RoutesAreDistinct, PlanningAssumption DEF AgentConfig
        <3>. HIDE DEF bound
        <3>2. CASE phase = "idle"
            <4>1. Len(history) = 0
                BY <2>1, <3>2, EmptyIsListed DEF RunInv, HistoryFollowsRoutes
            <4>2. QED
                BY <3>1, <4>1
        <3>3. CASE phase # "idle"
            <4>1. attempt \in 1..bound
                BY <2>6, <3>3 DEF bound
            <4>2. Len(history) = attempt - 1 \/ Len(history) = attempt
                BY <2>1, <3>3 DEF RunInv, HistoryFollowsRoutes
            <4>3. QED
                BY <3>1, <4>1, <4>2
        <3>4. QED
            BY <3>2, <3>3
    <2>8. QED
        BY <2>2, <2>3, <2>4, <2>5, <2>6, <2>7 DEF TypeOK
<1>2. QED
    BY <1>1, ServiceIsOrderly, PTL

\* Hits of different chunks have different chunk ids.
LEMMA HitsAreCounted ==
    ASSUME NEW C, IsCorpus(C), NEW hits, AreHits(hits, C)
    PROVE  Cardinality(ChunkIds(hits)) = Len(hits)
<1>. DEFINE f == [i \in 1..Len(hits) |-> hits[i].chunk.id]
            T == {f[i] : i \in 1..Len(hits)}
<1>1. Len(hits) \in Nat /\ DOMAIN hits = 1..Len(hits)
    BY DEF AreHits, Listed
<1>2. \A i \in 1..Len(hits) : hits[i].chunk \in ToSet(C)
    BY DEF AreHits, IsHit
<1>3. \A i, j \in 1..Len(hits) : i # j => f[i] # f[j]
    <2>1. ASSUME NEW i \in 1..Len(hits), NEW j \in 1..Len(hits), i # j
          PROVE  f[i] # f[j]
        <3>1. hits[i].chunk # hits[j].chunk
            BY <2>1 DEF AreHits
        <3>2. hits[i].chunk.id # hits[j].chunk.id
            BY <1>2, <3>1, CorpusIsDistinct
        <3>3. QED
            BY <3>2
    <2>2. QED
        BY <2>1
<1>4. ChunkIds(hits) = T
    BY <1>1 DEF ChunkIds
<1>5. f \in [1..Len(hits) -> T] /\ \A t \in T : \E i \in 1..Len(hits) : f[i] = t
    OBVIOUS
<1>. HIDE DEF f, T
<1>6. f \in Bijection(1..Len(hits), T)
    BY <1>3, <1>5 DEF Bijection, Injection, Surjection, IsInjective
<1>7. IsFiniteSet(1..Len(hits)) /\ Cardinality(1..Len(hits)) = Len(hits)
    BY <1>1, IntervalSize
<1>8. Cardinality(T) = Cardinality(1..Len(hits))
    BY <1>6, <1>7, FS_Bijection DEF ExistsBijection
<1>9. QED
    BY <1>4, <1>7, <1>8

\* HitsRespectTheQuestion holds: whatever strategy, variant, reranking or graph
\* expansion found them, the hits of a search are chunks of the loaded corpus,
\* each once and ranked by position, within the filters and the limit of the
\* question, and a related one has a path of relationships to its document
\* (retrieval/service.py, fusion.py, hybrid.py, graph.py).
THEOREM SearchesRespectTheQuestion ==
    ASSUME SimilarityIsNumber
    PROVE  Spec => []HitsRespectTheQuestion
<1>1. ASSUME ServiceInv PROVE HitsRespectTheQuestion
    <2>. SUFFICES ASSUME found # <<>> PROVE HitsRespectTheQuestion
        BY DEF HitsRespectTheQuestion
    <2>. DEFINE hits == found[1].hits
    <2>1. /\ IsFinding(hits, corpus, query, graph.relationships)
          /\ IsCorpus(corpus) /\ Listed(graph.relationships)
        BY <1>1 DEF ServiceInv, MaterialInv, SearchIsOfQuestion, BuildIsCorpus
    <2>. HIDE DEF hits
    <2>2. /\ AreHits(hits, corpus) /\ Len(hits) <= query.topK
          /\ \A i \in 1..Len(hits) : hits[i].rank = i /\ Passes(hits[i].chunk, query.filters)
        BY <2>1 DEF IsFinding, IsAnswer
    <2>3. \A i \in 1..Len(hits) : hits[i].path # <<>> =>
             IsTrail(hits[i].path, graph.relationships, hits[i].chunk.doc)
        BY <2>1 DEF IsFinding, AreFound
    <2>4. Cardinality(ChunkIds(hits)) = Len(hits)
        BY <2>1, <2>2, HitsAreCounted
    <2>5. DOMAIN hits = 1..Len(hits)
        BY <2>2 DEF AreHits, Listed
    <2>6. Chunks(hits) \subseteq ToSet(corpus)
        BY <2>2, <2>5 DEF Chunks, AreHits, IsHit
    <2>7. ASSUME NEW i \in 1..Len(hits), hits[i].path # <<>>
          PROVE  IsPath(hits[i].path, hits[i])
        <3>. DEFINE path == hits[i].path
        <3>1. IsTrail(path, graph.relationships, hits[i].chunk.doc) /\ path # <<>>
            BY <2>3, <2>7
        <3>. HIDE DEF path
        <3>2. ToSet(path) = Range(path) /\ ToSet(graph.relationships) = Range(graph.relationships)
            BY <2>1, <3>1, ListedIsFinite DEF IsTrail
        <3>3. Range(path) \subseteq Range(graph.relationships)
            BY <3>1 DEF IsTrail, Listed, Range
        <3>4. QED
            BY <3>1, <3>2, <3>3 DEF IsTrail, IsPath, path
    <2>8. QED
        BY <2>2, <2>4, <2>5, <2>6, <2>7 DEF HitsRespectTheQuestion, hits
<1>2. QED
    BY <1>1, ServiceIsOrderly, PTL

\* What a sufficient context lacks nothing of.
LEMMA SufficientLacksNothing ==
    ASSUME NEW q, NEW items, MissingAspects(q, items) = {}
    PROVE  /\ ~(Len(items) < MinEvidence)
           /\ ~(Cardinality({e.chunk.id : e \in ToSet(items)}) < Len(items))
           /\ ToSet(items) # {} => \E e \in ToSet(items) : ~Rejects(e)
<1>. DEFINE few == Len(items) < MinEvidence
            doubled == Cardinality({e.chunk.id : e \in ToSet(items)}) < Len(items)
            rejected == ToSet(items) # {} /\ \A e \in ToSet(items) : Rejects(e)
            nonumber == RequireNumber /\ \E e \in ToSet(items) : e.chunk.number = None
            noarticle == RequireArticle /\ \E e \in ToSet(items) : e.chunk.article = None
            nodocument == /\ q.analysis.documents # {}
                          /\ \A e \in ToSet(items) : e.document # "yes"
            noreference == /\ q.analysis.articles # {}
                           /\ \A e \in ToSet(items) : e.article # "yes"
            lacking == [minimum_evidence_count |-> few, document_number |-> nonumber,
                        article_number |-> noarticle, unique_evidence_identity |-> doubled,
                        document_reference_match |-> nodocument,
                        article_reference_match |-> noreference,
                        applicable_evidence |-> rejected]
<1>1. MissingAspects(q, items) = {aspect \in DOMAIN lacking : lacking[aspect]}
    BY DEF MissingAspects
<1>. HIDE DEF few, doubled, rejected, nonumber, noarticle, nodocument, noreference
<1>2. /\ "minimum_evidence_count" \in DOMAIN lacking
      /\ "unique_evidence_identity" \in DOMAIN lacking
      /\ "applicable_evidence" \in DOMAIN lacking
    OBVIOUS
<1>3. /\ lacking["minimum_evidence_count"] = few
      /\ lacking["unique_evidence_identity"] = doubled
      /\ lacking["applicable_evidence"] = rejected
    OBVIOUS
<1>. HIDE DEF lacking
<1>4. ~few /\ ~doubled /\ ~rejected
    BY <1>1, <1>2, <1>3, Zenon
<1>5. QED
    BY <1>4 DEF few, doubled, rejected

\* SufficientContextIsApplicable holds: an answer is generated only from a
\* context with a piece of evidence that is in force and of the document and
\* the article the question names (context_grader.py:23, evidence_selector.py:150).
THEOREM ContextsAreApplicable ==
    ASSUME SimilarityIsNumber
    PROVE  Spec => []SufficientContextIsApplicable
<1>1. ASSUME ServiceInv PROVE SufficientContextIsApplicable
    <2>. SUFFICES ASSUME Decided PROVE SufficientContextIsApplicable
        BY DEF SufficientContextIsApplicable, Decided
    <2>. DEFINE documents == query.analysis.documents
                articles == query.analysis.articles
    <2>1. /\ Listed(evidence) /\ MissingAspects(found[1].query, evidence) = {}
          /\ \A i \in 1..Len(evidence) : IsWeighed(evidence[i], query)
        BY <1>1 DEF ServiceInv, MaterialInv, ContextIsOfSearch, InUse, Decided
    <2>2. Len(evidence) \in Nat /\ DOMAIN evidence = 1..Len(evidence)
        BY <2>1 DEF Listed
    <2>3. MinEvidence \in 1..100
        BY EvidenceAssumption DEF ContextGradingConfig
    <2>4. 1 \in DOMAIN evidence
        <3>1. ~(Len(evidence) < MinEvidence)
            BY <2>1, SufficientLacksNothing
        <3>2. QED
            BY <2>2, <2>3, <3>1
    <2>5. ToSet(evidence) # {}
        BY <2>4 DEF ToSet
    <2>6. PICK e \in ToSet(evidence) : ~Rejects(e)
        BY <2>1, <2>5, SufficientLacksNothing
    <2>7. PICK i \in DOMAIN evidence : evidence[i] = e
        BY <2>6 DEF ToSet
    <2>. DEFINE chunk == evidence[i].chunk
                document == DocumentMatch(chunk, documents)
                article == ArticleMatch(chunk, articles)
    <2>8. Applicability(chunk, document, article) \notin {"inactive", "reference_mismatch"}
        BY <2>1, <2>2, <2>6, <2>7 DEF IsWeighed, Rejects
    <2>9. ~Inactive(chunk) /\ document # "no" /\ article # "no"
        <3>. HIDE DEF document, article, chunk
        <3>1. QED
            BY <2>8 DEF Applicability
    <2>10. chunk.status \notin InactiveStatuses
        BY <2>9 DEF Inactive
    <2>11. articles # {} => chunk.article \in articles
        BY <2>9 DEF ArticleMatch
    <2>12. documents # {} => chunk.number \in documents \/ chunk.title \in documents
        BY <2>9 DEF DocumentMatch
    <2>13. QED
        BY <2>10, <2>11, <2>12 DEF SufficientContextIsApplicable
<1>2. QED
    BY <1>1, ServiceIsOrderly, PTL

\* A quotation of the first evidence verifies, when the evidence has chunks of
\* different ids.
LEMMA QuotationVerifies ==
    ASSUME NEW items, Listed(items), NEW strategy,
           ~(Cardinality({e.chunk.id : e \in ToSet(items)}) < Len(items)),
           NEW n \in 1..Len(items)
    PROVE  Verifies(Quotation(items, n, strategy), items)
<1>. DEFINE answer == Quotation(items, n, strategy)
            sentences == [i \in 1..n |-> Sentence(items[i].chunk.text, <<i>>)]
            cites == [i \in 1..n |-> Citation(items, i)]
            chunks == {items[i].chunk.id : i \in DOMAIN items}
<1>1. /\ Len(items) \in Nat /\ DOMAIN items = 1..Len(items)
    BY DEF Listed
<1>2. answer = [answer |-> sentences, citations |-> cites, insufficient |-> FALSE,
                strategy |-> strategy, synthesis |-> FALSE]
    BY DEF Quotation, Response
<1>3. DOMAIN cites = 1..n /\ n \in 1..n
    BY <1>1
<1>4. \A i \in 1..n : cites[i].id = i /\ cites[i].chunk = items[i].chunk
    BY DEF Citation
<1>. HIDE DEF answer, sentences, cites
<1>5. /\ answer.citations = cites /\ answer.synthesis = FALSE /\ answer.insufficient = FALSE
    BY <1>2
<1>6. cites # <<>>
    BY <1>3
<1>7. CheckedClaims(answer, items) = <<>> /\ ClaimErrors(answer, <<>>) = {}
    BY <1>5 DEF CheckedClaims, ClaimErrors
<1>8. ~(Cardinality(chunks) < Len(items))
    <2>1. chunks = {e.chunk.id : e \in ToSet(items)}
        BY DEF ToSet
    <2>2. QED
        BY <2>1
<1>9. CitationErrors(answer, items) = {}
    <2>. DEFINE doubled == Cardinality(chunks) < Len(items)
                noise == answer.insufficient /\ answer.citations # <<>>
                uncited == ~answer.insufficient /\ answer.citations = <<>>
                invalid == \E i \in DOMAIN answer.citations :
                              LET c == answer.citations[i]
                              IN  c.id \notin DOMAIN items \/ items[c.id].chunk # c.chunk
                wrong == [duplicate_evidence_chunk_id |-> doubled,
                          abstention_must_not_include_citations |-> noise,
                          grounded_answer_requires_citation |-> uncited,
                          invalid_citation |-> invalid]
    <2>1. CitationErrors(answer, items) = {e \in DOMAIN wrong : wrong[e]}
        BY DEF CitationErrors
    <2>2. ~noise /\ ~uncited /\ ~doubled
        BY <1>5, <1>6, <1>8
    <2>3. ~invalid
        BY <1>1, <1>3, <1>4, <1>5
    <2>. HIDE DEF doubled, noise, uncited, invalid
    <2>4. \A e \in DOMAIN wrong : ~wrong[e]
        BY <2>2, <2>3
    <2>. HIDE DEF wrong
    <2>5. QED
        BY <2>1, <2>4
<1>10. Verify(answer, items).errors = {}
    <2>. DEFINE claims == CheckedClaims(answer, items)
    <2>1. Verify(answer, items) = [claims |-> claims,
              errors |-> CitationErrors(answer, items) \cup ClaimErrors(answer, claims)]
        BY DEF Verify, Verification
    <2>2. claims = <<>>
        BY <1>7
    <2>. HIDE DEF claims
    <2>3. QED
        BY <1>7, <1>9, <2>1, <2>2
<1>11. Verifies(answer, items)
    BY <1>10 DEF Verifies, IsValid
<1>12. QED
    BY <1>11 DEF answer

\* RecoveredAnswerVerifies holds: with the strongest recovery everything the
\* generator returns is accepted by the verifier, for a sufficient context can
\* be quoted (model_generator.py:341, citation_verifier.py).
THEOREM RecoveryIsNeverInVain ==
    ASSUME SimilarityIsNumber
    PROVE  Spec => []RecoveredAnswerVerifies
<1>1. ASSUME ServiceInv PROVE RecoveredAnswerVerifies
    <2>. SUFFICES ASSUME phase = "verify", AnswersByModel, Strongest(config.policy)
                  PROVE  IsValid(Verify(response[1], evidence))
        BY DEF RecoveredAnswerVerifies, Strongest
    <2>1. Listed(evidence) /\ MissingAspects(found[1].query, evidence) = {}
        BY <1>1 DEF ServiceInv, MaterialInv, ContextIsOfSearch, Decided
    <2>2. /\ ~(Len(evidence) < MinEvidence)
          /\ ~(Cardinality({e.chunk.id : e \in ToSet(evidence)}) < Len(evidence))
        BY <2>1, SufficientLacksNothing
    <2>3. Len(evidence) \in Nat /\ MinEvidence \in 1..100
        BY <2>1, EvidenceAssumption DEF ContextGradingConfig, Listed
    <2>4. Len(evidence) \in Nat \ {0}
        BY <2>2, <2>3
    <2>5. \A n \in 1..Len(evidence) : Verifies(Quotation(evidence, n, Strategy), evidence)
        BY <2>1, <2>2, QuotationVerifies
    <2>6. Recovers(evidence, Strategy)
        BY <2>4, <2>5 DEF Quotable, Recovers
    <2>7. Verifies(response[1], evidence)
        BY <1>1, <2>6 DEF ServiceInv, RunInv, AnswerIsOfAttempt
    <2>8. QED
        BY <2>7 DEF Verifies
<1>2. QED
    BY <1>1, ServiceIsOrderly, PTL

\* What the verifier has accepted cites evidence.
LEMMA VerifiedCites ==
    ASSUME NEW answer, NEW items, ~answer.insufficient, Verifies(answer, items)
    PROVE  /\ answer.citations # <<>>
           /\ \A i \in DOMAIN answer.citations :
                 /\ answer.citations[i].id \in DOMAIN items
                 /\ answer.citations[i].chunk = items[answer.citations[i].id].chunk
           /\ ClaimErrors(answer, CheckedClaims(answer, items)) = {}
<1>. DEFINE chunks == {items[i].chunk.id : i \in DOMAIN items}
            doubled == Cardinality(chunks) < Len(items)
            noise == answer.insufficient /\ answer.citations # <<>>
            uncited == ~answer.insufficient /\ answer.citations = <<>>
            invalid == \E i \in DOMAIN answer.citations :
                          LET c == answer.citations[i]
                          IN  c.id \notin DOMAIN items \/ items[c.id].chunk # c.chunk
            wrong == [duplicate_evidence_chunk_id |-> doubled,
                      abstention_must_not_include_citations |-> noise,
                      grounded_answer_requires_citation |-> uncited,
                      invalid_citation |-> invalid]
            claims == CheckedClaims(answer, items)
<1>1. CitationErrors(answer, items) = {e \in DOMAIN wrong : wrong[e]}
    BY DEF CitationErrors
<1>2. Verify(answer, items) = [claims |-> claims,
          errors |-> CitationErrors(answer, items) \cup ClaimErrors(answer, claims)]
    BY DEF Verify, Verification
<1>. HIDE DEF claims
<1>3. Verify(answer, items).errors = {}
    BY DEF Verifies, IsValid
<1>4. CitationErrors(answer, items) = {} /\ ClaimErrors(answer, claims) = {}
    BY <1>2, <1>3
<1>5. ~uncited /\ ~invalid
    <2>. HIDE DEF doubled, noise, uncited, invalid
    <2>1. /\ "grounded_answer_requires_citation" \in DOMAIN wrong
          /\ "invalid_citation" \in DOMAIN wrong
          /\ wrong["grounded_answer_requires_citation"] = uncited
          /\ wrong["invalid_citation"] = invalid
        OBVIOUS
    <2>. HIDE DEF wrong
    <2>2. QED
        BY <1>1, <1>4, <2>1, Zenon
<1>6. QED
    BY <1>4, <1>5 DEF claims

\* What a supported claim says is in the evidence it may name.
LEMMA SupportedIsKnown ==
    ASSUME NEW claim, NEW items, NEW cited, IsSupported(VerifyClaim(claim, items, cited)),
           RequireNumbers, RequireNegation, claim.text # NoText
    PROVE  LET known == UNION {ChunkTerms(items[i].chunk) : i \in cited \cap DOMAIN items}
               said == ToSet(claim.text)
           IN  /\ Numbers(said) \subseteq Numbers(known)
               /\ Negations(said) \subseteq Negations(known)
<1>. DEFINE ids == IF claim.markers # <<>> \/ RequireInline THEN Unique(claim.markers)
                   ELSE Sorted(cited, LAMBDA a, b : a < b)
            linked == ToSet(ids) \cap cited \cap DOMAIN items
            said == ToSet(VisibleText(claim.text))
            terms == ContentTerms(said)
            narrow == UNION {ChunkTerms(items[i].chunk) : i \in linked}
            known == UNION {ChunkTerms(items[i].chunk) : i \in cited \cap DOMAIN items}
            inline == RequireInline /\ ids = <<>>
            unknown == ~(ToSet(ids) \subseteq DOMAIN items)
            uncited == ~(ToSet(ids) \subseteq cited)
            short == Cardinality(terms) < MinClaimTokens
            lexical == /\ linked # {}
                       /\ \/ terms = {} /\ MinSupportPercent > 0
                          \/ 100 * Cardinality(terms \cap ContentTerms(narrow))
                                < MinSupportPercent * Cardinality(terms)
            unlinked == linked = {}
            numeric == RequireNumbers /\ ~(Numbers(said) \subseteq Numbers(narrow))
            negation == RequireNegation /\ ~(Negations(said) \subseteq Negations(narrow))
            wrong == [missing_inline_evidence |-> inline, unknown_evidence_marker |-> unknown,
                      answer_marker_missing_citation |-> uncited, claim_too_short |-> short,
                      insufficient_lexical_support |-> lexical, no_linked_evidence |-> unlinked,
                      numeric_mismatch |-> numeric, negation_mismatch |-> negation]
<1>1. VerifyClaim(claim, items, cited).errors = {e \in DOMAIN wrong : wrong[e]}
    BY DEF VerifyClaim
<1>2. VerifyClaim(claim, items, cited).errors = {}
    BY DEF IsSupported
<1>3. said = ToSet(claim.text)
    BY DEF VisibleText
<1>4. narrow \subseteq known
    OBVIOUS
<1>5. ~numeric /\ ~negation
    <2>. HIDE DEF inline, unknown, uncited, short, lexical, unlinked, numeric, negation
    <2>1. /\ "numeric_mismatch" \in DOMAIN wrong /\ "negation_mismatch" \in DOMAIN wrong
          /\ wrong["numeric_mismatch"] = numeric /\ wrong["negation_mismatch"] = negation
        OBVIOUS
    <2>. HIDE DEF wrong
    <2>2. QED
        BY <1>1, <1>2, <2>1, Zenon
<1>. HIDE DEF narrow, known, said
<1>6. Numbers(said) \subseteq Numbers(narrow) /\ Negations(said) \subseteq Negations(narrow)
    BY <1>5
<1>7. Numbers(narrow) \subseteq Numbers(known) /\ Negations(narrow) \subseteq Negations(known)
    BY <1>4 DEF Numbers, Negations
<1>8. QED
    BY <1>3, <1>6, <1>7 DEF known

\* A value kept is found among those kept.
LEMMA AtReaches ==
    ASSUME NEW values, Listed(values), NEW P, P \subseteq DOMAIN values
    PROVE  \A i \in P : \E k \in DOMAIN At(values, P) : At(values, P)[k] = values[i]
<1>1. \A i \in P : values[i] \in Range(values)
    BY DEF Range
<1>2. P \in SUBSET DOMAIN values
    OBVIOUS
<1>3. QED
    BY <1>1, <1>2, AtKeeps

\* Every sentence with a text is a claim.
LEMMA SentenceIsClaim ==
    ASSUME NEW answer, Listed(answer), NEW i \in DOMAIN answer, answer[i].text # NoText
    PROVE  \E k \in DOMAIN Claims(answer) : Claims(answer)[k].text = answer[i].text
<1>. DEFINE begins == {j \in DOMAIN answer : j = 1 \/ answer[j].text # NoText}
            markers(j, l) == Flat([k \in 1..(l - j) |-> answer[j + k - 1].markers])
            next(j) == CHOOSE l \in (begins \cup {Len(answer) + 1}) \ (1..j) :
                          \A k \in begins : k <= j \/ l <= k
            sentences == [j \in DOMAIN answer |->
                             Sentence(answer[j].text, markers(j, next(j)))]
            claims == At(sentences, begins)
<1>1. Claims(answer) = claims
    BY DEF Claims
<1>2. begins \subseteq DOMAIN sentences /\ i \in begins
    OBVIOUS
<1>3. sentences = [j \in DOMAIN answer |-> sentences[j]]
    OBVIOUS
<1>4. sentences[i].text = answer[i].text
    BY DEF Sentence
<1>. HIDE DEF sentences, begins
<1>5. Listed(sentences)
    <2>1. sentences = [j \in 1..Len(answer) |-> sentences[j]] /\ Len(answer) \in Nat
        BY <1>3 DEF Listed
    <2>2. QED
        BY <2>1, ListedIs
<1>6. \A j \in begins : sentences[j] \in Range(sentences)
    BY <1>2 DEF Range
<1>7. \A j \in begins : \E k \in DOMAIN claims : claims[k] = sentences[j]
    <2>1. begins \subseteq DOMAIN sentences
        BY <1>2
    <2>2. \A j \in begins :
             \E k \in DOMAIN At(sentences, begins) : At(sentences, begins)[k] = sentences[j]
        BY <1>5, <2>1, AtReaches
    <2>3. QED
        BY <2>2
<1>8. PICK k \in DOMAIN claims : claims[k] = sentences[i]
    BY <1>2, <1>7
<1>. HIDE DEF claims
<1>9. QED
    BY <1>1, <1>4, <1>8

\* What a verified synthesis says is in the chunks it cites.
LEMMA SynthesisIsGrounded ==
    ASSUME ClaimsEnabled, RequireNumbers, RequireNegation,
           NEW answer, NEW items, ~answer.insufficient, answer.synthesis,
           Listed(answer.answer), Verifies(answer, items),
           NEW i \in DOMAIN answer.answer
    PROVE  LET said == ToSet(answer.answer[i].text)
               known == UNION {ChunkTerms(c) : c \in Chunks(answer.citations)}
           IN  /\ Numbers(said) \subseteq Numbers(known)
               /\ Negations(said) \subseteq Negations(known)
<1>. DEFINE text == answer.answer[i].text
            said == ToSet(text)
            known == UNION {ChunkTerms(c) : c \in Chunks(answer.citations)}
            claims == Claims(answer.answer)
            cited == CitedIds(answer)
            checked == CheckedClaims(answer, items)
<1>1. CASE text = NoText
    <2>1. said = {}
        BY <1>1 DEF ToSet, NoText
    <2>2. Numbers(said) = {} /\ Negations(said) = {}
        BY <2>1 DEF Numbers, Negations
    <2>3. QED
        BY <2>2
<1>2. CASE text # NoText
    <2>1. PICK k \in DOMAIN claims : claims[k].text = text
        BY <1>2, SentenceIsClaim
    <2>2. Listed(claims)
        BY ClaimsAreListed
    <2>3. MaxClaims \in Nat
        <3>1. MaxClaims \in 1..100
            BY GroundingAssumption DEF ClaimVerificationConfig
        <3>2. QED
            BY <3>1
    <2>4. ClaimErrors(answer, checked) = {}
        BY VerifiedCites
    <2>5. ~TooMany(answer.answer) /\ \A j \in DOMAIN checked : IsSupported(checked[j])
        <3>. DEFINE uses == UNION {ToSet(checked[j].ids) : j \in DOMAIN checked}
                    exceeded == TooMany(answer.answer)
                    empty == checked = <<>>
                    unsupported == \E j \in DOMAIN checked : ~IsSupported(checked[j])
                    unused == ~(CitedIds(answer) \subseteq uses)
                    wrong == [claim_count_exceeded |-> exceeded,
                              grounded_answer_has_no_claims |-> empty,
                              unsupported_claim |-> unsupported,
                              citation_not_used_in_answer |-> unused]
        <3>1. ClaimErrors(answer, checked) = {e \in DOMAIN wrong : wrong[e]}
            BY DEF ClaimErrors
        <3>2. ~exceeded /\ ~unsupported
            <4>. HIDE DEF exceeded, empty, unsupported, unused
            <4>1. /\ "claim_count_exceeded" \in DOMAIN wrong
                  /\ "unsupported_claim" \in DOMAIN wrong
                  /\ wrong["claim_count_exceeded"] = exceeded
                  /\ wrong["unsupported_claim"] = unsupported
                OBVIOUS
            <4>. HIDE DEF wrong, checked
            <4>2. QED
                BY <2>4, <3>1, <4>1, Zenon
        <3>3. QED
            BY <3>2
    <2>6. Len(claims) <= MaxClaims
        BY <2>2, <2>3, <2>5 DEF TooMany, Listed
    <2>7. checked = [j \in DOMAIN Prefix(claims, MaxClaims) |->
                        VerifyClaim(Prefix(claims, MaxClaims)[j], items, cited)]
        BY DEF CheckedClaims
    <2>. HIDE DEF claims, checked, text
    <2>8. k \in DOMAIN Prefix(claims, MaxClaims) /\ Prefix(claims, MaxClaims)[k] = claims[k]
        <3>1. claims \in Seq(Range(claims)) /\ Len(claims) \in Nat /\ k \in 1..Len(claims)
            BY <2>1, <2>2 DEF Listed
        <3>2. /\ Len(Prefix(claims, MaxClaims))
                    = IF MaxClaims < Len(claims) THEN MaxClaims ELSE Len(claims)
              /\ Listed(Prefix(claims, MaxClaims))
              /\ \A j \in DOMAIN Prefix(claims, MaxClaims) :
                    Prefix(claims, MaxClaims)[j] = claims[j]
            BY <2>3, <3>1, PrefixIs
        <3>3. QED
            BY <2>3, <2>6, <3>1, <3>2 DEF Listed
    <2>9. IsSupported(VerifyClaim(claims[k], items, cited))
        BY <2>5, <2>7, <2>8
    <2>. DEFINE near == UNION {ChunkTerms(items[j].chunk) : j \in cited \cap DOMAIN items}
    <2>10. Numbers(said) \subseteq Numbers(near) /\ Negations(said) \subseteq Negations(near)
        BY <1>2, <2>1, <2>9, SupportedIsKnown
    <2>11. near \subseteq known
        <3>1. ASSUME NEW j \in cited \cap DOMAIN items
              PROVE  items[j].chunk \in Chunks(answer.citations)
            <4>1. PICK l \in DOMAIN answer.citations : answer.citations[l].id = j
                BY DEF CitedIds
            <4>2. answer.citations[l].chunk = items[j].chunk
                BY <4>1, VerifiedCites
            <4>3. QED
                BY <4>2 DEF Chunks
        <3>2. QED
            BY <3>1
    <2>. HIDE DEF near, known, said
    <2>12. Numbers(near) \subseteq Numbers(known) /\ Negations(near) \subseteq Negations(known)
        BY <2>11 DEF Numbers, Negations
    <2>13. QED
        BY <2>10, <2>12 DEF said, known, text
<1>3. QED
    BY <1>1, <1>2

\* What a quotation says is in the chunks it cites.
LEMMA QuotationIsGrounded ==
    ASSUME NEW items, NEW n, NEW strategy,
           NEW i \in DOMAIN Quotation(items, n, strategy).answer
    PROVE  LET answer == Quotation(items, n, strategy)
               said == ToSet(answer.answer[i].text)
               known == UNION {ChunkTerms(c) : c \in Chunks(answer.citations)}
           IN  /\ Numbers(said) \subseteq Numbers(known)
               /\ Negations(said) \subseteq Negations(known)
<1>. DEFINE answer == Quotation(items, n, strategy)
            sentences == [j \in 1..n |-> Sentence(items[j].chunk.text, <<j>>)]
            cites == [j \in 1..n |-> Citation(items, j)]
            said == ToSet(answer.answer[i].text)
            known == UNION {ChunkTerms(c) : c \in Chunks(answer.citations)}
<1>1. answer.answer = sentences /\ answer.citations = cites
    BY DEF Quotation, Response
<1>2. i \in 1..n /\ sentences[i].text = items[i].chunk.text /\ cites[i].chunk = items[i].chunk
    BY <1>1 DEF Sentence, Citation
<1>3. i \in DOMAIN cites
    BY <1>2
<1>. HIDE DEF answer, sentences, cites
<1>4. items[i].chunk \in Chunks(answer.citations)
    BY <1>1, <1>2, <1>3 DEF Chunks
<1>5. said = ToSet(items[i].chunk.text)
    BY <1>1, <1>2
<1>6. said \subseteq ChunkTerms(items[i].chunk)
    BY <1>5 DEF ChunkTerms
<1>7. said \subseteq known
    BY <1>4, <1>6
<1>. HIDE DEF said, known
<1>8. Numbers(said) \subseteq Numbers(known) /\ Negations(said) \subseteq Negations(known)
    BY <1>7 DEF Numbers, Negations
<1>9. QED
    BY <1>8 DEF said, known, answer

\* VerifiedAnswerIsGrounded holds with claim verification as configured by
\* default: an answer that leaves as verified cites chunks of the last search,
\* and every number and negation of each of its sentences is in a chunk it
\* cites (model_generator.py:188, claim_grounding.py:123).
THEOREM VerifiedAnswersAreGrounded ==
    ASSUME SimilarityIsNumber, ClaimsEnabled, RequireNumbers, RequireNegation
    PROVE  Spec => []VerifiedAnswerIsGrounded
<1>1. ASSUME ServiceInv PROVE VerifiedAnswerIsGrounded
    <2>. SUFFICES ASSUME stop = "answer_verified" PROVE VerifiedAnswerIsGrounded
        BY DEF VerifiedAnswerIsGrounded
    <2>. DEFINE result == response[1]
                cites == result.citations
                cited == {cites[i].chunk : i \in DOMAIN cites}
                known == UNION {ChunkTerms(c) : c \in cited}
    <2>1. /\ phase = "answered" /\ IsMaterial(result, evidence) /\ Verifies(result, evidence)
          /\ ~result.insufficient
        BY <1>1 DEF ServiceInv, RunInv, WithinLimits, AnswerIsOfAttempt, None
    <2>2. /\ Listed(evidence)
          /\ \A i \in 1..Len(evidence) : evidence[i].chunk \in Chunks(found[1].hits)
        BY <1>1 DEF ServiceInv, MaterialInv, ContextIsOfSearch, InUse
    <2>. HIDE DEF result
    <2>3. /\ cites # <<>>
          /\ \A i \in DOMAIN cites : /\ cites[i].id \in DOMAIN evidence
                                     /\ cites[i].chunk = evidence[cites[i].id].chunk
        BY <2>1, VerifiedCites
    <2>4. cited \subseteq Chunks(found[1].hits)
        BY <2>2, <2>3 DEF Listed
    <2>5. cites = [i \in DOMAIN cites |-> cites[i]]
        <3>1. CASE cites = [i \in DOMAIN cites |-> cites[i]]
            BY <3>1
        <3>2. CASE \E n : result = Quotation(evidence, n, result.strategy)
            <4>1. PICK n : result = Quotation(evidence, n, result.strategy)
                BY <3>2
            <4>2. cites = [i \in 1..n |-> Citation(evidence, i)]
                BY <4>1 DEF Quotation, Response
            <4>. HIDE DEF cites
            <4>3. QED
                BY <4>2
        <3>3. QED
            BY <2>1, <3>1, <3>2 DEF IsMaterial
    <2>6. cited # {}
        <3>. HIDE DEF cites
        <3>1. ASSUME DOMAIN cites = {} PROVE FALSE
            <4>1. <<>> \in [1..0 -> {}] /\ 1..0 = {}
                OBVIOUS
            <4>2. <<>> = [i \in {} |-> cites[i]]
                BY <4>1
            <4>3. QED
                BY <2>3, <2>5, <3>1, <4>2
        <3>2. QED
            BY <3>1
    <2>7. cited = Chunks(cites)
        BY DEF Chunks
    <2>8. ASSUME NEW i \in DOMAIN result.answer
          PROVE  LET said == ToSet(result.answer[i].text)
                 IN  /\ Numbers(said) \subseteq Numbers(known)
                     /\ Negations(said) \subseteq Negations(known)
        <3>1. CASE result.synthesis /\ Listed(result.answer)
            BY <2>1, <2>7, <2>8, <3>1, SynthesisIsGrounded
        <3>2. CASE \E n : result = Quotation(evidence, n, result.strategy)
            <4>1. PICK n : result = Quotation(evidence, n, result.strategy)
                BY <3>2
            <4>2. i \in DOMAIN Quotation(evidence, n, result.strategy).answer
                BY <2>8, <4>1
            <4>. DEFINE answer == Quotation(evidence, n, result.strategy)
            <4>3. LET said == ToSet(answer.answer[i].text)
                      all == UNION {ChunkTerms(c) : c \in Chunks(answer.citations)}
                  IN  /\ Numbers(said) \subseteq Numbers(all)
                      /\ Negations(said) \subseteq Negations(all)
                BY <4>2, QuotationIsGrounded
            <4>. HIDE DEF answer
            <4>4. result = answer
                BY <4>1 DEF answer
            <4>5. QED
                BY <2>7, <4>3, <4>4
        <3>3. QED
            BY <2>1, <3>1, <3>2 DEF IsMaterial
    <2>9. QED
        BY <2>4, <2>6, <2>8 DEF VerifiedAnswerIsGrounded, result
<1>2. QED
    BY <1>1, ServiceIsOrderly, PTL
================================================================================
