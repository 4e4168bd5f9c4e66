-------------------------------- MODULE Grounding ------------------------------
(* What makes an answer acceptable: generation/claim_grounding.py and          *)
(* citation_verifier.py.  An answer is the sequence of its sentences, a         *)
(* sentence a record with its text and the evidence ids of its markers [E1].   *)
EXTENDS EvidenceSelection

CONSTANTS           \* ClaimVerificationConfig
    ClaimsEnabled, RequireInline, MinSupportPercent, MinClaimTokens,
    RequireNumbers, RequireNegation, MaxClaims

ClaimVerificationConfig ==
    /\ {ClaimsEnabled, RequireInline, RequireNumbers, RequireNegation} \subseteq BOOLEAN
    /\ MinSupportPercent \in 0..100 /\ {MinClaimTokens, MaxClaims} \subseteq 1..100

ASSUME GroundingAssumption == ClaimVerificationConfig

Sentence(text, markers) == [text |-> text, markers |-> markers]

\* A response; a response that synthesises nothing quotes its evidence.
Response(answer, citations, strategy, synthesis) ==
    [answer |-> answer, citations |-> citations, insufficient |-> FALSE,
     strategy |-> strategy, synthesis |-> synthesis]

Abstention(strategy) ==
    [answer |-> <<>>, citations |-> <<>>, insufficient |-> TRUE,
     strategy |-> strategy, synthesis |-> TRUE]

Citation(evidence, id) == [id |-> id, chunk |-> evidence[id].chunk]
CitedIds(response) == {response.citations[i].id : i \in DOMAIN response.citations}

\* A sentence of markers alone belongs to the sentence before it.
Claims(answer) ==
    LET begins == {i \in DOMAIN answer : i = 1 \/ answer[i].text # NoText}
        markers(i, j) == Flat([k \in 1..(j - i) |-> answer[i + k - 1].markers])
        next(i) == CHOOSE j \in (begins \cup {Len(answer) + 1}) \ (1..i) :
                       \A k \in begins : k <= i \/ j <= k
    IN  At([i \in DOMAIN answer |-> Sentence(answer[i].text, markers(i, next(i)))], begins)

\* Text that is left of a claim without its markers.
VisibleText(text) ==
    IF text = NoText THEN <<Token("word", "claim_without_visible_text")>> ELSE text

ContentTerms(tokens) == {t \in tokens : t.kind \notin {"stopword", "punctuation"}}
Numbers(tokens) == {t.value : t \in {u \in tokens : IsNumeric(u)}}
Negations(tokens) == {t \in tokens : t.kind = "negation"}

\* A claim needs markers of cited evidence, and every number and negation in it
\* must be in that evidence, and enough of its words.
VerifyClaim(claim, evidence, cited) ==
    LET ids == IF claim.markers # <<>> \/ RequireInline THEN Unique(claim.markers)
               ELSE Sorted(cited, LAMBDA a, b : a < b)
        linked == ToSet(ids) \cap cited \cap DOMAIN evidence
        said == ToSet(VisibleText(claim.text))
        terms == ContentTerms(said)
        known == UNION {ChunkTerms(evidence[i].chunk) : i \in linked}
        wrong == [
            missing_inline_evidence |-> RequireInline /\ ids = <<>>,
            unknown_evidence_marker |-> ~(ToSet(ids) \subseteq DOMAIN evidence),
            answer_marker_missing_citation |-> ~(ToSet(ids) \subseteq cited),
            claim_too_short |-> Cardinality(terms) < MinClaimTokens,
            insufficient_lexical_support |->
                /\ linked # {}
                /\ \/ terms = {} /\ MinSupportPercent > 0
                   \/ 100 * Cardinality(terms \cap ContentTerms(known))
                          < MinSupportPercent * Cardinality(terms),
            no_linked_evidence |-> linked = {},
            numeric_mismatch |-> RequireNumbers /\ ~(Numbers(said) \subseteq Numbers(known)),
            negation_mismatch |->
                RequireNegation /\ ~(Negations(said) \subseteq Negations(known))]
    IN  [text |-> VisibleText(claim.text), ids |-> ids,
         errors |-> {e \in DOMAIN wrong : wrong[e]}]

IsSupported(claim) == claim.errors = {}

\* Only a synthesised answer is checked claim by claim; the claims beyond the
\* limit are not looked at, and the excess is an error.
CheckedClaims(response, evidence) ==
    IF response.insufficient \/ ~ClaimsEnabled \/ ~response.synthesis THEN <<>>
    ELSE LET claims == Prefix(Claims(response.answer), MaxClaims)
         IN  [i \in DOMAIN claims |-> VerifyClaim(claims[i], evidence, CitedIds(response))]

\* The limit is on all claims, those that are not looked at included.
TooManyChecked(answer) == Len(Prefix(Claims(answer), MaxClaims)) > MaxClaims
TooMany(answer) == Len(Claims(answer)) > MaxClaims

\* Errors of the claims, and citations no claim makes use of.
ClaimErrors(response, claims) ==
    LET used == UNION {ToSet(claims[i].ids) : i \in DOMAIN claims}
        wrong == [
            claim_count_exceeded |-> TooMany(response.answer),
            grounded_answer_has_no_claims |-> claims = <<>>,
            unsupported_claim |-> \E i \in DOMAIN claims : ~IsSupported(claims[i]),
            citation_not_used_in_answer |-> ~(CitedIds(response) \subseteq used)]
    IN  IF response.insufficient \/ ~ClaimsEnabled \/ ~response.synthesis THEN {}
        ELSE {e \in DOMAIN wrong : wrong[e]}

CitationErrors(response, evidence) ==
    LET chunks == {evidence[i].chunk.id : i \in DOMAIN evidence}
        wrong == [
            duplicate_evidence_chunk_id |-> Cardinality(chunks) < Len(evidence),
            abstention_must_not_include_citations |->
                response.insufficient /\ response.citations # <<>>,
            grounded_answer_requires_citation |->
                ~response.insufficient /\ response.citations = <<>>,
            invalid_citation |-> \E i \in DOMAIN response.citations :
                LET c == response.citations[i]
                IN  c.id \notin DOMAIN evidence \/ evidence[c.id].chunk # c.chunk]
    IN  {e \in DOMAIN wrong : wrong[e]}

\* RuleBasedCitationVerifier.verify: the claims it looked at, and its errors.
Verification(response, evidence, claims) ==
    [claims |-> claims,
     errors |-> CitationErrors(response, evidence) \cup ClaimErrors(response, claims)]
Verify(response, evidence) ==
    Verification(response, evidence, CheckedClaims(response, evidence))

IsValid(verification) == verification.errors = {}
================================================================================
