---------------------------- MODULE AnswerGeneration ---------------------------
(* Answers by a chat model, generation/model_generator.py: a draft, at most one *)
(* corrected draft, a check of its grounding, at most one repair, and what is   *)
(* left of a failed repair.  One provider call is one step; a policy is a       *)
(* GenerationConfig as far as it steers the recovery.                           *)
EXTENDS Grounding

Policies == [structured : 0..1, modelRetries : 0..1, repairs : 0..1,
             onModelFailure : {"abstain", "top_evidence"},
             onGroundingFailure : {"abstain", "supported_claims",
                                   "supported_claims_or_top_evidence"},
             fallbackEvidence : 1..3, standalone : BOOLEAN, plainText : BOOLEAN]

\* GenerationConfig.validate_model_identity: recovery of claims needs a repair.
LegalPolicy(p) == p \in Policies /\ (p.onGroundingFailure # "abstain" => p.repairs = 1)

\* What the provider returns: a draft as JSON, prose, the abstention sentence,
\* or something else; "error" when it raises.
Json(answer, cited, insufficient) ==
    [kind |-> "json", answer |-> answer, cited |-> cited, insufficient |-> insufficient]
Prose(answer) == [kind |-> "prose", answer |-> answer]
Refusal == [kind |-> "refusal"]
Garbage == [kind |-> "garbage"]
ProviderError == [kind |-> "error"]

NoDraft == [answer |-> <<>>, cited |-> <<>>, insufficient |-> FALSE, accepted |-> FALSE]
Draft(answer, cited, insufficient) ==
    [answer |-> answer, cited |-> cited, insufficient |-> insufficient, accepted |-> TRUE]

ExtractMarkers(answer) == Unique(Flat([i \in DOMAIN answer |-> answer[i].markers]))

\* The draft schema: citations exactly when the answer is grounded, no repeats.
ParseDraft(policy, completion) ==
    LET c == completion
        json == c.kind = "json" /\ (c.insufficient <=> c.cited = <<>>) /\ IsInjective(c.cited)
        prose == c.kind = "prose" /\ policy.plainText /\ ExtractMarkers(c.answer) # <<>>
    IN  CASE json -> Draft(c.answer, c.cited, c.insufficient)
          [] ~json /\ prose -> Draft(c.answer, ExtractMarkers(c.answer), FALSE)
          [] c.kind = "refusal" /\ policy.plainText -> Draft(<<>>, <<>>, TRUE)
          [] OTHER -> NoDraft

\* Ids outside the evidence are refused.  The markers of the answer decide what
\* is cited, and an answer without any gets the declared ids at its end.
ValidateDraft(draft, evidence) ==
    LET markers == ExtractMarkers(draft.answer)
    IN  IF \/ ~draft.accepted
           \/ ~(ToSet(draft.cited) \cup ToSet(markers) \subseteq DOMAIN evidence)
           \/ draft.insufficient /\ markers # <<>>
        THEN NoDraft
        ELSE IF draft.insufficient THEN draft
        ELSE IF markers = <<>>
        THEN [draft EXCEPT !.answer = Append(@, Sentence(NoText, draft.cited))]
        ELSE [draft EXCEPT !.cited = markers]

ReadDraft(policy, completion, evidence) ==
    ValidateDraft(ParseDraft(policy, completion), evidence)

ResponseFromDraft(draft, evidence, strategy) ==
    IF draft.insufficient THEN Abstention(strategy)
    ELSE Response(draft.answer,
                  [i \in DOMAIN draft.cited |-> Citation(evidence, draft.cited[i])],
                  strategy, TRUE)
--------------------------------------------------------------------------------
(* What is left when the model fails *)

\* The first evidence, quoted.
Quotation(evidence, count, strategy) ==
    Response([i \in 1..count |-> Sentence(evidence[i].chunk.text, <<i>>)],
             [i \in 1..count |-> Citation(evidence, i)], strategy, FALSE)

ExtractiveFallback(policy, evidence, strategy) ==
    Quotation(evidence, IF policy.fallbackEvidence < Len(evidence)
                        THEN policy.fallbackEvidence ELSE Len(evidence), strategy)

\* A claim as a sentence of its own: without a list number left over behind a
\* colon, and nothing of a question or of a list number alone.
SalvageText(policy, text) ==
    LET size == Len(text)
        colon == Token("punctuation", "colon")
        cut == IF size > 1 /\ text[size].kind = "number" /\ text[size - 1] = colon
               THEN SubSeq(text, 1, size - 1) ELSE text
    IN  IF ~policy.standalone THEN text
        ELSE IF Len(cut) = 1 /\ cut[1].kind = "number" THEN NoText
        ELSE IF cut[Len(cut)] = Token("punctuation", "question") THEN NoText
        ELSE cut

\* The supported claims of an answer, each once, as an answer of their own;
\* the abstention when there are none.
SalvageSupportedClaims(policy, response, claims, evidence) ==
    LET supported == At(claims, {i \in DOMAIN claims : IsSupported(claims[i])})
        rendered == [i \in DOMAIN supported |->
                        Sentence(SalvageText(policy, supported[i].text),
                                 SelectSeq(supported[i].ids, LAMBDA id : id \in DOMAIN evidence))]
        usable == {i \in DOMAIN rendered : /\ rendered[i].text # NoText
                                            /\ rendered[i].markers # <<>>}
        answer == At(rendered, {i \in usable : \A j \in usable :
                                    j < i => rendered[j].text # rendered[i].text})
    IN  IF answer = <<>> THEN Abstention(response.strategy)
        ELSE ResponseFromDraft(Draft(answer, ExtractMarkers(answer), FALSE), evidence,
                               response.strategy)

FirstSupported(salvaged, evidence) ==
    LET good == {i \in DOMAIN salvaged : ~salvaged[i].insufficient}
    IN  IF good = {} THEN Abstention(salvaged[1].strategy)
        ELSE salvaged[CHOOSE i \in good : \A j \in good : i <= j]

\* The first of the salvaged answers that verifies, the abstention without one.
FirstVerified(salvaged, evidence) ==
    LET good == {i \in DOMAIN salvaged : /\ ~salvaged[i].insufficient
                                         /\ IsValid(Verify(salvaged[i], evidence))}
    IN  IF good = {} THEN Abstention(salvaged[1].strategy)
        ELSE salvaged[CHOOSE i \in good : \A j \in good : i <= j]

Salvaged(policy, candidates, evidence) ==
    FirstVerified([i \in DOMAIN candidates |->
                      SalvageSupportedClaims(policy, candidates[i],
                                             CheckedClaims(candidates[i], evidence), evidence)],
                  evidence)

SupportedCount(response, evidence) ==
    Len(SelectSeq(CheckedClaims(response, evidence), IsSupported))
--------------------------------------------------------------------------------
(* The run of one generation.  Its state is [stage, attempt, retry, first]:     *)
(* what is asked for, how often it was, and the answer under repair.            *)

Start == [stage |-> "draft", attempt |-> 0, retry |-> 0, first |-> <<>>]

\* Outcomes of a provider call: another call, a response, or an error.
Continue(gen) == [gen |-> gen, error |-> "none", response |-> <<>>]
Return(gen, response) == [gen |-> [gen EXCEPT !.stage = "done"], error |-> "none",
                          response |-> <<response>>]
Raise(gen, error) == [gen |-> [gen EXCEPT !.stage = "done"], error |-> error,
                      response |-> <<>>]

DraftFailed(policy, gen, evidence, strategy) ==
    IF policy.onModelFailure = "top_evidence"
    THEN Return(gen, ExtractiveFallback(policy, evidence, strategy))
    ELSE Raise(gen, "MODEL_ERROR")

\* A generator is built with a verifier of its own when it may repair or salvage.
HasGroundingVerifier(policy) == policy.repairs > 0 \/ policy.onGroundingFailure # "abstain"

DraftAccepted(policy, gen, response, evidence) ==
    IF \/ response.insufficient \/ policy.repairs = 0 \/ ~HasGroundingVerifier(policy)
       \/ IsValid(Verify(response, evidence))
    THEN Return(gen, response)
    ELSE Continue([gen EXCEPT !.stage = "repair", !.first = <<response>>])

\* What is returned of a failed repair: a salvage, the first evidence, or the
\* outcome otherwise.
Recovered(policy, gen, salvaged, otherwise, evidence, strategy) ==
    IF ~salvaged.insufficient THEN Return(gen, salvaged)
    ELSE IF policy.onGroundingFailure = "supported_claims_or_top_evidence"
    THEN Return(gen, ExtractiveFallback(policy, evidence, strategy))
    ELSE otherwise

\* A repair that raises still salvages the first answer, whatever the policy.
RepairFailed(policy, gen, evidence, strategy) ==
    Recovered(policy, gen, Salvaged(policy, gen.first, evidence),
              Raise(gen, "MODEL_ERROR"), evidence, strategy)

\* The repaired answer and the first one are salvaged in the order of the claims
\* they have left; without a salvage the repaired answer is returned as it is.
Repaired(policy, gen, repaired, evidence, strategy) ==
    LET first == gen.first[1]
        candidates == IF SupportedCount(first, evidence) > SupportedCount(repaired, evidence)
                      THEN <<first, repaired>> ELSE <<repaired, first>>
    IN  IF \/ repaired.insufficient \/ policy.onGroundingFailure = "abstain"
           \/ IsValid(Verify(repaired, evidence))
        THEN Return(gen, repaired)
        ELSE Recovered(policy, gen, Salvaged(policy, candidates, evidence),
                       Return(gen, repaired), evidence, strategy)

\* The next call asks for a corrected draft.
CorrectUncounted(gen) == [gen EXCEPT !.retry = 0]
Correct(gen) == [gen EXCEPT !.retry = 0, !.attempt = @ + 1]

\* A provider call has ended with a draft, one that is refused, or an error.
Called(policy, gen, failed, draft, evidence, strategy) ==
    LET response == ResponseFromDraft(draft, evidence, strategy)
    IN  CASE failed /\ gen.retry < policy.modelRetries ->
                Continue([gen EXCEPT !.retry = @ + 1])
          [] gen.stage = "draft" /\ draft.accepted ->
                DraftAccepted(policy, [gen EXCEPT !.retry = 0], response, evidence)
          [] /\ gen.stage = "draft" /\ ~failed /\ ~draft.accepted
             /\ gen.attempt < policy.structured ->
                Continue(Correct(gen))
          [] gen.stage = "repair" /\ draft.accepted ->
                Repaired(policy, gen, response, evidence, strategy)
          [] OTHER -> IF gen.stage = "draft"
                      THEN DraftFailed(policy, gen, evidence, strategy)
                      ELSE RepairFailed(policy, gen, evidence, strategy)

\* One answer of the provider, or the error it raised.
Complete(policy, gen, completion, evidence, strategy) ==
    Called(policy, gen, completion = ProviderError,
           ReadDraft(policy, completion, evidence), evidence, strategy)
================================================================================
