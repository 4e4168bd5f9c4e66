------------------------------ MODULE AgentWorkflow ----------------------------
(* One question through agent/workflow.py: retrieval attempts by the routed    *)
(* strategies until a context is sufficient, then generation and verification. *)
(* Every tool call is a step that may fail as tools/registry.py says.          *)
EXTENDS AnswerGeneration

CONSTANTS
    Configurations,     \* what a runtime may be configured to, see Configured
    Questions,          \* the questions asked: arguments of Query in a record
    ScoreSets,          \* what the reranking model may return, with NoScores
    RetrievalFaults,    \* errors a search may raise by itself, TIMEOUT when late
    Completions,        \* what the chat model may return, with ProviderError
    RewriteOnRetry,     \* AgentConfig.rewrite_query_on_retry
    SemanticRetries     \* SemanticVerificationConfig.max_structured_output_retries

\* A configuration of generation and verification.
Configured(c) == /\ LegalPolicy(c.policy) /\ c.semantic \in BOOLEAN
                 /\ c.generator \in {"model", "extractive"}

ASSUME WorkflowAssumption ==
    /\ \A c \in Configurations : Configured(c)
    /\ \A q \in Questions : /\ IsList(q.original) /\ IsList(q.normalized)
                            /\ {q.topK, q.candidateK} \subseteq Nat
                            /\ "doc" \in DOMAIN q.filters
    /\ \A scores \in ScoreSets : \A c \in DOMAIN scores : scores[c] \in Int
    /\ \A c \in Completions : c.kind \in {"json", "prose"} => IsList(c.answer)
    /\ NoScores \in ScoreSets /\ ProviderError \in Completions
    /\ RewriteOnRetry \in BOOLEAN /\ SemanticRetries \in 0..1

VARIABLES
    corpus,         \* the loaded chunks
    graph,          \* the loaded graph
    config,         \* the configuration of the runtime
    phase,          \* what the workflow does next
    query,          \* the question, enriched
    attempt,        \* attempt_index
    current,        \* current_query
    used,           \* used_queries
    found,          \* latest_response: <<[query, hits]>>, <<>> for none yet
    evidence,       \* latest_context
    missing,        \* the aspects latest_grade misses, <<>> for no grade yet
    history,        \* retrieval_history
    gen,            \* the generation under way
    judged,         \* malformed judgements of the semantic verifier so far
    response,       \* the response of the generator, or the one returned
    stop            \* stop_reason

serving == <<corpus, graph, config>>
asked == <<query>>
searching == <<attempt, current, used, found, evidence, missing, history>>
answering == <<gen, judged, response, stop>>

Phases == {"idle", "search", "grade", "generate", "verify", "answered"}
RunErrors == {"RETRIEVAL_ERROR", "MODEL_ERROR", "TIMEOUT", "EXTERNAL_SERVICE_ERROR",
              "DATA_VALIDATION_ERROR", "ARTIFACT_COMPATIBILITY_ERROR",
              "CONFIGURATION_ERROR", "BACKEND_INITIALIZATION_ERROR"}

\* ToolRegistry._domain_error: errors a tool may be called again after.
Retryable == {"RETRIEVAL_ERROR", "MODEL_ERROR", "TIMEOUT", "EXTERNAL_SERVICE_ERROR"}

WorkflowInit ==
    /\ config \in Configurations
    /\ phase = "idle" /\ query = <<>>
    /\ attempt = 0 /\ current = NoText /\ used = {}
    /\ found = <<>> /\ evidence = <<>> /\ missing = <<>> /\ history = <<>>
    /\ gen = Start /\ judged = 0 /\ response = <<>> /\ stop = None

\* OnlineRuntime.answer: understand the question and begin the first attempt.
Ask(question) ==
    LET q == Query(question.id, question.original, question.normalized, question.filters,
                   question.topK, question.candidateK, question.strategy)
    IN  /\ phase \in {"idle", "answered"} /\ AcceptsRequest(q) /\ Routes(q) # <<>>
        /\ query' = q /\ phase' = "search"
        /\ attempt' = 1 /\ current' = EffectiveText(q) /\ used' = {EffectiveText(q)}
        /\ found' = <<>> /\ evidence' = <<>> /\ missing' = <<>> /\ history' = <<>>
        /\ gen' = Start /\ judged' = 0 /\ response' = <<>> /\ stop' = None
        /\ UNCHANGED serving

Strategy == Routes(query)[attempt]

\* The form of the question this attempt searches, and the query with it.
NextForm == IF attempt > 1 /\ RewriteOnRetry THEN Rewrite(query, current, used) ELSE current
Routed(form) ==
    [query EXCEPT !.rewritten = IF form = query.normalized THEN NoText ELSE form,
                  !.strategy = Strategy]

\* DeterministicAgentWorkflow._finish
Finish(answer, reason) ==
    /\ phase' = "answered" /\ response' = <<answer>> /\ stop' = reason

Remember(form, error) ==
    history' = Append(history, [attempt |-> attempt, form |-> form,
                                strategy |-> Strategy, error |-> error])

\* The reason to stop when no attempt is left.
BoundedStopReason == IF attempt >= MaxRetry + 1 THEN "max_retry_reached"
                                                ELSE "no_new_strategy"

TryAgainPast ==
    IF attempt <= Len(Routes(query))
    THEN /\ attempt' = attempt + 1 /\ phase' = "search"
         /\ UNCHANGED <<response, stop>>
    ELSE Finish(Abstention(Strategy), BoundedStopReason) /\ UNCHANGED attempt

TryAgain ==
    IF attempt < Len(Routes(query))
    THEN /\ attempt' = attempt + 1 /\ phase' = "search"
         /\ UNCHANGED <<response, stop>>
    ELSE Finish(Abstention(Strategy), BoundedStopReason) /\ UNCHANGED attempt

\* A tool failed: stop when it was late or must not be called again.
ToolFailed(error) ==
    CASE error = "TIMEOUT" ->
            Finish(Abstention(Strategy), "timeout") /\ UNCHANGED attempt
      [] error \notin Retryable ->
            Finish(Abstention(Strategy), "non_retryable_tool_error") /\ UNCHANGED attempt
      [] OTHER -> TryAgain

\* Results of the retrieval tool: what the search finds, or a fault of its own.
\* Only the reranked strategies depend on the reranking model.
SearchResults(routed) ==
    {Search(corpus, graph, routed, scores) :
        scores \in IF routed.strategy \in {"HYBRID_RERANK", "GRAPH"} THEN ScoreSets
                                                                     ELSE {NoScores}}
    \cup {Failed(error) : error \in RetrievalFaults}

\* A response whose hits cannot be made a context ends the run.
Observe(routed, form, hits) ==
    LET context == BuildContext(routed, hits)
    IN  /\ found' = <<[query |-> routed, hits |-> hits]>>
        /\ IF context.error = "none"
           THEN /\ evidence' = context.evidence /\ phase' = "grade"
                /\ UNCHANGED <<attempt, history, response, stop>>
           ELSE /\ Remember(form, context.error) /\ UNCHANGED <<attempt, evidence>>
                /\ Finish(Abstention(Strategy), "non_retryable_tool_error")

Retrieve ==
    /\ phase = "search"
    /\ LET form == NextForm
           routed == Routed(form)
       IN  /\ current' = form /\ used' = used \cup {form}
           /\ \E result \in SearchResults(routed) :
                 \/ /\ result.error # "none" /\ Remember(form, result.error)
                    /\ ToolFailed(result.error) /\ UNCHANGED <<found, evidence>>
                 \/ result.error = "none" /\ Observe(routed, form, result.hits)
    /\ UNCHANGED <<serving, asked, missing, gen, judged>>

\* The grading tool: a grade in time decides, a late one ends the run.
Grade ==
    /\ phase = "grade"
    /\ missing' = <<MissingAspects(found[1].query, evidence)>>
    /\ Remember(current, "none")
    /\ IF missing'[1] = {}
       THEN phase' = "generate" /\ gen' = Start /\ UNCHANGED <<attempt, response, stop>>
       ELSE TryAgain /\ UNCHANGED gen
    /\ UNCHANGED <<serving, asked, current, used, found, evidence, judged>>

GradeLate ==
    /\ phase = "grade"
    /\ Remember(current, "TIMEOUT") /\ Finish(Abstention(Strategy), "timeout")
    /\ UNCHANGED <<serving, asked, attempt, current, used, found, evidence, missing, gen, judged>>

GeneratedUnchecked(outcome) ==
    CASE outcome.error # "none" -> Finish(Abstention(Strategy), "generation_failed")
      [] OTHER -> /\ phase' = "verify" /\ response' = outcome.response
                  /\ UNCHANGED stop

\* What the generator has returned goes to verification, its abstention to the
\* user; instead of an error the run abstains.
Generated(outcome) ==
    CASE outcome.error # "none" -> Finish(Abstention(Strategy), "generation_failed")
      [] outcome.error = "none" /\ outcome.response[1].insufficient ->
            Finish(outcome.response[1], "generation_failed")
      [] OTHER -> /\ phase' = "verify" /\ response' = outcome.response
                  /\ UNCHANGED stop

\* The generator and the verifier the runtime was built with.
AnswersByModel == config.generator = "model"
JudgedByModel == config.semantic

\* One call of the chat model and what the generator makes of it.
CallModel ==
    /\ phase = "generate" /\ AnswersByModel
    /\ \E outcome \in {Complete(config.policy, gen, completion, evidence, Strategy) :
                          completion \in Completions} :
          /\ gen' = outcome.gen
          /\ IF outcome.gen.stage # "done" THEN UNCHANGED <<phase, response, stop>>
             ELSE Generated(outcome)
    /\ UNCHANGED <<serving, asked, searching, judged>>

\* The extractive generator quotes all the evidence.
QuoteEvidence ==
    /\ phase = "generate" /\ ~AnswersByModel
    /\ Generated(Return(gen, Quotation(evidence, Len(evidence), Strategy)))
    /\ UNCHANGED <<serving, asked, searching, gen, judged>>

\* A tool whose answer comes after its budget has failed, whatever it answers.
AnswerLate ==
    /\ phase \in {"generate", "verify"}
    /\ Finish(Abstention(Strategy), "timeout")
    /\ UNCHANGED <<serving, asked, searching, gen, judged>>

Reject == Finish(Abstention(Strategy), "citation_verification_failed")
Accept == Finish(response[1], "answer_verified")

\* A semantic check is made of an answer whose claims the rules have accepted.
NeedsJudgement ==
    /\ JudgedByModel
    /\ IsValid(Verify(response[1], evidence)) /\ CheckedClaims(response[1], evidence) # <<>>

VerifyAnswer ==
    /\ phase = "verify" /\ ~NeedsJudgement
    /\ IF IsValid(Verify(response[1], evidence)) THEN Accept ELSE Reject
    /\ UNCHANGED <<serving, asked, searching, gen, judged>>

\* The judge supports every claim or not; its output may be malformed once too
\* often, or it fails.
Judge ==
    /\ phase = "verify" /\ NeedsJudgement
    /\ \E verdict \in {"supported", "contradicted", "malformed", "error"} :
          \/ verdict = "supported" /\ Accept /\ UNCHANGED judged
          \/ verdict \in {"contradicted", "error"} /\ Reject /\ UNCHANGED judged
          \/ verdict = "malformed" /\ judged < SemanticRetries /\ judged' = judged + 1
                /\ UNCHANGED <<phase, response, stop>>
          \/ verdict = "malformed" /\ judged = SemanticRetries /\ Reject /\ UNCHANGED judged
    /\ UNCHANGED <<serving, asked, searching, gen>>

WorkflowStep ==
    \/ Retrieve \/ Grade \/ GradeLate
    \/ CallModel \/ QuoteEvidence \/ AnswerLate \/ VerifyAnswer \/ Judge
================================================================================
