------------------------------ MODULE QueryPlanning ----------------------------
(* What is decided about a question before anything is searched: the analysis  *)
(* and the variants of retrieval/query_understanding.py, the routes of         *)
(* agent/router.py and the rewrites of agent/query_rewriter.py.                *)
EXTENDS LegalText

CONSTANTS
    MaxVariants,       \* QueryUnderstandingConfig.max_variants
    AdaptiveRouting,   \* QueryUnderstandingConfig.adaptive_routing_enabled
    StrategyOrder,     \* AgentConfig.strategy_order
    MaxRetry,          \* AgentConfig.max_retry
    Registered         \* the strategies whose tools the runtime registered

NoText == <<>>
Strategies == {"BM25", "DENSE", "HYBRID", "HYBRID_RERANK", "GRAPH"}

\* The bounds the configuration classes validate.
AgentConfig == /\ MaxRetry \in 0..2 /\ StrategyOrder \in Seq(Strategies)
               /\ Len(StrategyOrder) \in 1..3 /\ IsInjective(StrategyOrder)
UnderstandingConfig == MaxVariants \in 1..5 /\ AdaptiveRouting \in BOOLEAN

ASSUME PlanningAssumption ==
    AgentConfig /\ UnderstandingConfig /\ Registered \subseteq Strategies

Mentions(text, kind) == {text[i].value : i \in {j \in DOMAIN text : text[j].kind = kind}}

HasReference(text) == \E kind \in ReferenceKinds : Mentions(text, kind) # {}

\* The first cue found decides, and a reference only when there is none.
Intent(text) ==
    LET cued == SelectSeq(IntentCues, LAMBDA cue : Mentions(text, cue) # {})
    IN  CASE cued # <<>> -> Head(cued)
          [] cued = <<>> /\ HasReference(text) -> "reference_lookup"
          [] OTHER -> "general"

Analyze(text) ==
    [intent |-> Intent(text), explicit |-> HasReference(text),
     documents |-> Mentions(text, "document"), articles |-> Mentions(text, "article")]

\* Leading framing ("cho toi hoi") is removed until there is none.
StripFraming(text) ==
    LET framing == {i \in DOMAIN text : \A j \in 1..i : text[j].kind = "framing"}
    IN  SubSeq(text, Cardinality(framing) + 1, Len(text))

\* The references of the question alone, each once, in the order they occur.
ReferenceVariant(text) == 
    Unique(At(text, {i \in DOMAIN text : text[i].kind \in ReferenceKinds}))

PlanVariants(text) ==
    LET candidates == <<text, StripFraming(text), ReferenceVariant(text)>>
    IN  Prefix(At(candidates, {i \in FirstPositions(candidates) : candidates[i] # NoText}),
               MaxVariants)

\* The request of the serving boundary, enriched; original is the question as
\* typed, normalized the one with canonical spacing.
Query(id, original, normalized, filters, topK, candidateK, strategy) ==
    [id |-> id, original |-> original, normalized |-> normalized, rewritten |-> NoText,
     filters |-> filters, topK |-> topK, candidateK |-> candidateK, strategy |-> strategy,
     analysis |-> Analyze(normalized), variants |-> PlanVariants(normalized)]

EffectiveText(q) == IF q.rewritten = NoText THEN q.normalized ELSE q.rewritten

\* With adaptive routing the question's signals come before the configured order.
AdaptiveOrder(q) ==
    CASE ~AdaptiveRouting -> <<>>
      [] AdaptiveRouting /\ q.analysis.intent = "relationship" ->
            <<"GRAPH", "HYBRID_RERANK", "HYBRID">>
      [] AdaptiveRouting /\ q.analysis.intent # "relationship"
                         /\ (q.analysis.explicit \/ q.analysis.intent = "quantitative") ->
            <<"HYBRID_RERANK", "BM25", "HYBRID">>
      [] OTHER -> <<>>

\* The routes of a run: registered strategies, each once, one more than the
\* allowed retries.
Routes(q) ==
    LET requested == IF q.strategy = None THEN <<>> ELSE <<q.strategy>>
        order == requested \o AdaptiveOrder(q) \o StrategyOrder
    IN  Prefix(At(order, {i \in FirstPositions(order) : order[i] \in Registered}),
               MaxRetry + 1)

\* A retry searches a form of the question nobody has searched yet, or the
\* current one again.
Rewrite(q, current, used) ==
    LET forms == Append(Append(q.variants, q.original), q.normalized)
        unused == {i \in DOMAIN forms : forms[i] # current /\ forms[i] \notin used}
    IN  IF unused = {} THEN current
        ELSE forms[CHOOSE i \in unused : \A j \in unused : i <= j]
================================================================================
