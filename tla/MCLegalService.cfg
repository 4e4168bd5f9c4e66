SPECIFICATION FairSpec
CONSTANTS
    MaxVariants = 3
    AdaptiveRouting = TRUE
    StrategyOrder <- MCStrategyOrder
    MaxRetry = 2
    Registered = {"BM25", "HYBRID", "HYBRID_RERANK", "GRAPH"}
    Similarity <- MCSimilarity
    MaxQueryTerms = 3
    MaxFrequencyPercent = 50
    MatchAll = FALSE
    MultiQuery = TRUE
    RrfConstant = 1
    RrfUnit = 60
    Reranker = "cross_encoder"
    MaxCandidates = 4
    HopLimit = 2
    SeedChunkK = 1
    SeedDocumentK = 1
    RelatedDocumentK = 2
    RelationshipTypes = {}
    SelectionEnabled = TRUE
    ReferenceBoost = 1
    OverlapWeight = 1
    InactivePenalty = 1
    MaxPerDocument = 2
    MaxPerArticle = 2
    InactiveStatuses = {"repealed"}
    MaxEvidence = 2
    MaxContextTokens = 16
    MinEvidence = 1
    RequireNumber = FALSE
    RequireArticle = FALSE
    IdentifiedDocuments = {"D2"}
    ScoreUnit = 60
    ClaimsEnabled = TRUE
    RequireInline = TRUE
    MinSupportPercent = 50
    MinClaimTokens = 1
    RequireNumbers = TRUE
    RequireNegation = TRUE
    MaxClaims = 2
    Configurations <- MCConfigurations
    Questions <- MCQuestions
    ScoreSets <- MCScoreSets
    RetrievalFaults = {"EXTERNAL_SERVICE_ERROR", "ARTIFACT_COMPATIBILITY_ERROR", "TIMEOUT"}
    Completions <- MCCompletions
    RewriteOnRetry = TRUE
    SemanticRetries = 1
    Libraries <- MCLibraries
    Budgets <- MCBudgets
INVARIANTS
    TypeOK
    ChunksKnowTheirArticle
    OnlyTightBudgetsFail
    HitsRespectTheQuestion
    SufficientContextIsApplicable
    VerifiedAnswerIsGrounded
    RecoveredAnswerVerifies
    RunResultIsAligned
PROPERTIES
    RunReturns
