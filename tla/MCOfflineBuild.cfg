SPECIFICATION FairSpec
CONSTANTS
    r1 = r1
    r2 = r2
    c1 = c1
    c2 = c2
    Revisions = {r1, r2}
    Configs = {c1, c2}
    FullCorpus = {r1}
    RequireFull = {c2}
    Successor <- MCSuccessor
    UsableBy <- MCUsableBy
    MaxFailures = 2
    Missing = Missing
    Torn = Torn
INVARIANTS
    TypeOK
    SuccessIsVerified
    ServedSetIsOneBuild
PROPERTIES
    KeepsLedger
    SaneRootIsCompleted
CHECK_DEADLOCK FALSE
