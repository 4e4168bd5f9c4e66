SPECIFICATION FairSpec
CONSTANTS
    q1 = q1
    q2 = q2
    q3 = q3
    Workers <- MCWorkers
    Questions <- MCThree
    QuestionList <- MCThreeLists
    Configs = {c1, c2}
    Sources = {s1}
    Answers = {a1}
    Caps = {1, 2}
    Budgets = {"ample"}
    NoFile = NoFile
    Torn = Torn
    MaxFailures = 2
INVARIANTS
    TypeOK
    WorkersOwnTheirFiles
    CleanExportsAreResumable
    CompletionIsReal
    ReportedProgressIsDurable
    SubmissionIsExact
PROPERTIES
    SessionEnds
