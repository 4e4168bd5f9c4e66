SPECIFICATION Spec
CONSTANTS
    w1 = w1
    q1 = q1
    q2 = q2
    q3 = q3
    Workers <- MCWorkers
    Solo = w1
    QuestionList <- MCTwo
    Configs = {c1, c2}
    Sources = {s1, s2}
    Answers = {a1, a2}
    Caps = {1, 2}
    Budgets = {"ample", "short"}
    NoFile = NoFile
    Torn = Torn
    MaxFailures = 2
INVARIANTS
    TypeOK
    SessionOwnsItsFile
    SessionExtendsBase
    ExportsAreSound
    OneAnswerAtRiskPerKill
    SubmissionIsExact
    CompletionIsReal
