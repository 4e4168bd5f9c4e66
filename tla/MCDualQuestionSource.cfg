SPECIFICATION Spec
CONSTANTS
    q1 = q1
    q2 = q2
    q3 = q3
    Workers <- MCWorkers
    Questions <- MCThree
    QuestionList <- MCThreeLists
    Configs = {c1}
    Sources = {s1, s2}
    Answers = {a1}
    Caps = {1, 2}
    Budgets = {"ample"}
    NoFile = NoFile
    Torn = Torn
    MaxFailures = 1
INVARIANTS
    SubmissionAnswersItsQuestions
