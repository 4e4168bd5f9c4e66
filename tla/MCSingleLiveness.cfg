SPECIFICATION FairSpec
CONSTANTS
    w1 = w1
    q1 = q1
    q2 = q2
    q3 = q3
    Workers <- MCWorkers
    Solo = w1
    QuestionList <- MCThree
    Configs = {c1}
    Sources = {s1}
    Answers = {a1}
    Caps = {3}
    Budgets = {"ample"}
    NoFile = NoFile
    Torn = Torn
    MaxFailures = 2
PROPERTIES
    EventuallySubmitted
INVARIANTS
    ExportsAreResumable
