SPECIFICATION Spec
CONSTANTS
    w1 = w1
    q1 = q1
    q2 = q2
    q3 = q3
    Workers <- MCWorkers
    Solo = w1
    QuestionList <- MCTwo
    Configs = {c1}
    Sources = {s1}
    Answers = {a1, a2}
    Caps = {1, 2}
    Budgets = {"ample"}
    NoFile = NoFile
    Torn = Torn
    MaxFailures = 2
PROPERTIES
    ExportOnlyGrows
