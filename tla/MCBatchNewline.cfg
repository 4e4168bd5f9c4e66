SPECIFICATION Spec
CONSTANTS
    q1 = q1
    q2 = q2
    q3 = q3
    s1 = s1
    s2 = s2
    c1 = c1
    c2 = c2
    Sources = {s1, s2}
    Questions <- MCQuestions
    Configs = {c1, c2}
    Tails = {"none", "torn", "unterminated"}
    MaxFailures = 3
    Missing = Missing
    Torn = Torn
INVARIANT CompletedBatchIsReadable
CHECK_DEADLOCK FALSE
