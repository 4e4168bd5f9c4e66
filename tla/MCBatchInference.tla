--------------------------- MODULE MCBatchInference ---------------------------
EXTENDS BatchInference

CONSTANTS q1, q2, q3, s1, s2, c1, c2

\* Two files with the same ids; s2 asks them in another order.
MCQuestions == [s \in Sources |-> IF s = s1 THEN <<q1, q2, q3>> ELSE <<q1, q3, q2>>]
================================================================================
