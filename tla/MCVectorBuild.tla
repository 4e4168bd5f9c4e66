----------------------------- MODULE MCVectorBuild -----------------------------
EXTENDS VectorBuild

CONSTANTS k1, k2, k3, k4, k5, good, other, doubled, short, long

\* other is good under another model; doubled repeats an id; short has fewer
\* and long more chunks than its manifest declares.
MCSource ==
    [b \in Builds |-> IF b = doubled THEN <<k1, k2, k3, k2, k4>>
                      ELSE IF b = short THEN <<k1, k2, k3, k4>>
                      ELSE <<k1, k2, k3, k4, k5>>]
MCRecordCount == [b \in Builds |-> IF b = long THEN 4 ELSE 5]
================================================================================
