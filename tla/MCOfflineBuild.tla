---------------------------- MODULE MCOfflineBuild ----------------------------
EXTENDS RuntimeStartup

CONSTANTS r1, r2, c1, c2

\* The source is replaced once, by a sample that c2 does not accept.
MCSuccessor == [r \in Revisions |-> r2]

\* Nothing but the lineage keeps a runtime from the indexes of another build.
MCUsableBy == [c \in Configs |-> Configs]
================================================================================
