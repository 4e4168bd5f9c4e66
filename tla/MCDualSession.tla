----------------------------- MODULE MCDualSession -----------------------------
(* Small instances of DualSession for TLC. *)
EXTENDS DualSession, TLC

CONSTANTS q1, q2, q3

MCWorkers == {0, 1}
MCThree == <<q1, q2, q3>>
MCThreeLists == (0 :> <<q1, q3>>) @@ (1 :> <<q2>>)
================================================================================
