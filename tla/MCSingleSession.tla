---------------------------- MODULE MCSingleSession ----------------------------
(* Small instances of SingleSession for TLC. *)
EXTENDS SingleSession

CONSTANTS w1, q1, q2, q3

MCWorkers == {w1}
MCTwo == [w \in {w1} |-> <<q1, q2>>]
MCThree == [w \in {w1} |-> <<q1, q2, q3>>]
================================================================================
