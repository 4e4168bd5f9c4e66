----------------------------- MODULE AnswerLedger -----------------------------
(***************************************************************************)
(* What a batch output directory promises: it belongs to one question       *)
(* source and configuration, its answers grow one by one in the order of    *)
(* the source and are never taken back, it is sealed when every question    *)
(* has its answer, and only a sealed batch is submitted.                    *)
(***************************************************************************)
EXTENDS Naturals, Sequences

CONSTANTS
    Owners,         \* question source and configuration of a run
    AnswersOf,      \* [Owners -> the sequence of answers a run would give]
    Unowned         \* nothing started, nothing submitted

VARIABLES owner, answered, sealed, submitted

ledger == <<owner, answered, sealed, submitted>>

Init == owner = Unowned /\ answered = 0 /\ sealed = FALSE /\ submitted = Unowned

Claim(o) ==
    /\ owner = Unowned
    /\ owner' = o
    /\ UNCHANGED <<answered, sealed, submitted>>

Answer ==
    /\ owner # Unowned /\ ~sealed
    /\ answered < Len(AnswersOf[owner])
    /\ answered' = answered + 1
    /\ UNCHANGED <<owner, sealed, submitted>>

Seal ==
    /\ owner # Unowned /\ ~sealed
    /\ answered = Len(AnswersOf[owner])
    /\ sealed' = TRUE
    /\ UNCHANGED <<owner, answered, submitted>>

Submit ==
    /\ sealed /\ submitted = Unowned
    /\ submitted' = AnswersOf[owner]
    /\ UNCHANGED <<owner, answered, sealed>>

Next == (\E o \in Owners : Claim(o)) \/ Answer \/ Seal \/ Submit

Spec == Init /\ [][Next]_ledger
================================================================================
