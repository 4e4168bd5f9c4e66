------------------------------- MODULE LegalText -------------------------------
(* Texts of questions, chunks and answers as sequences of tokens.  A token is  *)
(* a record [kind, value]: what the regular expressions and cue lists of the   *)
(* code tell apart is its kind, everything else is a "word".                   *)
EXTENDS Integers, Sequences, FiniteSets, Functions, Folds, SequencesExt

None == "NONE"

Token(kind, value) == [kind |-> kind, value |-> value]

\* A sequence, whatever its elements are.
IsList(s) == Len(s) \in Nat /\ s = [i \in 1..Len(s) |-> s[i]]

\* The kinds of the patterns for document, article, clause and point numbers.
ReferenceKinds == {"document", "article", "clause", "point"}

\* Cues of an intent, in the order in which the code looks for them.
IntentCues == <<"relationship", "definition", "procedure", "quantitative",
                "eligibility", "prohibition", "obligation">>

\* A token with a digit in it; the words without which a rule changes its sense.
IsNumeric(token) == token.kind \in ReferenceKinds \cup {"number"}
IsModifier(token) == token.kind \in {"negation", "modifier"}

\* values[:limit]
Prefix(values, limit) == SubSeq(values, 1, IF limit < Len(values) THEN limit
                                                                  ELSE Len(values))

\* sorted(values) under a strict total order.
Sorted(S, Before(_, _)) ==
    [i \in 1..Cardinality(S) |->
        CHOOSE x \in S : Cardinality({y \in S : Before(y, x)}) = i - 1]

\* What a loop over values keeps when it keeps the values at these positions.
At(values, positions) ==
    [k \in 1..Cardinality(positions) |->
        values[CHOOSE p \in positions : Cardinality({i \in positions : i < p}) = k - 1]]

\* list(dict.fromkeys(values)): the first of equal values, in order.
FirstPositions(values) ==
    {i \in DOMAIN values : \A j \in 1..(i - 1) : values[j] # values[i]}
Unique(values) == At(values, FirstPositions(values))

\* The concatenation of a sequence of sequences.
Flat(sequences) ==
    LET first[n \in 0..Len(sequences)] ==
            IF n = 0 THEN <<>> ELSE first[n - 1] \o sequences[n]
    IN  first[Len(sequences)]

Total(S, f(_)) == FoldFunction(+, 0, [x \in S |-> f(x)])

\* The sum of natural numbers f(x) over S: f(x) pairs for every x.
Amount(S, f(_)) == Cardinality(UNION {{x} \X (1..f(x)) : x \in S})
================================================================================
