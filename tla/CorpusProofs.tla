------------------------------ MODULE CorpusProofs ------------------------------
(***************************************************************************)
(* Facts about making the corpus, for LegalServiceProofs:                   *)
(*  - helpers: sorting by a strict total order, keeping positions of a      *)
(*    sequence, sums (an order is handed to a lemma as a set of pairs);     *)
(*  - chunking: the drafts a document's blocks fall into, whose texts fit   *)
(*    the budget and lose no token;                                         *)
(*  - parsing: the block tree the parser builds, and the article it puts a  *)
(*    line in against the one the text alone gives.                         *)
(*  - cleaning: no word that the markup alone leaves visible is lost on the *)
(*    way from a source to its lines.                                       *)
(***************************************************************************)
EXTENDS Chunking, FiniteSetTheorems, FunctionTheorems, NaturalsInduction,
        SequenceTheorems, WellFoundedInduction, TLAPS



\* Every set of numbers has a least one.
LEMMA LeastNumber ==
    ASSUME NEW T \in SUBSET Nat, T # {}
    PROVE  \E m \in T : \A k \in T : m <= k
<1>1. \E m \in T : \A k \in T : <<k, m>> \notin OpToRel(<, Nat)
    BY NatLessThanWellFounded, WFMin
<1>2. PICK m \in T : \A k \in T : <<k, m>> \notin OpToRel(<, Nat)
    BY <1>1
<1>3. ASSUME NEW k \in T PROVE m <= k
    <2>1. k \in Nat /\ m \in Nat
        OBVIOUS
    <2>2. ~ (k < m)
        BY <1>2, <2>1 DEF OpToRel
    <2>3. QED
        BY <2>1, <2>2
<1>4. QED
    BY <1>3

\* Induction, for a set of numbers.
LEMMA NumberInduction ==
    ASSUME NEW T, 0 \in T, \A n \in Nat : n \in T => n + 1 \in T
    PROVE  \A n \in Nat : n \in T
<1>. DEFINE U == {n \in Nat : n \notin T}
<1>1. SUFFICES ASSUME U # {} PROVE FALSE
    OBVIOUS
<1>2. PICK m \in U : \A k \in U : m <= k
    BY <1>1, LeastNumber
<1>3. m # 0 /\ m \in Nat
    OBVIOUS
<1>4. m - 1 \in Nat /\ m - 1 \notin U
    BY <1>2, <1>3
<1>5. QED
    BY <1>3, <1>4
LEMMA IntervalSize ==
    ASSUME NEW n \in Nat
    PROVE  IsFiniteSet(1..n) /\ Cardinality(1..n) = n
    BY FS_Interval
--------------------------------------------------------------------------------
(* Orders *)

TotalOrder(S, R) ==
    /\ \A x, y \in S : x # y => <<x, y>> \in R \/ <<y, x>> \in R
    /\ \A x \in S : <<x, x>> \notin R
    /\ \A x, y, z \in S : <<x, y>> \in R /\ <<y, z>> \in R => <<x, z>> \in R

Below(S, R, x) == {y \in S : <<y, x>> \in R}

\* A sequence of the elements of S by the number of elements below them.
Ranking(S, R, s) ==
    /\ s \in [1..Cardinality(S) -> S]
    /\ \A i \in 1..Cardinality(S) : Cardinality(Below(S, R, s[i])) = i - 1

LEMMA RankGrows ==
    ASSUME NEW S, IsFiniteSet(S), NEW R, TotalOrder(S, R),
           NEW x \in S, NEW y \in S, <<x, y>> \in R
    PROVE  /\ Cardinality(Below(S, R, x)) \in Nat
           /\ Cardinality(Below(S, R, y)) \in Nat
           /\ Cardinality(Below(S, R, x)) < Cardinality(Below(S, R, y))
<1>. DEFINE X == Below(S, R, x)  Y == Below(S, R, y)
<1>1. IsFiniteSet(X) /\ IsFiniteSet(Y)
    BY FS_Subset DEF Below
<1>2. X \subseteq Y
    BY DEF Below, TotalOrder
<1>3. x \in Y /\ x \notin X
    BY DEF Below, TotalOrder
<1>4. Cardinality(X) <= Cardinality(Y) /\ Cardinality(X) # Cardinality(Y)
    BY <1>1, <1>2, <1>3, FS_Subset
<1>5. Cardinality(X) \in Nat /\ Cardinality(Y) \in Nat
    BY <1>1, FS_CardinalityType
<1>. HIDE DEF X, Y
<1>6. Cardinality(X) < Cardinality(Y)
    BY <1>4, <1>5
<1>7. QED
    BY <1>5, <1>6 DEF X, Y

\* Every rank is that of some element: ranks are distinct and there are as many
\* as elements.
LEMMA EveryRank ==
    ASSUME NEW S, IsFiniteSet(S), NEW R, TotalOrder(S, R)
    PROVE  \A i \in 1..Cardinality(S) :
              \E x \in S : Cardinality(Below(S, R, x)) = i - 1
<1>. DEFINE n == Cardinality(S)
            rank == [x \in S |-> Cardinality(Below(S, R, x)) + 1]
<1>1. n \in Nat
    BY FS_CardinalityType
<1>2. ASSUME NEW x \in S
      PROVE  /\ Cardinality(Below(S, R, x)) \in Nat
             /\ Cardinality(Below(S, R, x)) < n
    <2>1. Below(S, R, x) \subseteq S /\ x \notin Below(S, R, x)
        BY DEF Below, TotalOrder
    <2>2. /\ IsFiniteSet(Below(S, R, x))
          /\ Cardinality(Below(S, R, x)) <= n
          /\ Cardinality(Below(S, R, x)) # n
        BY <2>1, FS_Subset
    <2>3. Cardinality(Below(S, R, x)) \in Nat
        BY <2>2, FS_CardinalityType
    <2>. HIDE DEF n
    <2>4. QED
        BY <1>1, <2>2, <2>3
<1>3. rank \in [S -> 1..n]
    <2>. HIDE DEF n
    <2>. QED
        BY <1>1, <1>2
<1>4. ASSUME NEW x \in S, NEW y \in S, x # y PROVE rank[x] # rank[y]
    <2>1. CASE <<x, y>> \in R
        <3>1. Cardinality(Below(S, R, x)) < Cardinality(Below(S, R, y))
            BY <2>1, RankGrows
        <3>2. QED
            BY <3>1, <1>2
    <2>2. CASE <<y, x>> \in R
        <3>1. Cardinality(Below(S, R, y)) < Cardinality(Below(S, R, x))
            BY <2>2, RankGrows
        <3>2. QED
            BY <3>1, <1>2
    <2>3. QED
        BY <1>4, <2>1, <2>2 DEF TotalOrder
<1>5. rank \in Injection(S, 1..n)
    BY <1>3, <1>4 DEF Injection, IsInjective
<1>6. IsFiniteSet(1..n) /\ Cardinality(1..n) = n
    BY <1>1, FS_Interval
<1>7. rank \in Surjection(S, 1..n)
    BY <1>5, <1>6, FS_Injection
<1>8. \A i \in 1..n : \E x \in S : rank[x] = i
    BY <1>7 DEF Surjection
<1>9. QED
    BY <1>8, <1>2

LEMMA RankingIsOrder ==
    ASSUME NEW S, IsFiniteSet(S), NEW R, TotalOrder(S, R), NEW s, Ranking(S, R, s)
    PROVE  /\ Cardinality(S) \in Nat
           /\ s \in Seq(S) /\ Len(s) = Cardinality(S)
           /\ \A i, j \in 1..Cardinality(S) : i < j => <<s[i], s[j]>> \in R /\ s[i] # s[j]
           /\ \A x \in S : \E i \in 1..Cardinality(S) : s[i] = x
<1>. DEFINE n == Cardinality(S)
<1>1. n \in Nat
    BY FS_CardinalityType
<1>2. s \in Seq(S) /\ Len(s) = n
    BY <1>1 DEF Ranking
<1>3. ASSUME NEW i \in 1..n, NEW j \in 1..n, i < j
      PROVE  <<s[i], s[j]>> \in R /\ s[i] # s[j]
    <2>1. s[i] \in S /\ s[j] \in S
        BY DEF Ranking
    <2>2. /\ Cardinality(Below(S, R, s[i])) = i - 1
          /\ Cardinality(Below(S, R, s[j])) = j - 1
        BY DEF Ranking
    <2>3. i - 1 # j - 1 /\ ~ (j - 1 < i - 1)
        BY <1>1, <1>3
    <2>4. s[i] # s[j]
        BY <2>2, <2>3
    <2>5. <<s[j], s[i]>> \notin R
        BY <2>1, <2>2, <2>3, RankGrows
    <2>6. QED
        BY <2>1, <2>4, <2>5 DEF TotalOrder
<1>4. s \in Injection(1..n, S)
    <2>1. ASSUME NEW i \in 1..n, NEW j \in 1..n, s[i] = s[j] PROVE i = j
        <3>1. ~ (i < j) /\ ~ (j < i)
            BY <1>3, <2>1
        <3>2. QED
            BY <1>1, <3>1
    <2>2. QED
        BY <2>1 DEF Injection, IsInjective, Ranking
<1>5. Cardinality(1..n) = n
    BY <1>1, FS_Interval
<1>6. s \in Surjection(1..n, S)
    BY <1>4, <1>5, FS_Injection
<1>7. QED
    BY <1>1, <1>2, <1>3, <1>6 DEF Surjection
--------------------------------------------------------------------------------
(* Positions kept of a sequence *)

\* The positions P in increasing order.
Increasing(place, P) ==
    /\ place \in Seq(P) /\ Len(place) = Cardinality(P) /\ Cardinality(P) \in Nat
    /\ \A i, j \in 1..Cardinality(P) : i < j => place[i] < place[j]
    /\ \A x \in P : \E i \in 1..Cardinality(P) : place[i] = x

LEMMA SortedNumbers ==
    ASSUME NEW P \in SUBSET Nat, IsFiniteSet(P)
    PROVE  Increasing(Sorted(P, LAMBDA i, j : i < j), P)
<1>. DEFINE R == {p \in P \X P : p[1] < p[2]}
            s == Sorted(P, LAMBDA i, j : i < j)
<1>1. TotalOrder(P, R)
    BY DEF TotalOrder
<1>2. \A x \in P : {y \in P : y < x} = Below(P, R, x)
    BY DEF Below
<1>3. \A i \in 1..Cardinality(P) :
         \E x \in P : Cardinality({y \in P : y < x}) = i - 1
    <2>1. \A i \in 1..Cardinality(P) :
             \E x \in P : Cardinality(Below(P, R, x)) = i - 1
        BY <1>1, EveryRank
    <2>2. QED
        BY <2>1, <1>2
<1>4. s = [i \in 1..Cardinality(P) |->
             CHOOSE x \in P : Cardinality({y \in P : y < x}) = i - 1]
    BY DEF Sorted
<1>5. ASSUME NEW i \in 1..Cardinality(P)
      PROVE  s[i] \in P /\ Cardinality({y \in P : y < s[i]}) = i - 1
    BY <1>3, <1>4
<1>. HIDE DEF s
<1>6. Ranking(P, R, s)
    BY <1>2, <1>4, <1>5 DEF Ranking
<1>. HIDE DEF R
<1>7. /\ Cardinality(P) \in Nat
      /\ s \in Seq(P) /\ Len(s) = Cardinality(P)
      /\ \A i, j \in 1..Cardinality(P) : i < j => <<s[i], s[j]>> \in R /\ s[i] # s[j]
      /\ \A x \in P : \E i \in 1..Cardinality(P) : s[i] = x
    BY <1>1, <1>6, RankingIsOrder
<1>8. Increasing(s, P)
    BY <1>7 DEF Increasing, R
<1>9. QED
    BY <1>8 DEF s

\* A sequence, whatever its elements are.
Listed(s) == /\ Len(s) \in Nat /\ DOMAIN s = 1..Len(s)
             /\ s \in Seq(Range(s))

LEMMA ListedIs ==
    ASSUME NEW s, NEW n \in Nat, s = [i \in 1..n |-> s[i]]
    PROVE  Listed(s) /\ Len(s) = n
<1>1. s \in [1..n -> Range(s)]
    BY DEF Range
<1>2. s \in Seq(Range(s)) /\ Len(s) = n
    BY <1>1
<1>3. QED
    BY <1>2 DEF Listed

LEMMA ListedSeq ==
    ASSUME NEW S, NEW s \in Seq(S)
    PROVE  Listed(s) /\ s \in [1..Len(s) -> S]
<1>1. Len(s) \in Nat /\ s \in [1..Len(s) -> S]
    OBVIOUS
<1>2. s = [i \in 1..Len(s) |-> s[i]]
    BY <1>1
<1>3. QED
    BY <1>1, <1>2, ListedIs

\* The positions are taken in ascending order.
LEMMA AtIsSorted ==
    ASSUME NEW values, NEW P
    PROVE  At(values, P) = [k \in 1..Cardinality(P) |-> values[Sorted(P, LAMBDA i, j : i < j)[k]]]
<1>. DEFINE s == Sorted(P, LAMBDA i, j : i < j)
            nth(k) == CHOOSE p \in P : Cardinality({i \in P : i < p}) = k - 1
<1>1. \A k \in 1..Cardinality(P) : s[k] = nth(k)
    BY DEF Sorted
<1>2. At(values, P) = [k \in 1..Cardinality(P) |-> values[nth(k)]]
    BY DEF At
<1>3. At(values, P) = [k \in 1..Cardinality(P) |-> values[s[k]]]
    <2>. HIDE DEF s, nth
    <2>. QED
        BY <1>1, <1>2
<1>4. QED
    BY <1>3

LEMMA AtIs ==
    ASSUME NEW values, Listed(values), NEW P \in SUBSET DOMAIN values
    PROVE  /\ IsFiniteSet(P) /\ Cardinality(P) \in Nat
           /\ Cardinality(P) <= Len(values)
           /\ \E place : /\ Increasing(place, P)
                         /\ At(values, P) = [k \in 1..Cardinality(P) |-> values[place[k]]]
<1>. DEFINE s == Sorted(P, LAMBDA i, j : i < j)
<1>1. P \subseteq Nat /\ P \subseteq 1..Len(values) /\ Len(values) \in Nat
    BY DEF Listed
<1>2. IsFiniteSet(1..Len(values)) /\ Cardinality(1..Len(values)) = Len(values)
    BY <1>1, IntervalSize
<1>3. IsFiniteSet(P) /\ Cardinality(P) <= Len(values)
    BY <1>1, <1>2, FS_Subset
<1>4. Increasing(s, P)
    BY <1>1, <1>3, SortedNumbers
<1>5. At(values, P) = [k \in 1..Cardinality(P) |-> values[s[k]]]
    BY AtIsSorted
<1>. HIDE DEF s
<1>6. QED
    BY <1>3, <1>4, <1>5 DEF Increasing

\* What is kept of a sequence: a sequence of the values at the positions.
LEMMA AtKeeps ==
    ASSUME NEW values, Listed(values), NEW P \in SUBSET DOMAIN values,
           NEW V, \A i \in P : values[i] \in V
    PROVE  /\ At(values, P) \in Seq(V)
           /\ Listed(At(values, P))
           /\ Len(At(values, P)) = Cardinality(P)
           /\ \A k \in DOMAIN At(values, P) : \E i \in P : At(values, P)[k] = values[i]
           /\ \A i \in P : \E k \in DOMAIN At(values, P) : At(values, P)[k] = values[i]
<1>1. PICK place : /\ Increasing(place, P)
                   /\ At(values, P) = [k \in 1..Cardinality(P) |-> values[place[k]]]
    BY AtIs
<1>2. Cardinality(P) \in Nat
    BY AtIs
<1>3. \A k \in 1..Cardinality(P) : place[k] \in P
    BY <1>1, <1>2 DEF Increasing
<1>4. At(values, P) \in [1..Cardinality(P) -> V]
    BY <1>1, <1>3
<1>5. At(values, P) \in Seq(V) /\ Len(At(values, P)) = Cardinality(P)
    BY <1>2, <1>4
<1>6. Listed(At(values, P))
    BY <1>5, ListedSeq
<1>7. DOMAIN At(values, P) = 1..Cardinality(P)
    BY <1>4
<1>8. \A k \in DOMAIN At(values, P) : \E i \in P : At(values, P)[k] = values[i]
    BY <1>1, <1>3, <1>7
<1>9. ASSUME NEW i \in P
      PROVE  \E k \in DOMAIN At(values, P) : At(values, P)[k] = values[i]
    <2>1. PICK k \in 1..Cardinality(P) : place[k] = i
        BY <1>1 DEF Increasing
    <2>2. At(values, P)[k] = values[i]
        BY <1>1, <2>1
    <2>3. QED
        BY <1>7, <2>2
<1>10. QED
    BY <1>5, <1>6, <1>8, <1>9

LEMMA AtOfSubset ==
    ASSUME NEW values, Listed(values), NEW P, P \subseteq DOMAIN values
    PROVE  /\ Listed(At(values, P))
           /\ Range(At(values, P)) \subseteq Range(values)
<1>1. \A i \in P : values[i] \in Range(values)
    BY DEF Range
<1>2. /\ Listed(At(values, P))
      /\ \A k \in DOMAIN At(values, P) : \E i \in P : At(values, P)[k] = values[i]
    <2>1. P \in SUBSET DOMAIN values
        OBVIOUS
    <2>2. QED
        BY <1>1, <2>1, AtKeeps
<1>3. QED
    BY <1>1, <1>2 DEF Range

\* Of first positions no value is kept twice.
LEMMA FirstsAreDistinct ==
    ASSUME NEW values, Listed(values), NEW P \in SUBSET FirstPositions(values)
    PROVE  \A k, l \in DOMAIN At(values, P) : k # l => At(values, P)[k] # At(values, P)[l]
<1>1. P \in SUBSET DOMAIN values
    BY DEF FirstPositions
<1>2. PICK place : /\ Increasing(place, P)
                   /\ At(values, P) = [k \in 1..Cardinality(P) |-> values[place[k]]]
    BY <1>1, AtIs
<1>3. DOMAIN values = 1..Len(values) /\ Len(values) \in Nat
    BY DEF Listed
<1>4. ASSUME NEW k \in 1..Cardinality(P), NEW l \in 1..Cardinality(P), k < l
      PROVE  values[place[k]] # values[place[l]]
    <2>1. place[k] \in P /\ place[l] \in P /\ place[k] < place[l]
        BY <1>2, <1>4 DEF Increasing
    <2>2. place[k] \in 1..(place[l] - 1)
        BY <1>1, <1>3, <2>1
    <2>3. QED
        BY <2>1, <2>2 DEF FirstPositions
<1>5. Cardinality(P) \in Nat
    BY <1>1, AtIs
<1>6. \A k, l \in 1..Cardinality(P) : k # l => values[place[k]] # values[place[l]]
    BY <1>4, <1>5
<1>7. QED
    BY <1>2, <1>6

\* The first values, none when the limit is negative.
LEMMA PrefixIs ==
    ASSUME NEW V, NEW values \in Seq(V), NEW limit \in Int
    PROVE  /\ Prefix(values, limit) \in Seq(V)
           /\ Listed(Prefix(values, limit))
           /\ limit \in Nat => Len(Prefix(values, limit))
                                  = IF limit < Len(values) THEN limit ELSE Len(values)
           /\ \A i \in DOMAIN Prefix(values, limit) :
                 i \in DOMAIN values /\ Prefix(values, limit)[i] = values[i]
<1>. DEFINE n == IF limit < Len(values) THEN limit ELSE Len(values)
<1>1. /\ Prefix(values, limit) = SubSeq(values, 1, n) /\ n \in Int /\ n <= Len(values)
      /\ limit \in Nat => n \in Nat
    BY DEF Prefix
<1>. HIDE DEF n
<1>2. CASE n \in Nat
    <2>1. /\ SubSeq(values, 1, n) \in Seq(V)
          /\ Len(SubSeq(values, 1, n)) = n
          /\ \A i \in 1..n : SubSeq(values, 1, n)[i] = values[i]
        BY <1>1, <1>2
    <2>2. Listed(SubSeq(values, 1, n))
        BY <2>1, ListedSeq
    <2>3. DOMAIN SubSeq(values, 1, n) = 1..n /\ 1..n \subseteq DOMAIN values
        BY <1>1, <1>2, <2>1
    <2>4. QED
        BY <1>1, <2>1, <2>2, <2>3 DEF n
<1>3. CASE n \notin Nat
    <2>1. 1..n = {} /\ limit \notin Nat
        BY <1>1, <1>3
    <2>2. SubSeq(values, 1, n) \in Seq(V) /\ Len(SubSeq(values, 1, n)) = 0
        BY <1>1, <1>3
    <2>3. Listed(SubSeq(values, 1, n))
        BY <2>2, ListedSeq
    <2>. DEFINE none == SubSeq(values, 1, n)
    <2>4. DOMAIN none = {}
        <3>. HIDE DEF none
        <3>1. DOMAIN none = 1..Len(none)
            BY <2>3 DEF Listed, none
        <3>2. Len(none) = 0
            BY <2>2 DEF none
        <3>3. QED
            BY <3>1, <3>2
    <2>5. QED
        BY <1>1, <2>1, <2>2, <2>3, <2>4
<1>4. QED
    BY <1>2, <1>3

LEMMA AppendIs ==
    ASSUME NEW s, Listed(s), NEW e
    PROVE  /\ Listed(Append(s, e)) /\ Len(Append(s, e)) = Len(s) + 1
           /\ \A i \in 1..Len(s) : Append(s, e)[i] = s[i]
           /\ Append(s, e)[Len(s) + 1] = e
<1>. DEFINE V == Range(s) \cup {e}
<1>1. s \in [1..Len(s) -> V] /\ Len(s) \in Nat
    BY ListedSeq DEF Listed
<1>2. s \in Seq(V) /\ e \in V
    BY <1>1
<1>. HIDE DEF V
<1>3. /\ Append(s, e) \in Seq(V)
      /\ Len(Append(s, e)) = Len(s) + 1
      /\ \A i \in 1..Len(s) : Append(s, e)[i] = s[i]
      /\ Append(s, e)[Len(s) + 1] = e
    BY <1>2
<1>4. QED
    BY <1>3, ListedSeq

LEMMA ListedIsFinite ==
    ASSUME NEW s, Listed(s)
    PROVE  /\ IsFiniteSet(DOMAIN s) /\ Cardinality(DOMAIN s) = Len(s)
           /\ IsFiniteSet(Range(s)) /\ Cardinality(Range(s)) <= Len(s)
           /\ Cardinality(Range(s)) \in Nat
           /\ ToSet(s) = Range(s)
<1>1. s \in [1..Len(s) -> Range(s)] /\ Len(s) \in Nat /\ DOMAIN s = 1..Len(s)
    BY ListedSeq DEF Listed
<1>2. IsFiniteSet(1..Len(s)) /\ Cardinality(1..Len(s)) = Len(s)
    BY <1>1, IntervalSize
<1>3. s \in Surjection(1..Len(s), Range(s))
    BY <1>1 DEF Surjection, Range
<1>4. IsFiniteSet(Range(s)) /\ Cardinality(Range(s)) <= Len(s)
    BY <1>2, <1>3, FS_Surjection
<1>5. Cardinality(Range(s)) \in Nat
    BY <1>4, FS_CardinalityType
<1>6. ToSet(s) = Range(s)
    BY DEF ToSet, Range
<1>7. QED
    BY <1>1, <1>2, <1>4, <1>5, <1>6

\* The values of a function over a finite set.
LEMMA ImageIsFinite ==
    ASSUME NEW S, IsFiniteSet(S), NEW g, DOMAIN g = S
    PROVE  /\ IsFiniteSet({g[x] : x \in S})
           /\ Cardinality({g[x] : x \in S}) <= Cardinality(S)
<1>. DEFINE h == [x \in S |-> g[x]]
            T == {g[x] : x \in S}
<1>1. h \in Surjection(S, T)
    BY DEF Surjection
<1>2. QED
    BY <1>1, FS_Surjection

\* A sum of natural numbers is one.
LEMMA AmountIsNumber ==
    ASSUME NEW S, IsFiniteSet(S), NEW g, \A x \in S : g[x] \in Nat,
           NEW P, \A p \in P : \E x \in S : \E k \in 1..g[x] : p = <<x, k>>
    PROVE  Cardinality(P) \in Nat
<1>. DEFINE pairs == [x \in S |-> {x} \X (1..g[x])]
            all == {pairs[x] : x \in S}
<1>1. IsFiniteSet(all)
    <2>1. DOMAIN pairs = S
        OBVIOUS
    <2>. HIDE DEF pairs
    <2>2. QED
        BY <2>1, ImageIsFinite
<1>2. ASSUME NEW x \in S PROVE IsFiniteSet(pairs[x])
    <2>1. IsFiniteSet({x})
        BY FS_Singleton
    <2>2. IsFiniteSet(1..g[x])
        <3>1. g[x] \in Nat
            OBVIOUS
        <3>2. QED
            BY <3>1, IntervalSize
    <2>3. IsFiniteSet({x} \X (1..g[x]))
        BY <2>1, <2>2, FS_Product
    <2>4. QED
        BY <2>3
<1>3. P \subseteq UNION all
    OBVIOUS
<1>4. \A T \in all : IsFiniteSet(T)
    BY <1>2
<1>. HIDE DEF all
<1>5. IsFiniteSet(UNION all)
    BY <1>1, <1>4, FS_UNION
<1>6. IsFiniteSet(P)
    BY <1>3, <1>5, FS_Subset
<1>7. QED
    BY <1>6, FS_CardinalityType

LEMMA EmptyIsListed == Listed(<<>>) /\ Len(<<>>) = 0
<1>1. <<>> \in Seq({}) /\ Len(<<>>) = 0
    OBVIOUS
<1>2. QED
    BY <1>1, ListedSeq

--------------------------------------------------------------------------------
(* Recursive functions over 0..N *)

LEMMA InductionUpTo ==
    ASSUME NEW N \in Nat, NEW T, 0 \in T, \A n \in 1..N : n - 1 \in T => n \in T
    PROVE  \A n \in 0..N : n \in T
<1>. DEFINE U == {n \in Nat : n <= N => n \in T}
<1>1. 0 \in U
    OBVIOUS
<1>2. ASSUME NEW n \in Nat, n \in U PROVE n + 1 \in U
    <2>1. CASE n + 1 <= N
        <3>1. n + 1 \in 1..N /\ (n + 1) - 1 = n /\ n <= N
            BY <2>1
        <3>2. QED
            BY <1>2, <3>1
    <2>2. CASE ~(n + 1 <= N)
        BY <2>2
    <2>3. QED
        BY <2>1, <2>2
<1>. HIDE DEF U
<1>3. \A n \in Nat : n \in U
    BY <1>1, <1>2, NumberInduction
<1>4. QED
    BY <1>3 DEF U

\* A loop that makes the next value from the last one.
Loop(N, start, step, f) ==
    f[0] = start /\ \A n \in 1..N : f[n] = step[<<f[n - 1], n>>]

LEMMA LoopExists ==
    ASSUME NEW N \in Nat, NEW V, NEW start \in V, NEW step \in [V \X (1..N) -> V]
    PROVE  \E f \in [0..N -> V] : Loop(N, start, step, f)
<1>. DEFINE T == {n \in 0..N : \E f \in [0..n -> V] : Loop(n, start, step, f)}
<1>1. 0 \in T
    <2>. DEFINE f == [n \in 0..0 |-> start]
    <2>1. f \in [0..0 -> V] /\ Loop(0, start, step, f)
        BY DEF Loop
    <2>. HIDE DEF f
    <2>2. QED
        BY <2>1
<1>2. ASSUME NEW n \in 1..N, n - 1 \in T PROVE n \in T
    <2>1. PICK f \in [0..(n - 1) -> V] : Loop(n - 1, start, step, f)
        BY <1>2
    <2>. DEFINE g == [k \in 0..n |-> IF k = n THEN step[<<f[n - 1], n>>] ELSE f[k]]
    <2>2. f[n - 1] \in V /\ <<f[n - 1], n>> \in V \X (1..N)
        OBVIOUS
    <2>3. step[<<f[n - 1], n>>] \in V
        BY <2>2
    <2>4. g \in [0..n -> V]
        BY <2>3
    <2>5. ASSUME NEW k \in 1..n PROVE g[k] = step[<<g[k - 1], k>>]
        <3>1. CASE k = n
            <4>1. n - 1 \in 0..n /\ n - 1 # n
                OBVIOUS
            <4>2. g[n - 1] = f[n - 1] /\ g[n] = step[<<f[n - 1], n>>]
                BY <4>1
            <4>3. QED
                BY <3>1, <4>2
        <3>2. CASE k # n
            <4>1. k \in 1..(n - 1) /\ k - 1 \in 0..n /\ k - 1 # n
                BY <3>2
            <4>2. g[k] = f[k] /\ g[k - 1] = f[k - 1] /\ f[k] = step[<<f[k - 1], k>>]
                BY <2>1, <3>2, <4>1 DEF Loop
            <4>3. QED
                BY <4>2
        <3>3. QED
            BY <3>1, <3>2
    <2>6. g[0] = start
        BY <2>1 DEF Loop
    <2>. HIDE DEF g
    <2>7. Loop(n, start, step, g)
        BY <2>5, <2>6 DEF Loop
    <2>8. QED
        BY <2>4, <2>7
<1>. HIDE DEF T
<1>3. \A n \in 0..N : n \in T
    BY <1>1, <1>2, InductionUpTo
<1>4. QED
    BY <1>3 DEF T

\* The concatenation has the elements of all its parts, and no others.
LEMMA FlatIs ==
    ASSUME NEW X, NEW s, Listed(s), \A i \in 1..Len(s) : s[i] \in Seq(X)
    PROVE  /\ Flat(s) \in Seq(X)
           /\ \A x : x \in Range(Flat(s)) <=> \E i \in 1..Len(s) : x \in Range(s[i])
<1>. DEFINE N == Len(s)
            first == CHOOSE f : f = [n \in 0..N |-> IF n = 0 THEN <<>> ELSE f[n - 1] \o s[n]]
            step == [p \in Seq(X) \X (1..N) |-> p[1] \o s[p[2]]]
<1>1. N \in Nat /\ Flat(s) = first[N]
    BY DEF Listed, Flat
<1>2. step \in [Seq(X) \X (1..N) -> Seq(X)] /\ <<>> \in Seq(X)
    OBVIOUS
<1>. HIDE DEF step
<1>3. PICK f \in [0..N -> Seq(X)] : Loop(N, <<>>, step, f)
    BY <1>1, <1>2, LoopExists
<1>4. ASSUME NEW n \in 1..N PROVE step[<<f[n - 1], n>>] = f[n - 1] \o s[n]
    <2>1. f[n - 1] \in Seq(X)
        BY <1>1
    <2>2. QED
        BY <2>1 DEF step
<1>5. f = [n \in 0..N |-> IF n = 0 THEN <<>> ELSE f[n - 1] \o s[n]]
    <2>1. ASSUME NEW n \in 0..N PROVE f[n] = IF n = 0 THEN <<>> ELSE f[n - 1] \o s[n]
        <3>1. CASE n = 0
            BY <1>3, <3>1 DEF Loop
        <3>2. CASE n # 0
            <4>1. n \in 1..N
                BY <1>1, <3>2
            <4>2. QED
                BY <1>3, <1>4, <3>2, <4>1, ZenonT(40) DEF Loop
        <3>3. QED
            BY <3>1, <3>2
    <2>2. f = [n \in 0..N |-> f[n]]
        OBVIOUS
    <2>. HIDE DEF N
    <2>3. QED
        BY <2>1, <2>2
<1>. HIDE DEF first
<1>6. first = [n \in 0..N |-> IF n = 0 THEN <<>> ELSE first[n - 1] \o s[n]]
    BY <1>5, ZenonT(40) DEF first
<1>. DEFINE T == {n \in 0..N : /\ first[n] \in Seq(X)
                               /\ \A x : x \in Range(first[n]) <=>
                                            \E i \in 1..n : x \in Range(s[i])}
<1>7. 0 \in T
    BY <1>1, <1>6, EmptyIsListed DEF Range, Listed
<1>8. ASSUME NEW n \in 1..N, n - 1 \in T PROVE n \in T
    <2>0. n \in 0..N /\ n # 0 /\ n - 1 \in Nat
        BY <1>1
    <2>1. first[n] = first[n - 1] \o s[n]
        BY <1>6, <2>0
    <2>2. first[n - 1] \in Seq(X) /\ s[n] \in Seq(X)
        BY <1>8
    <2>3. ASSUME NEW x
          PROVE  x \in Range(first[n]) <=> x \in Range(first[n - 1]) \/ x \in Range(s[n])
        BY <2>1, <2>2, RangeConcatenation
    <2>4. ASSUME NEW x PROVE x \in Range(first[n]) <=> \E i \in 1..n : x \in Range(s[i])
        <3>1. x \in Range(first[n - 1]) <=> \E i \in 1..(n - 1) : x \in Range(s[i])
            BY <1>8
        <3>2. \A i : i \in 1..n <=> i \in 1..(n - 1) \/ i = n
            OBVIOUS
        <3>3. QED
            BY <2>3, <3>1, <3>2
    <2>5. first[n] \in Seq(X)
        BY <2>1, <2>2
    <2>6. QED
        BY <2>0, <2>4, <2>5
<1>. HIDE DEF T
<1>9. \A n \in 0..N : n \in T
    BY <1>1, <1>7, <1>8, InductionUpTo
<1>10. N \in T
    BY <1>1, <1>9
<1>11. QED
    BY <1>1, <1>10 DEF T
--------------------------------------------------------------------------------
(* What a block is in *)

\* Blocks stand behind what they are in.
AreNested(blocks) ==
    Listed(blocks) /\ \A i \in 1..Len(blocks) : blocks[i].parent \in 0..(i - 1)

Beneath(blocks, index) == {i \in 1..Len(blocks) : index \in Path(blocks)[i]}

LEMMA PathIs ==
    ASSUME NEW blocks, AreNested(blocks)
    PROVE  /\ Path(blocks) \in [0..Len(blocks) -> SUBSET (1..Len(blocks))]
           /\ Path(blocks)[0] = {}
           /\ \A i \in 1..Len(blocks) : Path(blocks)[i] = {i} \cup Path(blocks)[blocks[i].parent]
<1>. DEFINE N == Len(blocks)
            up(i) == blocks[i].parent
            Upward(f, n) == /\ f \in [0..n -> SUBSET (1..N)] /\ f[0] = {}
                            /\ \A i \in 1..n : f[i] = {i} \cup f[up(i)]
            T == {n \in 0..N : \E f : Upward(f, n)}
<1>1. N \in Nat /\ \A i \in 1..N : up(i) \in 0..(i - 1)
    BY DEF AreNested, Listed
<1>2. 0 \in T
    <2>. DEFINE f == [n \in 0..0 |-> {}]
    <2>1. Upward(f, 0)
        OBVIOUS
    <2>. HIDE DEF f, Upward
    <2>2. QED
        BY <1>1, <2>1
<1>. HIDE DEF N, up
<1>3. ASSUME NEW n \in 1..N, n - 1 \in T PROVE n \in T
    <2>1. PICK f : Upward(f, n - 1)
        BY <1>3
    <2>. DEFINE g == [i \in 0..n |-> IF i = n THEN {n} \cup f[up(n)] ELSE f[i]]
    <2>2. n \in Nat /\ up(n) \in 0..(n - 1) /\ n \in 0..N
        BY <1>1
    <2>3. f[up(n)] \in SUBSET (1..N)
        BY <2>1, <2>2
    <2>4. g \in [0..n -> SUBSET (1..N)]
        <3>1. ASSUME NEW i \in 0..n, i # n PROVE f[i] \in SUBSET (1..N)
            BY <2>1, <2>2, <3>1
        <3>2. QED
            BY <2>3, <3>1
    <2>5. g[0] = {}
        BY <2>1, <2>2
    <2>6. ASSUME NEW i \in 1..n PROVE g[i] = {i} \cup g[up(i)]
        <3>1. up(i) \in 0..(i - 1) /\ i \in 1..N
            BY <1>1, <2>2
        <3>2. up(i) \in 0..n /\ up(i) # n
            BY <3>1, <2>2
        <3>3. g[up(i)] = f[up(i)]
            BY <3>2
        <3>4. CASE i = n
            <4>1. n \in 0..n
                BY <2>2
            <4>2. g[n] = {n} \cup f[up(n)]
                BY <4>1
            <4>3. QED
                BY <3>3, <3>4, <4>2
        <3>5. CASE i # n
            <4>1. i \in 1..(n - 1) /\ i \in 0..n
                BY <3>5, <2>2
            <4>2. g[i] = f[i] /\ f[i] = {i} \cup f[up(i)]
                BY <2>1, <3>5, <4>1
            <4>3. QED
                BY <3>3, <4>2
        <3>6. QED
            BY <3>4, <3>5
    <2>. HIDE DEF g
    <2>7. Upward(g, n)
        BY <2>4, <2>5, <2>6
    <2>. HIDE DEF Upward
    <2>8. QED
        BY <2>2, <2>7
<1>. HIDE DEF T
<1>4. N \in T
    <2>1. \A n \in 0..N : n \in T
        BY <1>1, <1>2, <1>3, InductionUpTo
    <2>2. QED
        BY <1>1, <2>1
<1>5. PICK f : Upward(f, N)
    BY <1>4 DEF T
<1>6. f = [i \in 0..N |-> IF i = 0 THEN {} ELSE {i} \cup f[up(i)]]
    <2>1. ASSUME NEW i \in 0..N PROVE f[i] = IF i = 0 THEN {} ELSE {i} \cup f[up(i)]
        <3>1. CASE i = 0
            BY <1>5, <3>1
        <3>2. CASE i # 0
            <4>1. i \in 1..N
                BY <1>1, <3>2
            <4>2. QED
                BY <1>5, <3>2, <4>1
        <3>3. QED
            BY <3>1, <3>2
    <2>2. f = [i \in 0..N |-> f[i]]
        BY <1>5
    <2>3. QED
        BY <2>1, <2>2
<1>. DEFINE Is(g) == g = [i \in 0..N |-> IF i = 0 THEN {} ELSE {i} \cup g[up(i)]]
<1>7. Path(blocks) = CHOOSE g : Is(g)
    BY DEF Path, N, up
<1>8. Is(Path(blocks))
    BY <1>6, <1>7
<1>. DEFINE path == Path(blocks)
<1>. HIDE DEF path
<1>9. path = [i \in 0..N |-> IF i = 0 THEN {} ELSE {i} \cup path[up(i)]]
    BY <1>8 DEF path
<1>10. path[0] = {} /\ \A i \in 1..N : path[i] = {i} \cup path[up(i)]
    <2>1. 0 \in 0..N
        BY <1>1
    <2>2. path[0] = {}
        BY <1>9, <2>1
    <2>3. ASSUME NEW i \in 1..N PROVE path[i] = {i} \cup path[up(i)]
        <3>1. i \in 0..N /\ i # 0
            BY <1>1
        <3>2. QED
            BY <1>9, <3>1
    <2>4. QED
        BY <2>2, <2>3
<1>. DEFINE U == {n \in 0..N : \A i \in 0..n : path[i] \in SUBSET (1..N)}
<1>11. 0 \in U
    BY <1>1, <1>10
<1>12. ASSUME NEW n \in 1..N, n - 1 \in U PROVE n \in U
    <2>1. up(n) \in 0..(n - 1) /\ n \in 0..N
        BY <1>1
    <2>2. path[n] \in SUBSET (1..N)
        BY <1>10, <1>12, <2>1
    <2>3. \A i \in 0..n : i \in 0..(n - 1) \/ i = n
        BY <1>1
    <2>4. QED
        BY <1>12, <2>1, <2>2, <2>3
<1>. HIDE DEF U
<1>13. N \in U
    <2>1. \A n \in 0..N : n \in U
        BY <1>1, <1>11, <1>12, InductionUpTo
    <2>2. QED
        BY <1>1, <2>1
<1>14. \A i \in 0..N : path[i] \in SUBSET (1..N)
    BY <1>13 DEF U
<1>15. path \in [0..N -> SUBSET (1..N)]
    <2>1. path = [i \in 0..N |-> path[i]]
        BY <1>9
    <2>2. QED
        BY <1>14, <2>1
<1>16. QED
    BY <1>10, <1>15 DEF path, N, up

\* What a block is in stands in front of it, and of two of these one is in the
\* other.
LEMMA PathIsChain ==
    ASSUME NEW blocks, AreNested(blocks)
    PROVE  \A i \in 0..Len(blocks) : \A a \in Path(blocks)[i] :
              /\ a \in 1..i
              /\ Path(blocks)[a] \subseteq Path(blocks)[i]
              /\ \A b \in Path(blocks)[i] : a < b => a \in Path(blocks)[b]
<1>. DEFINE N == Len(blocks)
            path == Path(blocks)
            up(i) == blocks[i].parent
            Chain(i) == \A a \in path[i] : /\ a \in 1..i /\ path[a] \subseteq path[i]
                                           /\ \A b \in path[i] : a < b => a \in path[b]
            T == {n \in 0..N : \A i \in 0..n : Chain(i)}
<1>1. N \in Nat /\ \A i \in 1..N : up(i) \in 0..(i - 1)
    BY DEF AreNested, Listed
<1>2. path[0] = {} /\ \A i \in 1..N : path[i] = {i} \cup path[up(i)]
    BY PathIs
<1>. HIDE DEF N, path, up
<1>3. 0 \in T
    BY <1>1, <1>2
<1>4. ASSUME NEW n \in 1..N, n - 1 \in T PROVE n \in T
    <2>1. up(n) \in 0..(n - 1) /\ n \in 0..N /\ n \in Nat
        BY <1>1
    <2>2. Chain(up(n)) /\ path[n] = {n} \cup path[up(n)]
        BY <1>2, <1>4, <2>1
    <2>3. ASSUME NEW a \in path[n]
          PROVE  /\ a \in 1..n /\ path[a] \subseteq path[n]
                 /\ \A b \in path[n] : a < b => a \in path[b]
        <3>1. \A b \in path[up(n)] : b \in 1..n /\ b < n
            BY <2>1, <2>2
        <3>2. CASE a = n
            <4>1. \A b \in path[n] : ~(a < b)
                BY <2>1, <2>2, <3>1, <3>2
            <4>2. QED
                BY <2>1, <3>2, <4>1
        <3>3. CASE a \in path[up(n)]
            <4>1. path[a] \subseteq path[n]
                BY <2>2, <3>3
            <4>2. \A b \in path[n] : a < b => a \in path[b]
                BY <2>2, <3>3
            <4>3. QED
                BY <3>1, <3>3, <4>1, <4>2
        <3>4. QED
            BY <2>2, <3>2, <3>3
    <2>4. Chain(n)
        BY <2>3
    <2>5. \A i \in 0..n : i \in 0..(n - 1) \/ i = n
        BY <2>1
    <2>. HIDE DEF Chain
    <2>6. QED
        BY <1>4, <2>1, <2>4, <2>5
<1>. HIDE DEF T
<1>5. N \in T
    <2>1. \A n \in 0..N : n \in T
        BY <1>1, <1>3, <1>4, InductionUpTo
    <2>2. QED
        BY <1>1, <2>1
<1>6. QED
    BY <1>5 DEF T, N, path

\* What is beneath a block is the block and what is beneath its children, who
\* share nothing.
LEMMA BeneathIs ==
    ASSUME NEW blocks, AreNested(blocks), NEW a \in 1..Len(blocks)
    PROVE  LET kids == {c \in 1..Len(blocks) : blocks[c].parent = a}
           IN  /\ a \in Beneath(blocks, a)
               /\ \A j \in Beneath(blocks, a) : j = a \/ \E c \in kids : j \in Beneath(blocks, c)
               /\ \A c \in kids : /\ a \notin Beneath(blocks, c)
                                  /\ Beneath(blocks, c) \subseteq Beneath(blocks, a)
               /\ \A c, d \in kids : c # d => Beneath(blocks, c) \cap Beneath(blocks, d) = {}
<1>. DEFINE N == Len(blocks)
            path == Path(blocks)
            up(i) == blocks[i].parent
            kids == {c \in 1..N : up(c) = a}
            Descends(j) == a \in path[j] /\ j # a => \E c \in kids : c \in path[j]
            T == {n \in 0..N : \A j \in 0..n : Descends(j)}
<1>1. N \in Nat /\ a \in 1..N /\ \A i \in 1..N : up(i) \in 0..(i - 1)
    BY DEF AreNested, Listed
<1>2. path[0] = {} /\ \A i \in 1..N : path[i] = {i} \cup path[up(i)]
    BY PathIs
<1>3. \A i \in 0..N : \A b \in path[i] : /\ b \in 1..i /\ path[b] \subseteq path[i]
                                         /\ \A c \in path[i] : b < c => b \in path[c]
    BY PathIsChain
<1>4. \A c : Beneath(blocks, c) = {i \in 1..N : c \in path[i]}
    BY DEF Beneath
<1>. HIDE DEF N, path, up
<1>5. a \in Beneath(blocks, a)
    BY <1>1, <1>2, <1>4
<1>6. 0 \in T
    BY <1>1, <1>2
<1>7. ASSUME NEW n \in 1..N, n - 1 \in T PROVE n \in T
    <2>1. up(n) \in 0..(n - 1) /\ n \in 0..N /\ n \in Nat
        BY <1>1
    <2>2. ASSUME a \in path[n], n # a PROVE \E c \in kids : c \in path[n]
        <3>1. path[n] = {n} \cup path[up(n)]
            BY <1>2
        <3>2. CASE up(n) = a
            BY <3>1, <3>2
        <3>3. CASE up(n) # a
            <4>1. a \in path[up(n)] /\ Descends(up(n))
                BY <1>7, <2>1, <2>2, <3>1
            <4>2. QED
                BY <3>1, <3>3, <4>1
        <3>4. QED
            BY <3>2, <3>3
    <2>3. Descends(n)
        BY <2>2
    <2>4. \A j \in 0..n : j \in 0..(n - 1) \/ j = n
        BY <2>1
    <2>. HIDE DEF Descends
    <2>5. QED
        BY <1>7, <2>1, <2>3, <2>4
<1>. HIDE DEF T
<1>8. N \in T
    <2>1. \A n \in 0..N : n \in T
        BY <1>1, <1>6, <1>7, InductionUpTo
    <2>2. QED
        BY <1>1, <2>1
<1>9. \A j \in Beneath(blocks, a) : j = a \/ \E c \in kids : j \in Beneath(blocks, c)
    <2>1. ASSUME NEW j \in 1..N, a \in path[j], j # a
          PROVE  \E c \in kids : j \in {i \in 1..N : c \in path[i]}
        <3>1. j \in 0..N
            BY <1>1
        <3>2. Descends(j)
            BY <1>8, <3>1 DEF T
        <3>3. QED
            BY <2>1, <3>2
    <2>2. QED
        BY <1>4, <2>1
<1>10. ASSUME NEW c \in kids
       PROVE  /\ a \notin Beneath(blocks, c) /\ Beneath(blocks, c) \subseteq Beneath(blocks, a)
              /\ a < c /\ c \in 1..N
    <2>1. c \in 1..N /\ c \in Nat /\ up(c) = a /\ a < c /\ a \in 0..N /\ c \in 0..N
        BY <1>1
    <2>2. c \notin path[a]
        BY <1>1, <1>3, <2>1
    <2>3. a \in path[c]
        BY <1>1, <1>2, <2>1
    <2>4. ASSUME NEW i \in 1..N, c \in path[i] PROVE a \in path[i]
        <3>1. i \in 0..N
            BY <1>1
        <3>2. QED
            BY <1>3, <2>3, <2>4, <3>1
    <2>5. QED
        BY <1>4, <2>1, <2>2, <2>4
<1>11. ASSUME NEW c \in kids, NEW d \in kids, c < d
       PROVE  Beneath(blocks, c) \cap Beneath(blocks, d) = {}
    <2>1. SUFFICES ASSUME NEW j \in 1..N, c \in path[j], d \in path[j] PROVE FALSE
        BY <1>4
    <2>2. j \in 0..N /\ a \in 0..N
        BY <1>1
    <2>3. c \in path[d]
        BY <1>3, <1>11, <2>1, <2>2
    <2>4. path[d] = {d} \cup path[a] /\ c # d
        BY <1>1, <1>2, <1>10, <1>11, SMTT(40)
    <2>5. c \in 1..a /\ a < c /\ a \in Nat
        BY <1>1, <1>3, <1>10, <2>2, <2>3, <2>4, SMTT(40)
    <2>6. QED
        BY <2>5
<1>12. \A c, d \in kids : c # d => Beneath(blocks, c) \cap Beneath(blocks, d) = {}
    <2>1. ASSUME NEW c \in kids, NEW d \in kids, c # d
          PROVE  Beneath(blocks, c) \cap Beneath(blocks, d) = {}
        <3>1. c \in Nat /\ d \in Nat
            BY <1>1
        <3>2. c < d \/ d < c
            BY <2>1, <3>1
        <3>3. QED
            BY <1>11, <3>2
    <2>2. QED
        BY <2>1
<1>13. QED
    BY <1>5, <1>9, <1>10, <1>12 DEF N, up
--------------------------------------------------------------------------------
(* Windows of a text *)

IsBudget(budget) ==
    /\ {budget.maxTokens, budget.maxSearch, budget.overlap, budget.added} \subseteq Nat
    /\ LegalBudget(budget) /\ budget.added < budget.maxTokens

LEMMA Multiples ==
    ASSUME NEW n \in Nat, NEW step \in Nat, step >= 1
    PROVE  n * step \in Nat /\ n * step >= n /\ (n + 1) * step = n * step + step
<1>1. n * step \in Nat /\ (n + 1) * step = n * step + step
    OBVIOUS
<1>. DEFINE T == {k \in Nat : k * step >= k}
<1>2. 0 \in T
    OBVIOUS
<1>3. ASSUME NEW k \in Nat, k \in T PROVE k + 1 \in T
    <2>1. (k + 1) * step = k * step + step /\ k * step \in Nat
        OBVIOUS
    <2>2. k * step >= k
        BY <1>3
    <2>3. (k + 1) * step >= k + 1
        BY <2>1, <2>2
    <2>4. QED
        BY <2>3
<1>. HIDE DEF T
<1>4. n \in T
    BY <1>2, <1>3, NumberInduction
<1>5. QED
    BY <1>1, <1>4 DEF T

\* A text too long is cut into windows that are not, and every token is in one.
LEMMA SplitIs ==
    ASSUME NEW budget, IsBudget(budget), NEW X, NEW text \in Seq(X), text # <<>>
    PROVE  LET windows == SplitTokens(budget, text)
           IN  /\ Listed(windows) /\ Len(windows) >= 1
               /\ \A i \in 1..Len(windows) :
                     /\ windows[i] \in Seq(X) /\ Len(windows[i]) >= 1
                     /\ Count(budget, windows[i]) <= budget.maxTokens
                     /\ Range(windows[i]) \subseteq Range(text)
               /\ \A t \in Range(text) : \E i \in 1..Len(windows) : t \in Range(windows[i])
<1>. DEFINE size == Len(text)
            window == budget.maxTokens - budget.added
            step == IF window > budget.overlap THEN window - budget.overlap ELSE 1
            start(n) == (n - 1) * step
            reaches(n) == start(n) + window >= size
            R == {n \in 1..size : reaches(n)}
            first(n) == reaches(n) /\ \A k \in 1..(n - 1) : ~reaches(k)
            count == CHOOSE n \in 1..size : first(n)
            end(n) == IF reaches(n) THEN size ELSE start(n) + window
            fragment(n) == SubSeq(text, start(n) + 1, end(n))
            windows == SplitTokens(budget, text)
<1>1. /\ size \in Nat /\ size >= 1
      /\ window \in Nat /\ window >= 1 /\ budget.added \in Nat
      /\ step \in Nat /\ step >= 1 /\ step <= window
    BY DEF IsBudget, LegalBudget
<1>2. CASE Count(budget, text) <= budget.maxTokens
    <2>1. windows = <<text>>
        BY <1>2 DEF SplitTokens
    <2>2. Listed(windows) /\ Len(windows) = 1 /\ windows[1] = text
        <3>1. <<text>> \in Seq({text}) /\ Len(<<text>>) = 1 /\ <<text>>[1] = text
            OBVIOUS
        <3>2. QED
            BY <2>1, <3>1, ListedSeq
    <2>3. QED
        BY <1>1, <1>2, <2>2
<1>3. CASE ~(Count(budget, text) <= budget.maxTokens)
    <2>1. windows = [n \in 1..count |-> fragment(n)]
        BY <1>3 DEF SplitTokens
    <2>. HIDE DEF size, window, step, windows
    <2>2. ASSUME NEW n \in Nat, n >= 1
          PROVE  /\ start(n) \in Nat /\ start(n) >= n - 1
                 /\ n >= 2 => start(n) = start(n - 1) + step
        <3>1. n - 1 \in Nat
            BY <2>2
        <3>2. start(n) \in Nat /\ start(n) >= n - 1
            BY <1>1, <3>1, Multiples
        <3>3. ASSUME n >= 2 PROVE start(n) = start(n - 1) + step
            <4>1. n - 2 \in Nat /\ (n - 1) - 1 = n - 2 /\ (n - 2) + 1 = n - 1
                BY <3>3
            <4>2. ((n - 2) + 1) * step = (n - 2) * step + step
                BY <1>1, <4>1, Multiples
            <4>3. QED
                BY <4>1, <4>2
        <3>4. QED
            BY <3>2, <3>3
    <2>3. start(1) = 0
        BY <1>1
    <2>. HIDE DEF start
    <2>4. size \in R
        BY <1>1, <2>2
    <2>5. PICK c \in R : \A k \in R : c <= k
        <3>1. R \in SUBSET Nat /\ R # {}
            BY <1>1, <2>4
        <3>. HIDE DEF R
        <3>2. QED
            BY <3>1, LeastNumber
    <2>6. c \in 1..size /\ first(c)
        <3>1. ASSUME NEW k \in 1..(c - 1), reaches(k) PROVE FALSE
            <4>1. k \in 1..size /\ k < c
                BY <1>1, <2>5
            <4>2. k \in R
                BY <3>1, <4>1
            <4>3. QED
                BY <1>1, <2>5, <4>1, <4>2
        <3>2. QED
            BY <2>5, <3>1
    <2>7. count \in 1..size /\ first(count)
        <3>. HIDE DEF first
        <3>. QED
            BY <2>6
    <2>. HIDE DEF count
    <2>8. count \in Nat /\ count >= 1
        BY <1>1, <2>7
    <2>9. ASSUME NEW n \in 1..count
          PROVE  start(n) \in Nat /\ start(n) < size
        <3>1. n \in Nat /\ n >= 1
            BY <2>8
        <3>2. CASE n = 1
            BY <1>1, <2>3, <3>2
        <3>3. CASE n # 1
            <4>1. n - 1 \in 1..(count - 1) /\ n >= 2
                BY <2>8, <3>1, <3>3
            <4>2. ~reaches(n - 1)
                BY <2>7, <4>1
            <4>3. start(n) = start(n - 1) + step /\ start(n - 1) \in Nat
                BY <2>2, <2>8, <3>1, <4>1
            <4>4. QED
                BY <1>1, <4>2, <4>3
        <3>4. QED
            BY <3>2, <3>3
    <2>10. ASSUME NEW n \in 1..count
           PROVE  /\ start(n) + 1 \in 1..(size + 1) /\ end(n) \in (start(n) + 1)..size
                  /\ end(n) - start(n) <= window /\ end(n) - start(n) >= 1
        BY <1>1, <2>9, SMTT(40)
    <2>11. ASSUME NEW n \in 1..count
           PROVE  /\ fragment(n) \in Seq(X) /\ Len(fragment(n)) = end(n) - start(n)
                  /\ \A k \in 1..(end(n) - start(n)) : fragment(n)[k] = text[start(n) + k]
        <3>1. /\ start(n) + 1 \in 1..(Len(text) + 1)
              /\ end(n) \in ((start(n) + 1) - 1)..Len(text)
            BY <1>1, <2>9, <2>10 DEF size
        <3>2. start(n) \in Nat /\ end(n) \in Nat /\ start(n) + 1 <= end(n)
            BY <1>1, <2>9, <2>10
        <3>. HIDE DEF start, end, window, step, size, count
        <3>3. /\ fragment(n) \in Seq(X)
              /\ Len(fragment(n)) = IF start(n) + 1 <= end(n) THEN end(n) - (start(n) + 1) + 1 ELSE 0
              /\ \A k \in 1..(end(n) - (start(n) + 1) + 1) :
                     fragment(n)[k] = text[(start(n) + 1) + k - 1]
            <4>1. \A i \in (start(n) + 1)..end(n) : text[i] \in X
                BY <3>1, <3>2
            <4>2. start(n) + 1 \in Int /\ end(n) \in Int
                BY <3>2
            <4>3. QED
                BY <4>1, <4>2, SubSeqProperties
        <3>4. end(n) - (start(n) + 1) + 1 = end(n) - start(n)
            BY <3>2
        <3>5. ASSUME NEW k \in 1..(end(n) - start(n)) PROVE fragment(n)[k] = text[start(n) + k]
            <4>1. (start(n) + 1) + k - 1 = start(n) + k
                BY <3>2
            <4>2. QED
                BY <3>3, <3>4, <4>1
        <3>6. QED
            BY <3>2, <3>3, <3>4, <3>5
    <2>. HIDE DEF fragment, end
    <2>12. Listed(windows) /\ Len(windows) = count
        <3>1. windows = [n \in 1..count |-> windows[n]]
            BY <2>1
        <3>2. QED
            BY <2>8, <3>1, ListedIs
    <2>13. \A n \in 1..count : windows[n] = fragment(n)
        BY <2>1
    <2>14. ASSUME NEW n \in 1..count
           PROVE  /\ windows[n] \in Seq(X) /\ Len(windows[n]) >= 1
                  /\ Count(budget, windows[n]) <= budget.maxTokens
                  /\ Range(windows[n]) \subseteq Range(text)
        <3>1. /\ windows[n] \in Seq(X) /\ Len(windows[n]) = end(n) - start(n)
            BY <2>11, <2>13
        <3>2. budget.maxTokens \in Nat /\ window = budget.maxTokens - budget.added
            BY DEF IsBudget, window
        <3>3. /\ start(n) \in Nat /\ end(n) \in Nat /\ end(n) <= size
              /\ end(n) - start(n) <= window /\ end(n) - start(n) >= 1
            BY <1>1, <2>9, <2>10
        <3>4. Count(budget, windows[n]) <= budget.maxTokens
            BY <1>1, <3>1, <3>2, <3>3, SMTT(40) DEF Count
        <3>5. ASSUME NEW x \in Range(windows[n]) PROVE x \in Range(text)
            <4>1. PICK k \in 1..(end(n) - start(n)) : x = windows[n][k]
                BY <3>1 DEF Range
            <4>2. x = text[start(n) + k]
                BY <2>11, <2>13, <4>1
            <4>3. start(n) + k \in 1..size
                BY <1>1, <3>3
            <4>4. QED
                BY <4>2, <4>3 DEF Range, size
        <3>6. QED
            BY <3>1, <3>3, <3>4, <3>5
    <2>15. ASSUME NEW p \in 1..size
           PROVE  \E n \in 1..count : text[p] \in Range(windows[n])
        <3>. DEFINE Q == {n \in 1..count : start(n) + window >= p}
        <3>1. count \in Q
            <4>1. start(count) + window >= size
                BY <2>7
            <4>2. start(count) \in Nat
                BY <2>2, <2>8
            <4>. HIDE DEF start
            <4>3. QED
                BY <1>1, <2>8, <4>1, <4>2
        <3>2. PICK n \in Q : \A k \in Q : n <= k
            <4>1. Q \in SUBSET Nat /\ Q # {}
                BY <2>8, <3>1
            <4>. HIDE DEF Q
            <4>2. QED
                BY <4>1, LeastNumber
        <3>3. n \in 1..count /\ n \in Nat /\ start(n) \in Nat
            BY <2>8, <2>9, <3>2
        <3>4. start(n) < p
            <4>1. CASE n = 1
                BY <2>3, <4>1
            <4>2. CASE n # 1
                <5>1. n - 1 \in 1..count /\ n >= 2
                    BY <2>8, <3>3, <4>2
                <5>2. n - 1 \notin Q
                    BY <3>2, <3>3
                <5>3. start(n - 1) \in Nat /\ start(n - 1) + window < p
                    BY <1>1, <2>9, <5>1, <5>2
                <5>4. start(n) = start(n - 1) + step
                    BY <2>2, <3>3, <5>1
                <5>5. QED
                    BY <1>1, <5>3, <5>4
            <4>3. QED
                BY <4>1, <4>2
        <3>5. end(n) >= p /\ end(n) \in Nat
            BY <1>1, <2>10, <3>2, <3>3 DEF end
        <3>6. p - start(n) \in 1..(end(n) - start(n)) /\ start(n) + (p - start(n)) = p
            BY <1>1, <3>3, <3>4, <3>5
        <3>7. windows[n][p - start(n)] = text[p]
            BY <2>11, <2>13, <3>3, <3>6
        <3>8. p - start(n) \in DOMAIN windows[n]
            <4>1. windows[n] \in Seq(X) /\ Len(windows[n]) = end(n) - start(n)
                BY <2>11, <2>13, <3>3
            <4>2. QED
                BY <3>6, <4>1
        <3>9. QED
            BY <3>3, <3>7, <3>8 DEF Range
    <2>16. \A t \in Range(text) : \E n \in 1..count : t \in Range(windows[n])
        BY <2>15 DEF Range, size
    <2>17. QED
        BY <2>8, <2>12, <2>14, <2>16 DEF windows
<1>4. QED
    BY <1>2, <1>3
--------------------------------------------------------------------------------
(* Drafts *)

\* The blocks of a document, with tokens in X.
AreBlocks(blocks, X) ==
    AreNested(blocks) /\ \A i \in 1..Len(blocks) : blocks[i].text \in Seq(X)

\* Sources that may be one chunk: an article with all beneath it or one other
\* block, and headings.
Unit(blocks, i) == IF blocks[i].kind = "article" THEN Beneath(blocks, i) ELSE {i}
Headings(blocks) == {i \in 1..Len(blocks) : blocks[i].kind \in ContextHeadings}
Belong(blocks, S) == \E i \in 1..Len(blocks) : S \subseteq Headings(blocks) \cup Unit(blocks, i)

DraftStrategies == {"article", "clause_group", "standalone_block", "token_fallback"}
DraftSet(blocks, X) ==
    [sources : Seq(1..Len(blocks)), text : Seq(X), strategy : DraftStrategies, split : Int, of : Int]

Windows(budget, blocks, d) == SplitTokens(budget, TextOf(blocks, d.sources))

IsCut(d) == d.strategy = "token_fallback"

IsDraft(budget, blocks, X, d) ==
    /\ d \in DraftSet(blocks, X) /\ d.sources # <<>> /\ Belong(blocks, Range(d.sources))
    /\ Count(budget, d.text) <= budget.maxTokens
    /\ ~IsCut(d) => d.text = TextOf(blocks, d.sources)
    /\ IsCut(d) => /\ d.of = Len(Windows(budget, blocks, d)) /\ d.split \in 0..(d.of - 1)
                   /\ d.text = Windows(budget, blocks, d)[d.split + 1]

Share(d, e) == Range(d.sources) \cap Range(e.sources) # {}
AreTwins(d, e) == IsCut(d) /\ IsCut(e) /\ d.sources = e.sources

\* Drafts share sources only when they are windows of one text, all of which
\* follow each other.
AreDrafts(budget, blocks, X, drafts) ==
    /\ Listed(drafts) /\ \A i \in 1..Len(drafts) : IsDraft(budget, blocks, X, drafts[i])
    /\ \A i, j \in 1..Len(drafts) :
          Share(drafts[i], drafts[j]) =>
              i = j \/ (AreTwins(drafts[i], drafts[j]) /\ i - j = drafts[i].split - drafts[j].split)
    /\ \A i \in 1..Len(drafts) : IsCut(drafts[i]) =>
          \A k \in 1..drafts[i].of : \E j \in 1..Len(drafts) :
              AreTwins(drafts[i], drafts[j]) /\ drafts[j].split = k - 1

Drawn(drafts) == UNION {Range(drafts[i].sources) : i \in 1..Len(drafts)}

LEMMA DraftsOfNothing ==
    ASSUME NEW budget, NEW blocks, NEW X
    PROVE  AreDrafts(budget, blocks, X, <<>>) /\ Drawn(<<>>) = {}
BY EmptyIsListed DEF AreDrafts, Drawn

LEMMA ConcatIs ==
    ASSUME NEW s, Listed(s), NEW t, Listed(t)
    PROVE  /\ Listed(s \o t) /\ Len(s \o t) = Len(s) + Len(t)
           /\ \A i \in 1..Len(s) : (s \o t)[i] = s[i]
           /\ \A i \in 1..Len(t) : (s \o t)[Len(s) + i] = t[i]
           /\ Range(s \o t) = Range(s) \cup Range(t)
<1>. DEFINE S == Range(s) \cup Range(t)
<1>1. s \in Seq(Range(s)) /\ t \in Seq(Range(t)) /\ Len(s) \in Nat /\ Len(t) \in Nat
    BY DEF Listed
<1>2. s \in Seq(S) /\ t \in Seq(S)
    BY <1>1
<1>. HIDE DEF S
<1>3. Range(s \o t) = Range(s) \cup Range(t)
    BY <1>2, RangeConcatenation
<1>4. s \o t \in Seq(S)
    BY <1>2
<1>5. Listed(s \o t)
    BY <1>4, ListedSeq
<1>6. Len(s \o t) = Len(s) + Len(t)
    BY <1>2
<1>7. ASSUME NEW i \in 1..Len(s) PROVE (s \o t)[i] = s[i]
    BY <1>1, <1>2
<1>8. ASSUME NEW i \in 1..Len(t) PROVE (s \o t)[Len(s) + i] = t[i]
    BY <1>1, <1>2
<1>9. QED
    BY <1>3, <1>5, <1>6, <1>7, <1>8

\* What two lists of drafts draw.
LEMMA DrawnJoin ==
    ASSUME NEW budget, NEW blocks, NEW X, NEW d, NEW e,
           AreDrafts(budget, blocks, X, d), AreDrafts(budget, blocks, X, e)
    PROVE Drawn(d \o e) = Drawn(d) \cup Drawn(e)
<1>. DEFINE g == d \o e
            m == Len(d)
            n == Len(e)
<1>1. /\ m \in Nat /\ n \in Nat /\ Len(g) = m + n
      /\ \A i \in 1..m : g[i] = d[i]
      /\ \A i \in 1..n : g[m + i] = e[i]
    <2>1. Listed(d) /\ Listed(e)
        BY DEF AreDrafts
    <2>2. QED
        BY <2>1, ConcatIs DEF Listed
<1>. HIDE DEF g, m, n
<1>2. ASSUME NEW b PROVE b \in Drawn(g) <=> b \in Drawn(d) \/ b \in Drawn(e)
    <2>1. \A i \in 1..(m + n) : i \in 1..m \/ \E j \in 1..n : i = m + j
        <3>1. \A i \in 1..(m + n) : i \in 1..m \/ (i - m \in 1..n /\ i = m + (i - m))
            BY <1>1
        <3>2. QED
            BY <3>1
    <2>2. \A i \in 1..m : i \in 1..(m + n)
        BY <1>1
    <2>3. \A i \in 1..n : m + i \in 1..(m + n)
        BY <1>1
    <2>4. /\ b \in Drawn(g) <=> \E i \in 1..(m + n) : b \in Range(g[i].sources)
          /\ b \in Drawn(d) <=> \E i \in 1..m : b \in Range(d[i].sources)
          /\ b \in Drawn(e) <=> \E i \in 1..n : b \in Range(e[i].sources)
        BY <1>1 DEF Drawn, m, n
    <2>5. QED
        BY <1>1, <2>1, <2>2, <2>3, <2>4
<1>3. QED
    BY <1>2 DEF g

\* Drafts of different blocks are drafts together.
LEMMA DraftsJoin ==
    ASSUME NEW budget, NEW blocks, NEW X, NEW d, NEW e,
           AreDrafts(budget, blocks, X, d), AreDrafts(budget, blocks, X, e),
           Drawn(d) \cap Drawn(e) = {}
    PROVE  AreDrafts(budget, blocks, X, d \o e)
<1>. DEFINE all == d \o e
            m == Len(d)
            n == Len(e)
<1>1. Listed(d) /\ Listed(e) /\ m \in Nat /\ n \in Nat
    BY DEF AreDrafts, Listed
<1>2. /\ Listed(all) /\ Len(all) = m + n
      /\ \A i \in 1..m : all[i] = d[i]
      /\ \A i \in 1..n : all[m + i] = e[i]
    BY <1>1, ConcatIs
<1>. HIDE DEF all, m, n
<1>3. ASSUME NEW i \in 1..(m + n)
      PROVE  \/ i \in 1..m /\ all[i] = d[i]
             \/ i - m \in 1..n /\ all[i] = e[i - m]
    <2>1. CASE i <= m
        BY <1>1, <1>2, <2>1
    <2>2. CASE ~(i <= m)
        <3>1. i - m \in 1..n /\ m + (i - m) = i
            BY <1>1, <2>2
        <3>2. QED
            BY <1>2, <3>1
    <2>3. QED
        BY <2>1, <2>2
<1>4. (\A i \in 1..m : i \in 1..(m + n)) /\ \A i \in 1..n : m + i \in 1..(m + n)
    BY <1>1
<1>5. Drawn(d) = UNION {Range(d[i].sources) : i \in 1..m}
      /\ Drawn(e) = UNION {Range(e[i].sources) : i \in 1..n}
      /\ Drawn(all) = UNION {Range(all[i].sources) : i \in 1..(m + n)}
    BY <1>2 DEF Drawn, m, n
<1>7. \A i \in 1..(m + n) : IsDraft(budget, blocks, X, all[i])
    <2>1. /\ \A i \in 1..m : IsDraft(budget, blocks, X, d[i])
          /\ \A i \in 1..n : IsDraft(budget, blocks, X, e[i])
        BY DEF AreDrafts, m, n
    <2>2. QED
        BY <1>3, <2>1
<1>8. ASSUME NEW i \in 1..(m + n), NEW j \in 1..(m + n), Share(all[i], all[j])
      PROVE  i = j \/ (AreTwins(all[i], all[j]) /\ i - j = all[i].split - all[j].split)
    <2>1. \A k, l \in 1..m : Share(d[k], d[l]) =>
                 k = l \/ (AreTwins(d[k], d[l]) /\ k - l = d[k].split - d[l].split)
        BY DEF AreDrafts, m
    <2>2. \A k, l \in 1..n : Share(e[k], e[l]) =>
                 k = l \/ (AreTwins(e[k], e[l]) /\ k - l = e[k].split - e[l].split)
        BY DEF AreDrafts, n
    <2>3. \A k \in 1..m, l \in 1..n : ~Share(d[k], e[l]) /\ ~Share(e[l], d[k])
        <3>1. ASSUME NEW k \in 1..m, NEW l \in 1..n
              PROVE  Range(d[k].sources) \cap Range(e[l].sources) = {}
            <4>1. Range(d[k].sources) \subseteq Drawn(d) /\ Range(e[l].sources) \subseteq Drawn(e)
                BY <1>5
            <4>2. QED
                BY <4>1
        <3>2. QED
            BY <3>1 DEF Share
    <2>4. i \in Nat /\ j \in Nat
        BY <1>1
    <2>5. CASE i \in 1..m /\ all[i] = d[i] /\ j \in 1..m /\ all[j] = d[j]
        BY <1>8, <2>1, <2>5
    <2>6. CASE i - m \in 1..n /\ all[i] = e[i - m] /\ j - m \in 1..n /\ all[j] = e[j - m]
        <3>1. \/ i - m = j - m
              \/ AreTwins(all[i], all[j]) /\ (i - m) - (j - m) = all[i].split - all[j].split
            BY <1>8, <2>2, <2>6
        <3>2. (i - m) - (j - m) = i - j /\ (i - m = j - m => i = j)
            BY <1>1, <2>4
        <3>3. QED
            BY <3>1, <3>2
    <2>7. QED
        BY <1>3, <1>8, <2>3, <2>5, <2>6
<1>9. ASSUME NEW i \in 1..(m + n), IsCut(all[i]), NEW k \in 1..all[i].of
      PROVE  \E j \in 1..(m + n) : AreTwins(all[i], all[j]) /\ all[j].split = k - 1
    <2>1. CASE i \in 1..m /\ all[i] = d[i]
        <3>1. PICK j \in 1..m : AreTwins(d[i], d[j]) /\ d[j].split = k - 1
            BY <1>9, <2>1 DEF AreDrafts, m
        <3>2. all[j] = d[j] /\ j \in 1..(m + n)
            BY <1>2, <1>4
        <3>3. QED
            BY <2>1, <3>1, <3>2
    <2>2. CASE i - m \in 1..n /\ all[i] = e[i - m]
        <3>1. PICK j \in 1..n : AreTwins(e[i - m], e[j]) /\ e[j].split = k - 1
            BY <1>9, <2>2 DEF AreDrafts, n
        <3>2. all[m + j] = e[j] /\ m + j \in 1..(m + n)
            BY <1>2, <1>4
        <3>3. QED
            BY <2>2, <3>1, <3>2
    <2>3. QED
        BY <1>3, <2>1, <2>2
<1>10. AreDrafts(budget, blocks, X, all)
    BY <1>2, <1>7, <1>8, <1>9 DEF AreDrafts
<1>11. QED
    BY <1>10 DEF all

LEMMA TextIs ==
    ASSUME NEW blocks, NEW X, AreBlocks(blocks, X), NEW sources \in Seq(1..Len(blocks))
    PROVE  /\ TextOf(blocks, sources) \in Seq(X)
           /\ \A t : t \in Range(TextOf(blocks, sources)) <=>
                        \E i \in Range(sources) : t \in Range(blocks[i].text)
<1>. DEFINE texts == [k \in DOMAIN sources |-> blocks[sources[k]].text]
<1>1. /\ DOMAIN sources = 1..Len(sources) /\ Len(sources) \in Nat
      /\ \A k \in 1..Len(sources) : sources[k] \in 1..Len(blocks)
    OBVIOUS
<1>2. \A k \in 1..Len(sources) : texts[k] = blocks[sources[k]].text
    BY <1>1
<1>3. TextOf(blocks, sources) = Flat(texts)
    BY DEF TextOf
<1>4. Listed(texts) /\ Len(texts) = Len(sources)
    <2>1. texts = [k \in 1..Len(sources) |-> texts[k]]
        BY <1>1
    <2>. HIDE DEF texts
    <2>2. QED
        BY <1>1, <2>1, ListedIs
<1>. HIDE DEF texts
<1>5. \A k \in 1..Len(texts) : texts[k] \in Seq(X)
    BY <1>1, <1>2, <1>4 DEF AreBlocks
<1>6. /\ Flat(texts) \in Seq(X)
      /\ \A t : t \in Range(Flat(texts)) <=> \E k \in 1..Len(texts) : t \in Range(texts[k])
    BY <1>4, <1>5, FlatIs
<1>7. ASSUME NEW t
      PROVE  (\E k \in 1..Len(sources) : t \in Range(blocks[sources[k]].text))
                <=> \E i \in Range(sources) : t \in Range(blocks[i].text)
    BY <1>1 DEF Range
<1>8. ASSUME NEW t
      PROVE  t \in Range(TextOf(blocks, sources))
                <=> \E i \in Range(sources) : t \in Range(blocks[i].text)
    <2>1. t \in Range(Flat(texts)) <=> \E k \in 1..Len(sources) : t \in Range(texts[k])
        BY <1>4, <1>6
    <2>2. t \in Range(Flat(texts))
             <=> \E k \in 1..Len(sources) : t \in Range(blocks[sources[k]].text)
        BY <1>2, <2>1
    <2>3. QED
        BY <1>3, <1>7, <2>2
<1>9. QED
    BY <1>3, <1>6, <1>8

LEMMA WholeIsDraft ==
    ASSUME NEW budget, NEW blocks, NEW X, AreBlocks(blocks, X),
           NEW sources \in Seq(1..Len(blocks)), sources # <<>>, Belong(blocks, Range(sources)),
           Fits(budget, blocks, sources),
           NEW strategy \in {"article", "clause_group", "standalone_block"}
    PROVE  /\ AreDrafts(budget, blocks, X, <<WholeDraft(blocks, sources, strategy)>>)
           /\ Drawn(<<WholeDraft(blocks, sources, strategy)>>) = Range(sources)
           /\ WholeDraft(blocks, sources, strategy) \in DraftSet(blocks, X)
<1>. DEFINE d == WholeDraft(blocks, sources, strategy)
<1>1. TextOf(blocks, sources) \in Seq(X)
    BY TextIs
<1>2. /\ d.sources = sources /\ d.text = TextOf(blocks, sources) /\ ~IsCut(d)
      /\ d \in DraftSet(blocks, X)
    <2>1. d = [sources |-> sources, text |-> TextOf(blocks, sources), strategy |-> strategy,
               split |-> 0, of |-> 1]
        BY DEF WholeDraft
    <2>2. strategy \in DraftStrategies /\ strategy # "token_fallback"
        BY DEF DraftStrategies
    <2>. HIDE DEF d
    <2>3. d \in DraftSet(blocks, X)
        BY <1>1, <2>1, <2>2 DEF DraftSet
    <2>4. d.sources = sources /\ d.text = TextOf(blocks, sources) /\ d.strategy = strategy
        BY <2>1
    <2>5. QED
        BY <2>2, <2>3, <2>4 DEF IsCut
<1>3. IsDraft(budget, blocks, X, d)
    BY <1>2 DEF IsDraft, Fits
<1>. HIDE DEF d
<1>4. Listed(<<d>>) /\ Len(<<d>>) = 1 /\ <<d>>[1] = d
    <2>1. <<d>> \in Seq({d}) /\ Len(<<d>>) = 1 /\ <<d>>[1] = d
        OBVIOUS
    <2>2. QED
        BY <2>1, ListedSeq
<1>. DEFINE one == <<d>>
<1>. HIDE DEF one
<1>5. Listed(one) /\ Len(one) = 1 /\ one[1] = d /\ \A i : i \in 1..1 <=> i = 1
    BY <1>4 DEF one
<1>6. AreDrafts(budget, blocks, X, one)
    BY <1>2, <1>3, <1>5 DEF AreDrafts
<1>7. Drawn(one) = Range(sources)
    BY <1>2, <1>5 DEF Drawn
<1>8. QED
    BY <1>2, <1>6, <1>7 DEF one, d

LEMMA WindowsAreDrafts ==
    ASSUME NEW budget, IsBudget(budget), NEW blocks, NEW X, AreBlocks(blocks, X),
           NEW sources \in Seq(1..Len(blocks)), Belong(blocks, Range(sources)),
           ~Fits(budget, blocks, sources)
    PROVE  LET cut == FallbackDrafts(budget, blocks, sources)
           IN  /\ AreDrafts(budget, blocks, X, cut) /\ Drawn(cut) = Range(sources)
               /\ cut \in Seq(DraftSet(blocks, X))
<1>. DEFINE text == TextOf(blocks, sources)
            windows == SplitTokens(budget, text)
            cut == FallbackDrafts(budget, blocks, sources)
            n == Len(windows)
<1>1. text \in Seq(X)
    BY TextIs
<1>2. text # <<>>
    <2>1. SUFFICES ASSUME text = <<>> PROVE FALSE
        OBVIOUS
    <2>2. Len(text) = 0
        BY <2>1
    <2>3. budget.added \in Nat /\ budget.maxTokens \in Nat /\ budget.added < budget.maxTokens
        BY DEF IsBudget
    <2>4. Count(budget, text) <= budget.maxTokens
        BY <2>2, <2>3 DEF Count
    <2>5. QED
        BY <2>4 DEF Fits
<1>3. sources # <<>>
    <2>1. SUFFICES ASSUME sources = <<>> PROVE FALSE
        OBVIOUS
    <2>2. \A t : t \notin Range(text)
        <3>1. Range(sources) = {}
            BY <2>1, EmptyIsListed DEF Listed, Range
        <3>2. \A t : t \in Range(text) <=> \E i \in Range(sources) : t \in Range(blocks[i].text)
            BY TextIs
        <3>3. QED
            BY <3>1, <3>2
    <2>. HIDE DEF text
    <2>3. Len(text) = 0
        <3>1. SUFFICES ASSUME Len(text) # 0 PROVE FALSE
            OBVIOUS
        <3>2. 1 \in DOMAIN text
            BY <1>1, <3>1
        <3>3. QED
            BY <2>2, <3>2 DEF Range
    <2>4. QED
        BY <1>1, <1>2, <2>3
<1>. HIDE DEF text
<1>4. /\ Listed(windows) /\ n >= 1 /\ n \in Nat
      /\ \A i \in 1..n : /\ windows[i] \in Seq(X)
                         /\ Count(budget, windows[i]) <= budget.maxTokens
    BY <1>1, <1>2, SplitIs DEF Listed
<1>. HIDE DEF windows, n
<1>. DEFINE draft(i) == [sources |-> sources, text |-> windows[i], strategy |-> "token_fallback",
                         split |-> i - 1, of |-> n]
<1>5. cut = [i \in 1..n |-> draft(i)]
    <2>1. DOMAIN windows = 1..n
        BY <1>4 DEF Listed, n
    <2>2. cut = [i \in DOMAIN windows |-> draft(i)]
        BY DEF FallbackDrafts, windows, text, n
    <2>3. QED
        BY <2>1, <2>2
<1>. HIDE DEF cut
<1>6. \A i \in 1..n : cut[i] = draft(i)
    BY <1>5
<1>7. Listed(cut) /\ Len(cut) = n
    <2>1. cut = [i \in 1..n |-> cut[i]]
        BY <1>5
    <2>2. QED
        BY <1>4, <2>1, ListedIs
<1>8. ASSUME NEW i \in 1..n
      PROVE  /\ cut[i].sources = sources /\ cut[i].text = windows[i] /\ cut[i].split = i - 1
             /\ cut[i].of = n /\ IsCut(cut[i]) /\ cut[i] \in DraftSet(blocks, X)
    <2>1. windows[i] \in Seq(X) /\ i - 1 \in Int /\ n \in Int
        BY <1>4
    <2>2. "token_fallback" \in DraftStrategies
        BY DEF DraftStrategies
    <2>3. draft(i) \in DraftSet(blocks, X)
        BY <2>1, <2>2 DEF DraftSet
    <2>4. QED
        BY <1>6, <2>3 DEF IsCut
<1>9. \A i \in 1..n : Windows(budget, blocks, cut[i]) = windows
    BY <1>8 DEF Windows, windows, text
<1>10. ASSUME NEW i \in 1..n PROVE IsDraft(budget, blocks, X, cut[i])
    <2>1. i - 1 \in 0..(n - 1) /\ (i - 1) + 1 = i
        BY <1>4
    <2>2. QED
        BY <1>3, <1>4, <1>8, <1>9, <2>1 DEF IsDraft, n
<1>11. \A i, j \in 1..n : AreTwins(cut[i], cut[j]) /\ i - j = cut[i].split - cut[j].split
    <2>1. \A i, j \in 1..n : (i - 1) - (j - 1) = i - j
        BY <1>4
    <2>2. QED
        BY <1>8, <2>1 DEF AreTwins
<1>12. \A i \in 1..n : \A k \in 1..cut[i].of : AreTwins(cut[i], cut[k]) /\ cut[k].split = k - 1
    BY <1>8, <1>11
<1>13. AreDrafts(budget, blocks, X, cut)
    <2>1. \A i \in 1..n : \A k \in 1..cut[i].of :
              \E j \in 1..n : AreTwins(cut[i], cut[j]) /\ cut[j].split = k - 1
        BY <1>8, <1>12
    <2>2. QED
        BY <1>7, <1>10, <1>11, <2>1 DEF AreDrafts
<1>14. Drawn(cut) = Range(sources)
    <2>1. 1 \in 1..n
        BY <1>4
    <2>2. Drawn(cut) = UNION {Range(cut[i].sources) : i \in 1..n}
        BY <1>7 DEF Drawn
    <2>3. QED
        BY <1>8, <2>1, <2>2
<1>15. cut \in Seq(DraftSet(blocks, X))
    <2>1. cut \in [1..n -> DraftSet(blocks, X)]
        BY <1>5, <1>8
    <2>2. QED
        BY <1>4, <2>1
<1>16. QED
    BY <1>13, <1>14, <1>15 DEF cut

\* What the windows of a text leave out of a block no chunk has: nothing.
LEMMA DraftsHoldTokens ==
    ASSUME NEW budget, IsBudget(budget), NEW blocks, NEW X, AreBlocks(blocks, X),
           NEW drafts, AreDrafts(budget, blocks, X, drafts),
           NEW b \in Drawn(drafts), NEW t \in Range(blocks[b].text)
    PROVE  \E i \in 1..Len(drafts) : b \in Range(drafts[i].sources) /\ t \in Range(drafts[i].text)
<1>1. PICK i \in 1..Len(drafts) : b \in Range(drafts[i].sources)
    BY DEF Drawn
<1>. DEFINE d == drafts[i]
            text == TextOf(blocks, d.sources)
<1>2. IsDraft(budget, blocks, X, d) /\ d.sources \in Seq(1..Len(blocks))
    BY DEF AreDrafts, IsDraft, DraftSet
<1>3. text \in Seq(X) /\ t \in Range(text)
    BY <1>1, <1>2, TextIs
<1>4. CASE ~IsCut(d)
    BY <1>1, <1>2, <1>3, <1>4 DEF IsDraft
<1>5. CASE IsCut(d)
    <2>. DEFINE windows == SplitTokens(budget, text)
    <2>1. text # <<>>
        BY <1>3, EmptyIsListed DEF Listed, Range
    <2>2. \E k \in 1..Len(windows) : t \in Range(windows[k])
        <3>. HIDE DEF text, d
        <3>. QED
            BY <1>3, <2>1, SplitIs
    <2>3. PICK k \in 1..Len(windows) : t \in Range(windows[k])
        BY <2>2
    <2>4. windows = Windows(budget, blocks, d) /\ d.of = Len(windows)
        BY <1>2, <1>5 DEF IsDraft, Windows
    <2>. HIDE DEF windows, text
    <2>5. PICK j \in 1..Len(drafts) : AreTwins(d, drafts[j]) /\ drafts[j].split = k - 1
        BY <1>5, <2>3, <2>4 DEF AreDrafts
    <2>6. drafts[j].sources = d.sources /\ IsCut(drafts[j])
        BY <2>5 DEF AreTwins
    <2>7. Windows(budget, blocks, drafts[j]) = windows
        BY <2>4, <2>6 DEF Windows
    <2>8. drafts[j].text = windows[drafts[j].split + 1]
        BY <2>6, <2>7 DEF AreDrafts, IsDraft
    <2>9. drafts[j].split + 1 = k
        BY <2>5
    <2>10. QED
        BY <1>1, <2>3, <2>6, <2>8, <2>9
<1>6. QED
    BY <1>4, <1>5

--------------------------------------------------------------------------------
(* Articles *)

\* Numbers in ascending order.
LEMMA PositionsAre ==
    ASSUME NEW blocks, Listed(blocks), NEW P \in SUBSET (1..Len(blocks))
    PROVE  LET s == At([i \in DOMAIN blocks |-> i], P)
           IN  /\ s \in Seq(1..Len(blocks)) /\ Range(s) = P /\ Len(s) \in Nat
               /\ DOMAIN s = 1..Len(s)
               /\ \A k, l \in 1..Len(s) : k # l => s[k] # s[l]
<1>. DEFINE values == [i \in DOMAIN blocks |-> i]
            s == At(values, P)
            N == Len(blocks)
<1>1. N \in Nat /\ DOMAIN blocks = 1..N
    BY DEF Listed
<1>2. values = [i \in 1..N |-> i] /\ \A i \in 1..N : values[i] = i
    BY <1>1
<1>. HIDE DEF values, N
<1>3. Listed(values) /\ DOMAIN values = 1..N
    <2>1. values = [i \in 1..N |-> values[i]]
        BY <1>2
    <2>2. Listed(values) /\ Len(values) = N
        BY <1>1, <2>1, ListedIs
    <2>3. QED
        BY <2>2 DEF Listed
<1>4. P \in SUBSET DOMAIN values /\ \A i \in P : values[i] = i /\ i \in 1..N
    BY <1>2, <1>3 DEF N
<1>5. /\ s \in Seq(1..N) /\ Listed(s)
      /\ \A k \in DOMAIN s : \E i \in P : s[k] = values[i]
      /\ \A i \in P : \E k \in DOMAIN s : s[k] = values[i]
    <2>1. \A i \in P : values[i] \in 1..N
        BY <1>4
    <2>. HIDE DEF s
    <2>2. QED
        BY <1>3, <1>4, <2>1, AtKeeps DEF s
<1>6. Range(s) = P
    <2>. HIDE DEF s
    <2>1. \A k \in DOMAIN s : s[k] \in P
        BY <1>4, <1>5
    <2>2. \A i \in P : \E k \in DOMAIN s : s[k] = i
        BY <1>4, <1>5
    <2>3. QED
        BY <2>1, <2>2 DEF Range
<1>7. PICK place : /\ Increasing(place, P)
                   /\ s = [k \in 1..Cardinality(P) |-> values[place[k]]]
    BY <1>3, <1>4, AtIs
<1>8. Cardinality(P) \in Nat /\ P \subseteq Nat
    BY <1>3, <1>4, AtIs
<1>. HIDE DEF s
<1>9. DOMAIN s = 1..Cardinality(P) /\ DOMAIN s = 1..Len(s) /\ Len(s) \in Nat
    BY <1>5, <1>7 DEF Listed
<1>10. ASSUME NEW k \in 1..Len(s), NEW l \in 1..Len(s), k # l PROVE s[k] # s[l]
    <2>1. k \in 1..Cardinality(P) /\ l \in 1..Cardinality(P)
        BY <1>9
    <2>2. place[k] \in P /\ place[l] \in P /\ place[k] # place[l]
        <3>1. k \in Nat /\ l \in Nat /\ (k < l \/ l < k)
            BY <1>9, <1>10
        <3>2. place[k] \in P /\ place[l] \in P
            BY <1>7, <2>1 DEF Increasing
        <3>3. (k < l => place[k] < place[l]) /\ (l < k => place[l] < place[k])
            BY <1>7, <2>1 DEF Increasing
        <3>. DEFINE v == place[k]
                    w == place[l]
        <3>4. v \in Nat /\ w \in Nat /\ (v < w \/ w < v)
            BY <1>8, <3>1, <3>2, <3>3
        <3>. HIDE DEF v, w
        <3>5. v # w
            BY <3>4
        <3>6. QED
            BY <3>2, <3>5 DEF v, w
    <2>3. s[k] = place[k] /\ s[l] = place[l]
        BY <1>4, <1>7, <2>1, <2>2
    <2>4. QED
        BY <2>2, <2>3
<1>11. QED
    BY <1>5, <1>6, <1>9, <1>10 DEF s, values, N

LEMMA SubtreeIs ==
    ASSUME NEW blocks, AreNested(blocks), NEW a \in 1..Len(blocks)
    PROVE  Subtree(blocks, a) \in Seq(1..Len(blocks)) /\ Range(Subtree(blocks, a)) = Beneath(blocks, a)
<1>1. Listed(blocks)
    BY DEF AreNested
<1>2. Beneath(blocks, a) \in SUBSET (1..Len(blocks))
    BY DEF Beneath
<1>3. Subtree(blocks, a) = At([i \in DOMAIN blocks |-> i], Beneath(blocks, a))
    BY <1>1 DEF Subtree, Beneath, Listed
<1>4. QED
    BY <1>1, <1>2, <1>3, PositionsAre

LEMMA ChildrenAre ==
    ASSUME NEW blocks, AreNested(blocks), NEW a
    PROVE  LET s == Children(blocks, a)
           IN  /\ s \in Seq(1..Len(blocks)) /\ Len(s) \in Nat /\ DOMAIN s = 1..Len(s)
               /\ Range(s) = {c \in 1..Len(blocks) : blocks[c].parent = a}
               /\ \A k, l \in 1..Len(s) : k # l => s[k] # s[l]
<1>. DEFINE P == {c \in 1..Len(blocks) : blocks[c].parent = a}
<1>1. Listed(blocks)
    BY DEF AreNested
<1>2. P \in SUBSET (1..Len(blocks))
    OBVIOUS
<1>3. Children(blocks, a) = At([i \in DOMAIN blocks |-> i], P)
    BY <1>1 DEF Children, Listed
<1>. DEFINE s == Children(blocks, a)
<1>. HIDE DEF P, s
<1>4. /\ s \in Seq(1..Len(blocks)) /\ Range(s) = P /\ Len(s) \in Nat /\ DOMAIN s = 1..Len(s)
      /\ \A k, l \in 1..Len(s) : k # l => s[k] # s[l]
    <2>1. s = At([i \in DOMAIN blocks |-> i], P)
        BY <1>3 DEF s
    <2>2. QED
        BY <1>1, <1>2, <2>1, PositionsAre, SMTT(40)
<1>5. QED
    BY <1>4 DEF P, s

\* The units of an article: its headings, itself and all beneath it, each block
\* in one unit.
AreUnits(blocks, units) ==
    /\ Listed(units)
    /\ \A n \in 1..Len(units) : units[n] \in Seq(1..Len(blocks)) /\ units[n] # <<>>
    /\ \A m, n \in 1..Len(units) : m # n => Range(units[m]) \cap Range(units[n]) = {}

UnitBlocks(units, n) == UNION {Range(units[m]) : m \in 1..n}

LEMMA ArticleUnitsAre ==
    ASSUME NEW blocks, AreNested(blocks), NEW a \in 1..Len(blocks),
           NEW context \in Seq(1..Len(blocks)), Range(context) \cap Beneath(blocks, a) = {}
    PROVE  LET units == ArticleUnits(blocks, a, context)
           IN  /\ AreUnits(blocks, units)
               /\ UnitBlocks(units, Len(units)) = Range(context) \cup Beneath(blocks, a)
<1>. DEFINE N == Len(blocks)
            kids == {c \in 1..N : blocks[c].parent = a}
            children == Children(blocks, a)
            m == Len(children)
            heading == Append(context, a)
            units == ArticleUnits(blocks, a, context)
<1>1. /\ children \in Seq(1..N) /\ m \in Nat /\ DOMAIN children = 1..m
      /\ Range(children) = kids /\ \A k, l \in 1..m : k # l => children[k] # children[l]
    BY ChildrenAre
<1>2. heading \in Seq(1..N) /\ Range(heading) = Range(context) \cup {a} /\ heading # <<>>
    <2>0. heading \in Seq(1..N) /\ heading # <<>>
        OBVIOUS
    <2>1. heading = context \o <<a>> /\ <<a>> \in Seq(1..N) /\ context \in Seq(1..N)
        OBVIOUS
    <2>2. Range(<<a>>) = {a}
        BY DEF Range
    <2>. HIDE DEF heading, N
    <2>3. Range(heading) = Range(context) \cup {a}
        <3>1. Listed(context) /\ Listed(<<a>>)
            BY <2>1, ListedSeq
        <3>2. QED
            BY <2>1, <2>2, <3>1, ConcatIs
    <2>4. QED
        BY <2>0, <2>3
<1>3. /\ a \in Beneath(blocks, a)
      /\ \A j \in Beneath(blocks, a) : j = a \/ \E c \in kids : j \in Beneath(blocks, c)
      /\ \A c \in kids : /\ a \notin Beneath(blocks, c)
                         /\ Beneath(blocks, c) \subseteq Beneath(blocks, a)
      /\ \A c, d \in kids : c # d => Beneath(blocks, c) \cap Beneath(blocks, d) = {}
    BY BeneathIs
<1>4. ASSUME NEW c \in kids
      PROVE  Subtree(blocks, c) \in Seq(1..N) /\ Range(Subtree(blocks, c)) = Beneath(blocks, c)
             /\ Subtree(blocks, c) # <<>>
    <2>1. c \in 1..N
        OBVIOUS
    <2>2. Subtree(blocks, c) \in Seq(1..N) /\ Range(Subtree(blocks, c)) = Beneath(blocks, c)
        BY <2>1, SubtreeIs
    <2>3. c \in Beneath(blocks, c)
        BY <2>1, BeneathIs
    <2>4. QED
        BY <2>2, <2>3, EmptyIsListed DEF Listed, Range
<1>. HIDE DEF N, kids, children, m, heading
<1>5. CASE children = <<>>
    <2>1. units = <<heading>>
        BY <1>5 DEF ArticleUnits, children, heading
    <2>2. Listed(units) /\ Len(units) = 1 /\ units[1] = heading
        <3>1. <<heading>> \in Seq({heading}) /\ Len(<<heading>>) = 1 /\ <<heading>>[1] = heading
            OBVIOUS
        <3>2. QED
            BY <2>1, <3>1, ListedSeq
    <2>. HIDE DEF units
    <2>3. kids = {}
        BY <1>1, <1>5, EmptyIsListed DEF Listed, Range
    <2>4. Range(heading) = Range(context) \cup Beneath(blocks, a)
        BY <1>2, <1>3, <2>3
    <2>5. \A n : n \in 1..1 <=> n = 1
        OBVIOUS
    <2>6. AreUnits(blocks, units)
        BY <1>2, <2>2, <2>5 DEF AreUnits, N
    <2>7. UnitBlocks(units, Len(units)) = Range(heading)
        BY <2>2, <2>5 DEF UnitBlocks
    <2>8. QED
        BY <2>4, <2>6, <2>7 DEF units
<1>6. CASE children # <<>>
    <2>. DEFINE unit(n) == (IF n = 1 THEN heading ELSE <<>>) \o Subtree(blocks, children[n])
    <2>1. units = [n \in 1..m |-> unit(n)]
        <3>1. units = [n \in DOMAIN children |-> unit(n)]
            BY <1>6 DEF ArticleUnits, children, heading
        <3>2. QED
            BY <1>1, <3>1
    <2>. HIDE DEF units
    <2>2. Listed(units) /\ Len(units) = m /\ \A n \in 1..m : units[n] = unit(n)
        <3>1. units = [n \in 1..m |-> units[n]]
            BY <2>1
        <3>2. QED
            BY <1>1, <2>1, <3>1, ListedIs
    <2>3. m >= 1
        <3>1. m = 0 => children = <<>>
            BY <1>1
        <3>2. QED
            BY <1>1, <1>6, <3>1
    <2>4. ASSUME NEW n \in 1..m PROVE children[n] \in kids
        BY <1>1 DEF Range
    <2>5. ASSUME NEW n \in 1..m
          PROVE  /\ units[n] \in Seq(1..N) /\ units[n] # <<>>
                 /\ Range(units[n]) = (IF n = 1 THEN Range(heading) ELSE {})
                                          \cup Beneath(blocks, children[n])
        <3>. DEFINE sub == Subtree(blocks, children[n])
        <3>1. sub \in Seq(1..N) /\ Range(sub) = Beneath(blocks, children[n]) /\ sub # <<>>
            BY <1>4, <2>4
        <3>. HIDE DEF sub
        <3>2. CASE n = 1
            <4>1. units[n] = heading \o sub
                BY <2>2, <3>2 DEF sub
            <4>2. Range(heading \o sub) = Range(heading) \cup Range(sub)
                BY <1>2, <3>1, RangeConcatenation
            <4>3. heading \o sub \in Seq(1..N) /\ heading \o sub # <<>>
                BY <1>2, <3>1
            <4>4. QED
                BY <3>1, <3>2, <4>1, <4>2, <4>3
        <3>3. CASE n # 1
            <4>1. units[n] = <<>> \o sub
                BY <2>2, <3>3 DEF sub
            <4>2. units[n] = sub
                BY <3>1, <4>1
            <4>3. QED
                BY <3>1, <3>3, <4>2
        <3>4. QED
            BY <3>2, <3>3
    <2>6. ASSUME NEW k \in 1..m, NEW n \in 1..m, k # n
          PROVE  Range(units[k]) \cap Range(units[n]) = {}
        <3>1. children[k] # children[n] /\ children[k] \in kids /\ children[n] \in kids
            BY <1>1, <2>4, <2>6
        <3>2. Beneath(blocks, children[k]) \cap Beneath(blocks, children[n]) = {}
            BY <1>3, <3>1
        <3>3. \A l \in 1..m : Range(heading) \cap Beneath(blocks, children[l]) = {}
            BY <1>2, <1>3, <2>4
        <3>4. k = 1 => n # 1
            BY <2>6
        <3>5. QED
            BY <2>5, <3>2, <3>3, <3>4
    <2>7. UnitBlocks(units, m) = Range(context) \cup Beneath(blocks, a)
        <3>1. ASSUME NEW b \in UnitBlocks(units, m)
              PROVE  b \in Range(context) \cup Beneath(blocks, a)
            <4>1. PICK n \in 1..m : b \in Range(units[n])
                BY DEF UnitBlocks
            <4>2. b \in Range(heading) \cup Beneath(blocks, children[n])
                BY <2>5, <4>1
            <4>3. Beneath(blocks, children[n]) \subseteq Beneath(blocks, a)
                BY <1>3, <2>4
            <4>4. QED
                BY <1>2, <1>3, <4>2, <4>3
        <3>2. ASSUME NEW b \in Range(context) \cup Beneath(blocks, a)
              PROVE  b \in UnitBlocks(units, m)
            <4>1. 1 \in 1..m
                BY <1>1, <2>3
            <4>2. CASE b \in Range(heading)
                <5>1. b \in Range(units[1])
                    BY <2>5, <4>1, <4>2
                <5>2. QED
                    BY <4>1, <5>1 DEF UnitBlocks
            <4>3. CASE b \notin Range(heading)
                <5>1. PICK c \in kids : b \in Beneath(blocks, c)
                    BY <1>2, <1>3, <4>3
                <5>2. PICK n \in 1..m : children[n] = c
                    BY <1>1 DEF Range
                <5>3. b \in Range(units[n])
                    BY <2>5, <5>1, <5>2
                <5>4. QED
                    BY <5>3 DEF UnitBlocks
            <4>4. QED
                BY <4>2, <4>3
        <3>3. QED
            BY <3>1, <3>2
    <2>8. AreUnits(blocks, units)
        BY <2>2, <2>5, <2>6 DEF AreUnits, N
    <2>9. QED
        BY <2>2, <2>7, <2>8 DEF units
<1>7. QED
    BY <1>5, <1>6

--------------------------------------------------------------------------------
(* Groups of units *)

LEMMA DraftsAreListed ==
    ASSUME NEW budget, NEW blocks, NEW X, NEW drafts, AreDrafts(budget, blocks, X, drafts)
    PROVE  drafts \in Seq(DraftSet(blocks, X))
<1>1. Listed(drafts) /\ \A i \in 1..Len(drafts) : drafts[i] \in DraftSet(blocks, X)
    BY DEF AreDrafts, IsDraft
<1>2. drafts \in [1..Len(drafts) -> DraftSet(blocks, X)] /\ Len(drafts) \in Nat
    <2>1. drafts \in [1..Len(drafts) -> Range(drafts)] /\ Len(drafts) \in Nat
        BY <1>1, ListedSeq DEF Listed
    <2>2. QED
        BY <1>1, <2>1
<1>3. QED
    BY <1>2

\* Units that wait: blocks of S, that fit into one chunk.
Waiting(budget, blocks, S) ==
    {p \in Seq(1..Len(blocks)) : Range(p) \subseteq S /\ (p = <<>> \/ Fits(budget, blocks, p))}

GroupStates(budget, blocks, X, S) ==
    [drafts : Seq(DraftSet(blocks, X)), pending : Waiting(budget, blocks, S)]

LEMMA BelongPart ==
    ASSUME NEW blocks, NEW S, Belong(blocks, S), NEW R, R \subseteq S
    PROVE  Belong(blocks, R)
BY DEF Belong

LEMMA GroupIs ==
    ASSUME NEW budget, NEW blocks, NEW X, AreBlocks(blocks, X), NEW S, Belong(blocks, S),
           NEW p \in Waiting(budget, blocks, S)
    PROVE  /\ AreDrafts(budget, blocks, X, Group(blocks, p)) /\ Drawn(Group(blocks, p)) = Range(p)
           /\ Group(blocks, p) \in Seq(DraftSet(blocks, X))
<1>1. CASE p = <<>>
    <2>1. Group(blocks, p) = <<>>
        BY <1>1 DEF Group
    <2>2. Range(p) = {}
        BY <1>1, EmptyIsListed DEF Listed, Range
    <2>3. QED
        BY <2>1, <2>2, DraftsOfNothing, DraftsAreListed
<1>2. CASE p # <<>>
    <2>. DEFINE group == <<WholeDraft(blocks, p, "clause_group")>>
    <2>1. /\ p \in Seq(1..Len(blocks)) /\ Range(p) \subseteq S /\ Fits(budget, blocks, p)
          /\ Belong(blocks, Range(p))
        BY <1>2, BelongPart DEF Waiting
    <2>2. Group(blocks, p) = group
        BY <1>2 DEF Group
    <2>3. AreDrafts(budget, blocks, X, group) /\ Drawn(group) = Range(p)
        BY <1>2, <2>1, WholeIsDraft
    <2>. HIDE DEF group
    <2>4. QED
        BY <2>2, <2>3, DraftsAreListed
<1>3. QED
    BY <1>1, <1>2

LEMMA ThreeConcat ==
    ASSUME NEW budget, NEW blocks, NEW X, NEW d, NEW e, NEW f,
           AreDrafts(budget, blocks, X, d), AreDrafts(budget, blocks, X, e),
           AreDrafts(budget, blocks, X, f), Drawn(d) \cap Drawn(e) = {},
           Drawn(d) \cap Drawn(f) = {}, Drawn(e) \cap Drawn(f) = {}
    PROVE  AreDrafts(budget, blocks, X, d \o e \o f)
<1>1. AreDrafts(budget, blocks, X, d \o e)
    BY DraftsJoin
<1>2. Drawn(d \o e) = Drawn(d) \cup Drawn(e)
    BY DrawnJoin
<1>. DEFINE g == d \o e
<1>. HIDE DEF g
<1>3. AreDrafts(budget, blocks, X, g) /\ Drawn(g) \cap Drawn(f) = {}
    BY <1>1, <1>2 DEF g
<1>4. AreDrafts(budget, blocks, X, g \o f)
    BY <1>3, DraftsJoin
<1>5. QED
    BY <1>4 DEF g

LEMMA ThreeDrawn ==
    ASSUME NEW budget, NEW blocks, NEW X, NEW d, NEW e, NEW f,
           AreDrafts(budget, blocks, X, d \o e), AreDrafts(budget, blocks, X, d),
           AreDrafts(budget, blocks, X, e), AreDrafts(budget, blocks, X, f)
    PROVE  Drawn(d \o e \o f) = Drawn(d) \cup Drawn(e) \cup Drawn(f)
<1>. DEFINE g == d \o e
<1>1. Drawn(d \o e) = Drawn(d) \cup Drawn(e)
    BY DrawnJoin
<1>. HIDE DEF g
<1>2. Drawn(g \o f) = Drawn(g) \cup Drawn(f)
    <2>1. AreDrafts(budget, blocks, X, g)
        BY DEF g
    <2>2. QED
        BY <2>1, DrawnJoin
<1>3. QED
    BY <1>1, <1>2 DEF g

\* A unit more: its blocks are drawn or wait, like those before it.
LEMMA AddUnitIs ==
    ASSUME NEW budget, IsBudget(budget), NEW blocks, NEW X, AreBlocks(blocks, X),
           NEW S, Belong(blocks, S), NEW state \in GroupStates(budget, blocks, X, S),
           NEW unit \in Seq(1..Len(blocks)), unit # <<>>, Range(unit) \subseteq S
    PROVE  LET next == AddUnit(budget, blocks, state, unit)
               had == Drawn(state.drafts) \cup Range(state.pending)
           IN  /\ next \in GroupStates(budget, blocks, X, S)
               /\ /\ AreDrafts(budget, blocks, X, state.drafts)
                  /\ Drawn(state.drafts) \cap Range(state.pending) = {}
                  /\ had \cap Range(unit) = {}
                  => /\ AreDrafts(budget, blocks, X, next.drafts)
                     /\ Drawn(next.drafts) \cap Range(next.pending) = {}
                     /\ Drawn(next.drafts) \cup Range(next.pending) = had \cup Range(unit)
<1>. DEFINE next == AddUnit(budget, blocks, state, unit)
            drafts == state.drafts
            pending == state.pending
            group == Group(blocks, pending)
            cut == FallbackDrafts(budget, blocks, unit)
            D == DraftSet(blocks, X)
            W == Waiting(budget, blocks, S)
            Apart == /\ AreDrafts(budget, blocks, X, drafts)
                     /\ Drawn(drafts) \cap Range(pending) = {}
                     /\ (Drawn(drafts) \cup Range(pending)) \cap Range(unit) = {}
            After(d, p) ==
                /\ d \in Seq(D) /\ p \in W
                /\ Apart => /\ AreDrafts(budget, blocks, X, d) /\ Drawn(d) \cap Range(p) = {}
                             /\ Drawn(d) \cup Range(p)
                                    = Drawn(drafts) \cup Range(pending) \cup Range(unit)
<1>1. drafts \in Seq(D) /\ pending \in W
    BY DEF GroupStates
<1>2. /\ AreDrafts(budget, blocks, X, group) /\ Drawn(group) = Range(pending)
      /\ group \in Seq(D)
    BY <1>1, GroupIs
<1>3. <<>> \in W /\ Range(<<>>) = {}
    <2>1. Range(<<>>) = {} /\ <<>> \in Seq(1..Len(blocks))
        BY EmptyIsListed DEF Listed, Range
    <2>2. QED
        BY <2>1 DEF Waiting
<1>4. Belong(blocks, Range(unit))
    BY BelongPart
<1>. HIDE DEF D, W, drafts, pending, group, cut
<1>5. CASE ~Fits(budget, blocks, unit)
    <2>1. /\ AreDrafts(budget, blocks, X, cut) /\ Drawn(cut) = Range(unit) /\ cut \in Seq(D)
        BY <1>4, <1>5, WindowsAreDrafts DEF cut, D
    <2>2. next = [drafts |-> drafts \o group \o cut, pending |-> <<>>]
        BY <1>5 DEF AddUnit, drafts, pending, group, cut
    <2>3. drafts \o group \o cut \in Seq(D)
        BY <1>1, <1>2, <2>1
    <2>4. ASSUME Apart
          PROVE  /\ AreDrafts(budget, blocks, X, drafts \o group \o cut)
                 /\ Drawn(drafts \o group \o cut)
                        = Drawn(drafts) \cup Range(pending) \cup Range(unit)
        <3>1. /\ Drawn(drafts) \cap Drawn(group) = {} /\ Drawn(drafts) \cap Drawn(cut) = {}
              /\ Drawn(group) \cap Drawn(cut) = {}
            BY <1>2, <2>1, <2>4
        <3>2. AreDrafts(budget, blocks, X, drafts)
            BY <2>4
        <3>3. AreDrafts(budget, blocks, X, drafts \o group \o cut)
            BY <1>2, <2>1, <3>1, <3>2, ThreeConcat
        <3>4. Drawn(drafts \o group \o cut) = Drawn(drafts) \cup Drawn(group) \cup Drawn(cut)
            <4>1. AreDrafts(budget, blocks, X, drafts \o group)
                BY <1>2, <3>1, <3>2, DraftsJoin
            <4>2. QED
                BY <1>2, <2>1, <3>2, <4>1, ThreeDrawn
        <3>5. QED
            BY <1>2, <2>1, <3>3, <3>4
    <2>. DEFINE d == drafts \o group \o cut
    <2>. HIDE DEF d
    <2>5. After(d, <<>>)
        BY <1>3, <2>3, <2>4 DEF d
    <2>6. next = [drafts |-> d, pending |-> <<>>]
        BY <2>2 DEF d
    <2>. HIDE DEF next
    <2>7. next \in [drafts : Seq(D), pending : W] /\ After(next.drafts, next.pending)
        <3>1. next.drafts = d /\ next.pending = <<>>
            BY <2>6
        <3>2. QED
            BY <2>5, <2>6, <3>1
    <2>8. QED
        BY <2>7 DEF GroupStates, D, W, drafts, pending, next
<1>6. CASE Fits(budget, blocks, unit) /\ pending # <<>> /\ ~Fits(budget, blocks, pending \o unit)
    <2>. DEFINE d == drafts \o group
    <2>1. next = [drafts |-> d, pending |-> unit]
        BY <1>6 DEF AddUnit, drafts, pending, group
    <2>2. d \in Seq(D) /\ unit \in W
        BY <1>1, <1>2, <1>6 DEF Waiting, W
    <2>3. ASSUME Apart
          PROVE  AreDrafts(budget, blocks, X, d) /\ Drawn(d) = Drawn(drafts) \cup Range(pending)
        <3>1. AreDrafts(budget, blocks, X, drafts) /\ Drawn(drafts) \cap Drawn(group) = {}
            BY <1>2, <2>3
        <3>2. AreDrafts(budget, blocks, X, d)
            BY <1>2, <3>1, DraftsJoin
        <3>3. Drawn(d) = Drawn(drafts) \cup Drawn(group)
            BY <1>2, <3>1, DrawnJoin
        <3>4. QED
            BY <1>2, <3>2, <3>3
    <2>. HIDE DEF d
    <2>4. After(d, unit)
        BY <2>2, <2>3
    <2>. HIDE DEF next
    <2>5. next.drafts = d /\ next.pending = unit
        BY <2>1
    <2>6. next \in [drafts : Seq(D), pending : W] /\ After(next.drafts, next.pending)
        BY <2>1, <2>2, <2>4, <2>5
    <2>7. QED
        BY <2>6 DEF GroupStates, D, W, drafts, pending, next
<1>7. CASE Fits(budget, blocks, unit) /\ (pending = <<>> \/ Fits(budget, blocks, pending \o unit))
    <2>. DEFINE p == pending \o unit
    <2>1. next = [state EXCEPT !.pending = p]
        BY <1>7 DEF AddUnit, pending
    <2>2. pending \in Seq(1..Len(blocks)) /\ Range(pending) \subseteq S
        BY <1>1 DEF W, Waiting
    <2>3. p \in Seq(1..Len(blocks)) /\ Range(p) = Range(pending) \cup Range(unit)
        BY <2>2, ListedSeq, ConcatIs
    <2>4. Fits(budget, blocks, p)
        <3>1. CASE pending = <<>>
            BY <1>7, <3>1
        <3>2. QED
            BY <1>7, <3>1
    <2>. HIDE DEF p
    <2>5. p \in W
        BY <2>2, <2>3, <2>4 DEF W, Waiting
    <2>6. After(drafts, p)
        BY <1>1, <2>3, <2>5
    <2>7. next = [drafts |-> drafts, pending |-> p]
        BY <2>1 DEF GroupStates, drafts
    <2>. HIDE DEF next
    <2>8. next.drafts = drafts /\ next.pending = p
        BY <2>7
    <2>9. next \in [drafts : Seq(D), pending : W] /\ After(next.drafts, next.pending)
        BY <1>1, <2>5, <2>6, <2>7, <2>8
    <2>10. QED
        BY <2>9 DEF GroupStates, D, W, drafts, pending, next
<1>8. QED
    BY <1>5, <1>6, <1>7

\* The loop over the units: all their blocks are drawn, each in one place.
LEMMA GroupedDraftsAre ==
    ASSUME NEW budget, IsBudget(budget), NEW blocks, NEW X, AreBlocks(blocks, X),
           NEW S, Belong(blocks, S), NEW units, AreUnits(blocks, units),
           \A n \in 1..Len(units) : Range(units[n]) \subseteq S
    PROVE  LET drafts == GroupedDrafts(budget, blocks, units)
           IN  /\ AreDrafts(budget, blocks, X, drafts)
               /\ Drawn(drafts) = UnitBlocks(units, Len(units))
<1>. DEFINE N == Len(units)
            V == GroupStates(budget, blocks, X, S)
            start == [drafts |-> <<>>, pending |-> <<>>]
            after == CHOOSE f : f = [n \in 0..N |-> IF n = 0 THEN start
                                                    ELSE AddUnit(budget, blocks, f[n - 1], units[n])]
            step == [p \in V \X (1..N) |-> AddUnit(budget, blocks, p[1], units[p[2]])]
            end == after[N]
<1>1. /\ N \in Nat
      /\ GroupedDrafts(budget, blocks, units) = end.drafts \o Group(blocks, end.pending)
    BY DEF AreUnits, Listed, GroupedDrafts
<1>2. /\ start \in V /\ start.drafts = <<>> /\ start.pending = <<>>
      /\ Range(<<>>) = {} /\ Drawn(<<>>) = {} /\ AreDrafts(budget, blocks, X, <<>>)
    <2>1. Range(<<>>) = {} /\ <<>> \in Seq(1..Len(blocks)) /\ <<>> \in Seq(DraftSet(blocks, X))
        BY EmptyIsListed DEF Listed, Range
    <2>2. <<>> \in Waiting(budget, blocks, S)
        BY <2>1 DEF Waiting
    <2>3. QED
        BY <2>1, <2>2, DraftsOfNothing DEF GroupStates
<1>. HIDE DEF V, start
<1>3. ASSUME NEW state \in V, NEW n \in 1..N
      PROVE  LET next == AddUnit(budget, blocks, state, units[n])
                 had == Drawn(state.drafts) \cup Range(state.pending)
             IN  /\ next \in V
                 /\ /\ AreDrafts(budget, blocks, X, state.drafts)
                    /\ Drawn(state.drafts) \cap Range(state.pending) = {}
                    /\ had \cap Range(units[n]) = {}
                    => /\ AreDrafts(budget, blocks, X, next.drafts)
                       /\ Drawn(next.drafts) \cap Range(next.pending) = {}
                       /\ Drawn(next.drafts) \cup Range(next.pending) = had \cup Range(units[n])
    <2>1. /\ units[n] \in Seq(1..Len(blocks)) /\ units[n] # <<>> /\ Range(units[n]) \subseteq S
        BY DEF AreUnits
    <2>2. QED
        BY <2>1, AddUnitIs DEF V
<1>4. step \in [V \X (1..N) -> V]
    BY <1>3
<1>. HIDE DEF step
<1>5. PICK f \in [0..N -> V] : Loop(N, start, step, f)
    BY <1>1, <1>2, <1>4, LoopExists
<1>6. ASSUME NEW n \in 1..N
      PROVE  step[<<f[n - 1], n>>] = AddUnit(budget, blocks, f[n - 1], units[n])
    <2>1. f[n - 1] \in V
        BY <1>1
    <2>2. QED
        BY <2>1 DEF step
<1>7. f = [n \in 0..N |-> IF n = 0 THEN start ELSE AddUnit(budget, blocks, f[n - 1], units[n])]
    <2>1. ASSUME NEW n \in 0..N
          PROVE  f[n] = IF n = 0 THEN start ELSE AddUnit(budget, blocks, f[n - 1], units[n])
        <3>1. CASE n = 0
            BY <1>5, <3>1 DEF Loop
        <3>2. CASE n # 0
            <4>1. n \in 1..N
                BY <1>1, <3>2
            <4>2. QED
                BY <1>5, <1>6, <3>2, <4>1 DEF Loop
        <3>3. QED
            BY <3>1, <3>2
    <2>2. f = [n \in 0..N |-> f[n]]
        OBVIOUS
    <2>. HIDE DEF N
    <2>3. QED
        BY <2>1, <2>2
<1>. HIDE DEF after
<1>8. after = [n \in 0..N |-> IF n = 0 THEN start
                              ELSE AddUnit(budget, blocks, after[n - 1], units[n])]
    BY <1>7 DEF after
<1>. DEFINE had(n) == Drawn(after[n].drafts) \cup Range(after[n].pending)
            T == {n \in 0..N : /\ after[n] \in V /\ AreDrafts(budget, blocks, X, after[n].drafts)
                               /\ Drawn(after[n].drafts) \cap Range(after[n].pending) = {}
                               /\ had(n) = UnitBlocks(units, n)}
<1>9. 0 \in T
    <2>1. after[0] = start /\ UnitBlocks(units, 0) = {}
        BY <1>1, <1>8 DEF UnitBlocks
    <2>2. QED
        BY <1>1, <1>2, <2>1
<1>10. ASSUME NEW n \in 1..N, n - 1 \in T PROVE n \in T
    <2>0. n \in 0..N /\ n # 0 /\ n - 1 \in Nat /\ n \in Nat
        BY <1>1
    <2>1. after[n] = AddUnit(budget, blocks, after[n - 1], units[n])
        BY <1>8, <2>0
    <2>2. UnitBlocks(units, n) = UnitBlocks(units, n - 1) \cup Range(units[n])
        <3>1. \A i : i \in 1..n <=> i \in 1..(n - 1) \/ i = n
            BY <2>0
        <3>2. QED
            BY <3>1 DEF UnitBlocks
    <2>3. UnitBlocks(units, n - 1) \cap Range(units[n]) = {}
        <3>1. \A i \in 1..(n - 1) : i \in 1..N /\ i # n
            BY <1>1
        <3>2. \A i \in 1..(n - 1) : Range(units[i]) \cap Range(units[n]) = {}
            BY <3>1 DEF AreUnits
        <3>3. QED
            BY <3>2 DEF UnitBlocks
    <2>. DEFINE state == after[n - 1]
    <2>4. /\ state \in V /\ AreDrafts(budget, blocks, X, state.drafts)
          /\ Drawn(state.drafts) \cap Range(state.pending) = {}
          /\ Drawn(state.drafts) \cup Range(state.pending) = UnitBlocks(units, n - 1)
        BY <1>10
    <2>. HIDE DEF state
    <2>5. after[n] = AddUnit(budget, blocks, state, units[n])
        BY <2>1 DEF state
    <2>. DEFINE next == AddUnit(budget, blocks, state, units[n])
                held == Drawn(state.drafts) \cup Range(state.pending)
    <2>6. /\ next \in V
          /\ /\ AreDrafts(budget, blocks, X, state.drafts)
             /\ Drawn(state.drafts) \cap Range(state.pending) = {}
             /\ held \cap Range(units[n]) = {}
             => /\ AreDrafts(budget, blocks, X, next.drafts)
                /\ Drawn(next.drafts) \cap Range(next.pending) = {}
                /\ Drawn(next.drafts) \cup Range(next.pending) = held \cup Range(units[n])
        BY <1>3, <2>4
    <2>7. held = UnitBlocks(units, n - 1) /\ after[n] = next
        BY <2>4, <2>5
    <2>. HIDE DEF next, held
    <2>8. /\ next \in V /\ AreDrafts(budget, blocks, X, next.drafts)
          /\ Drawn(next.drafts) \cap Range(next.pending) = {}
          /\ Drawn(next.drafts) \cup Range(next.pending) = UnitBlocks(units, n - 1) \cup Range(units[n])
        BY <2>3, <2>4, <2>6, <2>7
    <2>9. /\ after[n] \in V /\ AreDrafts(budget, blocks, X, after[n].drafts)
          /\ Drawn(after[n].drafts) \cap Range(after[n].pending) = {}
          /\ had(n) = UnitBlocks(units, n - 1) \cup Range(units[n])
        BY <2>7, <2>8
    <2>10. QED
        BY <2>0, <2>2, <2>9
<1>. HIDE DEF T
<1>11. \A n \in 0..N : n \in T
    BY <1>1, <1>9, <1>10, InductionUpTo
<1>12. /\ end \in V /\ AreDrafts(budget, blocks, X, end.drafts)
       /\ Drawn(end.drafts) \cap Range(end.pending) = {}
       /\ Drawn(end.drafts) \cup Range(end.pending) = UnitBlocks(units, N)
    <2>1. N \in T
        BY <1>1, <1>11
    <2>2. QED
        BY <2>1 DEF T
<1>. HIDE DEF end
<1>. DEFINE group == Group(blocks, end.pending)
<1>13. AreDrafts(budget, blocks, X, group) /\ Drawn(group) = Range(end.pending)
    <2>1. end.pending \in Waiting(budget, blocks, S)
        BY <1>12 DEF V, GroupStates
    <2>2. QED
        BY <2>1, GroupIs
<1>. HIDE DEF group
<1>14. AreDrafts(budget, blocks, X, end.drafts \o group)
    BY <1>12, <1>13, DraftsJoin
<1>15. Drawn(end.drafts \o group) = Drawn(end.drafts) \cup Drawn(group)
    BY <1>12, <1>13, DrawnJoin
<1>16. QED
    BY <1>1, <1>12, <1>13, <1>14, <1>15 DEF group

--------------------------------------------------------------------------------
(* The drafts of a document *)

LEMMA AppendNumber ==
    ASSUME NEW N, NEW s \in Seq(1..N), NEW i \in 1..N
    PROVE  /\ Append(s, i) \in Seq(1..N) /\ Append(s, i) # <<>>
           /\ Range(Append(s, i)) = Range(s) \cup {i}
<1>. DEFINE t == <<i>>
            all == Append(s, i)
<1>1. all = s \o t /\ t \in Seq(1..N) /\ all \in Seq(1..N) /\ all # <<>>
    OBVIOUS
<1>2. Range(t) = {i}
    BY DEF Range
<1>. HIDE DEF t, all
<1>3. Listed(s) /\ Listed(t)
    BY <1>1, ListedSeq
<1>4. Range(s \o t) = Range(s) \cup Range(t)
    BY <1>3, ConcatIs
<1>5. all \in Seq(1..N) /\ all # <<>> /\ Range(all) = Range(s) \cup {i}
    BY <1>1, <1>2, <1>4
<1>6. QED
    BY <1>5 DEF all

LEMMA StandaloneDraftsAre ==
    ASSUME NEW budget, IsBudget(budget), NEW blocks, NEW X, AreBlocks(blocks, X),
           NEW sources \in Seq(1..Len(blocks)), sources # <<>>, Belong(blocks, Range(sources))
    PROVE  /\ AreDrafts(budget, blocks, X, StandaloneDrafts(budget, blocks, sources))
           /\ Drawn(StandaloneDrafts(budget, blocks, sources)) = Range(sources)
<1>1. CASE Fits(budget, blocks, sources)
    <2>1. StandaloneDrafts(budget, blocks, sources)
              = <<WholeDraft(blocks, sources, "standalone_block")>>
        BY <1>1 DEF StandaloneDrafts
    <2>2. QED
        BY <1>1, <2>1, WholeIsDraft
<1>2. CASE ~Fits(budget, blocks, sources)
    <2>1. StandaloneDrafts(budget, blocks, sources) = FallbackDrafts(budget, blocks, sources)
        BY <1>2 DEF StandaloneDrafts
    <2>2. QED
        BY <1>2, <2>1, WindowsAreDrafts
<1>3. QED
    BY <1>1, <1>2

LEMMA ArticleDraftsAre ==
    ASSUME NEW budget, IsBudget(budget), NEW blocks, NEW X, AreBlocks(blocks, X),
           NEW a \in 1..Len(blocks), blocks[a].kind = "article",
           NEW context \in Seq(1..Len(blocks)), Range(context) \subseteq Headings(blocks),
           Range(context) \cap Beneath(blocks, a) = {}
    PROVE  /\ AreDrafts(budget, blocks, X, ArticleDrafts(budget, blocks, a, context))
           /\ Drawn(ArticleDrafts(budget, blocks, a, context))
                  = Range(context) \cup Beneath(blocks, a)
<1>. DEFINE S == Headings(blocks) \cup Beneath(blocks, a)
            sub == Subtree(blocks, a)
            whole == context \o sub
            units == ArticleUnits(blocks, a, context)
<1>1. AreNested(blocks) /\ a \in Beneath(blocks, a)
    BY BeneathIs DEF AreBlocks
<1>2. Belong(blocks, S)
    BY DEF Belong, Unit
<1>3. sub \in Seq(1..Len(blocks)) /\ Range(sub) = Beneath(blocks, a)
    BY <1>1, SubtreeIs
<1>. HIDE DEF sub, S
<1>4. whole \in Seq(1..Len(blocks)) /\ Range(whole) = Range(context) \cup Beneath(blocks, a)
    BY <1>3, ListedSeq, ConcatIs
<1>. HIDE DEF whole
<1>5. whole # <<>>
    BY <1>1, <1>4, EmptyIsListed DEF Listed, Range
<1>6. Range(context) \cup Beneath(blocks, a) \subseteq S
    BY DEF S
<1>7. CASE Fits(budget, blocks, whole)
    <2>1. ArticleDrafts(budget, blocks, a, context) = <<WholeDraft(blocks, whole, "article")>>
        BY <1>7 DEF ArticleDrafts, whole, sub
    <2>2. Belong(blocks, Range(whole))
        BY <1>2, <1>4, <1>6, BelongPart
    <2>. DEFINE one == <<WholeDraft(blocks, whole, "article")>>
    <2>3. AreDrafts(budget, blocks, X, one) /\ Drawn(one) = Range(whole)
        BY <1>4, <1>5, <1>7, <2>2, WholeIsDraft, ZenonT(40)
    <2>. HIDE DEF one
    <2>4. ArticleDrafts(budget, blocks, a, context) = one
        BY <2>1 DEF one
    <2>5. QED
        BY <1>4, <2>3, <2>4
<1>8. CASE ~Fits(budget, blocks, whole)
    <2>1. ArticleDrafts(budget, blocks, a, context) = GroupedDrafts(budget, blocks, units)
        BY <1>8 DEF ArticleDrafts, whole, sub
    <2>2. /\ AreUnits(blocks, units)
          /\ UnitBlocks(units, Len(units)) = Range(context) \cup Beneath(blocks, a)
        BY <1>1, ArticleUnitsAre
    <2>. HIDE DEF units
    <2>3. \A n \in 1..Len(units) : Range(units[n]) \subseteq S
        BY <1>6, <2>2 DEF UnitBlocks
    <2>4. /\ AreDrafts(budget, blocks, X, GroupedDrafts(budget, blocks, units))
          /\ Drawn(GroupedDrafts(budget, blocks, units)) = UnitBlocks(units, Len(units))
        BY <1>2, <2>2, <2>3, GroupedDraftsAre
    <2>5. QED
        BY <2>1, <2>2, <2>4
<1>9. QED
    BY <1>7, <1>8

\* A loop with an invariant that may speak of how far it is.
LEMMA InvariantLoop ==
    ASSUME NEW N \in Nat, NEW V, NEW G \in [0..N -> SUBSET V], NEW start \in G[0],
           NEW step \in [V \X (1..N) -> V],
           \A n \in 1..N : \A v \in G[n - 1] : step[<<v, n>>] \in G[n]
    PROVE  \E f \in [0..N -> V] : Loop(N, start, step, f) /\ \A n \in 0..N : f[n] \in G[n]
<1>1. start \in V
    <2>1. 0 \in 0..N
        OBVIOUS
    <2>2. QED
        BY <2>1
<1>2. PICK f \in [0..N -> V] : Loop(N, start, step, f)
    BY <1>1, LoopExists
<1>. DEFINE T == {n \in 0..N : f[n] \in G[n]}
<1>3. 0 \in T
    BY <1>2 DEF Loop
<1>4. ASSUME NEW n \in 1..N, n - 1 \in T PROVE n \in T
    <2>1. f[n] = step[<<f[n - 1], n>>] /\ f[n - 1] \in G[n - 1] /\ n \in 0..N
        BY <1>2, <1>4 DEF Loop
    <2>2. QED
        BY <2>1
<1>. HIDE DEF T
<1>5. \A n \in 0..N : n \in T
    BY <1>3, <1>4, InductionUpTo
<1>6. QED
    BY <1>2, <1>5 DEF T

\* How far the chunker is after n blocks: each block it has met is drawn or
\* waits, and beyond them only whole articles are.
DraftStates(blocks, X) ==
    [drafts : Seq(DraftSet(blocks, X)), context : Seq(1..Len(blocks)),
     consumed : SUBSET (1..Len(blocks))]

DraftedTo(budget, blocks, X, n) ==
    {s \in DraftStates(blocks, X) :
        /\ AreDrafts(budget, blocks, X, s.drafts)
        /\ Range(s.context) \subseteq Headings(blocks)
        /\ Drawn(s.drafts) \cap Range(s.context) = {}
        /\ s.consumed = Drawn(s.drafts) \cup Range(s.context)
        /\ 1..n \subseteq s.consumed
        /\ \A j \in s.consumed :
              j \in 1..n \/ \E a \in 1..n : j \in Beneath(blocks, a)
                                            /\ Beneath(blocks, a) \subseteq s.consumed}

\* What is beneath a block not consumed is not consumed.
LEMMA BeneathIsFree ==
    ASSUME NEW budget, NEW blocks, NEW X, AreBlocks(blocks, X), NEW n \in 1..Len(blocks),
           NEW s \in DraftedTo(budget, blocks, X, n - 1), n \notin s.consumed
    PROVE  Beneath(blocks, n) \cap s.consumed = {}
<1>1. SUFFICES ASSUME NEW j \in s.consumed, j \in Beneath(blocks, n) PROVE FALSE
    OBVIOUS
<1>2. AreNested(blocks) /\ Len(blocks) \in Nat /\ n \in 0..Len(blocks)
    BY DEF AreBlocks, AreNested, Listed
<1>3. j \in 1..Len(blocks) /\ n \in Path(blocks)[j]
    BY <1>1 DEF Beneath
<1>4. n \in 1..j
    BY <1>2, <1>3, PathIsChain
<1>5. j # n
    BY <1>1
<1>6. j \notin 1..(n - 1)
    BY <1>2, <1>3, <1>4, <1>5
<1>7. PICK a \in 1..(n - 1) : j \in Beneath(blocks, a) /\ Beneath(blocks, a) \subseteq s.consumed
    BY <1>1, <1>6 DEF DraftedTo
<1>8. a \in Path(blocks)[j] /\ a < n
    BY <1>2, <1>7 DEF Beneath
<1>9. a \in Path(blocks)[n]
    BY <1>2, <1>3, <1>8, PathIsChain
<1>10. n \in Beneath(blocks, a)
    BY <1>9 DEF Beneath
<1>11. QED
    BY <1>7, <1>10

LEMMA AddBlockIs ==
    ASSUME NEW budget, IsBudget(budget), NEW blocks, NEW X, AreBlocks(blocks, X),
           NEW n \in 1..Len(blocks), NEW s \in DraftedTo(budget, blocks, X, n - 1)
    PROVE  AddBlock(budget, blocks, s, n) \in DraftedTo(budget, blocks, X, n)
<1>. DEFINE next == AddBlock(budget, blocks, s, n)
            drafts == s.drafts
            context == s.context
            consumed == s.consumed
            N == Len(blocks)
            D == DraftSet(blocks, X)
<1>1. AreNested(blocks) /\ N \in Nat /\ n \in Nat /\ n >= 1
    BY DEF AreBlocks, AreNested, Listed
<1>2. /\ drafts \in Seq(D) /\ context \in Seq(1..N) /\ consumed \in SUBSET (1..N)
      /\ s = [drafts |-> drafts, context |-> context, consumed |-> consumed]
    BY DEF DraftedTo, DraftStates
<1>3. /\ AreDrafts(budget, blocks, X, drafts) /\ Range(context) \subseteq Headings(blocks)
      /\ Drawn(drafts) \cap Range(context) = {}
      /\ consumed = Drawn(drafts) \cup Range(context) /\ 1..(n - 1) \subseteq consumed
      /\ \A j \in consumed :
            j \in 1..(n - 1) \/ \E a \in 1..(n - 1) : j \in Beneath(blocks, a)
                                                      /\ Beneath(blocks, a) \subseteq consumed
    BY DEF DraftedTo
<1>4. \A i : i \in 1..n <=> i \in 1..(n - 1) \/ i = n
    BY <1>1
<1>5. n \notin consumed => Beneath(blocks, n) \cap consumed = {}
    BY BeneathIsFree
<1>. HIDE DEF drafts, context, consumed, D
\* The new drafts e with what waits, w, hold what waited and the new blocks, R.
<1>6. ASSUME NEW e, NEW w, NEW R \in SUBSET (1..N),
             n \in R, R = {n} \/ R = Beneath(blocks, n), R \cap consumed = {},
             AreDrafts(budget, blocks, X, drafts \o e),
             Drawn(drafts \o e) = Drawn(drafts) \cup Drawn(e),
             w \in Seq(1..N), Range(w) \subseteq Headings(blocks),
             Drawn(e) \cup Range(w) = Range(context) \cup R, Drawn(e) \cap Range(w) = {}
      PROVE  [drafts |-> drafts \o e, context |-> w, consumed |-> consumed \cup R]
                 \in DraftedTo(budget, blocks, X, n)
    <2>. DEFINE t == [drafts |-> drafts \o e, context |-> w, consumed |-> consumed \cup R]
                all == drafts \o e
    <2>1. all \in Seq(D) /\ t.drafts = all /\ t.context = w /\ t.consumed = consumed \cup R
        BY <1>6, DraftsAreListed DEF D
    <2>2. t \in DraftStates(blocks, X)
        BY <1>2, <1>6, <2>1 DEF DraftStates, D
    <2>3. /\ Drawn(all) \cap Range(w) = {} /\ consumed \cup R = Drawn(all) \cup Range(w)
        BY <1>3, <1>6
    <2>4. 1..n \subseteq consumed \cup R
        BY <1>3, <1>4, <1>6
    <2>5. ASSUME NEW j \in consumed \cup R
          PROVE  j \in 1..n \/ \E a \in 1..n : j \in Beneath(blocks, a)
                                              /\ Beneath(blocks, a) \subseteq consumed \cup R
        <3>1. CASE j \in consumed
            BY <1>3, <1>4, <3>1
        <3>2. CASE j \in R
            BY <1>4, <1>6, <3>2
        <3>3. QED
            BY <3>1, <3>2
    <2>. HIDE DEF t, all
    <2>6. AreDrafts(budget, blocks, X, all)
        BY <1>6 DEF all
    <2>7. t \in DraftedTo(budget, blocks, X, n)
        BY <1>6, <2>1, <2>2, <2>3, <2>4, <2>5, <2>6 DEF DraftedTo
    <2>8. QED
        BY <2>7 DEF t
<1>7. CASE n \in consumed
    <2>1. next = s
        BY <1>7 DEF AddBlock, consumed
    <2>2. 1..n \subseteq consumed
        BY <1>3, <1>4, <1>7
    <2>3. \A j \in consumed :
            j \in 1..n \/ \E a \in 1..n : j \in Beneath(blocks, a)
                                          /\ Beneath(blocks, a) \subseteq consumed
        BY <1>3, <1>4
    <2>4. s \in DraftStates(blocks, X)
        BY DEF DraftedTo
    <2>5. s \in DraftedTo(budget, blocks, X, n)
        BY <1>3, <2>2, <2>3, <2>4 DEF DraftedTo, drafts, context, consumed
    <2>6. QED
        BY <2>1, <2>5
<1>8. CASE n \notin consumed /\ blocks[n].kind \in ContextHeadings
    <2>. DEFINE w == Append(context, n)
    <2>1. w \in Seq(1..N) /\ Range(w) = Range(context) \cup {n}
        BY <1>2, AppendNumber
    <2>2. next = [drafts |-> drafts, context |-> w, consumed |-> consumed \cup {n}]
        BY <1>2, <1>8 DEF AddBlock, drafts, context, consumed
    <2>3. n \in Headings(blocks)
        BY <1>8 DEF Headings
    <2>. HIDE DEF w
    <2>4. drafts \o <<>> = drafts
        BY <1>2
    <2>5. Drawn(<<>>) = {}
        BY DraftsOfNothing
    <2>6. [drafts |-> drafts \o <<>>, context |-> w, consumed |-> consumed \cup {n}]
              \in DraftedTo(budget, blocks, X, n)
        <3>. DEFINE e == <<>>
        <3>1. AreDrafts(budget, blocks, X, drafts \o e) /\ Drawn(e) = {}
              /\ Drawn(drafts \o e) = Drawn(drafts) \cup Drawn(e)
            BY <1>3, <2>4, <2>5
        <3>2. Range(w) \subseteq Headings(blocks) /\ {n} \cap consumed = {}
              /\ {n} \in SUBSET (1..N) /\ n \in {n}
            BY <1>3, <1>8, <2>1, <2>3
        <3>. HIDE DEF e
        <3>3. QED
            BY <1>6, <2>1, <3>1, <3>2 DEF e
    <2>7. QED
        BY <2>2, <2>4, <2>6
<1>9. CASE n \notin consumed /\ blocks[n].kind \notin ContextHeadings /\ blocks[n].kind = "article"
    <2>. DEFINE e == ArticleDrafts(budget, blocks, n, context)
                R == Beneath(blocks, n)
    <2>1. n \in R /\ R \in SUBSET (1..N) /\ R \cap consumed = {}
        BY <1>1, <1>5, <1>9, BeneathIs DEF Beneath
    <2>2. ToSet(Subtree(blocks, n)) = R
        BY <1>1, SubtreeIs DEF ToSet, Range
    <2>3. next = [drafts |-> drafts \o e, context |-> <<>>, consumed |-> consumed \cup R]
        BY <1>9, <2>2 DEF AddBlock, drafts, context, consumed
    <2>4. Range(context) \cap R = {}
        BY <1>3, <2>1
    <2>5. AreDrafts(budget, blocks, X, e) /\ Drawn(e) = Range(context) \cup R
        BY <1>2, <1>3, <1>9, <2>4, ArticleDraftsAre
    <2>. HIDE DEF e, R
    <2>6. Drawn(drafts) \cap Drawn(e) = {}
        BY <1>3, <2>1, <2>5
    <2>7. AreDrafts(budget, blocks, X, drafts \o e)
        BY <1>3, <2>5, <2>6, DraftsJoin
    <2>8. Drawn(drafts \o e) = Drawn(drafts) \cup Drawn(e)
        BY <1>3, <2>5, DrawnJoin
    <2>9. <<>> \in Seq(1..N) /\ Range(<<>>) = {}
        BY EmptyIsListed DEF Listed, Range
    <2>10. R = {n} \/ R = Beneath(blocks, n)
        BY DEF R
    <2>11. [drafts |-> drafts \o e, context |-> <<>>, consumed |-> consumed \cup R]
              \in DraftedTo(budget, blocks, X, n)
        <3>. DEFINE w == <<>>
        <3>1. w \in Seq(1..N) /\ Range(w) = {}
            BY <2>9
        <3>. HIDE DEF w
        <3>2. QED
            BY <1>6, <2>1, <2>5, <2>7, <2>8, <2>10, <3>1 DEF w
    <2>12. QED
        BY <2>3, <2>11
<1>10. CASE n \notin consumed /\ blocks[n].kind \notin ContextHeadings /\ blocks[n].kind # "article"
    <2>. DEFINE sources == Append(context, n)
                e == StandaloneDrafts(budget, blocks, sources)
    <2>1. sources \in Seq(1..N) /\ sources # <<>> /\ Range(sources) = Range(context) \cup {n}
        BY <1>2, AppendNumber, SMTT(40)
    <2>2. Belong(blocks, Range(sources))
        <3>1. Unit(blocks, n) = {n}
            BY <1>10 DEF Unit
        <3>2. QED
            BY <1>3, <2>1, <3>1 DEF Belong
    <2>3. next = [drafts |-> drafts \o e, context |-> <<>>, consumed |-> consumed \cup {n}]
        BY <1>10 DEF AddBlock, drafts, context, consumed
    <2>. HIDE DEF sources
    <2>4. AreDrafts(budget, blocks, X, e) /\ Drawn(e) = Range(context) \cup {n}
        BY <2>1, <2>2, StandaloneDraftsAre
    <2>. HIDE DEF e
    <2>5. Drawn(drafts) \cap Drawn(e) = {}
        BY <1>3, <1>10, <2>4
    <2>6. AreDrafts(budget, blocks, X, drafts \o e)
        BY <1>3, <2>4, <2>5, DraftsJoin
    <2>7. Drawn(drafts \o e) = Drawn(drafts) \cup Drawn(e)
        BY <1>3, <2>4, DrawnJoin
    <2>8. <<>> \in Seq(1..N) /\ Range(<<>>) = {}
        BY EmptyIsListed DEF Listed, Range
    <2>9. [drafts |-> drafts \o e, context |-> <<>>, consumed |-> consumed \cup {n}]
              \in DraftedTo(budget, blocks, X, n)
        <3>. DEFINE w == <<>>
                    R == {n}
        <3>1. /\ w \in Seq(1..N) /\ Range(w) = {} /\ R \cap consumed = {} /\ n \in R
              /\ R \in SUBSET (1..N) /\ R = {n} /\ Drawn(e) = Range(context) \cup R
            BY <1>10, <2>4, <2>8
        <3>. HIDE DEF w, R
        <3>2. [drafts |-> drafts \o e, context |-> w, consumed |-> consumed \cup R]
                  \in DraftedTo(budget, blocks, X, n)
            BY <1>6, <2>6, <2>7, <3>1
        <3>3. QED
            BY <3>2 DEF w, R
    <2>10. QED
        BY <2>3, <2>9
<1>11. QED
    BY <1>7, <1>8, <1>9, <1>10

\* The drafts of a document draw every block of it, each block in one place.
LEMMA DraftsAre ==
    ASSUME NEW budget, IsBudget(budget), NEW blocks, NEW X, AreBlocks(blocks, X)
    PROVE  /\ AreDrafts(budget, blocks, X, Drafts(budget, blocks))
           /\ Drawn(Drafts(budget, blocks)) = 1..Len(blocks)
<1>. DEFINE N == Len(blocks)
            V == DraftStates(blocks, X)
            G == [n \in 0..N |-> DraftedTo(budget, blocks, X, n)]
            start == [drafts |-> <<>>, context |-> <<>>, consumed |-> {}]
            after == CHOOSE f : f = [n \in 0..N |-> IF n = 0 THEN start
                                                    ELSE AddBlock(budget, blocks, f[n - 1], n)]
            step == [p \in V \X (1..N) |->
                        IF p[1] \in G[p[2] - 1] THEN AddBlock(budget, blocks, p[1], p[2]) ELSE start]
            end == after[N]
            last == IF end.context = <<>> THEN <<>>
                    ELSE StandaloneDrafts(budget, blocks, end.context)
<1>1. N \in Nat /\ Drafts(budget, blocks) = end.drafts \o last
    BY DEF AreBlocks, AreNested, Listed, Drafts
<1>2. start \in DraftedTo(budget, blocks, X, 0)
    <2>1. Range(<<>>) = {} /\ <<>> \in Seq(1..N) /\ <<>> \in Seq(DraftSet(blocks, X))
        BY EmptyIsListed DEF Listed, Range
    <2>2. start \in V
        BY <2>1 DEF DraftStates
    <2>3. start.drafts = <<>> /\ start.context = <<>> /\ start.consumed = {}
        OBVIOUS
    <2>4. AreDrafts(budget, blocks, X, <<>>) /\ Drawn(<<>>) = {} /\ 1..0 = {}
        BY DraftsOfNothing
    <2>. HIDE DEF start
    <2>5. QED
        BY <2>1, <2>2, <2>3, <2>4 DEF DraftedTo
<1>3. /\ G \in [0..N -> SUBSET V] /\ start \in G[0] /\ start \in V
      /\ \A n \in 0..N : G[n] = DraftedTo(budget, blocks, X, n)
    <2>1. \A n : DraftedTo(budget, blocks, X, n) \in SUBSET V
        BY SMTT(40) DEF DraftedTo
    <2>. HIDE DEF V, start
    <2>2. /\ G \in [0..N -> SUBSET V] /\ 0 \in 0..N
          /\ \A n \in 0..N : G[n] = DraftedTo(budget, blocks, X, n)
        BY <1>1, <2>1
    <2>. HIDE DEF G
    <2>3. start \in G[0]
        BY <1>2, <2>2
    <2>4. start \in V
        BY <1>2, <2>1
    <2>5. QED
        BY <2>2, <2>3, <2>4
<1>. HIDE DEF V, G, start
<1>4. ASSUME NEW n \in 1..N, NEW s \in G[n - 1]
      PROVE  AddBlock(budget, blocks, s, n) \in G[n]
    <2>1. n - 1 \in 0..N /\ n \in 0..N
        BY <1>1
    <2>2. s \in DraftedTo(budget, blocks, X, n - 1)
        BY <1>3, <2>1
    <2>3. AddBlock(budget, blocks, s, n) \in DraftedTo(budget, blocks, X, n)
        BY <2>2, AddBlockIs
    <2>4. QED
        BY <1>3, <2>1, <2>3, SMTT(40)
<1>5. step \in [V \X (1..N) -> V]
    <2>1. ASSUME NEW p \in V \X (1..N)
          PROVE  (IF p[1] \in G[p[2] - 1] THEN AddBlock(budget, blocks, p[1], p[2]) ELSE start) \in V
        <3>1. p[1] \in V /\ p[2] \in 1..N /\ p[2] \in 0..N
            BY <1>1
        <3>2. G[p[2]] \in SUBSET V
            BY <1>3, <3>1
        <3>3. QED
            BY <1>3, <1>4, <3>1, <3>2, SMTT(40)
    <2>2. QED
        BY <2>1
<1>6. ASSUME NEW n \in 1..N, NEW s \in G[n - 1]
      PROVE  step[<<s, n>>] = AddBlock(budget, blocks, s, n)
    <2>1. s \in V
        <3>1. n - 1 \in 0..N
            BY <1>1
        <3>2. QED
            BY <1>3, <3>1, SMTT(40)
    <2>2. QED
        BY <2>1
<1>. HIDE DEF step
<1>7. \A n \in 1..N : \A s \in G[n - 1] : step[<<s, n>>] \in G[n]
    BY <1>4, <1>6, ZenonT(40)
<1>8. PICK f \in [0..N -> V] : Loop(N, start, step, f) /\ \A n \in 0..N : f[n] \in G[n]
    BY <1>1, <1>3, <1>5, <1>7, InvariantLoop
<1>9. f = [n \in 0..N |-> IF n = 0 THEN start ELSE AddBlock(budget, blocks, f[n - 1], n)]
    <2>1. ASSUME NEW n \in 0..N
          PROVE  f[n] = IF n = 0 THEN start ELSE AddBlock(budget, blocks, f[n - 1], n)
        <3>1. CASE n = 0
            BY <1>8, <3>1 DEF Loop
        <3>2. CASE n # 0
            <4>1. n \in 1..N /\ n - 1 \in 0..N
                BY <1>1, <3>2
            <4>2. f[n] = step[<<f[n - 1], n>>] /\ f[n - 1] \in G[n - 1]
                BY <1>8, <4>1 DEF Loop
            <4>3. QED
                BY <1>6, <3>2, <4>1, <4>2, SMTT(40)
        <3>3. QED
            BY <3>1, <3>2
    <2>2. f = [n \in 0..N |-> f[n]]
        OBVIOUS
    <2>. HIDE DEF N
    <2>3. QED
        BY <2>1, <2>2
<1>. HIDE DEF after
<1>10. after = [n \in 0..N |-> IF n = 0 THEN start ELSE AddBlock(budget, blocks, after[n - 1], n)]
    BY <1>9 DEF after
<1>. DEFINE T == {n \in 0..N : after[n] \in G[n]}
<1>11. 0 \in T
    BY <1>1, <1>3, <1>10
<1>12. ASSUME NEW n \in 1..N, n - 1 \in T PROVE n \in T
    <2>1. n \in 0..N /\ n # 0
        BY <1>1
    <2>2. after[n] = AddBlock(budget, blocks, after[n - 1], n) /\ after[n - 1] \in G[n - 1]
        BY <1>10, <1>12, <2>1
    <2>3. QED
        BY <1>4, <2>1, <2>2
<1>. HIDE DEF T
<1>13. \A n \in 0..N : n \in T
    BY <1>1, <1>11, <1>12, InductionUpTo
<1>14. end \in DraftedTo(budget, blocks, X, N)
    <2>1. N \in T /\ N \in 0..N
        BY <1>1, <1>13
    <2>2. QED
        BY <1>3, <2>1 DEF T
<1>. HIDE DEF end
<1>15. /\ AreDrafts(budget, blocks, X, end.drafts) /\ Range(end.context) \subseteq Headings(blocks)
       /\ Drawn(end.drafts) \cap Range(end.context) = {} /\ end.context \in Seq(1..N)
       /\ Drawn(end.drafts) \cup Range(end.context) = 1..N
    BY <1>14 DEF DraftedTo, DraftStates
<1>16. AreDrafts(budget, blocks, X, last) /\ Drawn(last) = Range(end.context)
    <2>1. CASE end.context = <<>>
        <3>1. Range(end.context) = {}
            BY <2>1, EmptyIsListed DEF Listed, Range
        <3>2. QED
            BY <2>1, <3>1, DraftsOfNothing
    <2>2. CASE end.context # <<>>
        <3>1. Belong(blocks, Range(end.context))
            <4>1. PICK i \in 1..N : i \in Range(end.context)
                <5>1. Len(end.context) # 0
                    BY <1>15, <2>2
                <5>2. 1 \in DOMAIN end.context /\ end.context[1] \in 1..N
                    BY <1>15, <5>1
                <5>3. QED
                    BY <5>2 DEF Range
            <4>2. QED
                BY <1>15, <4>1 DEF Belong
        <3>2. QED
            BY <1>15, <2>2, <3>1, StandaloneDraftsAre
    <2>3. QED
        BY <2>1, <2>2
<1>. HIDE DEF last
<1>17. AreDrafts(budget, blocks, X, end.drafts \o last)
    BY <1>15, <1>16, DraftsJoin
<1>18. Drawn(end.drafts \o last) = Drawn(end.drafts) \cup Drawn(last)
    BY <1>15, <1>16, DrawnJoin
<1>19. QED
    BY <1>1, <1>15, <1>16, <1>17, <1>18

--------------------------------------------------------------------------------
(* What a chunk is searched by *)

LEMMA NothingIsFlat ==
    ASSUME NEW values
    PROVE  Flat(At(values, {})) = <<>>
<1>1. Cardinality({}) = 0
    BY FS_EmptySet
<1>2. At(values, {}) = <<>>
    <2>1. At(values, {}) = [k \in 1..0 |->
              values[CHOOSE p \in {} : Cardinality({i \in {} : i < p}) = k - 1]]
        BY <1>1 DEF At
    <2>2. QED
        BY <2>1
<1>. DEFINE none == <<>>
<1>. HIDE DEF none
<1>3. Listed(none) /\ \A i \in 1..Len(none) : none[i] \in Seq({})
    BY EmptyIsListed DEF none
<1>4. Flat(none) \in Seq({})
    BY <1>3, FlatIs
<1>5. Flat(none) = <<>>
    BY <1>4
<1>6. QED
    BY <1>2, <1>5 DEF none

\* Context is only added to a content that fits as long as both do.
LEMMA ChosenFits ==
    ASSUME NEW budget, NEW lines, Listed(lines), NEW X, NEW content \in Seq(X),
           Count(budget, content) <= budget.maxSearch
    PROVE  LET chosen == Chosen(budget, lines, content)
           IN  /\ chosen \in SUBSET (1..Len(lines))
               /\ Count(budget, Flat(At(lines, chosen)) \o content) <= budget.maxSearch
<1>. DEFINE N == Len(lines)
            fits(P) == Count(budget, Flat(At(lines, P)) \o content) <= budget.maxSearch
            add(P, n) == IF fits(P \cup {N + 1 - n}) THEN P \cup {N + 1 - n} ELSE P
            V == {P \in SUBSET (1..N) : fits(P)}
            with == CHOOSE f : f = [n \in 0..N |-> IF n = 0 THEN {} ELSE add(f[n - 1], n)]
            step == [p \in V \X (1..N) |-> add(p[1], p[2])]
<1>1. N \in Nat /\ Chosen(budget, lines, content) = with[N]
    BY DEF Listed, Chosen
<1>2. {} \in V
    <2>1. Flat(At(lines, {})) \o content = content
        BY NothingIsFlat
    <2>2. QED
        BY <2>1
<1>. HIDE DEF fits
<1>3. ASSUME NEW P \in V, NEW n \in 1..N PROVE add(P, n) \in V
    <2>1. N + 1 - n \in 1..N
        BY <1>1
    <2>2. QED
        BY <2>1
<1>. HIDE DEF add, V
<1>4. step \in [V \X (1..N) -> V]
    BY <1>3
<1>. HIDE DEF step
<1>5. PICK f \in [0..N -> V] : Loop(N, {}, step, f)
    BY <1>1, <1>2, <1>4, LoopExists
<1>6. ASSUME NEW n \in 1..N PROVE step[<<f[n - 1], n>>] = add(f[n - 1], n)
    <2>1. f[n - 1] \in V
        BY <1>1
    <2>2. QED
        BY <2>1 DEF step
<1>7. f = [n \in 0..N |-> IF n = 0 THEN {} ELSE add(f[n - 1], n)]
    <2>1. ASSUME NEW n \in 0..N PROVE f[n] = IF n = 0 THEN {} ELSE add(f[n - 1], n)
        <3>1. CASE n = 0
            BY <1>5, <3>1 DEF Loop
        <3>2. CASE n # 0
            <4>1. n \in 1..N
                BY <1>1, <3>2
            <4>2. QED
                BY <1>5, <1>6, <3>2, <4>1 DEF Loop
        <3>3. QED
            BY <3>1, <3>2
    <2>2. f = [n \in 0..N |-> f[n]]
        OBVIOUS
    <2>. HIDE DEF N
    <2>3. QED
        BY <2>1, <2>2
<1>. HIDE DEF with
<1>8. with = [n \in 0..N |-> IF n = 0 THEN {} ELSE add(with[n - 1], n)]
    BY <1>7 DEF with
<1>. DEFINE T == {n \in 0..N : with[n] \in V}
<1>9. 0 \in T
    BY <1>1, <1>2, <1>8
<1>10. ASSUME NEW n \in 1..N, n - 1 \in T PROVE n \in T
    <2>1. n \in 0..N /\ n # 0
        BY <1>1
    <2>2. with[n] = add(with[n - 1], n) /\ with[n - 1] \in V
        BY <1>8, <1>10, <2>1
    <2>3. QED
        BY <1>3, <2>1, <2>2
<1>. HIDE DEF T
<1>11. \A n \in 0..N : n \in T
    BY <1>1, <1>9, <1>10, InductionUpTo
<1>12. with[N] \in V
    BY <1>1, <1>11 DEF T
<1>13. QED
    BY <1>1, <1>12 DEF V, fits

\* What a chunk knows of its place.
HasLists(structure) ==
    Listed(structure.title) /\ Listed(structure.clauses) /\ Listed(structure.points)

IsStructure(structure) ==
    /\ structure = [part |-> structure.part, chapter |-> structure.chapter,
                    section |-> structure.section, subsection |-> structure.subsection,
                    article |-> structure.article, title |-> structure.title,
                    clauses |-> structure.clauses, points |-> structure.points]
    /\ HasLists(structure)

ArePlaced(blocks) == \A i \in 1..Len(blocks) : IsStructure(blocks[i].structure)

LEMMA FlatIsListed ==
    ASSUME NEW s, Listed(s), \A i \in 1..Len(s) : Listed(s[i])
    PROVE  Listed(Flat(s))
<1>. DEFINE X == UNION {Range(s[i]) : i \in 1..Len(s)}
<1>1. ASSUME NEW i \in 1..Len(s) PROVE s[i] \in Seq(X)
    <2>1. s[i] \in [1..Len(s[i]) -> Range(s[i])] /\ Len(s[i]) \in Nat
        BY ListedSeq DEF Listed
    <2>2. Range(s[i]) \subseteq X
        OBVIOUS
    <2>. HIDE DEF X
    <2>3. s[i] \in [1..Len(s[i]) -> X]
        BY <2>1, <2>2
    <2>4. QED
        BY <2>1, <2>3
<1>. HIDE DEF X
<1>2. Flat(s) \in Seq(X)
    BY <1>1, FlatIs
<1>3. QED
    BY <1>2, ListedSeq

LEMMA AggregateIs ==
    ASSUME NEW blocks, ArePlaced(blocks), NEW sources \in Seq(1..Len(blocks)), sources # <<>>
    PROVE  HasLists(AggregateStructure(blocks, sources))
<1>. DEFINE placed == {k \in DOMAIN sources : blocks[sources[k]].structure.article # None}
            base == IF placed = {} THEN 1 ELSE CHOOSE k \in placed : \A j \in placed : k <= j
            s == blocks[sources[base]].structure
            clauses == [k \in DOMAIN sources |-> blocks[sources[k]].structure.clauses]
            points == [k \in DOMAIN sources |-> blocks[sources[k]].structure.points]
<1>1. AggregateStructure(blocks, sources)
          = [s EXCEPT !.clauses = Unique(Flat(clauses)), !.points = Unique(Flat(points))]
    BY DEF AggregateStructure
<1>2. Len(sources) \in Nat /\ DOMAIN sources = 1..Len(sources) /\ 1 \in DOMAIN sources
    BY EmptyIsListed
<1>3. \A k \in DOMAIN sources : sources[k] \in 1..Len(blocks)
    BY <1>2
<1>4. base \in DOMAIN sources
    <2>1. placed \in SUBSET Nat /\ placed \subseteq DOMAIN sources
        BY <1>2
    <2>. HIDE DEF placed
    <2>2. CASE placed = {}
        BY <1>2, <2>2
    <2>3. CASE placed # {}
        <3>1. \E k \in placed : \A j \in placed : k <= j
            BY <2>1, <2>3, LeastNumber
        <3>2. QED
            BY <2>1, <2>3, <3>1
    <2>4. QED
        BY <2>2, <2>3
<1>. HIDE DEF base
<1>5. IsStructure(s)
    BY <1>3, <1>4 DEF ArePlaced
<1>6. \A k \in DOMAIN sources : /\ Listed(blocks[sources[k]].structure.clauses)
                                /\ Listed(blocks[sources[k]].structure.points)
    BY <1>3 DEF ArePlaced, IsStructure, HasLists
<1>7. Listed(Flat(clauses)) /\ Listed(Flat(points))
    <2>1. clauses = [k \in 1..Len(sources) |-> clauses[k]]
          /\ points = [k \in 1..Len(sources) |-> points[k]]
        BY <1>2
    <2>2. /\ \A k \in 1..Len(sources) : Listed(clauses[k])
          /\ \A k \in 1..Len(sources) : Listed(points[k])
        BY <1>2, <1>6
    <2>. HIDE DEF clauses, points
    <2>3. Listed(clauses) /\ Len(clauses) = Len(sources) /\ Listed(points) /\ Len(points) = Len(sources)
        BY <1>2, <2>1, ListedIs
    <2>4. QED
        BY <2>2, <2>3, FlatIsListed
<1>. DEFINE c == Flat(clauses)
            p == Flat(points)
<1>. HIDE DEF c, p
<1>8. Listed(Unique(c)) /\ Listed(Unique(p))
    <2>1. FirstPositions(c) \subseteq DOMAIN c /\ FirstPositions(p) \subseteq DOMAIN p
        BY DEF FirstPositions
    <2>2. Listed(c) /\ Listed(p)
        BY <1>7 DEF c, p
    <2>3. QED
        BY <2>1, <2>2, AtOfSubset DEF Unique
<1>. DEFINE all == [s EXCEPT !.clauses = Unique(c), !.points = Unique(p)]
<1>. HIDE DEF s
<1>9. all.title = s.title /\ all.clauses = Unique(c) /\ all.points = Unique(p)
    BY <1>5 DEF IsStructure
<1>10. Listed(s.title)
    BY <1>5 DEF IsStructure, HasLists
<1>11. AggregateStructure(blocks, sources) = all
    BY <1>1 DEF c, p, s
<1>. HIDE DEF all
<1>12. QED
    BY <1>8, <1>9, <1>10, <1>11 DEF HasLists

LEMMA ContextIsListed ==
    ASSUME NEW document, Listed(document.name), NEW structure, HasLists(structure)
    PROVE  LET lines == ContextLines(document, structure)
           IN  Listed(lines) /\ \A i \in 1..Len(lines) : Listed(lines[i])
<1>. DEFINE known(kind, value) == IF value = None THEN <<>> ELSE <<Token(kind, value)>>
            numbers(kind, values) == [i \in DOMAIN values |-> Token(kind, values[i])]
            titled == known("article", structure.article) \o structure.title
            all == <<document.name, known("document", document.number),
                   known("heading", structure.part), known("heading", structure.chapter),
                   known("heading", structure.section), known("heading", structure.subsection),
                   titled, numbers("clause", structure.clauses), numbers("point", structure.points)>>
            P == {i \in DOMAIN all : all[i] # <<>>}
<1>1. ContextLines(document, structure) = At(all, P)
    BY DEF ContextLines
<1>2. \A kind, value : Listed(known(kind, value))
    <2>1. \A t : <<t>> \in Seq({t})
        OBVIOUS
    <2>2. \A t : Listed(<<t>>)
        BY <2>1, ListedSeq
    <2>3. QED
        BY <2>2, EmptyIsListed
<1>3. \A kind, values : Listed(values) => Listed(numbers(kind, values))
    <2>1. ASSUME NEW kind, NEW values, Listed(values) PROVE Listed(numbers(kind, values))
        <3>1. Len(values) \in Nat /\ DOMAIN values = 1..Len(values)
            BY <2>1 DEF Listed
        <3>. DEFINE t == numbers(kind, values)
        <3>2. t = [i \in 1..Len(values) |-> t[i]]
            BY <3>1
        <3>. HIDE DEF t
        <3>3. Listed(t)
            BY <3>1, <3>2, ListedIs
        <3>4. QED
            BY <3>3 DEF t
    <2>2. QED
        BY <2>1
<1>. HIDE DEF known, numbers
<1>4. Listed(titled)
    BY <1>2, ConcatIs DEF HasLists
<1>. HIDE DEF titled
<1>5. Listed(all) /\ DOMAIN all = 1..9 /\ \A i \in 1..9 : Listed(all[i])
    <2>1. \A a, b, c, d, e, f, g, h, i :
              <<a, b, c, d, e, f, g, h, i>> \in Seq({a, b, c, d, e, f, g, h, i})
        OBVIOUS
    <2>2. \A a, b, c, d, e, f, g, h, i : Listed(<<a, b, c, d, e, f, g, h, i>>)
        BY <2>1, ListedSeq
    <2>3. Listed(numbers("clause", structure.clauses)) /\ Listed(numbers("point", structure.points))
        BY <1>3 DEF HasLists
    <2>4. Listed(all) /\ DOMAIN all = 1..9
        BY <2>2
    <2>5. /\ Listed(all[1]) /\ Listed(all[2]) /\ Listed(all[3]) /\ Listed(all[4]) /\ Listed(all[5])
          /\ Listed(all[6]) /\ Listed(all[7]) /\ Listed(all[8]) /\ Listed(all[9])
        BY <1>2, <1>4, <2>3
    <2>. HIDE DEF all
    <2>6. \A i \in 1..9 : i = 1 \/ i = 2 \/ i = 3 \/ i = 4 \/ i = 5 \/ i = 6 \/ i = 7 \/ i = 8 \/ i = 9
        OBVIOUS
    <2>7. QED
        BY <2>4, <2>5, <2>6
<1>6. P \subseteq DOMAIN all
    OBVIOUS
<1>. DEFINE lines == At(all, P)
<1>. HIDE DEF all, P
<1>7. Listed(lines) /\ Range(lines) \subseteq Range(all)
    BY <1>5, <1>6, AtOfSubset
<1>8. \A i \in 1..Len(lines) : Listed(lines[i])
    <2>1. \A i \in 1..Len(lines) : lines[i] \in Range(lines)
        BY <1>7 DEF Listed, Range
    <2>2. \A x \in Range(all) : Listed(x)
        BY <1>5 DEF Range
    <2>3. QED
        BY <1>7, <2>1, <2>2
<1>9. QED
    BY <1>1, <1>7, <1>8

LEMMA SearchFits ==
    ASSUME NEW budget, IsBudget(budget), budget.maxSearch >= budget.maxTokens + Len(ContentLabel),
           NEW document, Listed(document.name), NEW structure, HasLists(structure),
           NEW X, NEW text \in Seq(X), Count(budget, text) <= budget.maxTokens
    PROVE  LET search == SearchText(budget, document, structure, text)
           IN  Count(budget, search) <= budget.maxSearch /\ Len(search) \in Nat
<1>. DEFINE lines == ContextLines(document, structure)
            content == ContentLabel \o text
            Y == X \cup Range(ContentLabel)
<1>1. ContentLabel \in Seq(Y) /\ text \in Seq(Y) /\ Len(ContentLabel) = 3
    <2>1. \A a, b, c : <<a, b, c>> \in Seq({a, b, c}) /\ Len(<<a, b, c>>) = 3
        OBVIOUS
    <2>. DEFINE label == ContentLabel
    <2>2. \E L : label \in Seq(L) /\ Len(label) = 3
        BY <2>1 DEF ContentLabel
    <2>3. PICK L : label \in Seq(L) /\ Len(label) = 3
        BY <2>2
    <2>. HIDE DEF label
    <2>4. label \in Seq(Range(label))
        BY <2>3, ListedSeq DEF Listed
    <2>5. Range(label) \subseteq X \cup Range(label)
        OBVIOUS
    <2>6. label \in Seq(X \cup Range(label)) /\ text \in Seq(X \cup Range(label))
        BY <2>4, <2>5
    <2>7. QED
        BY <2>3, <2>6 DEF label
<1>. HIDE DEF Y
<1>2. content \in Seq(Y) /\ Len(content) = 3 + Len(text)
    <2>. DEFINE label == ContentLabel
    <2>. HIDE DEF label
    <2>1. label \in Seq(Y) /\ text \in Seq(Y) /\ Len(label) = 3
        BY <1>1 DEF label
    <2>2. label \o text \in Seq(Y)
        BY <2>1
    <2>3. Len(label \o text) = Len(label) + Len(text)
        BY <2>1, ListedSeq, ConcatIs
    <2>4. QED
        BY <2>1, <2>2, <2>3 DEF label
<1>3. Count(budget, content) <= budget.maxSearch
    <2>1. /\ budget.added \in Nat /\ budget.maxTokens \in Nat /\ budget.maxSearch \in Nat
          /\ Len(text) \in Nat
        BY DEF IsBudget
    <2>2. QED
        BY <1>1, <1>2, <2>1 DEF Count
<1>4. Listed(lines) /\ \A i \in 1..Len(lines) : Listed(lines[i])
    BY ContextIsListed
<1>5. SearchText(budget, document, structure, text)
          = Flat(At(lines, Chosen(budget, lines, content))) \o content
    BY DEF SearchText
<1>. DEFINE chosen == Chosen(budget, lines, content)
            around == At(lines, chosen)
<1>. HIDE DEF lines, content
<1>6. /\ chosen \in SUBSET (1..Len(lines))
      /\ Count(budget, Flat(around) \o content) <= budget.maxSearch
    BY <1>2, <1>3, <1>4, ChosenFits
<1>. HIDE DEF chosen
<1>7. Listed(around) /\ \A i \in 1..Len(around) : Listed(around[i])
    <2>1. chosen \subseteq DOMAIN lines
        BY <1>4, <1>6 DEF Listed
    <2>2. Listed(around) /\ Range(around) \subseteq Range(lines)
        BY <1>4, <2>1, AtOfSubset
    <2>. HIDE DEF around
    <2>3. \A i \in 1..Len(around) : around[i] \in Range(around)
        BY <2>2 DEF Listed, Range
    <2>4. \A x \in Range(lines) : Listed(x)
        <3>1. DOMAIN lines = 1..Len(lines)
            BY <1>4 DEF Listed
        <3>2. QED
            BY <1>4, <3>1 DEF Range
    <2>5. QED
        BY <2>2, <2>3, <2>4
<1>. HIDE DEF around
<1>8. Listed(Flat(around)) /\ Listed(content)
    BY <1>2, <1>7, FlatIsListed, ListedSeq
<1>9. Len(Flat(around) \o content) \in Nat
    BY <1>8, ConcatIs DEF Listed
<1>10. QED
    BY <1>5, <1>6, <1>9 DEF around, chosen

--------------------------------------------------------------------------------
(* The validation of the chunks *)

LEMMA DistinctAreMany ==
    ASSUME NEW s, Listed(s), \A i, j \in 1..Len(s) : s[i] = s[j] => i = j
    PROVE  Cardinality(Range(s)) = Len(s)
<1>. DEFINE N == Len(s)
<1>1. N \in Nat /\ s \in [1..N -> Range(s)] /\ DOMAIN s = 1..N
    BY ListedSeq DEF Listed
<1>2. IsFiniteSet(Range(s)) /\ Cardinality(Range(s)) <= N /\ Cardinality(Range(s)) \in Nat
    BY ListedIsFinite
<1>3. s \in Injection(1..N, Range(s))
    BY <1>1 DEF Injection, IsInjective
<1>4. Cardinality(1..N) = N
    BY <1>1, IntervalSize
<1>5. Cardinality(1..N) <= Cardinality(Range(s))
    BY <1>2, <1>3, FS_Injection
<1>6. QED
    BY <1>1, <1>2, <1>4, <1>5

\* Positions that follow each other.
LEMMA AtOfInterval ==
    ASSUME NEW values, NEW b \in Nat, NEW n \in Nat
    PROVE  At(values, (b + 1)..(b + n)) = [k \in 1..n |-> values[b + k]]
<1>. DEFINE P == (b + 1)..(b + n)
            nth(k) == CHOOSE p \in P : Cardinality({i \in P : i < p}) = k - 1
<1>1. Cardinality(P) = n
    <2>1. Cardinality(P) = IF b + 1 > b + n THEN 0 ELSE b + n - (b + 1) + 1
        BY FS_Interval
    <2>2. QED
        BY <2>1
<1>2. ASSUME NEW p \in P PROVE Cardinality({i \in P : i < p}) = p - b - 1
    <2>1. {i \in P : i < p} = (b + 1)..(p - 1)
        OBVIOUS
    <2>2. Cardinality((b + 1)..(p - 1)) = IF b + 1 > p - 1 THEN 0 ELSE p - 1 - (b + 1) + 1
        BY FS_Interval
    <2>. DEFINE size == Cardinality((b + 1)..(p - 1))
    <2>. HIDE DEF size
    <2>3. size = p - b - 1
        <3>1. size = IF b + 1 > p - 1 THEN 0 ELSE p - 1 - (b + 1) + 1
            BY <2>2 DEF size
        <3>2. QED
            BY <3>1
    <2>4. QED
        BY <2>1, <2>3 DEF size
<1>3. ASSUME NEW k \in 1..n PROVE nth(k) = b + k
    <2>1. b + k \in P
        OBVIOUS
    <2>. DEFINE size(p) == Cardinality({i \in P : i < p})
    <2>2. size(b + k) = k - 1
        <3>1. size(b + k) = (b + k) - b - 1
            BY <1>2, <2>1
        <3>2. QED
            BY <3>1
    <2>3. ASSUME NEW p \in P, size(p) = k - 1 PROVE p = b + k
        <3>1. p - b - 1 = k - 1 /\ p \in Int
            BY <1>2, <2>3
        <3>2. QED
            BY <3>1
    <2>. HIDE DEF P, size
    <2>4. (CHOOSE p \in P : size(p) = k - 1) = b + k
        BY <2>1, <2>2, <2>3
    <2>5. QED
        BY <2>4 DEF size
<1>. HIDE DEF P, nth
<1>4. At(values, P) = [k \in 1..n |-> values[nth(k)]]
    BY <1>1 DEF At, nth
<1>5. [k \in 1..n |-> values[nth(k)]] = [k \in 1..n |-> values[b + k]]
    BY <1>3
<1>6. QED
    BY <1>4, <1>5 DEF P

\* The windows of one text are found in their order, wherever they stand.
LEMMA TwinsAreWindows ==
    ASSUME NEW budget, IsBudget(budget), NEW blocks, NEW X, AreBlocks(blocks, X),
           NEW drafts, AreDrafts(budget, blocks, X, drafts),
           NEW i \in 1..Len(drafts), IsCut(drafts[i])
    PROVE  LET b == i - drafts[i].split - 1  n == drafts[i].of
           IN  /\ b \in Nat /\ n \in Nat
               /\ {j \in 1..Len(drafts) : AreTwins(drafts[i], drafts[j])} = (b + 1)..(b + n)
               /\ n = Len(Windows(budget, blocks, drafts[i]))
               /\ Listed(Windows(budget, blocks, drafts[i]))
               /\ \A k \in 1..n :
                     drafts[b + k].text = Windows(budget, blocks, drafts[i])[k]
<1>. DEFINE d == drafts[i]
            N == Len(drafts)
            windows == Windows(budget, blocks, d)
            n == d.of
            m == d.split
            b == i - m - 1
            twins == {j \in 1..N : AreTwins(d, drafts[j])}
<1>1. N \in Nat /\ i \in Nat /\ IsDraft(budget, blocks, X, d)
    BY DEF AreDrafts, Listed
<1>2. n = Len(windows) /\ m \in 0..(n - 1) /\ d.sources # <<>> /\ d.sources \in Seq(1..Len(blocks))
    BY <1>1 DEF IsDraft, DraftSet
<1>3. Listed(windows) /\ n \in Nat
    <2>. DEFINE text == TextOf(blocks, d.sources)
    <2>1. windows = SplitTokens(budget, text)
        BY DEF Windows
    <2>2. text \in Seq(X)
        BY <1>2, TextIs
    <2>. HIDE DEF windows, text
    <2>3. CASE text = <<>>
        <3>1. Len(text) = 0
            BY <2>3
        <3>2. Count(budget, text) <= budget.maxTokens
            BY <3>1 DEF Count, IsBudget
        <3>3. windows = <<text>>
            BY <2>1, <3>2 DEF SplitTokens
        <3>4. <<text>> \in Seq({text})
            OBVIOUS
        <3>5. Listed(windows)
            BY <3>3, <3>4, ListedSeq
        <3>6. QED
            BY <1>2, <3>5 DEF Listed
    <2>4. CASE text # <<>>
        <3>1. Listed(windows)
            BY <2>1, <2>2, <2>4, SplitIs
        <3>2. QED
            BY <1>2, <3>1 DEF Listed
    <2>5. QED
        BY <2>3, <2>4
<1>4. \A j \in twins : /\ IsCut(drafts[j]) /\ drafts[j].sources = d.sources
                       /\ Windows(budget, blocks, drafts[j]) = windows
    BY DEF AreTwins, Windows
<1>5. \A j \in 1..N : IsDraft(budget, blocks, X, drafts[j])
    BY DEF AreDrafts
<1>. HIDE DEF windows
<1>6. \A j \in twins : /\ drafts[j].split \in 0..(n - 1)
                       /\ drafts[j].text = windows[drafts[j].split + 1]
    <2>1. ASSUME NEW j \in twins
          PROVE  drafts[j].split \in 0..(n - 1) /\ drafts[j].text = windows[drafts[j].split + 1]
        <3>1. drafts[j].of = n /\ IsDraft(budget, blocks, X, drafts[j]) /\ IsCut(drafts[j])
            BY <1>2, <1>4, <1>5 DEF IsDraft
        <3>2. QED
            BY <1>4, <3>1 DEF IsDraft
    <2>2. QED
        BY <2>1
<1>7. Share(d, d) /\ \A j \in twins : Share(d, drafts[j])
    <2>1. Range(d.sources) # {}
        <3>1. Len(d.sources) # 0
            BY <1>2
        <3>2. 1 \in DOMAIN d.sources
            BY <1>2, <3>1
        <3>3. QED
            BY <3>2 DEF Range
    <2>2. QED
        BY <1>4, <2>1 DEF Share
<1>8. \A j \in twins : i = j \/ i - j = m - drafts[j].split
    BY <1>7 DEF AreDrafts
<1>9. ASSUME NEW j \in twins PROVE drafts[j].split = j - b - 1
    <2>1. j \in Int /\ m \in Int /\ drafts[j].split \in Int
        BY <1>1, <1>2, <1>3, <1>6
    <2>2. CASE i = j
        BY <1>1, <2>1, <2>2
    <2>3. CASE i - j = m - drafts[j].split
        <3>. DEFINE q == drafts[j].split
        <3>1. q \in Int /\ i - j = m - q
            BY <2>1, <2>3
        <3>. HIDE DEF q, m
        <3>2. q = j - (i - m - 1) - 1
            BY <1>1, <2>1, <3>1
        <3>3. QED
            BY <3>2 DEF q
    <2>4. QED
        BY <1>8, <2>2, <2>3
<1>. DEFINE place(k) == b + k
<1>10. ASSUME NEW k \in 1..n
       PROVE  b + k \in twins /\ drafts[b + k].split = k - 1
    <2>1. PICK j \in 1..N : AreTwins(d, drafts[j]) /\ drafts[j].split = k - 1
        BY DEF AreDrafts
    <2>2. j \in twins
        BY <2>1
    <2>3. k - 1 = j - b - 1 /\ j \in Int /\ b \in Int
        <3>1. m \in Int
            BY <1>2, <1>3
        <3>. HIDE DEF m, twins
        <3>2. QED
            BY <1>1, <1>9, <2>1, <2>2, <3>1
    <2>. HIDE DEF b, twins
    <2>4. j = b + k
        BY <2>3
    <2>5. QED
        BY <2>1, <2>2, <2>4
<1>11. ASSUME NEW j \in twins PROVE j \in (b + 1)..(b + n)
    <2>. DEFINE q == drafts[j].split
    <2>1. q \in 0..(n - 1) /\ q = j - b - 1 /\ j \in Int /\ b \in Int /\ n \in Nat
        <3>1. m \in Int
            BY <1>2, <1>3
        <3>2. QED
            BY <1>1, <1>3, <1>6, <1>9, <3>1
    <2>. HIDE DEF q, b, n
    <2>2. QED
        BY <2>1
<1>12. b \in Nat
    <2>1. m \in Int /\ 1 \in 1..n /\ b \in Int
        BY <1>1, <1>2, <1>3, SMTT(40)
    <2>2. b + 1 \in 1..N
        BY <1>10, <2>1
    <2>3. QED
        BY <2>1, <2>2
<1>13. twins = (b + 1)..(b + n)
    <2>1. ASSUME NEW j \in (b + 1)..(b + n) PROVE j \in twins
        <3>. HIDE DEF b, n, twins
        <3>1. j - b \in 1..n /\ b + (j - b) = j
            BY <1>3, <1>12
        <3>2. QED
            BY <1>10, <3>1
    <2>2. QED
        BY <1>11, <2>1
<1>14. \A k \in 1..n : drafts[b + k].text = windows[k]
    <2>1. ASSUME NEW k \in 1..n PROVE drafts[b + k].text = windows[k]
        <3>1. (k - 1) + 1 = k
            BY <1>3
        <3>. HIDE DEF b, n, twins
        <3>2. QED
            BY <1>6, <1>10, <3>1
    <2>2. QED
        BY <2>1
<1>15. QED
    BY <1>2, <1>3, <1>12, <1>13, <1>14 DEF windows

\* The validator finds nothing wrong with chunks made from such drafts.
LEMMA NothingIsWrong ==
    ASSUME NEW budget, IsBudget(budget), budget.maxSearch >= budget.maxTokens + Len(ContentLabel),
           NEW blocks, NEW X, AreBlocks(blocks, X), ArePlaced(blocks),
           NEW document, Listed(document.name),
           NEW drafts, AreDrafts(budget, blocks, X, drafts), Drawn(drafts) = 1..Len(blocks)
    PROVE  ChunkErrors(budget, blocks, ChunksOf(budget, document, blocks, drafts)) = {}
<1>. DEFINE N == Len(drafts)
            chunks == ChunksOf(budget, document, blocks, drafts)
            structure(i) == AggregateStructure(blocks, drafts[i].sources)
            id(i) == <<document.doc, drafts[i].strategy, drafts[i].sources, drafts[i].split,
                       drafts[i].text>>
<1>1. /\ N \in Nat /\ DOMAIN drafts = 1..N /\ Listed(drafts)
      /\ \A i \in 1..N : IsDraft(budget, blocks, X, drafts[i])
    BY DEF AreDrafts, Listed
<1>2. /\ chunks = [i \in 1..N |-> Chunk(budget, document, blocks, drafts[i])]
      /\ DOMAIN chunks = 1..N
    BY <1>1 DEF ChunksOf
<1>3. ASSUME NEW i \in 1..N
      PROVE  /\ chunks[i].id = id(i) /\ chunks[i].text = drafts[i].text
             /\ chunks[i].sources = drafts[i].sources /\ chunks[i].strategy = drafts[i].strategy
             /\ chunks[i].of = drafts[i].of
             /\ chunks[i].search = SearchText(budget, document, structure(i), drafts[i].text)
    <2>1. chunks[i] = Chunk(budget, document, blocks, drafts[i])
        BY <1>2
    <2>2. QED
        BY <2>1 DEF Chunk
<1>. HIDE DEF chunks, structure
<1>4. Listed(chunks) /\ Len(chunks) = N
    <2>1. chunks = [i \in 1..N |-> chunks[i]]
        BY <1>2
    <2>2. QED
        BY <1>1, <2>1, ListedIs
<1>5. Cardinality({chunks[i].id : i \in DOMAIN chunks}) = Len(chunks)
    <2>. DEFINE ids == [i \in 1..N |-> id(i)]
    <2>1. ASSUME NEW i \in 1..N, NEW j \in 1..N, id(i) = id(j) PROVE i = j
        <3>1. drafts[i].sources = drafts[j].sources /\ drafts[i].split = drafts[j].split
            BY <2>1
        <3>2. /\ drafts[i].sources \in Seq(1..Len(blocks)) /\ drafts[i].sources # <<>>
              /\ drafts[i].split \in Int
            BY <1>1 DEF IsDraft, DraftSet
        <3>3. Share(drafts[i], drafts[j])
            <4>1. Len(drafts[i].sources) # 0
                BY <3>2
            <4>2. 1 \in DOMAIN drafts[i].sources
                BY <3>2, <4>1
            <4>3. QED
                BY <3>1, <4>2 DEF Share, Range
        <3>4. i = j \/ i - j = drafts[i].split - drafts[j].split
            BY <3>3 DEF AreDrafts
        <3>5. QED
            BY <1>1, <3>1, <3>2, <3>4
    <2>. HIDE DEF id
    <2>2. ids = [i \in 1..N |-> ids[i]] /\ \A i \in 1..N : ids[i] = id(i)
        OBVIOUS
    <2>. HIDE DEF ids
    <2>3. Listed(ids) /\ Len(ids) = N
        BY <1>1, <2>2, ListedIs
    <2>4. \A i, j \in 1..Len(ids) : ids[i] = ids[j] => i = j
        BY <2>1, <2>2, <2>3
    <2>5. Cardinality(Range(ids)) = N
        BY <2>3, <2>4, DistinctAreMany
    <2>6. Range(ids) = {chunks[i].id : i \in DOMAIN chunks}
        <3>1. DOMAIN ids = 1..N
            BY <2>3 DEF Listed
        <3>2. QED
            BY <1>2, <1>3, <2>2, <3>1 DEF Range
    <2>7. QED
        BY <1>4, <2>5, <2>6
<1>6. \A i \in 1..N : ~(Count(budget, chunks[i].text) > budget.maxTokens)
    <2>1. ASSUME NEW i \in 1..N PROVE ~(Count(budget, chunks[i].text) > budget.maxTokens)
        <3>1. /\ drafts[i].text \in Seq(X) /\ Count(budget, drafts[i].text) <= budget.maxTokens
              /\ chunks[i].text = drafts[i].text
            BY <1>1, <1>3 DEF IsDraft, DraftSet
        <3>. DEFINE size == Count(budget, drafts[i].text)
        <3>2. size \in Nat /\ budget.maxTokens \in Nat
            BY <3>1, SMTT(40) DEF Count, IsBudget
        <3>. HIDE DEF size
        <3>3. ~(size > budget.maxTokens)
            BY <3>1, <3>2 DEF size
        <3>4. QED
            BY <3>1, <3>3 DEF size
    <2>2. QED
        BY <2>1
<1>7. \A i \in 1..N : ~(Count(budget, chunks[i].search) > budget.maxSearch)
    <2>1. ASSUME NEW i \in 1..N PROVE ~(Count(budget, chunks[i].search) > budget.maxSearch)
        <3>. DEFINE search == SearchText(budget, document, structure(i), drafts[i].text)
                    size == Count(budget, search)
        <3>1. /\ drafts[i].text \in Seq(X) /\ Count(budget, drafts[i].text) <= budget.maxTokens
              /\ drafts[i].sources \in Seq(1..Len(blocks)) /\ drafts[i].sources # <<>>
            BY <1>1 DEF IsDraft, DraftSet
        <3>2. HasLists(structure(i))
            BY <3>1, AggregateIs DEF structure
        <3>3. size <= budget.maxSearch /\ Len(search) \in Nat
            BY <3>1, <3>2, SearchFits
        <3>4. size \in Nat /\ budget.maxSearch \in Nat
            BY <3>3 DEF Count, IsBudget
        <3>. HIDE DEF size
        <3>5. ~(size > budget.maxSearch)
            BY <3>3, <3>4
        <3>6. QED
            BY <1>3, <3>5 DEF size
    <2>2. QED
        BY <2>1
<1>8. \A i \in 1..N : chunks[i].strategy # "token_fallback"
                          => chunks[i].text = TextOf(blocks, chunks[i].sources)
    BY <1>1, <1>3 DEF IsDraft, IsCut
<1>. DEFINE windows(c) == At(chunks, {i \in DOMAIN chunks : /\ chunks[i].strategy = "token_fallback"
                                                            /\ chunks[i].sources = c.sources})
            expected(c) == SplitTokens(budget, TextOf(blocks, c.sources))
<1>9. ASSUME NEW i \in 1..N, chunks[i].strategy = "token_fallback"
      PROVE  LET found == windows(chunks[i])
             IN  /\ [k \in DOMAIN found |-> found[k].text] = expected(chunks[i])
                 /\ chunks[i].of = Len(expected(chunks[i]))
    <2>. DEFINE d == drafts[i]
                b == i - d.split - 1
                n == d.of
                cut == Windows(budget, blocks, d)
                found == windows(chunks[i])
    <2>1. IsCut(d)
        BY <1>3, <1>9 DEF IsCut
    <2>2. /\ b \in Nat /\ n \in Nat
          /\ {j \in 1..N : AreTwins(d, drafts[j])} = (b + 1)..(b + n)
          /\ n = Len(cut) /\ Listed(cut) /\ \A k \in 1..n : drafts[b + k].text = cut[k]
        BY <2>1, TwinsAreWindows
    <2>3. expected(chunks[i]) = cut
        BY <1>3 DEF Windows
    <2>4. {j \in DOMAIN chunks : /\ chunks[j].strategy = "token_fallback"
                                 /\ chunks[j].sources = chunks[i].sources}
              = {j \in 1..N : AreTwins(d, drafts[j])}
        <3>1. \A j \in 1..N : (/\ chunks[j].strategy = "token_fallback"
                               /\ chunks[j].sources = chunks[i].sources)
                                  <=> AreTwins(d, drafts[j])
            BY <1>3, <2>1 DEF AreTwins, IsCut
        <3>2. QED
            BY <1>2, <3>1
    <2>. HIDE DEF b, n, cut, d
    <2>5. found = [k \in 1..n |-> chunks[b + k]]
        <3>1. found = At(chunks, (b + 1)..(b + n))
            BY <2>2, <2>4
        <3>2. b \in Nat /\ n \in Nat
            BY <2>2
        <3>3. At(chunks, (b + 1)..(b + n)) = [k \in 1..n |-> chunks[b + k]]
            BY <3>2, AtOfInterval, SMTT(40)
        <3>4. QED
            BY <3>1, <3>3
    <2>. HIDE DEF found
    <2>6. \A k \in 1..n : b + k \in 1..N
        <3>1. \A k \in 1..n : b + k \in (b + 1)..(b + n)
            BY <2>2
        <3>2. QED
            BY <2>2, <3>1
    <2>7. DOMAIN found = 1..n /\ \A k \in 1..n : found[k].text = cut[k]
        <3>1. \A k \in 1..n : found[k] = chunks[b + k]
            BY <2>5
        <3>2. \A k \in 1..n : chunks[b + k].text = drafts[b + k].text
            BY <1>3, <2>6
        <3>3. QED
            BY <2>2, <2>5, <3>1, <3>2
    <2>8. [k \in DOMAIN found |-> found[k].text] = cut
        <3>1. cut = [k \in 1..n |-> cut[k]]
            BY <2>2, ListedSeq DEF Listed
        <3>2. QED
            BY <2>7, <3>1
    <2>9. chunks[i].of = n
        BY <1>3 DEF n, d
    <2>10. QED
        BY <2>2, <2>3, <2>8, <2>9 DEF found
<1>10. DOMAIN blocks = UNION {ToSet(chunks[i].sources) : i \in DOMAIN chunks}
    <2>1. DOMAIN blocks = 1..Len(blocks)
        BY DEF AreBlocks, AreNested, Listed
    <2>2. \A i \in 1..N : ToSet(chunks[i].sources) = Range(drafts[i].sources)
        BY <1>3 DEF ToSet, Range
    <2>3. UNION {ToSet(chunks[i].sources) : i \in DOMAIN chunks} = Drawn(drafts)
        BY <1>2, <2>2 DEF Drawn
    <2>4. QED
        BY <2>1, <2>3
<1>. DEFINE duplicate == Cardinality({chunks[i].id : i \in DOMAIN chunks}) < Len(chunks)
            long == \E i \in DOMAIN chunks : Count(budget, chunks[i].text) > budget.maxTokens
            longSearch == \E i \in DOMAIN chunks :
                Count(budget, chunks[i].search) > budget.maxSearch
            mismatch == \E i \in DOMAIN chunks :
                /\ chunks[i].strategy # "token_fallback"
                /\ chunks[i].text # TextOf(blocks, chunks[i].sources)
            fallback == \E i \in DOMAIN chunks :
                LET found == windows(chunks[i])
                IN  /\ chunks[i].strategy = "token_fallback"
                    /\ \/ [k \in DOMAIN found |-> found[k].text] # expected(chunks[i])
                       \/ chunks[i].of # Len(expected(chunks[i]))
            uncovered == DOMAIN blocks # UNION {ToSet(chunks[i].sources) : i \in DOMAIN chunks}
            wrong == [duplicate_chunk_id |-> duplicate, chunk_too_long |-> long,
                      search_text_too_long |-> longSearch, chunk_text_mismatch |-> mismatch,
                      token_fallback_mismatch |-> fallback, uncovered_source_block |-> uncovered]
<1>11. ChunkErrors(budget, blocks, chunks) = {e \in DOMAIN wrong : wrong[e]}
    BY DEF ChunkErrors
<1>12. ~duplicate
    BY <1>1, <1>4, <1>5
<1>13. ~long /\ ~longSearch
    BY <1>2, <1>6, <1>7
<1>14. ~mismatch
    BY <1>2, <1>8
<1>15. ~fallback
    <2>. HIDE DEF windows, expected
    <2>1. QED
        BY <1>2, <1>9
<1>16. ~uncovered
    BY <1>10
<1>. HIDE DEF duplicate, long, longSearch, mismatch, fallback, uncovered
<1>17. \A e \in DOMAIN wrong : ~wrong[e]
    BY <1>12, <1>13, <1>14, <1>15, <1>16
<1>. HIDE DEF wrong
<1>18. {e \in DOMAIN wrong : wrong[e]} = {}
    BY <1>17
<1>19. QED
    BY <1>11, <1>18 DEF chunks

--------------------------------------------------------------------------------
(* The parser *)

LineFields == {"kind", "number", "title", "text", "names", "titleLike"}
BlockFields == {"kind", "number", "title", "text", "parent", "structure"}

IsLine(line, X) == DOMAIN line = LineFields /\ Listed(line.title) /\ line.text \in Seq(X)
AreLines(lines, X) == Listed(lines) /\ \A i \in 1..Len(lines) : IsLine(lines[i], X)

IsBlock(block, X) ==
    /\ DOMAIN block = BlockFields /\ block.text \in Seq(X) /\ Listed(block.title)
    /\ IsStructure(block.structure)

IsParser(parser, X) ==
    /\ parser = [blocks |-> parser.blocks, open |-> parser.open, next |-> parser.next]
    /\ AreNested(parser.blocks) /\ \A i \in 1..Len(parser.blocks) : IsBlock(parser.blocks[i], X)
    /\ DOMAIN parser.open \in SUBSET (0..8)
    /\ \A l \in DOMAIN parser.open : parser.open[l] \in 1..Len(parser.blocks)

LEMMA DeepestIs ==
    ASSUME NEW L \in SUBSET (0..8), L # {}
    PROVE  Deepest(L) \in L /\ \A k \in L : k <= Deepest(L)
<1>. DEFINE T == {8 - l : l \in L}
<1>1. T \in SUBSET Nat /\ T # {}
    <2>1. \A l \in L : l \in 0..8 /\ 8 - l \in Nat
        OBVIOUS
    <2>2. PICK l \in L : TRUE
        OBVIOUS
    <2>3. 8 - l \in T
        OBVIOUS
    <2>4. T \in SUBSET Nat
        BY <2>1
    <2>5. QED
        BY <2>3, <2>4
<1>2. PICK m \in T : \A k \in T : m <= k
    <2>. HIDE DEF T
    <2>1. QED
        BY <1>1, LeastNumber
<1>3. PICK l \in L : m = 8 - l
    BY <1>2
<1>4. ASSUME NEW k \in L PROVE k <= l
    <2>1. m <= 8 - k /\ k \in Nat /\ l \in Nat
        BY <1>2
    <2>2. QED
        BY <1>3, <2>1
<1>5. QED
    BY <1>3, <1>4 DEF Deepest

LEMMA InnermostIs ==
    ASSUME NEW X, NEW p, IsParser(p, X)
    PROVE  /\ Innermost(p) \in 0..Len(p.blocks)
           /\ DOMAIN p.open = {} => Innermost(p) = 0
           /\ DOMAIN p.open # {} =>
                 \E l \in DOMAIN p.open : /\ Innermost(p) = p.open[l]
                                          /\ \A k \in DOMAIN p.open : k <= l
<1>1. DOMAIN p.open \in SUBSET (0..8) /\ Len(p.blocks) \in Nat
      /\ \A l \in DOMAIN p.open : p.open[l] \in 1..Len(p.blocks)
    BY DEF IsParser, AreNested, Listed
<1>2. CASE DOMAIN p.open = {}
    BY <1>1, <1>2 DEF Innermost
<1>3. CASE DOMAIN p.open # {}
    <2>. DEFINE l == Deepest(DOMAIN p.open)
    <2>1. l \in DOMAIN p.open /\ \A k \in DOMAIN p.open : k <= l
        BY <1>1, <1>3, DeepestIs
    <2>2. Innermost(p) = p.open[l]
        BY <1>3 DEF Innermost
    <2>. HIDE DEF l
    <2>3. QED
        BY <1>1, <1>3, <2>1, <2>2
<1>4. QED
    BY <1>2, <1>3

LEMMA CloseIs ==
    ASSUME NEW X, NEW p, IsParser(p, X), NEW L
    PROVE  LET q == Close(p, L)
           IN  /\ IsParser(q, X) /\ q.blocks = p.blocks /\ q.next = p.next
               /\ DOMAIN q.open = DOMAIN p.open \ L
               /\ \A l \in DOMAIN q.open : q.open[l] = p.open[l]
<1>. DEFINE q == Close(p, L)
            open == [l \in DOMAIN p.open \ L |-> p.open[l]]
<1>1. q = [p EXCEPT !.open = open]
    BY DEF Close
<1>2. p = [blocks |-> p.blocks, open |-> p.open, next |-> p.next]
    BY DEF IsParser
<1>3. DOMAIN open = DOMAIN p.open \ L /\ \A l \in DOMAIN open : open[l] = p.open[l]
    OBVIOUS
<1>. HIDE DEF open, q
<1>4. q = [blocks |-> p.blocks, open |-> open, next |-> p.next]
    BY <1>1, <1>2
<1>5. q.blocks = p.blocks /\ q.open = open /\ q.next = p.next
    BY <1>4
<1>6. q = [blocks |-> q.blocks, open |-> q.open, next |-> q.next]
    BY <1>4, <1>5
<1>7. IsParser(q, X)
    BY <1>3, <1>5, <1>6 DEF IsParser
<1>8. QED
    BY <1>3, <1>5, <1>7 DEF q

\* What Open and Extend do, part by part.
Opened(p, level, block, q) ==
    LET here == Len(p.blocks) + 1
    IN  /\ q.next = p.next /\ Len(q.blocks) = here /\ q.blocks[here] = block
        /\ \A i \in 1..Len(p.blocks) : q.blocks[i] = p.blocks[i]
        /\ DOMAIN q.open = DOMAIN p.open \cup {level} /\ q.open[level] = here
        /\ \A l \in DOMAIN p.open : l # level => q.open[l] = p.open[l]

Extended(p, index, text, q) ==
    /\ q.next = p.next /\ q.open = p.open /\ Len(q.blocks) = Len(p.blocks)
    /\ \A i \in 1..Len(p.blocks) :
          /\ q.blocks[i].kind = p.blocks[i].kind
          /\ q.blocks[i].number = p.blocks[i].number
          /\ q.blocks[i].parent = p.blocks[i].parent
          /\ q.blocks[i].structure = p.blocks[i].structure
          /\ Range(p.blocks[i].text) \subseteq Range(q.blocks[i].text)
    /\ Range(text) \subseteq Range(q.blocks[index].text)

LEMMA OpenIs ==
    ASSUME NEW X, NEW p, IsParser(p, X), NEW level \in 0..8,
           NEW block, IsBlock(block, X), block.parent \in 0..Len(p.blocks)
    PROVE  /\ IsParser(Open(p, level, block), X)
           /\ Opened(p, level, block, Open(p, level, block))
<1>. DEFINE q == Open(p, level, block)
            here == Len(p.blocks) + 1
            N == Len(p.blocks)
            blocks == Append(p.blocks, block)
            open == [l \in DOMAIN p.open \cup {level} |-> IF l = level THEN here ELSE p.open[l]]
<1>1. q = [p EXCEPT !.blocks = blocks, !.open = open]
    BY DEF Open
<1>2. p = [blocks |-> p.blocks, open |-> p.open, next |-> p.next]
    BY DEF IsParser
<1>3. /\ DOMAIN open = DOMAIN p.open \cup {level} /\ open[level] = here
      /\ \A l \in DOMAIN p.open : l # level => open[l] = p.open[l]
    OBVIOUS
<1>4. N \in Nat /\ Listed(p.blocks)
    BY DEF IsParser, AreNested, Listed
<1>5. /\ Listed(blocks) /\ Len(blocks) = here /\ blocks[here] = block
      /\ \A i \in 1..N : blocks[i] = p.blocks[i]
    BY <1>4, AppendIs
<1>. HIDE DEF open, q, blocks
<1>6. q = [blocks |-> blocks, open |-> open, next |-> p.next]
    BY <1>1, <1>2
<1>7. q.blocks = blocks /\ q.open = open /\ q.next = p.next
    BY <1>6
<1>8. q = [blocks |-> q.blocks, open |-> q.open, next |-> q.next]
    BY <1>6, <1>7
<1>9. \A i \in 1..here : i \in 1..N \/ i = here
    BY <1>4
<1>10. AreNested(blocks) /\ \A i \in 1..here : IsBlock(blocks[i], X)
    <2>1. \A i \in 1..N : p.blocks[i].parent \in 0..(i - 1) /\ IsBlock(p.blocks[i], X)
        BY DEF IsParser, AreNested
    <2>2. block.parent \in 0..(here - 1)
        BY <1>4
    <2>3. \A i \in 1..here : blocks[i].parent \in 0..(i - 1) /\ IsBlock(blocks[i], X)
        BY <1>5, <1>9, <2>1, <2>2
    <2>4. QED
        BY <1>5, <2>3 DEF AreNested
<1>11. \A l \in DOMAIN open : open[l] \in 1..here
    <2>1. \A l \in DOMAIN p.open : p.open[l] \in 1..N
        BY DEF IsParser
    <2>2. here \in 1..here /\ \A i \in 1..N : i \in 1..here
        BY <1>4
    <2>3. QED
        BY <1>3, <2>1, <2>2
<1>12. DOMAIN open \in SUBSET (0..8)
    BY <1>3 DEF IsParser
<1>13. IsParser(q, X)
    BY <1>5, <1>7, <1>8, <1>10, <1>11, <1>12 DEF IsParser
<1>14. Opened(p, level, block, q)
    BY <1>3, <1>5, <1>7 DEF Opened
<1>15. QED
    BY <1>13, <1>14 DEF q

LEMMA ExtendIs ==
    ASSUME NEW X, NEW p, IsParser(p, X), NEW index \in 1..Len(p.blocks), NEW text \in Seq(X)
    PROVE  /\ IsParser(Extend(p, index, text), X)
           /\ Extended(p, index, text, Extend(p, index, text))
<1>. DEFINE q == Extend(p, index, text)
            N == Len(p.blocks)
            longer == [p.blocks[index] EXCEPT !.text = @ \o text]
            blocks == [p.blocks EXCEPT ![index] = longer]
<1>1. q = [p EXCEPT !.blocks = blocks]
    BY DEF Extend
<1>2. p = [blocks |-> p.blocks, open |-> p.open, next |-> p.next]
    BY DEF IsParser
<1>3. N \in Nat /\ Listed(p.blocks) /\ DOMAIN p.blocks = 1..N
    BY DEF IsParser, AreNested, Listed
<1>4. IsBlock(p.blocks[index], X)
    BY DEF IsParser
<1>5. /\ longer.kind = p.blocks[index].kind /\ longer.number = p.blocks[index].number
      /\ longer.title = p.blocks[index].title /\ longer.parent = p.blocks[index].parent
      /\ longer.structure = p.blocks[index].structure
      /\ longer.text = p.blocks[index].text \o text /\ DOMAIN longer = BlockFields
    BY <1>4 DEF IsBlock, BlockFields
<1>. HIDE DEF longer
<1>6. /\ longer.text \in Seq(X) /\ Range(p.blocks[index].text) \subseteq Range(longer.text)
      /\ Range(text) \subseteq Range(longer.text)
    <2>. DEFINE old == p.blocks[index].text
    <2>1. old \in Seq(X)
        BY <1>4 DEF IsBlock
    <2>. HIDE DEF old
    <2>2. Listed(old) /\ Listed(text) /\ old \o text \in Seq(X)
        BY <2>1, ListedSeq
    <2>3. Range(old \o text) = Range(old) \cup Range(text)
        BY <2>2, ConcatIs
    <2>4. QED
        BY <1>5, <2>2, <2>3 DEF old
<1>7. IsBlock(longer, X)
    BY <1>4, <1>5, <1>6 DEF IsBlock
<1>8. /\ blocks = [i \in 1..N |-> blocks[i]] /\ blocks[index] = longer
      /\ \A i \in 1..N : i # index => blocks[i] = p.blocks[i]
    BY <1>3
<1>. HIDE DEF blocks, q
<1>9. Listed(blocks) /\ Len(blocks) = N
    BY <1>3, <1>8, ListedIs
<1>10. q = [blocks |-> blocks, open |-> p.open, next |-> p.next]
    BY <1>1, <1>2
<1>11. q.blocks = blocks /\ q.open = p.open /\ q.next = p.next
    BY <1>10
<1>12. q = [blocks |-> q.blocks, open |-> q.open, next |-> q.next]
    BY <1>10, <1>11
<1>13. \A i \in 1..N : /\ blocks[i].kind = p.blocks[i].kind
                       /\ blocks[i].number = p.blocks[i].number
                       /\ blocks[i].title = p.blocks[i].title
                       /\ blocks[i].parent = p.blocks[i].parent
                       /\ blocks[i].structure = p.blocks[i].structure
                       /\ Range(p.blocks[i].text) \subseteq Range(blocks[i].text)
    BY <1>5, <1>6, <1>8
<1>14. AreNested(blocks) /\ \A i \in 1..N : IsBlock(blocks[i], X)
    <2>1. \A i \in 1..N : p.blocks[i].parent \in 0..(i - 1) /\ IsBlock(p.blocks[i], X)
        BY DEF IsParser, AreNested
    <2>2. \A i \in 1..N : blocks[i].parent \in 0..(i - 1) /\ IsBlock(blocks[i], X)
        BY <1>7, <1>8, <1>13, <2>1
    <2>3. QED
        BY <1>9, <2>2 DEF AreNested
<1>15. IsParser(q, X)
    BY <1>9, <1>11, <1>12, <1>14 DEF IsParser
<1>16. Extended(p, index, text, q)
    BY <1>6, <1>8, <1>9, <1>11, <1>13 DEF Extended
<1>17. QED
    BY <1>15, <1>16 DEF q

--------------------------------------------------------------------------------
(* The kinds of blocks and their levels *)

Lower == {"clause", "point", "table"}
LevelOf(kind) == IF kind = "document" THEN 0 ELSE IF kind = "table" THEN TableLevel ELSE Levels[kind]

LEMMA LevelsAre ==
    /\ DOMAIN Levels = Higher \cup {"article", "clause", "point"}
    /\ \A k \in Higher : Levels[k] \in 1..4
    /\ Levels["article"] = 5 /\ Levels["clause"] = 6 /\ Levels["point"] = 7
    /\ \A k \in DOMAIN Levels : Levels[k] \in 1..7 /\ (Levels[k] = 5 => k = "article")
<1>1. DOMAIN Levels = Higher \cup {"article", "clause", "point"}
    BY DEF Levels, Higher
<1>2. \A k \in Higher : Levels[k] \in 1..4
    BY DEF Levels, Higher
<1>3. Levels["article"] = 5 /\ Levels["clause"] = 6 /\ Levels["point"] = 7
    BY DEF Levels
<1>4. QED
    BY <1>1, <1>2, <1>3

\* The blocks that are open, and the article among them.
InOrder(parser) ==
    \A l \in DOMAIN parser.open :
        LET kind == parser.blocks[parser.open[l]].kind
        IN  kind \in DOMAIN Levels \cup {"document", "table"} /\ l = LevelOf(kind)
Current(parser) ==
    IF 5 \in DOMAIN parser.open THEN parser.blocks[parser.open[5]].number ELSE None

LEMMA OpenKinds ==
    ASSUME NEW X, NEW p, IsParser(p, X), InOrder(p)
    PROVE  /\ \A l \in DOMAIN p.open : p.blocks[p.open[l]].kind = "article" <=> l = 5
           /\ \A l \in DOMAIN p.open : l < 5 => p.blocks[p.open[l]].kind \in Higher \cup {"document"}
<1>1. SUFFICES ASSUME NEW l \in DOMAIN p.open
               PROVE  LET kind == p.blocks[p.open[l]].kind
                      IN  /\ kind = "article" <=> l = 5
                          /\ l < 5 => kind \in Higher \cup {"document"}
    OBVIOUS
<1>. DEFINE kind == p.blocks[p.open[l]].kind
<1>2. kind \in DOMAIN Levels \cup {"document", "table"} /\ l = LevelOf(kind)
    BY DEF InOrder
<1>. HIDE DEF kind
<1>3. CASE kind = "document"
    BY <1>2, <1>3 DEF LevelOf, kind
<1>4. CASE kind = "table"
    BY <1>2, <1>4 DEF LevelOf, TableLevel, kind
<1>5. CASE kind \in Higher
    <2>1. l \in 1..4 /\ kind # "article"
        BY <1>2, <1>5, LevelsAre DEF LevelOf, Higher
    <2>2. QED
        BY <1>5, <2>1 DEF kind
<1>6. CASE kind \in {"article", "clause", "point"}
    <2>1. /\ l = Levels[kind] /\ Levels["article"] = 5 /\ Levels["clause"] = 6
          /\ Levels["point"] = 7
        BY <1>2, <1>6, LevelsAre DEF LevelOf
    <2>2. (kind = "article" <=> l = 5) /\ ~(l < 5)
        BY <1>6, <2>1
    <2>3. QED
        BY <2>2 DEF kind
<1>7. QED
    BY <1>2, <1>3, <1>4, <1>5, <1>6, LevelsAre

LEMMA SnapshotIs ==
    ASSUME NEW X, NEW p, IsParser(p, X), NEW line, Listed(line.title)
    PROVE  IsStructure(StructureSnapshot(p, line))
<1>. DEFINE s == StructureSnapshot(p, line)
<1>1. s = [part |-> s.part, chapter |-> s.chapter, section |-> s.section,
           subsection |-> s.subsection, article |-> s.article, title |-> s.title,
           clauses |-> s.clauses, points |-> s.points]
    BY DEF StructureSnapshot
<1>2. \A v : Listed(<<v>>)
    <2>1. \A v : <<v>> \in Seq({v})
        OBVIOUS
    <2>2. QED
        BY <2>1, ListedSeq
<1>3. Listed(<<>>)
    BY EmptyIsListed
<1>. DEFINE headings == {p.blocks[p.open[l]] : l \in DOMAIN p.open}
            articles == {h \in headings : h.kind = "article"}
<1>4. \A h \in articles : Listed(h.title)
    BY DEF IsParser, IsBlock
<1>5. Listed(s.title)
    <2>1. s.title = IF line.kind = "article" THEN line.title
                    ELSE IF articles = {} THEN <<>> ELSE (CHOOSE h \in articles : TRUE).title
        BY DEF StructureSnapshot
    <2>. HIDE DEF articles, headings, s
    <2>2. articles # {} => (CHOOSE h \in articles : TRUE) \in articles
        OBVIOUS
    <2>3. QED
        BY <1>3, <1>4, <2>1, <2>2
<1>6. Listed(s.clauses) /\ Listed(s.points)
    <2>1. (s.clauses = <<>> \/ \E v : s.clauses = <<v>>) /\ (s.points = <<>> \/ \E v : s.points = <<v>>)
        BY DEF StructureSnapshot
    <2>2. QED
        BY <1>2, <1>3, <2>1
<1>7. QED
    <2>. HIDE DEF s
    <2>1. IsStructure(s)
        BY <1>1, <1>5, <1>6, SMTT(40) DEF IsStructure, HasLists
    <2>2. QED
        BY <2>1 DEF s

LEMMA SnapshotArticle ==
    ASSUME NEW X, NEW p, IsParser(p, X), InOrder(p), NEW line
    PROVE  StructureSnapshot(p, line).article =
               IF line.kind = "article" THEN line.number ELSE Current(p)
<1>. DEFINE headings == {p.blocks[p.open[l]] : l \in DOMAIN p.open}
            articles == {h \in headings : h.kind = "article"}
<1>1. StructureSnapshot(p, line).article =
          IF line.kind = "article" THEN line.number
          ELSE IF articles = {} THEN None ELSE (CHOOSE h \in articles : TRUE).number
    BY DEF StructureSnapshot
<1>2. \A l \in DOMAIN p.open : p.blocks[p.open[l]].kind = "article" <=> l = 5
    BY OpenKinds
<1>3. CASE 5 \in DOMAIN p.open
    <2>1. articles = {p.blocks[p.open[5]]}
        BY <1>2, <1>3
    <2>. HIDE DEF articles
    <2>2. articles # {} /\ (CHOOSE h \in articles : TRUE) = p.blocks[p.open[5]]
        BY <2>1
    <2>3. QED
        BY <1>1, <1>3, <2>2 DEF Current
<1>4. CASE 5 \notin DOMAIN p.open
    <2>1. articles = {}
        BY <1>2, <1>4
    <2>. HIDE DEF articles
    <2>2. QED
        BY <1>1, <1>4, <2>1 DEF Current
<1>5. QED
    BY <1>3, <1>4

--------------------------------------------------------------------------------
(* Lines as the parser reads them *)

Joins(parser, lines) ==
    LET line == lines[parser.next]
    IN  /\ line.names # None /\ parser.next + 1 <= Len(lines)
        /\ line.names = "appendix" \/ IsNumberLine(lines[parser.next + 1])
        /\ IsMarker(parser, Joined(line, lines[parser.next + 1]))

\* The kind, the number and the extent of what is read.
ReadKind(parser, lines) ==
    IF Joins(parser, lines) THEN lines[parser.next].names ELSE lines[parser.next].kind
ReadNumber(parser, lines) ==
    IF Joins(parser, lines) THEN Joined(lines[parser.next], lines[parser.next + 1]).number
    ELSE lines[parser.next].number

LEMMA JoinedIs ==
    ASSUME NEW X, NEW a, IsLine(a, X), NEW b, IsLine(b, X)
    PROVE  /\ IsLine(Joined(a, b), X)
           /\ Joined(a, b).kind = a.names
           /\ Range(a.text) \cup Range(b.text) = Range(Joined(a, b).text)
<1>. DEFINE j == Joined(a, b)
<1>1. /\ DOMAIN j = LineFields /\ j.kind = a.names
      /\ j.title = (IF a.names = "appendix" THEN b.text ELSE b.title)
      /\ j.text = a.text \o b.text
    BY DEF Joined, LineFields
<1>2. /\ a.text \in Seq(X) /\ b.text \in Seq(X) /\ Listed(a.text) /\ Listed(b.text)
      /\ Listed(b.title)
    BY ListedSeq DEF IsLine
<1>3. a.text \o b.text \in Seq(X) /\ Range(a.text \o b.text) = Range(a.text) \cup Range(b.text)
    BY <1>2, ConcatIs
<1>. HIDE DEF j
<1>4. IsLine(j, X) /\ Range(a.text) \cup Range(b.text) = Range(j.text)
    BY <1>1, <1>2, <1>3 DEF IsLine
<1>5. QED
    BY <1>1, <1>4 DEF j

LEMMA ReadLineIs ==
    ASSUME NEW X, NEW p, NEW lines, AreLines(lines, X), p.next \in 1..Len(lines)
    PROVE  LET r == ReadLine(p, lines)
           IN  /\ IsLine(r.line, X) /\ r.taken \in 1..3 /\ p.next + r.taken <= Len(lines) + 1
               /\ r.line.kind = ReadKind(p, lines) /\ r.line.number = ReadNumber(p, lines)
               /\ Joins(p, lines) => r.taken > 1
               /\ \A k \in 0..(r.taken - 1) :
                     /\ Range(lines[p.next + k].text) \subseteq Range(r.line.text)
                     /\ \/ k = 0
                        \/ k = 1 /\ Joins(p, lines)
                        \/ lines[p.next + k].titleLike
<1>. DEFINE n == p.next
            joins == Joins(p, lines)
            line == lines[n]
            marker == IF joins THEN Joined(line, lines[n + 1]) ELSE line
            taken == IF joins THEN 2 ELSE 1
            titled == /\ marker.kind \in TitleBearing /\ marker.title = <<>>
                      /\ n + taken <= Len(lines) /\ lines[n + taken].titleLike
            title == lines[n + taken].text
            longer == [marker EXCEPT !.title = title, !.text = @ \o title]
            r == ReadLine(p, lines)
<1>1. r = IF ~titled THEN [line |-> marker, taken |-> taken]
          ELSE [line |-> longer, taken |-> taken + 1]
    BY DEF ReadLine, Joins
<1>2. /\ n \in 1..Len(lines) /\ Len(lines) \in Nat
      /\ \A i \in 1..Len(lines) : IsLine(lines[i], X)
    BY DEF AreLines, Listed
<1>3. /\ joins => n + 1 \in 1..Len(lines)
      /\ taken \in 1..2 /\ n + taken \in 2..(Len(lines) + 1)
    <2>1. joins => n + 1 <= Len(lines)
        BY DEF Joins
    <2>. HIDE DEF joins
    <2>2. joins => n + 1 \in 1..Len(lines)
        BY <1>2, <2>1
    <2>3. QED
        BY <1>2, <2>2
<1>4. /\ IsLine(marker, X) /\ marker.kind = ReadKind(p, lines)
      /\ marker.number = ReadNumber(p, lines)
      /\ Range(line.text) \subseteq Range(marker.text)
      /\ joins => Range(lines[n + 1].text) \subseteq Range(marker.text)
    <2>1. CASE joins
        <3>. DEFINE next == lines[n + 1]
        <3>1. IsLine(line, X) /\ IsLine(next, X)
            BY <1>2, <1>3, <2>1
        <3>2. /\ IsLine(Joined(line, next), X)
              /\ Joined(line, next).kind = line.names
              /\ Range(line.text) \cup Range(next.text) = Range(Joined(line, next).text)
            <4>. HIDE DEF line, next
            <4>1. QED
                BY <3>1, JoinedIs
        <3>3. marker = Joined(line, next)
            BY <2>1
        <3>4. ReadKind(p, lines) = line.names /\ ReadNumber(p, lines) = Joined(line, next).number
            BY <2>1 DEF ReadKind, ReadNumber
        <3>. HIDE DEF marker, line, joins, next
        <3>5. QED
            BY <3>2, <3>3, <3>4 DEF next
    <2>2. CASE ~joins
        <3>1. marker = line /\ IsLine(line, X)
            BY <1>2, <2>2
        <3>2. ReadKind(p, lines) = line.kind /\ ReadNumber(p, lines) = line.number
            BY <2>2 DEF ReadKind, ReadNumber
        <3>. HIDE DEF marker, line, joins
        <3>3. QED
            BY <2>2, <3>1, <3>2
    <2>3. QED
        BY <2>1, <2>2
<1>5. \A k \in 0..(taken - 1) : k = 0 \/ (k = 1 /\ joins)
    <2>. HIDE DEF joins
    <2>1. QED
        OBVIOUS
<1>6. CASE ~titled
    <2>1. r.line = marker /\ r.taken = taken
        BY <1>1, <1>6
    <2>2. joins => taken > 1
        <3>. HIDE DEF joins
        <3>1. QED
            OBVIOUS
    <2>3. \A k \in 0..(taken - 1) : Range(lines[n + k].text) \subseteq Range(marker.text)
        <3>1. TAKE k \in 0..(taken - 1)
        <3>. HIDE DEF marker, joins, taken
        <3>2. CASE k = 0
            <4>1. n + k = n
                BY <1>2, <3>2
            <4>2. QED
                BY <1>4, <4>1
        <3>3. CASE k = 1 /\ joins
            BY <1>4, <3>3
        <3>4. QED
            BY <1>5, <3>2, <3>3
    <2>. HIDE DEF marker, joins, taken, r
    <2>4. taken \in 1..3 /\ n + taken <= Len(lines) + 1
        BY <1>2, <1>3
    <2>5. QED
        BY <1>4, <1>5, <2>1, <2>2, <2>3, <2>4 DEF r, joins
<1>7. CASE titled
    <2>1. r.line = longer /\ r.taken = taken + 1
        BY <1>1, <1>7
    <2>2. n + taken \in 1..Len(lines) /\ lines[n + taken].titleLike
        BY <1>2, <1>3, <1>7
    <2>3. title \in Seq(X) /\ Listed(title) /\ marker.text \in Seq(X) /\ Listed(marker.text)
        <3>1. IsLine(lines[n + taken], X)
            BY <1>2, <2>2
        <3>. HIDE DEF marker, taken
        <3>2. QED
            BY <1>4, <3>1, ListedSeq DEF IsLine
    <2>4. DOMAIN marker = LineFields
        <3>. HIDE DEF marker
        <3>1. QED
            BY <1>4 DEF IsLine
    <2>5. /\ DOMAIN longer = LineFields /\ longer.title = title
          /\ longer.text = marker.text \o title
          /\ longer.kind = marker.kind /\ longer.number = marker.number
        <3>. HIDE DEF marker, title
        <3>1. QED
            BY <2>4 DEF LineFields
    <2>. HIDE DEF marker, title, longer
    <2>6. /\ IsLine(longer, X) /\ Range(longer.text) = Range(marker.text) \cup Range(title)
        <3>1. marker.text \o title \in Seq(X)
              /\ Range(marker.text \o title) = Range(marker.text) \cup Range(title)
            BY <2>3, ConcatIs
        <3>2. QED
            BY <2>3, <2>5, <3>1 DEF IsLine
    <2>7. joins => taken > 1
        <3>. HIDE DEF joins
        <3>1. QED
            OBVIOUS
    <2>. HIDE DEF joins, taken, r
    <2>8. \A k \in 0..taken : k \in 0..(taken - 1) \/ k = taken
        BY <1>3
    <2>9. \A k \in 0..taken : /\ Range(lines[n + k].text) \subseteq Range(longer.text)
                              /\ k = 0 \/ (k = 1 /\ joins) \/ lines[n + k].titleLike
        <3>1. TAKE k \in 0..taken
        <3>2. CASE k = taken
            BY <2>2, <2>6, <3>2 DEF title
        <3>3. CASE k = 0
            <4>1. n + k = n
                BY <1>2, <3>3
            <4>2. QED
                BY <1>4, <2>6, <3>3, <4>1
        <3>4. CASE k = 1 /\ joins
            BY <1>4, <2>6, <3>4
        <3>5. QED
            BY <1>5, <2>8, <3>2, <3>3, <3>4
    <2>10. /\ taken + 1 \in 1..3 /\ n + (taken + 1) <= Len(lines) + 1
           /\ (taken + 1) - 1 = taken /\ (taken > 1 => taken + 1 > 1)
        BY <1>2, <1>3, <2>2
    <2>11. QED
        BY <1>4, <2>1, <2>5, <2>6, <2>7, <2>9, <2>10 DEF r, joins
<1>8. QED
    BY <1>6, <1>7

--------------------------------------------------------------------------------
(* The places of the blocks *)

Kinds == DOMAIN Levels \cup {"document", "table"}

\* The article a block is of follows from its kind and the block it is in.
IsFitting(blocks, block) ==
    /\ block.kind \in Kinds
    /\ block.kind = "article" => block.structure.article = block.number
    /\ block.kind \in Higher \cup {"document"} => block.structure.article = None
    /\ block.parent # 0 /\ block.kind \in Lower =>
          block.structure.article = blocks[block.parent].structure.article
    /\ block.parent # 0 /\ block.kind \notin Lower =>
          blocks[block.parent].kind \in Higher \cup {"document"}
AreFitting(blocks) == \A i \in 1..Len(blocks) : IsFitting(blocks, blocks[i])

\* Clauses and points are open in an article only, and are of that article.
IsOpenRightly(parser) ==
    /\ InOrder(parser)
    /\ 6 \in DOMAIN parser.open \/ 7 \in DOMAIN parser.open => 5 \in DOMAIN parser.open
    /\ \A l \in DOMAIN parser.open :
          5 \in DOMAIN parser.open /\ l >= 5 =>
              parser.blocks[parser.open[l]].structure.article = Current(parser)

IsReader(parser, X) ==
    IsParser(parser, X) /\ AreFitting(parser.blocks) /\ IsOpenRightly(parser)

\* A step of the parser keeps what blocks there are.
Kept(p, q) ==
    /\ Len(p.blocks) <= Len(q.blocks)
    /\ \A i \in 1..Len(p.blocks) :
          /\ q.blocks[i].kind = p.blocks[i].kind
          /\ q.blocks[i].number = p.blocks[i].number
          /\ q.blocks[i].parent = p.blocks[i].parent
          /\ q.blocks[i].structure = p.blocks[i].structure
          /\ Range(p.blocks[i].text) \subseteq Range(q.blocks[i].text)

\* What is read is in a block of the current article.
ReadInto(q, text) ==
    \E i \in 1..Len(q.blocks) :
        /\ Range(text) \subseteq Range(q.blocks[i].text)
        /\ Current(q) # None => q.blocks[i].structure.article = Current(q)

LEMMA CloseKeeps ==
    ASSUME NEW X, NEW p, IsReader(p, X), NEW L, 5 \in L => {6, 7} \subseteq L
    PROVE  LET q == Close(p, L)
           IN  /\ IsReader(q, X) /\ q.blocks = p.blocks /\ q.next = p.next
               /\ DOMAIN q.open = DOMAIN p.open \ L
               /\ \A l \in DOMAIN q.open : q.open[l] = p.open[l]
               /\ Current(q) = IF 5 \in L THEN None ELSE Current(p)
<1>. DEFINE q == Close(p, L)
<1>1. /\ IsParser(q, X) /\ q.blocks = p.blocks /\ q.next = p.next
      /\ DOMAIN q.open = DOMAIN p.open \ L
      /\ \A l \in DOMAIN q.open : q.open[l] = p.open[l]
    BY CloseIs DEF IsReader
<1>. HIDE DEF q
<1>2. Current(q) = IF 5 \in L THEN None ELSE Current(p)
    BY <1>1 DEF Current
<1>3. InOrder(q)
    BY <1>1 DEF IsReader, IsOpenRightly, InOrder
<1>4. 6 \in DOMAIN q.open \/ 7 \in DOMAIN q.open => 5 \in DOMAIN q.open
    BY <1>1 DEF IsReader, IsOpenRightly
<1>5. ASSUME NEW l \in DOMAIN q.open, 5 \in DOMAIN q.open, l >= 5
      PROVE  q.blocks[q.open[l]].structure.article = Current(q)
    <2>1. l \in DOMAIN p.open /\ 5 \in DOMAIN p.open /\ 5 \notin L
        BY <1>1, <1>5
    <2>2. p.blocks[p.open[l]].structure.article = Current(p)
        BY <1>5, <2>1 DEF IsReader, IsOpenRightly
    <2>3. QED
        BY <1>1, <1>2, <2>1, <2>2
<1>6. IsReader(q, X)
    BY <1>1, <1>3, <1>4, <1>5 DEF IsReader, IsOpenRightly
<1>7. QED
    BY <1>1, <1>2, <1>6 DEF q

\* A block that may open at a level.
MayOpen(p, level, block) ==
    /\ block.parent \in 0..Len(p.blocks)
    /\ IsFitting(p.blocks, block) /\ level = LevelOf(block.kind)
    /\ level \in {6, 7} => 5 \in DOMAIN p.open
    /\ level < 5 => \A l \in DOMAIN p.open : l < 5
    /\ level = 5 => \A l \in DOMAIN p.open : l <= 5
    /\ level > 5 /\ 5 \in DOMAIN p.open => block.structure.article = Current(p)

\* What an open block makes of the article.
HasOpened(p, level, block, q, X) ==
    LET here == Len(p.blocks) + 1
    IN  /\ IsReader(q, X) /\ q.next = p.next /\ Kept(p, q)
        /\ here \in 1..Len(q.blocks) /\ q.blocks[here] = block
        /\ level # 5 => Current(q) = Current(p)
        /\ level = 5 => Current(q) = block.number

LEMMA OpenKeeps ==
    ASSUME NEW X, NEW p, IsReader(p, X), NEW level \in 0..8,
           NEW block, IsBlock(block, X), MayOpen(p, level, block)
    PROVE  HasOpened(p, level, block, Open(p, level, block), X)
<1>. DEFINE q == Open(p, level, block)
            here == Len(p.blocks) + 1
            N == Len(p.blocks)
<1>0. IsParser(p, X)
    BY DEF IsReader
<1>m. /\ block.parent \in 0..Len(p.blocks)
      /\ IsFitting(p.blocks, block) /\ level = LevelOf(block.kind)
      /\ level \in {6, 7} => 5 \in DOMAIN p.open
      /\ level < 5 => \A l \in DOMAIN p.open : l < 5
      /\ level = 5 => \A l \in DOMAIN p.open : l <= 5
      /\ level > 5 /\ 5 \in DOMAIN p.open => block.structure.article = Current(p)
    BY DEF MayOpen
<1>1. /\ IsParser(q, X) /\ q.next = p.next
      /\ Len(q.blocks) = here /\ q.blocks[here] = block
      /\ \A i \in 1..N : q.blocks[i] = p.blocks[i]
      /\ DOMAIN q.open = DOMAIN p.open \cup {level} /\ q.open[level] = here
      /\ \A l \in DOMAIN p.open : l # level => q.open[l] = p.open[l]
    <2>1. IsParser(q, X) /\ Opened(p, level, block, q)
        BY <1>0, <1>m, OpenIs
    <2>. HIDE DEF q
    <2>2. QED
        BY <2>1 DEF Opened
<1>2. /\ N \in Nat /\ \A i \in 1..N : p.blocks[i].parent \in 0..(i - 1)
      /\ \A l \in DOMAIN p.open : p.open[l] \in 1..N /\ l \in 0..8
      /\ InOrder(p)
    BY DEF IsReader, IsParser, AreNested, Listed, IsOpenRightly
<1>3. \A i \in 1..here : i \in 1..N \/ i = here
    BY <1>2
<1>. HIDE DEF q
<1>4. Kept(p, q)
    <2>1. Len(p.blocks) <= Len(q.blocks)
        BY <1>1, <1>2
    <2>2. \A i \in 1..N : Range(p.blocks[i].text) \subseteq Range(q.blocks[i].text)
        BY <1>1
    <2>3. QED
        BY <1>1, <2>1, <2>2 DEF Kept
<1>5. AreFitting(q.blocks)
    <2>1. ASSUME NEW i \in 1..N PROVE IsFitting(q.blocks, p.blocks[i])
        <3>1. IsFitting(p.blocks, p.blocks[i])
            BY DEF IsReader, AreFitting
        <3>2. p.blocks[i].parent # 0 => p.blocks[i].parent \in 1..N
            BY <1>2
        <3>3. QED
            BY <1>1, <3>1, <3>2 DEF IsFitting
    <2>2. IsFitting(q.blocks, block)
        <3>1. block.parent # 0 => block.parent \in 1..N
            BY <1>2, <1>m
        <3>2. QED
            BY <1>1, <1>m, <3>1 DEF IsFitting
    <2>3. QED
        BY <1>1, <1>3, <2>1, <2>2 DEF AreFitting
<1>6. InOrder(q)
    <2>1. block.kind \in DOMAIN Levels \cup {"document", "table"}
        BY <1>m DEF IsFitting, Kinds
    <2>2. QED
        BY <1>1, <1>2, <1>m, <2>1, ZenonT(40) DEF InOrder
<1>7. 6 \in DOMAIN q.open \/ 7 \in DOMAIN q.open => 5 \in DOMAIN q.open
    BY <1>1, <1>m DEF IsReader, IsOpenRightly
<1>8. /\ level # 5 => Current(q) = Current(p)
      /\ level = 5 => Current(q) = block.number
    <2>1. level # 5 => (5 \in DOMAIN q.open <=> 5 \in DOMAIN p.open)
        BY <1>1
    <2>2. level # 5 /\ 5 \in DOMAIN p.open =>
              q.blocks[q.open[5]].number = p.blocks[p.open[5]].number
        BY <1>1, <1>2
    <2>3. QED
        BY <1>1, <2>1, <2>2 DEF Current
<1>9. ASSUME NEW l \in DOMAIN q.open, 5 \in DOMAIN q.open, l >= 5
      PROVE  q.blocks[q.open[l]].structure.article = Current(q)
    <2>1. CASE level = 5
        <3>1. block.kind = "article"
            <4>1. block.kind = "document" => LevelOf(block.kind) = 0
                BY DEF LevelOf
            <4>2. block.kind = "table" => LevelOf(block.kind) = 8
                BY DEF LevelOf, TableLevel
            <4>3. block.kind # "document" /\ block.kind # "table" /\ block.kind \in DOMAIN Levels
                BY <1>m, <2>1, <4>1, <4>2 DEF IsFitting, Kinds
            <4>4. Levels[block.kind] = 5
                BY <1>m, <2>1, <4>3 DEF LevelOf
            <4>5. QED
                BY <4>3, <4>4, LevelsAre
        <3>2. l = 5
            <4>1. l # 5 => l \in DOMAIN p.open
                BY <1>1, <2>1
            <4>2. l \in DOMAIN p.open => l \in 0..8 /\ l <= 5
                BY <1>2, <1>m, <2>1
            <4>3. QED
                BY <1>9, <4>1, <4>2
        <3>3. block.structure.article = block.number
            BY <1>m, <3>1 DEF IsFitting
        <3>4. QED
            BY <1>1, <1>8, <2>1, <3>2, <3>3
    <2>2. CASE level # 5
        <3>1. 5 \in DOMAIN p.open
            BY <1>1, <1>9, <2>2
        <3>2. level > 5
            <4>1. level < 5 => 5 < 5
                BY <1>m, <3>1
            <4>2. QED
                BY <2>2, <4>1
        <3>3. CASE l = level
            BY <1>1, <1>8, <1>m, <2>2, <3>1, <3>2, <3>3
        <3>4. CASE l # level
            <4>1. l \in DOMAIN p.open
                BY <1>1, <3>4
            <4>2. p.blocks[p.open[l]].structure.article = Current(p)
                BY <1>9, <3>1, <4>1 DEF IsReader, IsOpenRightly
            <4>3. q.open[l] = p.open[l] /\ p.open[l] \in 1..N
                BY <1>1, <1>2, <3>4, <4>1
            <4>4. QED
                BY <1>1, <1>8, <2>2, <4>2, <4>3
        <3>5. QED
            BY <3>3, <3>4
    <2>3. QED
        BY <2>1, <2>2
<1>10. IsReader(q, X)
    BY <1>1, <1>5, <1>6, <1>7, <1>9 DEF IsReader, IsOpenRightly
<1>11. here \in 1..Len(q.blocks)
    BY <1>1, <1>2
<1>12. QED
    BY <1>1, <1>4, <1>8, <1>10, <1>11 DEF HasOpened, q

LEMMA ExtendKeeps ==
    ASSUME NEW X, NEW p, IsReader(p, X), NEW index \in 1..Len(p.blocks), NEW text \in Seq(X)
    PROVE  LET q == Extend(p, index, text)
           IN  /\ IsReader(q, X) /\ q.next = p.next /\ Kept(p, q)
               /\ Len(q.blocks) = Len(p.blocks) /\ Current(q) = Current(p)
               /\ Range(text) \subseteq Range(q.blocks[index].text)
<1>. DEFINE q == Extend(p, index, text)
            N == Len(p.blocks)
<1>0. IsParser(p, X)
    BY DEF IsReader
<1>1. /\ IsParser(q, X) /\ q.next = p.next /\ q.open = p.open
      /\ Len(q.blocks) = N
      /\ \A i \in 1..N :
            /\ q.blocks[i].kind = p.blocks[i].kind
            /\ q.blocks[i].number = p.blocks[i].number
            /\ q.blocks[i].parent = p.blocks[i].parent
            /\ q.blocks[i].structure = p.blocks[i].structure
            /\ Range(p.blocks[i].text) \subseteq Range(q.blocks[i].text)
      /\ Range(text) \subseteq Range(q.blocks[index].text)
    <2>1. IsParser(q, X) /\ Extended(p, index, text, q)
        BY <1>0, ExtendIs
    <2>. HIDE DEF q
    <2>2. QED
        BY <2>1 DEF Extended
<1>2. /\ N \in Nat /\ \A i \in 1..N : p.blocks[i].parent \in 0..(i - 1)
      /\ \A l \in DOMAIN p.open : p.open[l] \in 1..N
      /\ InOrder(p)
    BY DEF IsReader, IsParser, AreNested, Listed, IsOpenRightly
<1>. HIDE DEF q
<1>3. Kept(p, q)
    <2>1. Len(p.blocks) <= Len(q.blocks)
        BY <1>1, <1>2
    <2>2. QED
        BY <1>1, <2>1 DEF Kept
<1>4. AreFitting(q.blocks)
    <2>1. ASSUME NEW i \in 1..N PROVE IsFitting(q.blocks, q.blocks[i])
        <3>1. IsFitting(p.blocks, p.blocks[i])
            BY DEF IsReader, AreFitting
        <3>2. p.blocks[i].parent # 0 => p.blocks[i].parent \in 1..N
            BY <1>2, SMTT(40)
        <3>3. QED
            BY <1>1, <3>1, <3>2, ZenonT(40) DEF IsFitting
    <2>2. QED
        BY <1>1, <2>1 DEF AreFitting
<1>5. Current(q) = Current(p)
    BY <1>1, <1>2 DEF Current
<1>6. IsOpenRightly(q)
    <2>0. /\ DOMAIN q.open = DOMAIN p.open
          /\ \A l \in DOMAIN p.open :
                /\ q.blocks[q.open[l]].kind = p.blocks[p.open[l]].kind
                /\ q.blocks[q.open[l]].structure = p.blocks[p.open[l]].structure
        BY <1>1, <1>2
    <2>1. InOrder(q)
        BY <1>2, <2>0 DEF InOrder
    <2>2. \A l \in DOMAIN q.open : 5 \in DOMAIN q.open /\ l >= 5 =>
              q.blocks[q.open[l]].structure.article = Current(q)
        BY <1>5, <2>0 DEF IsReader, IsOpenRightly
    <2>3. QED
        BY <1>1, <2>1, <2>2 DEF IsReader, IsOpenRightly
<1>7. IsReader(q, X)
    BY <1>1, <1>4, <1>6 DEF IsReader
<1>8. QED
    BY <1>1, <1>3, <1>5, <1>7 DEF q

LEMMA InnermostArticle ==
    ASSUME NEW X, NEW p, IsReader(p, X)
    PROVE  /\ Innermost(p) \in 0..Len(p.blocks)
           /\ DOMAIN p.open # {} => Innermost(p) # 0
           /\ 5 \in DOMAIN p.open =>
                 /\ Innermost(p) # 0
                 /\ p.blocks[Innermost(p)].structure.article = Current(p)
           /\ Innermost(p) # 0 /\ (\A l \in DOMAIN p.open : l < 5) =>
                 p.blocks[Innermost(p)].kind \in Higher \cup {"document"}
<1>0. IsParser(p, X) /\ InOrder(p)
    BY DEF IsReader, IsOpenRightly
<1>1. /\ Innermost(p) \in 0..Len(p.blocks)
      /\ DOMAIN p.open = {} => Innermost(p) = 0
      /\ DOMAIN p.open # {} =>
            \E l \in DOMAIN p.open : /\ Innermost(p) = p.open[l]
                                     /\ \A k \in DOMAIN p.open : k <= l
    BY <1>0, InnermostIs
<1>2. \A l \in DOMAIN p.open : p.open[l] # 0 /\ l \in 0..8
    BY <1>0 DEF IsParser, AreNested, Listed
<1>3. ASSUME 5 \in DOMAIN p.open
      PROVE  p.blocks[Innermost(p)].structure.article = Current(p)
    <2>1. PICK l \in DOMAIN p.open : Innermost(p) = p.open[l] /\ \A k \in DOMAIN p.open : k <= l
        BY <1>1, <1>3
    <2>2. l >= 5
        BY <1>2, <1>3, <2>1
    <2>3. QED
        BY <1>3, <2>1, <2>2 DEF IsReader, IsOpenRightly
<1>4. ASSUME Innermost(p) # 0, \A l \in DOMAIN p.open : l < 5
      PROVE  p.blocks[Innermost(p)].kind \in Higher \cup {"document"}
    <2>1. PICK l \in DOMAIN p.open : Innermost(p) = p.open[l]
        BY <1>1, <1>4
    <2>2. \A k \in DOMAIN p.open : k < 5 => p.blocks[p.open[k]].kind \in Higher \cup {"document"}
        BY <1>0, OpenKinds
    <2>3. QED
        BY <1>4, <2>1, <2>2
<1>5. QED
    BY <1>1, <1>2, <1>3, <1>4

\* What a step does to the blocks besides reading.
Continues(p, q, text, X) ==
    IsReader(q, X) /\ q.next = p.next /\ Kept(p, q) /\ ReadInto(q, text)

LEMMA StartKeeps ==
    ASSUME NEW X, NEW p, IsReader(p, X), NEW line, IsLine(line, X), IsMarker(p, line)
    PROVE  LET q == StartMarkerBlock(p, line)
           IN  /\ Continues(p, q, line.text, X)
               /\ Current(q) = IF line.kind = "article" THEN line.number
                               ELSE IF line.kind \in Higher THEN None ELSE Current(p)
<1>. DEFINE level == Levels[line.kind]
            above == Close(p, level..TableLevel)
            block == [kind |-> line.kind, number |-> line.number, title |-> line.title,
                      text |-> line.text, parent |-> Innermost(above),
                      structure |-> StructureSnapshot(above, line)]
            q == Open(above, level, block)
<1>1. StartMarkerBlock(p, line) = q
    BY DEF StartMarkerBlock
<1>2. /\ line.kind \in DOMAIN Levels /\ level \in 1..7
      /\ level = 5 <=> line.kind = "article"
      /\ level < 5 <=> line.kind \in Higher
      /\ level > 5 <=> line.kind \in Lower
      /\ line.kind # "document" /\ line.kind # "table" /\ level = LevelOf(line.kind)
      /\ level \in 0..8
    <2>1. line.kind \in DOMAIN Levels
        BY DEF IsMarker
    <2>2. line.kind \in Higher \/ line.kind \in {"article", "clause", "point"}
        BY <2>1, LevelsAre
    <2>3. level \in 1..7
        BY <2>1, LevelsAre
    <2>4. line.kind # "document" /\ line.kind # "table"
        BY <2>2 DEF Higher
    <2>5. level = LevelOf(line.kind)
        BY <2>4 DEF LevelOf
    <2>6. CASE line.kind \in Higher
        <3>1. level \in 1..4 /\ line.kind # "article" /\ line.kind \notin Lower
            BY <2>6, LevelsAre DEF Higher, Lower
        <3>2. QED
            BY <2>1, <2>4, <2>5, <2>6, <3>1
    <2>7. CASE line.kind = "article"
        <3>1. level = 5 /\ line.kind \notin Higher /\ line.kind \notin Lower
            BY <2>7, LevelsAre DEF Higher, Lower
        <3>2. QED
            BY <2>1, <2>4, <2>5, <2>7, <3>1
    <2>8. CASE line.kind \in {"clause", "point"}
        <3>1. /\ level \in {6, 7} /\ line.kind \notin Higher /\ line.kind \in Lower
              /\ line.kind # "article"
            BY <2>8, LevelsAre DEF Higher, Lower
        <3>2. QED
            BY <2>1, <2>4, <2>5, <3>1
    <2>9. QED
        BY <2>2, <2>6, <2>7, <2>8
<1>3. /\ \A l : l \in level..TableLevel <=> l \in Int /\ level <= l /\ l <= 8
      /\ 5 \in level..TableLevel => {6, 7} \subseteq level..TableLevel
    BY <1>2 DEF TableLevel
<1>. HIDE DEF level
<1>4. /\ IsReader(above, X) /\ above.blocks = p.blocks /\ above.next = p.next
      /\ DOMAIN above.open = DOMAIN p.open \ (level..TableLevel)
      /\ Current(above) = IF 5 \in level..TableLevel THEN None ELSE Current(p)
    <2>. DEFINE gone == level..TableLevel
    <2>1. 5 \in gone => {6, 7} \subseteq gone
        BY <1>3
    <2>. HIDE DEF gone
    <2>2. LET a == Close(p, gone)
          IN  /\ IsReader(a, X) /\ a.blocks = p.blocks /\ a.next = p.next
              /\ DOMAIN a.open = DOMAIN p.open \ gone
              /\ Current(a) = IF 5 \in gone THEN None ELSE Current(p)
        BY <2>1, CloseKeeps
    <2>3. QED
        BY <2>2 DEF gone
<1>. HIDE DEF above
<1>5. IsParser(above, X) /\ InOrder(above) /\ IsParser(p, X) /\ InOrder(p)
    BY <1>4 DEF IsReader, IsOpenRightly
<1>6. \A l \in DOMAIN above.open : l \in 0..8 /\ l < level
    <2>1. \A l \in DOMAIN above.open : l \in 0..8 /\ l \notin level..TableLevel
        BY <1>4, <1>5 DEF IsParser
    <2>2. QED
        BY <1>2, <1>3, <2>1
<1>7. level > 5 => 5 \in DOMAIN above.open
    <2>1. SUFFICES ASSUME level > 5 PROVE 5 \in DOMAIN above.open
        OBVIOUS
    <2>2. line.kind \in {"clause", "point"}
        BY <1>2, <2>1 DEF Lower
    <2>3. PICK l \in DOMAIN p.open : p.blocks[p.open[l]].kind = "article"
        BY <2>2 DEF IsMarker
    <2>4. l = 5
        BY <1>5, <2>3, OpenKinds
    <2>5. 5 \notin level..TableLevel
        BY <1>2, <1>3, <2>1
    <2>6. QED
        BY <1>4, <2>3, <2>4, <2>5
<1>. DEFINE place == StructureSnapshot(above, line)
<1>8. IsStructure(place)
    BY <1>5, SnapshotIs DEF IsLine
<1>9. place.article = IF line.kind = "article" THEN line.number ELSE Current(above)
    BY <1>5, SnapshotArticle
<1>. DEFINE around == Innermost(above)
<1>10. /\ around \in 0..Len(above.blocks)
       /\ 5 \in DOMAIN above.open => above.blocks[around].structure.article = Current(above)
       /\ around # 0 /\ (\A l \in DOMAIN above.open : l < 5) =>
             above.blocks[around].kind \in Higher \cup {"document"}
    BY <1>4, InnermostArticle
<1>11. /\ block.kind = line.kind /\ block.number = line.number /\ block.title = line.title
       /\ block.text = line.text /\ block.parent = around /\ block.structure = place
       /\ DOMAIN block = BlockFields
    BY DEF BlockFields
<1>. HIDE DEF place, around, block
<1>12. IsBlock(block, X)
    BY <1>8, <1>11 DEF IsBlock, IsLine
<1>13. line.kind \in Higher => Current(above) = None
    <2>1. line.kind \in Higher => 5 \in level..TableLevel
        BY <1>2, <1>3
    <2>2. QED
        BY <1>4, <2>1
<1>14. IsFitting(above.blocks, block)
    <2>1. block.kind \in Kinds
        BY <1>2, <1>11 DEF Kinds
    <2>2. block.kind = "article" => block.structure.article = block.number
        BY <1>9, <1>11
    <2>3. block.kind \in Higher \cup {"document"} => block.structure.article = None
        <3>1. line.kind \in Higher => line.kind # "article"
            BY DEF Higher
        <3>2. QED
            BY <1>2, <1>9, <1>11, <1>13, <3>1
    <2>4. ASSUME block.parent # 0, block.kind \in Lower
          PROVE  block.structure.article = above.blocks[block.parent].structure.article
        <3>1. level > 5 /\ line.kind # "article"
            BY <1>2, <1>11, <2>4
        <3>2. QED
            BY <1>7, <1>9, <1>10, <1>11, <3>1
    <2>5. ASSUME block.parent # 0, block.kind \notin Lower
          PROVE  above.blocks[block.parent].kind \in Higher \cup {"document"}
        <3>1. ~(level > 5)
            BY <1>2, <1>11, <2>5
        <3>2. \A l \in DOMAIN above.open : l < 5
            BY <1>2, <1>6, <3>1
        <3>3. QED
            BY <1>10, <1>11, <2>5, <3>2
    <2>6. QED
        BY <2>1, <2>2, <2>3, <2>4, <2>5 DEF IsFitting
<1>15. level > 5 /\ 5 \in DOMAIN above.open => block.structure.article = Current(above)
    <2>1. level > 5 => line.kind # "article"
        BY <1>2
    <2>2. QED
        BY <1>9, <1>11, <2>1
<1>. DEFINE here == Len(above.blocks) + 1
<1>16. /\ IsReader(q, X) /\ q.next = above.next /\ Kept(above, q)
       /\ here \in 1..Len(q.blocks) /\ q.blocks[here] = block
       /\ level # 5 => Current(q) = Current(above)
       /\ level = 5 => Current(q) = block.number
    <2>1. /\ level = LevelOf(block.kind) /\ block.parent \in 0..Len(above.blocks)
          /\ level \in 0..8
        BY <1>2, <1>10, <1>11
    <2>2. /\ level \in {6, 7} => 5 \in DOMAIN above.open
          /\ level < 5 => \A l \in DOMAIN above.open : l < 5
          /\ level = 5 => \A l \in DOMAIN above.open : l <= 5
        BY <1>2, <1>6, <1>7
    <2>3. MayOpen(above, level, block)
        BY <1>14, <1>15, <2>1, <2>2 DEF MayOpen
    <2>4. HasOpened(above, level, block, q, X)
        BY <1>4, <1>12, <2>1, <2>3, OpenKeeps
    <2>. HIDE DEF q
    <2>5. QED
        BY <2>4 DEF HasOpened
<1>. HIDE DEF q, here
<1>17. Kept(p, q)
    BY <1>4, <1>16, ZenonT(40) DEF Kept
<1>18. block.structure.article = Current(q)
    BY <1>2, <1>9, <1>11, <1>16
<1>19. ReadInto(q, line.text)
    BY <1>11, <1>16, <1>18 DEF ReadInto
<1>20. Current(q) = IF line.kind = "article" THEN line.number
                    ELSE IF line.kind \in Higher THEN None ELSE Current(p)
    <2>1. line.kind \notin Higher /\ line.kind # "article" => 5 \notin level..TableLevel
        BY <1>2, <1>3
    <2>2. QED
        BY <1>2, <1>4, <1>11, <1>13, <1>16, <2>1
<1>21. QED
    BY <1>1, <1>4, <1>16, <1>17, <1>19, <1>20 DEF Continues

LEMMA NoStructureIs == IsStructure(NoStructure) /\ NoStructure.article = None
<1>1. Listed(NoStructure.title) /\ Listed(NoStructure.clauses) /\ Listed(NoStructure.points)
    BY EmptyIsListed DEF NoStructure
<1>2. QED
    BY <1>1 DEF NoStructure, IsStructure, HasLists

LEMMA OrdinaryKeeps ==
    ASSUME NEW X, NEW p, IsReader(p, X), NEW line, IsLine(line, X)
    PROVE  LET q == AppendOrdinaryLine(p, line)
           IN  Continues(p, q, line.text, X) /\ Current(q) = Current(p)
<1>1. line.text \in Seq(X)
    BY DEF IsLine
<1>2. CASE DOMAIN p.open # {}
    <2>. DEFINE i == Innermost(p)
                q == Extend(p, i, line.text)
    <2>1. AppendOrdinaryLine(p, line) = q
        BY <1>2 DEF AppendOrdinaryLine
    <2>2. /\ i \in 0..Len(p.blocks) /\ i # 0
          /\ 5 \in DOMAIN p.open => p.blocks[i].structure.article = Current(p)
        BY <1>2, InnermostArticle
    <2>. HIDE DEF i
    <2>3. i \in 1..Len(p.blocks)
        BY <2>2 DEF IsReader, IsParser, AreNested, Listed
    <2>4. /\ IsReader(q, X) /\ q.next = p.next /\ Kept(p, q)
          /\ Len(q.blocks) = Len(p.blocks) /\ Current(q) = Current(p)
          /\ Range(line.text) \subseteq Range(q.blocks[i].text)
        BY <1>1, <2>3, ExtendKeeps
    <2>. HIDE DEF q
    <2>5. Current(p) # None => p.blocks[i].structure.article = Current(p)
        BY <2>2 DEF Current
    <2>6. ReadInto(q, line.text)
        BY <2>3, <2>4, <2>5 DEF ReadInto, Kept
    <2>7. QED
        BY <2>1, <2>4, <2>6 DEF Continues
<1>3. CASE DOMAIN p.open = {}
    <2>. DEFINE block == [kind |-> "document", number |-> None, title |-> <<>>,
                          text |-> line.text, parent |-> 0, structure |-> NoStructure]
                q == Open(p, 0, block)
                here == Len(p.blocks) + 1
    <2>1. AppendOrdinaryLine(p, line) = q
        BY <1>3 DEF AppendOrdinaryLine
    <2>2. IsStructure(NoStructure) /\ NoStructure.article = None /\ Listed(<<>>)
        BY NoStructureIs, EmptyIsListed
    <2>3. /\ block.kind = "document" /\ block.title = <<>> /\ block.text = line.text
          /\ block.parent = 0 /\ block.structure = NoStructure /\ DOMAIN block = BlockFields
        BY DEF BlockFields
    <2>. HIDE DEF block
    <2>4. IsBlock(block, X)
        BY <1>1, <2>2, <2>3 DEF IsBlock
    <2>5. IsFitting(p.blocks, block) /\ LevelOf(block.kind) = 0
        BY <2>2, <2>3 DEF IsFitting, Kinds, LevelOf
    <2>6. 0 \in 0..8 /\ block.parent \in 0..Len(p.blocks)
        BY <2>3 DEF IsReader, IsParser, AreNested, Listed
    <2>7. /\ IsReader(q, X) /\ q.next = p.next /\ Kept(p, q)
          /\ here \in 1..Len(q.blocks) /\ q.blocks[here] = block /\ Current(q) = Current(p)
        <3>1. MayOpen(p, 0, block)
            BY <1>3, <2>5, <2>6 DEF MayOpen
        <3>2. HasOpened(p, 0, block, q, X)
            BY <2>4, <2>6, <3>1, OpenKeeps
        <3>. HIDE DEF q
        <3>3. QED
            BY <3>2 DEF HasOpened
    <2>. HIDE DEF q, here
    <2>8. Current(p) = None
        BY <1>3 DEF Current
    <2>9. ReadInto(q, line.text)
        BY <2>3, <2>7, <2>8 DEF ReadInto
    <2>10. QED
        BY <2>1, <2>7, <2>9 DEF Continues
<1>4. QED
    BY <1>2, <1>3

LEMMA RowKeeps ==
    ASSUME NEW X, NEW p, IsReader(p, X), NEW line, IsLine(line, X)
    PROVE  LET q == AppendTableRow(p, line)
           IN  Continues(p, q, line.text, X) /\ Current(q) = Current(p)
<1>1. line.text \in Seq(X) /\ TableLevel = 8
    BY DEF IsLine, TableLevel
<1>2. CASE TableLevel \in DOMAIN p.open
    <2>. DEFINE i == p.open[8]
                q == Extend(p, i, line.text)
    <2>1. AppendTableRow(p, line) = q
        BY <1>1, <1>2 DEF AppendTableRow
    <2>2. i \in 1..Len(p.blocks) /\ 8 \in DOMAIN p.open
        BY <1>1, <1>2 DEF IsReader, IsParser
    <2>3. Current(p) # None => p.blocks[i].structure.article = Current(p)
        <3>1. Current(p) # None => 5 \in DOMAIN p.open
            BY DEF Current
        <3>2. 8 >= 5
            OBVIOUS
        <3>3. QED
            BY <2>2, <3>1, <3>2 DEF IsReader, IsOpenRightly
    <2>. HIDE DEF i
    <2>4. /\ IsReader(q, X) /\ q.next = p.next /\ Kept(p, q)
          /\ Len(q.blocks) = Len(p.blocks) /\ Current(q) = Current(p)
          /\ Range(line.text) \subseteq Range(q.blocks[i].text)
        BY <1>1, <2>2, ExtendKeeps
    <2>. HIDE DEF q
    <2>5. ReadInto(q, line.text)
        BY <2>2, <2>3, <2>4 DEF ReadInto, Kept
    <2>6. QED
        BY <2>1, <2>4, <2>5 DEF Continues
<1>3. CASE TableLevel \notin DOMAIN p.open
    <2>. DEFINE around == Innermost(p)
                place == IF around = 0 THEN NoStructure ELSE p.blocks[around].structure
                block == [kind |-> "table", number |-> None, title |-> <<>>,
                          text |-> line.text, parent |-> around, structure |-> place]
                q == Open(p, 8, block)
                here == Len(p.blocks) + 1
    <2>1. AppendTableRow(p, line) = q
        BY <1>1, <1>3 DEF AppendTableRow
    <2>2. IsStructure(NoStructure) /\ NoStructure.article = None /\ Listed(<<>>)
        BY NoStructureIs, EmptyIsListed
    <2>3. /\ around \in 0..Len(p.blocks)
          /\ 5 \in DOMAIN p.open =>
                around # 0 /\ p.blocks[around].structure.article = Current(p)
        BY InnermostArticle
    <2>4. /\ block.kind = "table" /\ block.title = <<>> /\ block.text = line.text
          /\ block.parent = around /\ block.structure = place /\ DOMAIN block = BlockFields
        BY DEF BlockFields
    <2>5. place = IF around = 0 THEN NoStructure ELSE p.blocks[around].structure
        OBVIOUS
    <2>. HIDE DEF block, around, place
    <2>6. around # 0 => around \in 1..Len(p.blocks)
        BY <2>3 DEF IsReader, IsParser, AreNested, Listed
    <2>7. IsStructure(place)
        BY <2>2, <2>5, <2>6 DEF IsReader, IsParser, IsBlock
    <2>8. IsBlock(block, X)
        BY <1>1, <2>2, <2>4, <2>7 DEF IsBlock
    <2>9. IsFitting(p.blocks, block) /\ LevelOf(block.kind) = 8
        <3>1. "table" \in Lower /\ "table" \notin Higher
            BY DEF Lower, Higher
        <3>2. QED
            BY <1>1, <2>4, <2>5, <3>1 DEF IsFitting, Kinds, LevelOf
    <2>10. 5 \in DOMAIN p.open => block.structure.article = Current(p)
        BY <2>3, <2>4, <2>5
    <2>11. 8 \in 0..8 /\ block.parent \in 0..Len(p.blocks)
        BY <2>3, <2>4
    <2>12. /\ IsReader(q, X) /\ q.next = p.next /\ Kept(p, q)
           /\ here \in 1..Len(q.blocks) /\ q.blocks[here] = block /\ Current(q) = Current(p)
        <3>1. MayOpen(p, 8, block)
            BY <2>9, <2>10, <2>11 DEF MayOpen
        <3>2. HasOpened(p, 8, block, q, X)
            BY <2>8, <2>11, <3>1, OpenKeeps
        <3>. HIDE DEF q
        <3>3. QED
            BY <3>2 DEF HasOpened
    <2>. HIDE DEF q, here
    <2>13. Current(p) # None => block.structure.article = Current(p)
        BY <2>10 DEF Current
    <2>14. ReadInto(q, line.text)
        BY <2>4, <2>12, <2>13 DEF ReadInto
    <2>15. QED
        BY <2>1, <2>12, <2>14 DEF Continues
<1>4. QED
    BY <1>2, <1>3

\* What a step reads: a row, or a line with what joins it.
HasRead(p, lines, q) ==
    LET here == p.next
        closed == Close(p, {TableLevel})
        kind == ReadKind(closed, lines)
    IN  /\ q.next \in (here + 1)..(Len(lines) + 1)
        /\ \A k \in here..(q.next - 1) : ReadInto(q, lines[k].text)
        /\ lines[here].kind = "table" => q.next = here + 1 /\ Current(q) = Current(p)
        /\ lines[here].kind # "table" =>
              /\ Current(q) = IF kind = "article" THEN ReadNumber(closed, lines)
                              ELSE IF kind \in Higher THEN None ELSE Current(p)
              /\ Joins(closed, lines) => q.next > here + 1
              /\ \A k \in (here + 1)..(q.next - 1) :
                    (k = here + 1 /\ Joins(closed, lines)) \/ lines[k].titleLike

Forward(q, n) == [q EXCEPT !.next = n]

LEMMA ForwardIs ==
    ASSUME NEW X, NEW p, NEW q, NEW text, Continues(p, q, text, X), NEW n
    PROVE  /\ IsReader(Forward(q, n), X) /\ Forward(q, n).next = n
           /\ Kept(p, Forward(q, n)) /\ Current(Forward(q, n)) = Current(q)
           /\ ReadInto(Forward(q, n), text)
<1>. DEFINE r == Forward(q, n)
<1>1. q = [blocks |-> q.blocks, open |-> q.open, next |-> q.next] /\ IsReader(q, X)
    BY DEF Continues, IsReader, IsParser
<1>2. r = [blocks |-> q.blocks, open |-> q.open, next |-> n]
    BY <1>1 DEF Forward
<1>. HIDE DEF r
<1>3. r.next = n /\ r.blocks = q.blocks /\ r.open = q.open
    BY <1>2
<1>4. r = [blocks |-> r.blocks, open |-> r.open, next |-> r.next]
    BY <1>2, <1>3
<1>5. IsParser(r, X)
    BY <1>1, <1>3, <1>4 DEF IsReader, IsParser
<1>6. Current(r) = Current(q)
    BY <1>3 DEF Current
<1>7. IsOpenRightly(r)
    BY <1>1, <1>3, <1>6 DEF IsReader, IsOpenRightly, InOrder
<1>8. IsReader(r, X)
    BY <1>1, <1>3, <1>5, <1>7 DEF IsReader
<1>9. Kept(p, r) /\ ReadInto(r, text)
    BY <1>3, <1>6 DEF Continues, Kept, ReadInto
<1>10. QED
    BY <1>3, <1>6, <1>8, <1>9 DEF r

LEMMA ParseLineIs ==
    ASSUME NEW X, NEW lines, AreLines(lines, X), NEW p, IsReader(p, X), p.next \in 1..Len(lines)
    PROVE  LET q == ParseLine(p, lines)
           IN  IsReader(q, X) /\ Kept(p, q) /\ HasRead(p, lines, q)
<1>. DEFINE here == p.next
            q == ParseLine(p, lines)
<1>1. here \in Nat /\ here <= Len(lines) /\ Len(lines) \in Nat /\ IsLine(lines[here], X)
    BY DEF AreLines, Listed
<1>2. CASE lines[here].kind = "table"
    <2>. DEFINE s == AppendTableRow(p, lines[here])
                r == Forward(s, here + 1)
    <2>1. Continues(p, s, lines[here].text, X) /\ Current(s) = Current(p)
        BY <1>1, RowKeeps
    <2>2. s.next = here /\ s = [blocks |-> s.blocks, open |-> s.open, next |-> s.next]
        BY <2>1 DEF Continues, IsReader, IsParser
    <2>3. q = [s EXCEPT !.next = @ + 1]
        BY <1>2 DEF ParseLine
    <2>. HIDE DEF s, q
    <2>4. q = r
        BY <2>2, <2>3 DEF Forward
    <2>5. /\ IsReader(r, X) /\ r.next = here + 1 /\ Kept(p, r) /\ Current(r) = Current(s)
          /\ ReadInto(r, lines[here].text)
        BY <2>1, ForwardIs
    <2>. HIDE DEF r
    <2>6. /\ r.next \in (here + 1)..(Len(lines) + 1)
          /\ \A k \in here..(r.next - 1) : k = here
        BY <1>1, <2>5
    <2>7. HasRead(p, lines, r)
        BY <1>2, <2>1, <2>5, <2>6 DEF HasRead
    <2>8. QED
        BY <2>4, <2>5, <2>7 DEF q
<1>3. CASE lines[here].kind # "table"
    <2>. DEFINE closed == Close(p, {TableLevel})
                read == ReadLine(closed, lines)
                line == read.line
                kind == ReadKind(closed, lines)
                s == IF IsMarker(closed, line) THEN StartMarkerBlock(closed, line)
                     ELSE AppendOrdinaryLine(closed, line)
                r == Forward(s, here + read.taken)
    <2>1. q = [s EXCEPT !.next = @ + read.taken]
        BY <1>3 DEF ParseLine
    <2>2. /\ IsReader(closed, X) /\ closed.blocks = p.blocks /\ closed.next = here
          /\ Current(closed) = Current(p)
        <3>. DEFINE gone == {TableLevel}
        <3>1. 5 \notin gone
            BY DEF TableLevel
        <3>. HIDE DEF gone
        <3>2. LET c == Close(p, gone)
              IN  /\ IsReader(c, X) /\ c.blocks = p.blocks /\ c.next = p.next
                  /\ Current(c) = IF 5 \in gone THEN None ELSE Current(p)
            BY <3>1, CloseKeeps
        <3>3. QED
            BY <3>1, <3>2 DEF gone
    <2>. HIDE DEF closed, q
    <2>3. /\ IsLine(line, X) /\ read.taken \in 1..3 /\ here + read.taken <= Len(lines) + 1
          /\ line.kind = kind /\ line.number = ReadNumber(closed, lines)
          /\ Joins(closed, lines) => read.taken > 1
          /\ \A k \in 0..(read.taken - 1) :
                /\ Range(lines[here + k].text) \subseteq Range(line.text)
                /\ k = 0 \/ (k = 1 /\ Joins(closed, lines)) \/ lines[here + k].titleLike
        <3>1. closed.next \in 1..Len(lines)
            BY <2>2
        <3>2. LET o == ReadLine(closed, lines)
              IN  /\ IsLine(o.line, X) /\ o.taken \in 1..3
                  /\ closed.next + o.taken <= Len(lines) + 1
                  /\ o.line.kind = ReadKind(closed, lines)
                  /\ o.line.number = ReadNumber(closed, lines)
                  /\ Joins(closed, lines) => o.taken > 1
                  /\ \A k \in 0..(o.taken - 1) :
                        /\ Range(lines[closed.next + k].text) \subseteq Range(o.line.text)
                        /\ \/ k = 0
                           \/ k = 1 /\ Joins(closed, lines)
                           \/ lines[closed.next + k].titleLike
            BY <3>1, ReadLineIs
        <3>. HIDE DEF read
        <3>3. QED
            BY <2>2, <3>2 DEF read
    <2>. HIDE DEF read, kind
    <2>4. /\ Continues(closed, s, line.text, X)
          /\ Current(s) = IF kind = "article" THEN line.number
                          ELSE IF kind \in Higher THEN None ELSE Current(p)
        <3>1. CASE IsMarker(closed, line)
            <4>1. LET t == StartMarkerBlock(closed, line)
                  IN  /\ Continues(closed, t, line.text, X)
                      /\ Current(t) = IF line.kind = "article" THEN line.number
                                      ELSE IF line.kind \in Higher THEN None ELSE Current(closed)
                BY <2>2, <2>3, <3>1, StartKeeps
            <4>2. QED
                BY <2>2, <2>3, <3>1, <4>1
        <3>2. CASE ~IsMarker(closed, line)
            <4>1. LET t == AppendOrdinaryLine(closed, line)
                  IN  Continues(closed, t, line.text, X) /\ Current(t) = Current(closed)
                BY <2>2, <2>3, OrdinaryKeeps
            <4>2. kind # "article" /\ kind \notin Higher
                <5>1. Higher \cup {"article"} \subseteq DOMAIN Levels
                    BY LevelsAre
                <5>2. \A k \in Higher \cup {"article"} : k \notin {"clause", "point"}
                    BY DEF Higher
                <5>3. QED
                    BY <2>3, <3>2, <5>1, <5>2 DEF IsMarker
            <4>3. QED
                BY <2>2, <3>2, <4>1, <4>2
        <3>3. QED
            BY <3>1, <3>2
    <2>. HIDE DEF s
    <2>5. s.next = here /\ s = [blocks |-> s.blocks, open |-> s.open, next |-> s.next]
        BY <2>2, <2>4 DEF Continues, IsReader, IsParser
    <2>6. q = r
        BY <2>1, <2>5 DEF Forward
    <2>7. /\ IsReader(r, X) /\ r.next = here + read.taken /\ Kept(closed, r)
          /\ Current(r) = Current(s) /\ ReadInto(r, line.text)
        BY <2>4, ForwardIs
    <2>. HIDE DEF r
    <2>8. Kept(p, r)
        BY <2>2, <2>7 DEF Kept
    <2>9. r.next \in (here + 1)..(Len(lines) + 1)
        BY <1>1, <2>3, <2>7
    <2>10. \A k \in here..(r.next - 1) :
              /\ Range(lines[k].text) \subseteq Range(line.text)
              /\ k = here \/ (k = here + 1 /\ Joins(closed, lines)) \/ lines[k].titleLike
        <3>1. TAKE k \in here..(r.next - 1)
        <3>2. k - here \in 0..(read.taken - 1) /\ here + (k - here) = k
              /\ (k - here = 0 => k = here) /\ (k - here = 1 => k = here + 1)
            BY <1>1, <2>3, <2>7, SMTT(40)
        <3>3. QED
            BY <2>3, <3>2
    <2>11. \A k \in here..(r.next - 1) : ReadInto(r, lines[k].text)
        BY <2>7, <2>10 DEF ReadInto
    <2>12. Joins(closed, lines) => r.next > here + 1
        BY <1>1, <2>3, <2>7
    <2>13. \A k \in (here + 1)..(r.next - 1) : k \in here..(r.next - 1) /\ k # here
        BY <1>1, <2>9
    <2>14. Current(r) = IF kind = "article" THEN ReadNumber(closed, lines)
                        ELSE IF kind \in Higher THEN None ELSE Current(p)
        BY <2>3, <2>4, <2>7
    <2>15. HasRead(p, lines, r)
        BY <1>3, <2>9, <2>10, <2>11, <2>12, <2>13, <2>14 DEF HasRead, closed, kind
    <2>16. QED
        BY <2>6, <2>7, <2>8, <2>15 DEF q
<1>4. QED
    BY <1>2, <1>3

--------------------------------------------------------------------------------
(* The article a line belongs to *)

LEMMA LastIs ==
    ASSUME NEW n \in Nat, NEW S \in SUBSET (1..n), S # {}
    PROVE  LET last == CHOOSE j \in S : \A k \in S : k <= j
           IN  last \in S /\ \A k \in S : k <= last
<1>. DEFINE T == {n - l : l \in S}
<1>1. T \in SUBSET Nat /\ T # {}
    <2>1. \A l \in S : l \in 1..n /\ n - l \in Nat
        OBVIOUS
    <2>2. PICK l \in S : TRUE
        OBVIOUS
    <2>3. n - l \in T
        OBVIOUS
    <2>4. T \in SUBSET Nat
        BY <2>1
    <2>5. QED
        BY <2>3, <2>4
<1>2. PICK m \in T : \A k \in T : m <= k
    <2>. HIDE DEF T
    <2>1. QED
        BY <1>1, LeastNumber
<1>3. PICK l \in S : m = n - l
    BY <1>2
<1>4. ASSUME NEW k \in S PROVE k <= l
    <2>1. m <= n - k /\ k \in Nat /\ l \in Nat
        BY <1>2
    <2>2. QED
        BY <1>3, <2>1
<1>5. QED
    BY <1>3, <1>4

LEMMA GoverningStep ==
    ASSUME NEW lines, NEW i \in Nat \ {0}
    PROVE  /\ GoverningArticle(lines, 0) = None
           /\ Begins(lines, i, "article") /\ (\A kind \in Higher : ~Begins(lines, i, kind)) =>
                 GoverningArticle(lines, i) = IF lines[i].kind = "article" THEN lines[i].number
                                              ELSE lines[i + 1].number
           /\ ~Begins(lines, i, "article") /\ (\E kind \in Higher : Begins(lines, i, kind)) =>
                 GoverningArticle(lines, i) = None
           /\ ~Begins(lines, i, "article") /\ (\A kind \in Higher : ~Begins(lines, i, kind)) =>
                 GoverningArticle(lines, i) = GoverningArticle(lines, i - 1)
<1>. DEFINE articles(n) == {j \in 1..n : Begins(lines, j, "article")}
            last(n) == CHOOSE j \in articles(n) : \A k \in articles(n) : k <= j
            number(n) == IF lines[n].kind = "article" THEN lines[n].number
                         ELSE lines[n + 1].number
            above(j) == \E kind \in Higher : Begins(lines, j, kind)
            ends(n) == \E j \in last(n)..n : above(j)
<1>1. \A n : GoverningArticle(lines, n) = IF articles(n) = {} \/ ends(n) THEN None
                                          ELSE number(last(n))
    BY DEF GoverningArticle
<1>2. articles(0) = {}
    OBVIOUS
<1>3. \A n \in Nat : articles(n) # {} => last(n) \in articles(n) /\ \A k \in articles(n) : k <= last(n)
    <2>1. TAKE n \in Nat
    <2>. DEFINE S == articles(n)
    <2>2. S \in SUBSET (1..n)
        OBVIOUS
    <2>. HIDE DEF S
    <2>3. S # {} => LET l == CHOOSE j \in S : \A k \in S : k <= j
                    IN  l \in S /\ \A k \in S : k <= l
        BY <2>2, LastIs
    <2>4. QED
        BY <2>3 DEF S
<1>4. \A n \in Nat : last(n) \in articles(n) => last(n) \in 1..n
    OBVIOUS
<1>5. /\ Begins(lines, i, "article") => i \in articles(i)
      /\ ~Begins(lines, i, "article") => articles(i) = articles(i - 1)
    OBVIOUS
<1>6. \A n, m : articles(n) = articles(m) => last(n) = last(m)
    OBVIOUS
<1>7. i - 1 \in Nat /\ i \in Nat
    OBVIOUS
<1>. HIDE DEF last, articles, number
<1>8. GoverningArticle(lines, 0) = None
    BY <1>1, <1>2
<1>9. ASSUME Begins(lines, i, "article"), ~above(i)
      PROVE  GoverningArticle(lines, i) = number(i)
    <2>1. last(i) = i
        <3>1. last(i) \in 1..i /\ i <= last(i)
            BY <1>3, <1>4, <1>5, <1>7, <1>9
        <3>2. QED
            BY <1>7, <3>1
    <2>2. ~ends(i)
        BY <1>7, <1>9, <2>1
    <2>3. articles(i) # {}
        BY <1>5, <1>9
    <2>. HIDE DEF ends
    <2>4. QED
        BY <1>1, <2>1, <2>2, <2>3
<1>10. ASSUME ~Begins(lines, i, "article"), above(i) PROVE GoverningArticle(lines, i) = None
    <2>1. CASE articles(i) = {}
        BY <1>1, <2>1
    <2>2. CASE articles(i) # {}
        <3>1. i \in last(i)..i
            BY <1>3, <1>4, <1>7, <2>2
        <3>2. ends(i)
            BY <1>10, <3>1
        <3>. HIDE DEF ends
        <3>3. QED
            BY <1>1, <3>2
    <2>3. QED
        BY <2>1, <2>2
<1>11. ASSUME ~Begins(lines, i, "article"), ~above(i)
       PROVE  GoverningArticle(lines, i) = GoverningArticle(lines, i - 1)
    <2>1. articles(i) = articles(i - 1)
        BY <1>5, <1>11
    <2>2. last(i) = last(i - 1)
        BY <1>6, <2>1
    <2>3. CASE articles(i) = {}
        BY <1>1, <2>1, <2>3
    <2>4. CASE articles(i) # {}
        <3>1. last(i - 1) \in 1..(i - 1)
            BY <1>3, <1>4, <1>7, <2>1, <2>4
        <3>2. \A j \in last(i)..i : j = i \/ j \in last(i - 1)..(i - 1)
            BY <1>7, <2>2, <3>1
        <3>3. \A j \in last(i - 1)..(i - 1) : j \in last(i)..i
            BY <1>7, <2>2, <3>1
        <3>. HIDE DEF above
        <3>4. ends(i) <=> ends(i - 1)
            BY <1>11, <3>2, <3>3 DEF above
        <3>. HIDE DEF ends
        <3>5. QED
            BY <1>1, <2>1, <2>2, <3>4
    <2>5. QED
        BY <2>3, <2>4
<1>12. number(i) = IF lines[i].kind = "article" THEN lines[i].number ELSE lines[i + 1].number
    BY DEF number
<1>13. QED
    BY <1>8, <1>9, <1>10, <1>11, <1>12

\* What is of the article that is current is all that has been read.
LEMMA ReadingFollows ==
    ASSUME NEW X, NEW lines, AreLines(lines, X), WellMarked(lines), NEW p, NEW q,
           p.next \in 1..Len(lines), HasRead(p, lines, q),
           Current(p) = GoverningArticle(lines, p.next - 1)
    PROVE  \A k \in p.next..(q.next - 1) : GoverningArticle(lines, k) = Current(q)
<1>. DEFINE here == p.next
            line == lines[here]
            closed == Close(p, {TableLevel})
            joins == Joins(closed, lines)
            kind == ReadKind(closed, lines)
            number == ReadNumber(closed, lines)
            starts(i) == Begins(lines, i, "article")
            ends(i) == \E k \in Higher : Begins(lines, i, k)
<1>1. /\ Len(lines) \in Nat /\ DOMAIN lines = 1..Len(lines) /\ here \in 1..Len(lines)
      /\ here \in Nat \ {0}
    BY DEF AreLines, Listed
<1>2. /\ q.next \in (here + 1)..(Len(lines) + 1)
      /\ line.kind = "table" => q.next = here + 1 /\ Current(q) = Current(p)
      /\ line.kind # "table" =>
            /\ Current(q) = IF kind = "article" THEN number
                            ELSE IF kind \in Higher THEN None ELSE Current(p)
            /\ joins => q.next > here + 1
            /\ \A k \in (here + 1)..(q.next - 1) : (k = here + 1 /\ joins) \/ lines[k].titleLike
    BY DEF HasRead
<1>3. closed.next = here
    BY DEF Close
<1>4. \A i \in 1..Len(lines) :
          /\ lines[i].names # None =>
                lines[i].kind = IF lines[i].names = "appendix" THEN "appendix" ELSE "text"
          /\ lines[i].titleLike => IsPlain(lines[i])
          /\ lines[i].names = "appendix" /\ i < Len(lines) => IsPlain(lines[i + 1])
    BY <1>1 DEF WellMarked
<1>5. joins <=> /\ line.names # None /\ here + 1 <= Len(lines)
                /\ line.names = "appendix" \/ IsNumberLine(lines[here + 1])
                /\ IsMarker(closed, Joined(line, lines[here + 1]))
    BY <1>3 DEF Joins
<1>6. /\ kind = IF joins THEN line.names ELSE line.kind
      /\ number = IF joins THEN IF IsNumberLine(lines[here + 1]) THEN lines[here + 1].number
                                ELSE None
                 ELSE line.number
    BY <1>3 DEF ReadKind, ReadNumber, Joined
<1>7. \A i : /\ starts(i) <=> \/ lines[i].kind = "article"
                              \/ lines[i].names = "article" /\ i < Len(lines)
                                    /\ IsNumberLine(lines[i + 1])
             /\ ends(i) <=> \/ lines[i].kind \in Higher
                            \/ lines[i].names \in Higher /\ i < Len(lines)
                                    /\ IsNumberLine(lines[i + 1])
    BY DEF Begins
<1>8. \A i \in 1..Len(lines) :
          /\ starts(i) /\ ~ends(i) =>
                GoverningArticle(lines, i) = IF lines[i].kind = "article" THEN lines[i].number
                                             ELSE lines[i + 1].number
          /\ ~starts(i) /\ ends(i) => GoverningArticle(lines, i) = None
          /\ ~starts(i) /\ ~ends(i) =>
                GoverningArticle(lines, i) = GoverningArticle(lines, i - 1)
    <2>1. TAKE i \in 1..Len(lines)
    <2>2. i \in Nat \ {0}
        BY <1>1
    <2>3. QED
        BY <2>2, GoverningStep
<1>9. /\ None \notin Higher \cup {"article"} /\ "article" \notin Higher
      /\ "appendix" \in Higher
      /\ \A k \in {"text", "clause", "point", "table"} : k \notin Higher /\ k # "article"
    BY DEF Higher, None
<1>10. \A i \in 1..Len(lines) : IsPlain(lines[i]) => ~starts(i) /\ ~ends(i)
    BY <1>7, <1>9 DEF IsPlain
<1>11. line.names \in Higher \cup {"article"} =>
           IsMarker(closed, Joined(line, lines[here + 1]))
    <2>1. Joined(line, lines[here + 1]).kind = line.names
        BY DEF Joined
    <2>2. Higher \cup {"article"} \subseteq DOMAIN Levels
        BY LevelsAre
    <2>3. \A k \in Higher \cup {"article"} : k \notin {"clause", "point"}
        BY DEF Higher
    <2>4. QED
        BY <2>1, <2>2, <2>3 DEF IsMarker
<1>12. here < Len(lines) <=> here + 1 <= Len(lines)
    BY <1>1
<1>. HIDE DEF starts, ends, kind, number, closed, line, joins
<1>13. line.kind = lines[here].kind /\ line.names = lines[here].names
       /\ line.number = lines[here].number
    BY DEF line
<1>14. GoverningArticle(lines, here) = Current(q)
    <2>1. line.names # None =>
              line.kind = IF line.names = "appendix" THEN "appendix" ELSE "text"
        BY <1>1, <1>4, <1>13
    <2>2. CASE line.kind = "table"
        <3>1. line.names = None
            BY <2>1, <2>2
        <3>2. ~starts(here) /\ ~ends(here)
            BY <1>7, <1>9, <1>13, <2>2, <3>1, ZenonT(40)
        <3>3. QED
            BY <1>1, <1>2, <1>8, <2>2, <3>2
    <2>3. CASE line.kind # "table" /\ joins
        <3>1. Current(q) = IF line.names = "article"
                           THEN IF IsNumberLine(lines[here + 1]) THEN lines[here + 1].number
                                ELSE None
                           ELSE IF line.names \in Higher THEN None ELSE Current(p)
            BY <1>2, <1>6, <2>3
        <3>2. CASE line.names = "article"
            <4>1. line.kind = "text" /\ IsNumberLine(lines[here + 1]) /\ here < Len(lines)
                BY <1>5, <1>9, <1>12, <2>1, <2>3, <3>2
            <4>2. starts(here) /\ ~ends(here)
                BY <1>7, <1>9, <1>13, <3>2, <4>1
            <4>3. QED
                BY <1>1, <1>8, <1>13, <3>1, <3>2, <4>1, <4>2
        <3>3. CASE line.names = "appendix"
            <4>1. line.kind = "appendix"
                BY <2>1, <3>3, <1>9
            <4>2. ends(here) /\ ~starts(here)
                BY <1>7, <1>9, <1>13, <3>3, <4>1, ZenonT(40)
            <4>3. QED
                BY <1>1, <1>8, <1>9, <3>1, <3>3, <4>2
        <3>4. CASE line.names \in Higher \ {"appendix"}
            <4>1. line.kind = "text" /\ IsNumberLine(lines[here + 1]) /\ here < Len(lines)
                BY <1>5, <1>9, <1>12, <2>1, <2>3, <3>4
            <4>2. ends(here) /\ ~starts(here)
                BY <1>7, <1>9, <1>13, <3>4, <4>1
            <4>3. QED
                BY <1>1, <1>8, <1>9, <3>1, <3>4, <4>2
        <3>5. CASE line.names \notin Higher \cup {"article"}
            <4>1. line.kind = "text"
                BY <1>5, <1>9, <2>1, <2>3, <3>5
            <4>2. ~starts(here) /\ ~ends(here)
                BY <1>7, <1>9, <1>13, <3>5, <4>1
            <4>3. QED
                BY <1>1, <1>8, <3>1, <3>5, <4>2
        <3>6. QED
            BY <3>2, <3>3, <3>4, <3>5
    <2>4. CASE line.kind # "table" /\ ~joins
        <3>1. Current(q) = IF line.kind = "article" THEN line.number
                           ELSE IF line.kind \in Higher THEN None ELSE Current(p)
            BY <1>2, <1>6, <2>4
        <3>2. line.names \in Higher \cup {"article"} =>
                  ~(here < Len(lines) /\ IsNumberLine(lines[here + 1]))
            BY <1>5, <1>9, <1>11, <1>12, <2>4
        <3>3. (starts(here) <=> line.kind = "article") /\ (ends(here) <=> line.kind \in Higher)
            BY <1>7, <1>13, <3>2
        <3>4. QED
            BY <1>1, <1>8, <1>9, <1>13, <3>1, <3>3
    <2>5. QED
        BY <2>2, <2>3, <2>4
<1>15. \A k \in (here + 1)..(q.next - 1) : k \in 1..Len(lines) /\ IsPlain(lines[k])
    <2>1. TAKE k \in (here + 1)..(q.next - 1)
    <2>2. k \in 1..Len(lines)
        BY <1>1, <1>2
    <2>3. line.kind # "table"
        BY <1>1, <1>2
    <2>4. CASE lines[k].titleLike
        BY <1>4, <2>2, <2>4
    <2>5. CASE k = here + 1 /\ joins
        <3>1. /\ lines[here].names # None /\ here < Len(lines)
              /\ lines[here].names = "appendix" \/ IsNumberLine(lines[here + 1])
            BY <1>5, <1>12, <1>13, <2>5
        <3>2. QED
            BY <1>1, <1>4, <2>2, <2>5, <3>1 DEF IsNumberLine
    <2>6. QED
        BY <1>2, <2>2, <2>3, <2>4, <2>5
<1>. DEFINE T == {m \in Nat : here + m <= q.next - 1 =>
                                  GoverningArticle(lines, here + m) = Current(q)}
<1>16. 0 \in T
    BY <1>1, <1>14
<1>17. ASSUME NEW m \in Nat, m \in T PROVE m + 1 \in T
    <2>1. CASE ~(here + (m + 1) <= q.next - 1)
        BY <2>1
    <2>2. CASE here + (m + 1) <= q.next - 1
        <3>. DEFINE k == here + (m + 1)
        <3>1. k \in (here + 1)..(q.next - 1) /\ k - 1 = here + m /\ here + m <= q.next - 1
            <4>. DEFINE a == q.next
            <4>1. a \in Nat /\ here \in Nat /\ here + (m + 1) <= a - 1
                BY <1>1, <1>2, <2>2
            <4>. HIDE DEF a, here
            <4>2. here + (m + 1) \in (here + 1)..(a - 1) /\ here + (m + 1) - 1 = here + m
                  /\ here + m <= a - 1
                BY <4>1
            <4>3. QED
                BY <4>1, <4>2 DEF a
        <3>2. GoverningArticle(lines, here + m) = Current(q)
            BY <1>17, <3>1
        <3>. HIDE DEF k
        <3>3. GoverningArticle(lines, k) = GoverningArticle(lines, k - 1)
            BY <1>8, <1>10, <1>15, <3>1
        <3>4. GoverningArticle(lines, k) = Current(q)
            BY <3>1, <3>2, <3>3
        <3>5. QED
            BY <3>4 DEF k
    <2>3. QED
        BY <2>1, <2>2
<1>. HIDE DEF T
<1>18. \A m \in Nat : m \in T
    BY <1>16, <1>17, NumberInduction
<1>19. ASSUME NEW k \in here..(q.next - 1) PROVE GoverningArticle(lines, k) = Current(q)
    <2>1. k - here \in Nat /\ here + (k - here) = k /\ k <= q.next - 1
        BY <1>1, <1>2
    <2>2. k - here \in T
        BY <1>18, <2>1
    <2>3. QED
        BY <2>1, <2>2 DEF T
<1>20. QED
    BY <1>19

\* A line is in a block of its article.
Governed(blocks, lines, j) ==
    \E i \in 1..Len(blocks) :
        /\ Range(lines[j].text) \subseteq Range(blocks[i].text)
        /\ GoverningArticle(lines, j) # None =>
              blocks[i].structure.article = GoverningArticle(lines, j)

\* The parser after n steps.
HasParsed(p, lines, n, X) ==
    /\ IsReader(p, X) /\ p.next \in 1..(Len(lines) + 1) /\ p.next > n
    /\ WellMarked(lines) =>
          /\ Current(p) = GoverningArticle(lines, p.next - 1)
          /\ \A j \in 1..(p.next - 1) : Governed(p.blocks, lines, j)

ParserStep(p, lines) == IF p.next > Len(lines) THEN p ELSE ParseLine(p, lines)

LEMMA ParserStepIs ==
    ASSUME NEW X, NEW lines, AreLines(lines, X), NEW n \in Nat \ {0}, n <= Len(lines),
           NEW p, HasParsed(p, lines, n - 1, X)
    PROVE  HasParsed(ParserStep(p, lines), lines, n, X)
<1>1. /\ IsReader(p, X) /\ p.next \in 1..(Len(lines) + 1) /\ p.next > n - 1
      /\ Len(lines) \in Nat /\ p.next \in Nat
    BY DEF HasParsed, AreLines, Listed
<1>2. CASE p.next > Len(lines)
    <2>1. ParserStep(p, lines) = p /\ p.next > n
        BY <1>1, <1>2 DEF ParserStep
    <2>2. QED
        BY <2>1 DEF HasParsed
<1>3. CASE ~(p.next > Len(lines))
    <2>. DEFINE q == ParseLine(p, lines)
    <2>1. ParserStep(p, lines) = q /\ p.next \in 1..Len(lines)
        BY <1>1, <1>3 DEF ParserStep
    <2>2. IsReader(q, X) /\ Kept(p, q) /\ HasRead(p, lines, q)
        BY <1>1, <2>1, ParseLineIs
    <2>. HIDE DEF q
    <2>3. /\ q.next \in (p.next + 1)..(Len(lines) + 1)
          /\ \A k \in p.next..(q.next - 1) : ReadInto(q, lines[k].text)
        BY <2>2 DEF HasRead
    <2>4. q.next \in 1..(Len(lines) + 1) /\ q.next > n /\ q.next \in Nat
        BY <1>1, <2>3
    <2>5. ASSUME WellMarked(lines)
          PROVE  /\ Current(q) = GoverningArticle(lines, q.next - 1)
                 /\ \A j \in 1..(q.next - 1) : Governed(q.blocks, lines, j)
        <3>1. /\ Current(p) = GoverningArticle(lines, p.next - 1)
              /\ \A j \in 1..(p.next - 1) : Governed(p.blocks, lines, j)
            BY <2>5 DEF HasParsed
        <3>2. \A k \in p.next..(q.next - 1) : GoverningArticle(lines, k) = Current(q)
            BY <2>1, <2>2, <2>5, <3>1, ReadingFollows
        <3>3. q.next - 1 \in p.next..(q.next - 1)
            BY <1>1, <2>3, <2>4
        <3>4. ASSUME NEW j \in 1..(q.next - 1) PROVE Governed(q.blocks, lines, j)
            <4>1. j \in 1..(p.next - 1) \/ j \in p.next..(q.next - 1)
                BY <1>1, <2>4
            <4>2. CASE j \in p.next..(q.next - 1)
                <5>1. GoverningArticle(lines, j) = Current(q) /\ ReadInto(q, lines[j].text)
                    BY <2>3, <3>2, <4>2
                <5>2. QED
                    BY <5>1 DEF ReadInto, Governed
            <4>3. CASE j \in 1..(p.next - 1)
                <5>1. PICK i \in 1..Len(p.blocks) :
                          /\ Range(lines[j].text) \subseteq Range(p.blocks[i].text)
                          /\ GoverningArticle(lines, j) # None =>
                                p.blocks[i].structure.article = GoverningArticle(lines, j)
                    BY <3>1, <4>3 DEF Governed
                <5>2. i \in 1..Len(q.blocks)
                    <6>1. Len(p.blocks) <= Len(q.blocks)
                        BY <2>2 DEF Kept
                    <6>2. Len(p.blocks) \in Nat /\ Len(q.blocks) \in Nat
                        BY <1>1, <2>2 DEF IsReader, IsParser, AreNested, Listed
                    <6>3. QED
                        BY <6>1, <6>2
                <5>3. /\ q.blocks[i].structure = p.blocks[i].structure
                      /\ Range(p.blocks[i].text) \subseteq Range(q.blocks[i].text)
                    BY <2>2 DEF Kept
                <5>4. QED
                    BY <5>1, <5>2, <5>3 DEF Governed
            <4>4. QED
                BY <4>1, <4>2, <4>3
        <3>5. QED
            BY <3>2, <3>3, <3>4
    <2>6. HasParsed(q, lines, n, X)
        BY <2>2, <2>4, <2>5 DEF HasParsed
    <2>7. QED
        BY <2>1, <2>6
<1>4. QED
    BY <1>2, <1>3

LEMMA FreshParser ==
    ASSUME NEW X, NEW lines, AreLines(lines, X)
    PROVE  HasParsed(Parser, lines, 0, X)
<1>1. /\ Parser = [blocks |-> <<>>, open |-> Parser.open, next |-> 1]
      /\ Parser.blocks = <<>> /\ Parser.next = 1 /\ DOMAIN Parser.open = {}
    BY DEF Parser, NothingOpen
<1>2. Listed(<<>>) /\ Len(<<>>) = 0
    BY EmptyIsListed
<1>3. IsReader(Parser, X)
    <2>1. AreNested(Parser.blocks)
        BY <1>1, <1>2 DEF AreNested
    <2>2. Parser = [blocks |-> Parser.blocks, open |-> Parser.open, next |-> Parser.next]
        BY <1>1
    <2>3. IsParser(Parser, X)
        BY <1>1, <1>2, <2>1, <2>2 DEF IsParser
    <2>4. AreFitting(Parser.blocks)
        BY <1>1, <1>2 DEF AreFitting
    <2>5. IsOpenRightly(Parser)
        BY <1>1 DEF IsOpenRightly, InOrder
    <2>6. QED
        BY <2>3, <2>4, <2>5 DEF IsReader
<1>4. Len(lines) \in Nat
    BY DEF AreLines, Listed
<1>5. Current(Parser) = None /\ GoverningArticle(lines, 0) = None
    <2>1. 1 \in Nat \ {0}
        OBVIOUS
    <2>2. GoverningArticle(lines, 0) = None
        BY <2>1, GoverningStep
    <2>3. QED
        BY <1>1, <2>2 DEF Current
<1>6. Parser.next - 1 = 0 /\ Parser.next \in 1..(Len(lines) + 1) /\ Parser.next > 0
    BY <1>1, <1>4
<1>7. \A j \in 1..0 : FALSE
    OBVIOUS
<1>8. QED
    BY <1>3, <1>5, <1>6, <1>7 DEF HasParsed

LEMMA ParseDocumentIs ==
    ASSUME NEW X, NEW lines, AreLines(lines, X)
    PROVE  LET blocks == ParseDocument(lines)
           IN  /\ AreBlocks(blocks, X) /\ ArePlaced(blocks) /\ AreFitting(blocks)
               /\ WellMarked(lines) => \A j \in 1..Len(lines) : Governed(blocks, lines, j)
<1>. DEFINE N == Len(lines)
            next(p) == ParserStep(p, lines)
            Runs(f, n) == f = [k \in 0..n |-> IF k = 0 THEN Parser ELSE next(f[k - 1])]
            T == {n \in 0..N : \E f : Runs(f, n)}
            after[n \in 0..N] ==
                IF n = 0 THEN Parser
                ELSE LET parser == after[n - 1]
                     IN  IF parser.next > N THEN parser ELSE ParseLine(parser, lines)
<1>1. N \in Nat
    BY DEF AreLines, Listed
<1>2. 0 \in T
    <2>. DEFINE f == [k \in 0..0 |-> Parser]
    <2>1. Runs(f, 0)
        OBVIOUS
    <2>. HIDE DEF f, Runs
    <2>2. QED
        BY <1>1, <2>1
<1>. HIDE DEF N, next
<1>3. ASSUME NEW n \in 1..N, n - 1 \in T PROVE n \in T
    <2>1. PICK f : Runs(f, n - 1)
        BY <1>3
    <2>. DEFINE g == [k \in 0..n |-> IF k = n THEN next(f[n - 1]) ELSE f[k]]
    <2>2. n \in Nat /\ n \in 0..N /\ n # 0
        BY <1>1
    <2>3. ASSUME NEW k \in 0..n PROVE g[k] = IF k = 0 THEN Parser ELSE next(g[k - 1])
        <3>1. CASE k = n
            <4>1. n - 1 \in 0..n /\ n - 1 # n
                BY <2>2
            <4>2. g[n - 1] = f[n - 1]
                BY <4>1
            <4>3. QED
                BY <2>2, <3>1, <4>2
        <3>2. CASE k # n
            <4>1. k \in 0..(n - 1)
                BY <2>2, <3>2
            <4>2. g[k] = f[k] /\ f[k] = IF k = 0 THEN Parser ELSE next(f[k - 1])
                BY <2>1, <3>2, <4>1
            <4>3. k # 0 => k - 1 \in 0..n /\ k - 1 # n
                BY <2>2, <4>1
            <4>4. k # 0 => g[k - 1] = f[k - 1]
                BY <4>3
            <4>5. QED
                BY <4>2, <4>4
        <3>3. QED
            BY <3>1, <3>2
    <2>4. g = [k \in 0..n |-> IF k = 0 THEN Parser ELSE next(g[k - 1])]
        <3>1. DOMAIN g = 0..n /\ g = [k \in 0..n |-> g[k]]
            OBVIOUS
        <3>. HIDE DEF g
        <3>2. QED
            BY <2>3, <3>1
    <2>5. Runs(g, n)
        BY <2>4
    <2>. HIDE DEF g, Runs
    <2>6. QED
        BY <2>2, <2>5
<1>4. N \in T
    <2>. HIDE DEF T
    <2>1. \A n \in 0..N : n \in T
        BY <1>1, <1>2, <1>3, InductionUpTo
    <2>2. QED
        BY <1>1, <2>1
<1>5. \E f : Runs(f, N)
    BY <1>4
<1>6. ParseDocument(lines) = after[N].blocks
    BY DEF ParseDocument, N
<1>7. after = CHOOSE f : Runs(f, N)
    BY DEF after, next, ParserStep, N
<1>8. Runs(after, N)
    <2>. HIDE DEF Runs, after
    <2>1. QED
        BY <1>5, <1>7
<1>. HIDE DEF after
<1>9. after[0] = Parser /\ \A n \in 1..N : after[n] = next(after[n - 1])
    <2>1. \A n \in 0..N : after[n] = IF n = 0 THEN Parser ELSE next(after[n - 1])
        BY <1>8
    <2>2. 0 \in 0..N /\ \A n \in 1..N : n \in 0..N /\ n # 0
        BY <1>1
    <2>3. QED
        BY <2>1, <2>2
<1>. DEFINE U == {n \in 0..N : HasParsed(after[n], lines, n, X)}
<1>10. 0 \in U
    <2>1. HasParsed(Parser, lines, 0, X)
        BY FreshParser
    <2>2. QED
        BY <1>1, <1>9, <2>1
<1>11. ASSUME NEW n \in 1..N, n - 1 \in U PROVE n \in U
    <2>1. n \in Nat \ {0} /\ n <= Len(lines) /\ n \in 0..N
        BY <1>1 DEF N
    <2>2. HasParsed(after[n - 1], lines, n - 1, X)
        BY <1>11
    <2>3. HasParsed(ParserStep(after[n - 1], lines), lines, n, X)
        BY <2>1, <2>2, ParserStepIs
    <2>4. HasParsed(after[n], lines, n, X)
        BY <1>9, <2>3 DEF next
    <2>5. QED
        BY <2>1, <2>4
<1>12. N \in U
    <2>. HIDE DEF U
    <2>1. \A n \in 0..N : n \in U
        BY <1>1, <1>10, <1>11, InductionUpTo
    <2>2. QED
        BY <1>1, <2>1
<1>. DEFINE end == after[N]
<1>13. HasParsed(end, lines, N, X)
    BY <1>12
<1>. HIDE DEF end
<1>14. IsReader(end, X) /\ end.next = N + 1
    BY <1>1, <1>13 DEF HasParsed, N
<1>15. AreBlocks(end.blocks, X) /\ ArePlaced(end.blocks) /\ AreFitting(end.blocks)
    BY <1>14 DEF IsReader, IsParser, IsBlock, AreBlocks, ArePlaced
<1>16. WellMarked(lines) => \A j \in 1..N : Governed(end.blocks, lines, j)
    <2>1. end.next - 1 = N
        BY <1>1, <1>14
    <2>2. QED
        BY <1>13, <2>1 DEF HasParsed
<1>17. QED
    BY <1>6, <1>15, <1>16 DEF end, N

--------------------------------------------------------------------------------
(* From lines to chunks *)

LEMMA BeneathArticle ==
    ASSUME NEW X, NEW blocks, AreBlocks(blocks, X), AreFitting(blocks),
           NEW u \in 1..Len(blocks), blocks[u].kind = "article", NEW i \in Beneath(blocks, u)
    PROVE  blocks[i].structure.article = blocks[u].number
<1>. DEFINE N == Len(blocks)
            rightly(k) == u \in Path(blocks)[k] =>
                              /\ k = u \/ blocks[k].kind \in Lower
                              /\ blocks[k].structure.article = blocks[u].number
            T == {n \in 0..N : \A k \in 1..n : rightly(k)}
<1>1. /\ AreNested(blocks) /\ N \in Nat
      /\ \A k \in 1..N : blocks[k].parent \in 0..(k - 1) /\ IsFitting(blocks, blocks[k])
    BY DEF AreBlocks, AreNested, Listed, AreFitting
<1>2. /\ Path(blocks)[0] = {}
      /\ \A k \in 1..N : Path(blocks)[k] = {k} \cup Path(blocks)[blocks[k].parent]
    BY <1>1, PathIs
<1>3. \A k \in {"article"} \cup Lower : k \notin Higher \cup {"document"}
    BY DEF Lower, Higher
<1>4. 0 \in T
    BY <1>1
<1>5. ASSUME NEW n \in 1..N, n - 1 \in T PROVE n \in T
    <2>1. rightly(n)
        <3>1. SUFFICES ASSUME u \in Path(blocks)[n], n # u
                       PROVE  blocks[n].kind \in Lower
                              /\ blocks[n].structure.article = blocks[u].number
            BY <1>1 DEF IsFitting
        <3>. DEFINE up == blocks[n].parent
        <3>2. u \in Path(blocks)[up] /\ up \in 0..(n - 1)
            BY <1>1, <1>2, <3>1
        <3>3. up # 0 /\ up \in 1..(n - 1)
            BY <1>2, <3>2
        <3>4. rightly(up)
            BY <1>5, <3>3
        <3>5. /\ blocks[up].kind \in {"article"} \cup Lower
              /\ blocks[up].structure.article = blocks[u].number
            BY <3>2, <3>4
        <3>6. IsFitting(blocks, blocks[n])
            BY <1>1
        <3>7. QED
            BY <1>3, <3>3, <3>5, <3>6 DEF IsFitting
    <2>. HIDE DEF rightly
    <2>2. \A k \in 1..n : k = n \/ k \in 1..(n - 1)
        BY <1>1
    <2>3. QED
        BY <1>1, <1>5, <2>1, <2>2
<1>6. \A n \in 0..N : n \in T
    <2>. HIDE DEF T
    <2>1. QED
        BY <1>1, <1>4, <1>5, InductionUpTo
<1>7. rightly(i)
    <2>. HIDE DEF rightly
    <2>1. N \in T /\ i \in 1..N
        BY <1>1, <1>6 DEF Beneath
    <2>2. QED
        BY <2>1
<1>8. QED
    BY <1>7 DEF Beneath

\* A chunk with a block of an article names the article.
LEMMA AggregateNames ==
    ASSUME NEW X, NEW blocks, AreBlocks(blocks, X), AreFitting(blocks), ArePlaced(blocks),
           NEW sources \in Seq(1..Len(blocks)), Belong(blocks, Range(sources)),
           NEW b \in Range(sources), blocks[b].structure.article # None
    PROVE  AggregateStructure(blocks, sources).article = blocks[b].structure.article
<1>. DEFINE A == blocks[b].structure.article
            of(k) == blocks[sources[k]].structure.article
            placed == {k \in DOMAIN sources : of(k) # None}
            base == IF placed = {} THEN 1 ELSE CHOOSE k \in placed : \A j \in placed : k <= j
<1>1. /\ Listed(sources) /\ Len(blocks) \in Nat
      /\ \A k \in DOMAIN sources : sources[k] \in 1..Len(blocks) /\ sources[k] \in Range(sources)
    <2>1. Len(blocks) \in Nat
        BY DEF AreBlocks, AreNested, Listed
    <2>2. Listed(sources)
        BY ListedSeq
    <2>3. \A k \in DOMAIN sources : sources[k] \in 1..Len(blocks)
        OBVIOUS
    <2>4. \A k \in DOMAIN sources : sources[k] \in Range(sources)
        BY DEF Range
    <2>5. QED
        BY <2>1, <2>2, <2>3, <2>4
<1>2. \A k \in 1..Len(blocks) : blocks[k].kind \in ContextHeadings =>
          blocks[k].structure.article = None
    <2>1. ContextHeadings \subseteq Higher
        BY DEF ContextHeadings, Higher
    <2>2. QED
        BY <2>1 DEF AreFitting, IsFitting
<1>3. b \in 1..Len(blocks)
    BY <1>1 DEF Range
<1>4. PICK u \in 1..Len(blocks) : Range(sources) \subseteq Headings(blocks) \cup Unit(blocks, u)
    BY DEF Belong
<1>5. b \in Unit(blocks, u)
    BY <1>2, <1>3, <1>4 DEF Headings
<1>6. \A s \in Unit(blocks, u) : blocks[s].structure.article = A
    <2>1. CASE blocks[u].kind = "article"
        <3>1. Unit(blocks, u) = Beneath(blocks, u)
            BY <2>1 DEF Unit
        <3>2. \A s \in Beneath(blocks, u) : blocks[s].structure.article = blocks[u].number
            BY <2>1, BeneathArticle
        <3>3. QED
            BY <1>5, <3>1, <3>2
    <2>2. CASE blocks[u].kind # "article"
        BY <1>5, <2>2 DEF Unit
    <2>3. QED
        BY <2>1, <2>2
<1>7. \A k \in DOMAIN sources : of(k) \in {None, A}
    <2>1. TAKE k \in DOMAIN sources
    <2>2. sources[k] \in Headings(blocks) \/ sources[k] \in Unit(blocks, u)
        BY <1>1, <1>4
    <2>3. QED
        BY <1>1, <1>2, <1>6, <2>2 DEF Headings
<1>8. placed # {} /\ placed \in SUBSET (1..Len(sources)) /\ Len(sources) \in Nat
    <2>1. PICK k \in DOMAIN sources : sources[k] = b
        BY DEF Range
    <2>2. k \in placed
        BY <2>1
    <2>3. QED
        BY <1>1, <2>2 DEF Listed
<1>9. base \in placed
    <2>. HIDE DEF placed
    <2>1. placed \in SUBSET Nat /\ placed # {}
        BY <1>8
    <2>2. \E k \in placed : \A j \in placed : k <= j
        BY <2>1, LeastNumber
    <2>3. base = CHOOSE k \in placed : \A j \in placed : k <= j
        BY <1>8, ZenonT(40)
    <2>. HIDE DEF base
    <2>4. QED
        BY <2>2, <2>3
<1>10. of(base) = A
    BY <1>7, <1>9, ZenonT(40)
<1>. DEFINE clauses == Unique(Flat([k \in DOMAIN sources |-> blocks[sources[k]].structure.clauses]))
            points == Unique(Flat([k \in DOMAIN sources |-> blocks[sources[k]].structure.points]))
            s == blocks[sources[base]].structure
<1>11. AggregateStructure(blocks, sources) =
           [s EXCEPT !.clauses = clauses, !.points = points]
    BY DEF AggregateStructure
<1>12. s.article = A /\ "article" \in DOMAIN s
    <2>1. base \in DOMAIN sources
        BY <1>9
    <2>. HIDE DEF base
    <2>2. IsStructure(s)
        BY <1>1, <2>1 DEF ArePlaced
    <2>3. QED
        BY <1>10, <2>2, SMTT(40) DEF IsStructure
<1>. HIDE DEF clauses, points, s
<1>13. QED
    BY <1>11, <1>12

\* What the chunker makes of the lines of a document.
AreChunks(chunks, document) ==
    /\ Listed(chunks) /\ \A i \in 1..Len(chunks) : /\ "id" \in DOMAIN chunks[i]
                                                   /\ "doc" \in DOMAIN chunks[i]
                                                   /\ "text" \in DOMAIN chunks[i]
                                                   /\ "article" \in DOMAIN chunks[i]
                                                   /\ chunks[i].doc = document.doc
NameArticles(chunks, lines) ==
    \A j \in 1..Len(lines) : \A t \in Range(lines[j].text) :
        \E i \in 1..Len(chunks) :
            /\ t \in Range(chunks[i].text)
            /\ GoverningArticle(lines, j) # None =>
                  chunks[i].article = GoverningArticle(lines, j)

LEMMA ChunkDocumentIs ==
    ASSUME NEW b, IsBudget(b), NEW X, NEW lines, AreLines(lines, X),
           NEW document, Listed(document.name)
    PROVE  LET made == ChunkDocument(b, document, ParseDocument(lines))
           IN  /\ b.maxSearch >= b.maxTokens + Len(ContentLabel) => made.error = "none"
               /\ made.error = "none" => /\ AreChunks(made.chunks, document)
                                         /\ WellMarked(lines) => NameArticles(made.chunks, lines)
<1>. DEFINE blocks == ParseDocument(lines)
            drafts == Drafts(b, blocks)
            chunks == ChunksOf(b, document, blocks, drafts)
            made == ChunkDocument(b, document, blocks)
            N == Len(drafts)
<1>1. made = Validated(b, blocks, chunks)
    BY DEF ChunkDocument
<1>2. /\ AreBlocks(blocks, X) /\ ArePlaced(blocks) /\ AreFitting(blocks)
      /\ WellMarked(lines) => \A j \in 1..Len(lines) : Governed(blocks, lines, j)
    BY ParseDocumentIs
<1>. HIDE DEF blocks
<1>3. AreDrafts(b, blocks, X, drafts) /\ Drawn(drafts) = 1..Len(blocks)
    BY <1>2, DraftsAre
<1>. HIDE DEF drafts
<1>4. b.maxSearch >= b.maxTokens + Len(ContentLabel) => ChunkErrors(b, blocks, chunks) = {}
    BY <1>2, <1>3, NothingIsWrong
<1>5. /\ N \in Nat /\ DOMAIN drafts = 1..N
      /\ \A i \in 1..N : IsDraft(b, blocks, X, drafts[i])
    BY <1>3 DEF AreDrafts, Listed
<1>6. /\ chunks = [i \in 1..N |-> chunks[i]]
      /\ \A i \in 1..N : chunks[i] = Chunk(b, document, blocks, drafts[i])
    BY <1>5 DEF ChunksOf
<1>. HIDE DEF chunks
<1>7. \A d : LET c == Chunk(b, document, blocks, d)
             IN  /\ {"id", "doc", "text", "article"} \subseteq DOMAIN c
                 /\ c.doc = document.doc /\ c.text = d.text
                 /\ c.article = AggregateStructure(blocks, d.sources).article
    BY DEF Chunk
<1>8. Listed(chunks) /\ Len(chunks) = N
    BY <1>5, <1>6, ListedIs
<1>9. AreChunks(chunks, document)
    BY <1>5, <1>6, <1>7, <1>8 DEF AreChunks
<1>10. ASSUME WellMarked(lines) PROVE NameArticles(chunks, lines)
    <2>1. SUFFICES ASSUME NEW j \in 1..Len(lines), NEW t \in Range(lines[j].text)
                   PROVE  \E i \in 1..N :
                              /\ t \in Range(chunks[i].text)
                              /\ GoverningArticle(lines, j) # None =>
                                    chunks[i].article = GoverningArticle(lines, j)
        BY <1>8 DEF NameArticles
    <2>2. PICK k \in 1..Len(blocks) :
              /\ Range(lines[j].text) \subseteq Range(blocks[k].text)
              /\ GoverningArticle(lines, j) # None =>
                    blocks[k].structure.article = GoverningArticle(lines, j)
        BY <1>2, <1>10, <2>1 DEF Governed
    <2>3. k \in Drawn(drafts) /\ t \in Range(blocks[k].text)
        BY <1>3, <2>1, <2>2
    <2>4. PICK i \in 1..N : k \in Range(drafts[i].sources) /\ t \in Range(drafts[i].text)
        BY <1>2, <1>3, <2>3, DraftsHoldTokens
    <2>5. /\ chunks[i].text = drafts[i].text
          /\ chunks[i].article = AggregateStructure(blocks, drafts[i].sources).article
        BY <1>6, <1>7
    <2>6. ASSUME GoverningArticle(lines, j) # None
          PROVE  chunks[i].article = GoverningArticle(lines, j)
        <3>1. /\ drafts[i].sources \in Seq(1..Len(blocks))
              /\ Belong(blocks, Range(drafts[i].sources))
            BY <1>5 DEF IsDraft, DraftSet
        <3>2. blocks[k].structure.article # None
            BY <2>2, <2>6
        <3>3. AggregateStructure(blocks, drafts[i].sources).article = blocks[k].structure.article
            BY <1>2, <2>4, <3>1, <3>2, AggregateNames
        <3>4. QED
            BY <2>2, <2>5, <2>6, <3>3
    <2>7. QED
        BY <2>4, <2>5, <2>6
<1>11. /\ ChunkErrors(b, blocks, chunks) = {} => made.error = "none"
       /\ made.error = "none" => made.chunks = chunks
    BY <1>1 DEF Validated
<1>. HIDE DEF made
<1>12. QED
    BY <1>4, <1>9, <1>10, <1>11 DEF made, blocks

--------------------------------------------------------------------------------
(* Cleaning: the parts an HTML parser keeps *)

Readers(Q) == [parts : Seq(Q), ignored : Nat, cells : Nat]

GoesOn(new, old, Q) ==
    /\ new \in Readers(Q) /\ new.ignored = old.ignored
    /\ Range(old.parts) \subseteq Range(new.parts)

\* The depth inside what is ignored behind a piece that is read at this depth.
Deeper(rules, depth, piece) ==
    LET void == piece.name \in rules.voids
    IN  IF piece.kind = "open" /\ (depth > 0 \/ IsNoise(rules, piece))
        THEN IF void THEN depth ELSE depth + 1
        ELSE IF piece.kind = "close" /\ depth > 0 /\ ~(rules.rows /\ void) THEN depth - 1
        ELSE depth

LEMMA KeepIs ==
    ASSUME NEW Q, NEW reader \in Readers(Q), NEW piece \in Q
    PROVE  GoesOn(Keep(reader, piece), reader, Q) /\ piece \in Range(Keep(reader, piece).parts)
<1>1. reader.parts \in Seq(Q) /\ Listed(reader.parts)
    BY ListedSeq DEF Readers
<1>2. Append(reader.parts, piece) \in Seq(Q)
    BY <1>1
<1>3. /\ DOMAIN reader.parts = 1..Len(reader.parts) /\ Len(reader.parts) \in Nat
      /\ DOMAIN Append(reader.parts, piece) = 1..(Len(reader.parts) + 1)
      /\ \A i \in 1..Len(reader.parts) : Append(reader.parts, piece)[i] = reader.parts[i]
      /\ Append(reader.parts, piece)[Len(reader.parts) + 1] = piece
    BY <1>1, AppendIs DEF Listed
<1>4. /\ Keep(reader, piece).parts = Append(reader.parts, piece)
      /\ Keep(reader, piece).ignored = reader.ignored /\ Keep(reader, piece) \in Readers(Q)
    BY <1>2 DEF Keep, Readers
<1>5. Range(reader.parts) \subseteq Range(Append(reader.parts, piece))
    BY <1>3 DEF Range
<1>6. piece \in Range(Append(reader.parts, piece))
    BY <1>3 DEF Range
<1>7. QED
    BY <1>4, <1>5, <1>6 DEF GoesOn

LEMMA LineBreakIs ==
    ASSUME NEW Q, NewLine \in Q, NEW reader \in Readers(Q)
    PROVE  GoesOn(LineBreak(reader), reader, Q)
<1>1. GoesOn(reader, reader, Q)
    BY DEF GoesOn
<1>2. GoesOn(Keep(reader, NewLine), reader, Q)
    BY KeepIs
<1>3. QED
    BY <1>1, <1>2 DEF LineBreak

LEMMA VisibleTagIs ==
    ASSUME NEW Q, {NewLine, CellBar} \subseteq Q, NEW rules, NEW reader \in Readers(Q),
           NEW piece \in Q
    PROVE  GoesOn(VisibleTag(rules, reader, piece), reader, Q)
<1>. DEFINE bar == IF reader.cells > 0 THEN Keep(reader, CellBar) ELSE reader
            shown == IF piece.name = "img" /\ ~rules.rows THEN Keep(reader, piece) ELSE reader
<1>1. /\ GoesOn(reader, reader, Q) /\ GoesOn(LineBreak(reader), reader, Q)
      /\ GoesOn(Keep(reader, piece), reader, Q) /\ GoesOn(Keep(reader, CellBar), reader, Q)
    BY KeepIs, LineBreakIs, ZenonT(40) DEF GoesOn
<1>2. GoesOn(bar, reader, Q) /\ GoesOn(shown, reader, Q)
    BY <1>1
<1>. HIDE DEF bar, shown
<1>3. GoesOn([bar EXCEPT !.cells = @ + 1], reader, Q)
    BY <1>2, SMTT(40) DEF GoesOn, Readers
<1>4. NewCell(reader) = [bar EXCEPT !.cells = @ + 1]
    BY DEF NewCell, bar
<1>5. GoesOn([LineBreak(reader) EXCEPT !.cells = 0], reader, Q)
    BY <1>1 DEF GoesOn, Readers
<1>6. QED
    BY <1>1, <1>2, <1>3, <1>4, <1>5 DEF VisibleTag, shown

IsRead(rules, Q, reader, piece, new) ==
    /\ new \in Readers(Q) /\ Range(reader.parts) \subseteq Range(new.parts)
    /\ new.ignored = Deeper(rules, reader.ignored, piece)
    /\ piece.kind = "text" /\ reader.ignored = 0 => piece \in Range(new.parts)

LEMMA ReadPieceIs ==
    ASSUME NEW Q, {NewLine, CellBar} \subseteq Q, NEW rules, NEW reader \in Readers(Q),
           NEW piece \in Q
    PROVE  IsRead(rules, Q, reader, piece, ReadPiece(rules, reader, piece))
<1>. DEFINE new == ReadPiece(rules, reader, piece)
            Gives(r, depth) == /\ r \in Readers(Q) /\ Range(reader.parts) \subseteq Range(r.parts)
                               /\ r.ignored = depth
<1>0. reader.ignored \in Nat
    BY DEF Readers
<1>1. \A r : GoesOn(r, reader, Q) => Gives(r, reader.ignored)
    BY DEF GoesOn
<1>2. /\ Gives(reader, reader.ignored) /\ Gives(LineBreak(reader), reader.ignored)
      /\ Gives(Keep(reader, piece), reader.ignored)
      /\ Gives(VisibleTag(rules, reader, piece), reader.ignored)
    <2>1. GoesOn(reader, reader, Q)
        BY DEF GoesOn
    <2>. HIDE DEF Gives
    <2>2. QED
        BY <1>1, <2>1, KeepIs, LineBreakIs, VisibleTagIs
<1>3. \A r, depth : \A other \in Nat :
          Gives(r, depth) => Gives([r EXCEPT !.ignored = other], other)
    BY DEF Readers
<1>4. CASE piece.kind = "open"
    <2>. DEFINE deeper == IF piece.name \in rules.voids THEN 0 ELSE 1
    <2>1. deeper \in Nat /\ reader.ignored + deeper \in Nat
        BY <1>0
    <2>2. /\ Gives([reader EXCEPT !.ignored = reader.ignored + deeper], reader.ignored + deeper)
          /\ Gives([LineBreak(reader) EXCEPT !.ignored = deeper], deeper)
        <3>. HIDE DEF Gives, deeper
        <3>1. QED
            BY <1>2, <1>3, <2>1
    <2>3. new = StartTag(rules, reader, piece)
        BY <1>4 DEF ReadPiece
    <2>4. [reader EXCEPT !.ignored = @ + deeper]
              = [reader EXCEPT !.ignored = reader.ignored + deeper]
        OBVIOUS
    <2>. HIDE DEF Gives, IsRead, new
    <2>5. CASE reader.ignored > 0
        <3>1. new = [reader EXCEPT !.ignored = reader.ignored + deeper]
            BY <2>3, <2>4, <2>5 DEF StartTag
        <3>2. Deeper(rules, reader.ignored, piece) = reader.ignored + deeper
            BY <1>0, <1>4, <2>5 DEF Deeper
        <3>3. QED
            BY <1>4, <2>2, <2>5, <3>1, <3>2 DEF Gives, IsRead, new
    <2>6. CASE ~(reader.ignored > 0) /\ IsNoise(rules, piece)
        <3>1. new = [LineBreak(reader) EXCEPT !.ignored = deeper]
            BY <2>3, <2>6 DEF StartTag
        <3>2. Deeper(rules, reader.ignored, piece) = deeper
            BY <1>0, <1>4, <2>6 DEF Deeper
        <3>3. QED
            BY <1>4, <2>2, <3>1, <3>2 DEF Gives, IsRead, new
    <2>7. CASE ~(reader.ignored > 0) /\ ~IsNoise(rules, piece)
        <3>1. new = VisibleTag(rules, reader, piece)
            BY <2>3, <2>7 DEF StartTag
        <3>2. Deeper(rules, reader.ignored, piece) = reader.ignored
            BY <1>0, <1>4, <2>7 DEF Deeper
        <3>3. QED
            BY <1>2, <1>4, <3>1, <3>2 DEF Gives, IsRead, new
    <2>8. QED
        BY <2>5, <2>6, <2>7
<1>5. CASE piece.kind = "self"
    <2>1. new = StartEndTag(rules, reader, piece)
        BY <1>5 DEF ReadPiece
    <2>2. Deeper(rules, reader.ignored, piece) = reader.ignored
        BY <1>5 DEF Deeper
    <2>. HIDE DEF Gives, IsRead, new
    <2>3. Gives(new, reader.ignored)
        BY <1>2, <2>1 DEF StartEndTag
    <2>4. QED
        BY <1>5, <2>2, <2>3 DEF Gives, IsRead, new
<1>6. CASE piece.kind = "close"
    <2>1. new = EndTag(rules, reader, piece)
        BY <1>6 DEF ReadPiece
    <2>2. CASE reader.ignored > 0
        <3>. DEFINE outside == [reader EXCEPT !.ignored = 0]
        <3>1. reader.ignored - 1 \in Nat
            BY <1>0, <2>2
        <3>2. /\ Gives([reader EXCEPT !.ignored = reader.ignored - 1], reader.ignored - 1)
              /\ Gives(outside, 0)
            <4>. HIDE DEF Gives
            <4>1. QED
                BY <1>2, <1>3, <3>1
        <3>3. Gives(LineBreak(outside), 0)
            <4>1. outside \in Readers(Q)
                BY <3>2
            <4>. HIDE DEF outside
            <4>2. GoesOn(LineBreak(outside), outside, Q)
                BY <4>1, LineBreakIs
            <4>3. QED
                BY <3>2, <4>2 DEF GoesOn
        <3>4. [reader EXCEPT !.ignored = @ - 1] = [reader EXCEPT !.ignored = reader.ignored - 1]
            OBVIOUS
        <3>. HIDE DEF Gives, new, outside
        <3>5. CASE rules.rows /\ piece.name \in rules.voids
            <4>1. new = reader
                BY <2>1, <2>2, <3>5 DEF EndTag
            <4>2. Deeper(rules, reader.ignored, piece) = reader.ignored
                BY <1>6, <3>5 DEF Deeper
            <4>3. QED
                BY <1>2, <1>6, <4>1, <4>2 DEF Gives, IsRead, new
        <3>6. CASE ~(rules.rows /\ piece.name \in rules.voids) /\ reader.ignored = 1
            <4>1. new = LineBreak(outside)
                BY <2>1, <2>2, <3>6 DEF EndTag, outside
            <4>2. Deeper(rules, reader.ignored, piece) = 0
                BY <1>6, <3>6 DEF Deeper
            <4>3. QED
                BY <1>6, <3>3, <4>1, <4>2 DEF Gives, IsRead, new
        <3>7. CASE ~(rules.rows /\ piece.name \in rules.voids) /\ reader.ignored # 1
            <4>1. new = [reader EXCEPT !.ignored = reader.ignored - 1]
                BY <2>1, <2>2, <3>4, <3>7 DEF EndTag
            <4>2. Deeper(rules, reader.ignored, piece) = reader.ignored - 1
                BY <1>6, <2>2, <3>7 DEF Deeper
            <4>3. QED
                BY <1>6, <3>2, <4>1, <4>2 DEF Gives, IsRead, new
        <3>8. QED
            BY <3>5, <3>6, <3>7
    <2>3. CASE ~(reader.ignored > 0)
        <3>1. Deeper(rules, reader.ignored, piece) = reader.ignored
            BY <1>6, <2>3 DEF Deeper
        <3>. HIDE DEF Gives, IsRead, new
        <3>2. Gives(new, reader.ignored)
            BY <1>2, <2>1, <2>3 DEF EndTag
        <3>3. QED
            BY <1>6, <3>1, <3>2 DEF Gives, IsRead, new
    <2>4. QED
        BY <2>2, <2>3
<1>7. CASE piece.kind \notin {"open", "self", "close"}
    <2>1. new = IF reader.ignored > 0 THEN reader ELSE Keep(reader, piece)
        BY <1>7 DEF ReadPiece
    <2>2. Deeper(rules, reader.ignored, piece) = reader.ignored
        BY <1>7 DEF Deeper
    <2>3. piece \in Range(Keep(reader, piece).parts)
        BY KeepIs
    <2>. HIDE DEF Gives, IsRead, new
    <2>4. Gives(new, reader.ignored)
        BY <1>2, <2>1
    <2>5. reader.ignored = 0 => piece \in Range(new.parts)
        BY <2>1, <2>3
    <2>6. QED
        BY <2>2, <2>4, <2>5 DEF Gives, IsRead, new
<1>8. QED
    BY <1>4, <1>5, <1>6, <1>7

--------------------------------------------------------------------------------
(* Cleaning: how deep a text is read, whatever is kept of it *)

States(P) == [level : Nat, seen : SUBSET P]

StateAfter(rules, state, piece) ==
    [level |-> Deeper(rules, state.level, piece),
     seen |-> IF piece.kind = "text" /\ state.level = 0 THEN state.seen \cup {piece}
              ELSE state.seen]

Reads(rules, state, s, run) ==
    run[0] = state /\ \A n \in 1..Len(s) : run[n] = StateAfter(rules, run[n - 1], s[n])

\* The state behind all pieces of s: the depth, and the texts read at depth 0.
After(rules, state, s) == (CHOOSE run : Reads(rules, state, s, run))[Len(s)]

LEMMA StateAfterIs ==
    ASSUME NEW P, NEW rules, NEW state \in States(P), NEW piece \in P
    PROVE  StateAfter(rules, state, piece) \in States(P)
<1>1. state.level \in Nat /\ state.seen \in SUBSET P
    BY DEF States
<1>2. Deeper(rules, state.level, piece) \in Nat
    BY <1>1 DEF Deeper
<1>3. QED
    BY <1>1, <1>2 DEF StateAfter, States

LEMMA RunEnds ==
    ASSUME NEW rules, NEW state, NEW s, Len(s) \in Nat, NEW run, Reads(rules, state, s, run)
    PROVE  run[Len(s)] = After(rules, state, s)
<1>. DEFINE N == Len(s)
            other == CHOOSE r : Reads(rules, state, s, r)
            T == {n \in 0..N : run[n] = other[n]}
<1>1. Reads(rules, state, s, other)
    OBVIOUS
<1>. HIDE DEF other
<1>2. 0 \in T
    BY <1>1 DEF Reads
<1>3. ASSUME NEW n \in 1..N, n - 1 \in T PROVE n \in T
    <2>1. run[n - 1] = other[n - 1] /\ n \in 0..N
        BY <1>3
    <2>2. QED
        BY <1>1, <2>1 DEF Reads
<1>. HIDE DEF T
<1>4. \A n \in 0..N : n \in T
    BY <1>2, <1>3, InductionUpTo
<1>5. N \in T
    BY <1>4
<1>6. QED
    BY <1>5 DEF T, After, other

LEMMA RunIs ==
    ASSUME NEW P, NEW rules, NEW state \in States(P), NEW s \in Seq(P)
    PROVE  \E run \in [0..Len(s) -> States(P)] :
               Reads(rules, state, s, run) /\ run[Len(s)] = After(rules, state, s)
<1>. DEFINE N == Len(s)
            V == States(P)
            step == [p \in V \X (1..N) |-> StateAfter(rules, p[1], s[p[2]])]
<1>1. N \in Nat /\ \A n \in 1..N : s[n] \in P
    OBVIOUS
<1>2. step \in [V \X (1..N) -> V]
    <2>1. ASSUME NEW p \in V \X (1..N) PROVE StateAfter(rules, p[1], s[p[2]]) \in V
        <3>1. p[1] \in States(P) /\ s[p[2]] \in P
            BY <1>1
        <3>. HIDE DEF V
        <3>2. QED
            BY <3>1, StateAfterIs DEF V
    <2>2. QED
        BY <2>1
<1>3. \A v \in V : \A n \in 1..N : step[<<v, n>>] = StateAfter(rules, v, s[n])
    OBVIOUS
<1>. HIDE DEF step, V
<1>4. state \in V
    BY DEF V
<1>5. PICK run \in [0..N -> V] : Loop(N, state, step, run)
    BY <1>1, <1>2, <1>4, LoopExists
<1>6. ASSUME NEW n \in 1..N PROVE run[n] = StateAfter(rules, run[n - 1], s[n])
    <2>1. run[n - 1] \in V
        BY <1>1
    <2>2. QED
        BY <1>3, <1>5, <2>1 DEF Loop
<1>7. Reads(rules, state, s, run)
    BY <1>5, <1>6 DEF Reads, Loop
<1>8. run[N] = After(rules, state, s)
    BY <1>1, <1>7, RunEnds
<1>9. QED
    BY <1>7, <1>8 DEF V

LEMMA AfterIsState ==
    ASSUME NEW P, NEW rules, NEW state \in States(P), NEW s \in Seq(P)
    PROVE  After(rules, state, s) \in States(P)
<1>1. PICK run \in [0..Len(s) -> States(P)] : run[Len(s)] = After(rules, state, s)
    BY RunIs
<1>2. Len(s) \in 0..Len(s)
    OBVIOUS
<1>3. QED
    BY <1>1, <1>2

LEMMA AfterNothing ==
    ASSUME NEW rules, NEW state
    PROVE  After(rules, state, <<>>) = state
<1>. DEFINE run == [n \in 0..0 |-> state]
<1>1. run[0] = state /\ Len(<<>>) = 0
    OBVIOUS
<1>. HIDE DEF run
<1>2. Reads(rules, state, <<>>, run)
    BY <1>1 DEF Reads
<1>3. QED
    BY <1>1, <1>2, RunEnds

LEMMA AfterBoth ==
    ASSUME NEW P, NEW rules, NEW state \in States(P), NEW s \in Seq(P), NEW t \in Seq(P)
    PROVE  After(rules, state, s \o t) = After(rules, After(rules, state, s), t)
<1>. DEFINE M == Len(s)
            N == Len(t)
            mid == After(rules, state, s)
<1>1. M \in Nat /\ N \in Nat /\ Len(s \o t) = M + N /\ mid \in States(P)
    BY AfterIsState
<1>2. /\ \A n \in 1..M : (s \o t)[n] = s[n]
      /\ \A n \in (M + 1)..(M + N) : (s \o t)[n] = t[n - M]
    OBVIOUS
<1>3. PICK f \in [0..Len(s) -> States(P)] :
          Reads(rules, state, s, f) /\ f[Len(s)] = After(rules, state, s)
    BY <1>1, RunIs
<1>4. PICK g \in [0..N -> States(P)] :
          Reads(rules, mid, t, g) /\ g[N] = After(rules, mid, t)
    BY <1>1, RunIs, SMTT(40)
<1>. HIDE DEF mid
<1>. DEFINE run == [n \in 0..(M + N) |-> IF n <= M THEN f[n] ELSE g[n - M]]
            u == s \o t
<1>5. /\ \A n \in 0..M : run[n] = f[n]
      /\ \A n \in M..(M + N) : run[n] = g[n - M]
    <2>1. f[M] = g[0]
        BY <1>3, <1>4 DEF Reads, mid
    <2>2. \A n \in 0..M : n \in 0..(M + N) /\ n <= M
        BY <1>1
    <2>3. \A n \in M..(M + N) : n \in 0..(M + N) /\ (n <= M => n = M) /\ M - M = 0
        BY <1>1
    <2>4. QED
        BY <2>1, <2>2, <2>3
<1>. HIDE DEF run, u
<1>6. ASSUME NEW n \in 1..Len(u) PROVE run[n] = StateAfter(rules, run[n - 1], u[n])
    <2>1. CASE n <= M
        <3>1. n \in 1..M /\ n \in 0..M /\ n - 1 \in 0..M
            BY <1>1, <2>1
        <3>2. QED
            BY <1>2, <1>3, <1>5, <3>1 DEF Reads, u
    <2>2. CASE ~(n <= M)
        <3>1. /\ n \in M..(M + N) /\ n - 1 \in M..(M + N) /\ n \in (M + 1)..(M + N)
              /\ n - M \in 1..N /\ (n - 1) - M = (n - M) - 1
            BY <1>1, <2>2 DEF u
        <3>2. g[n - M] = StateAfter(rules, g[(n - M) - 1], t[n - M])
            BY <1>4, <3>1 DEF Reads
        <3>3. QED
            BY <1>2, <1>5, <3>1, <3>2 DEF u
    <2>3. QED
        BY <2>1, <2>2
<1>7. run[0] = state /\ run[M + N] = g[N]
    <2>1. 0 \in 0..M /\ M + N \in M..(M + N) /\ (M + N) - M = N
        BY <1>1
    <2>2. QED
        BY <1>3, <1>5, <2>1 DEF Reads
<1>8. Reads(rules, state, u, run)
    BY <1>6, <1>7 DEF Reads
<1>9. run[Len(u)] = After(rules, state, u)
    <2>1. Len(u) \in Nat
        BY <1>1 DEF u
    <2>2. QED
        BY <1>8, <2>1, RunEnds
<1>10. QED
    BY <1>1, <1>4, <1>7, <1>9 DEF u, mid

LEMMA AfterOne ==
    ASSUME NEW P, NEW rules, NEW state \in States(P), NEW s \in Seq(P), NEW piece \in P
    PROVE  After(rules, state, Append(s, piece))
               = StateAfter(rules, After(rules, state, s), piece)
<1>. DEFINE mid == After(rules, state, s)
            next == StateAfter(rules, mid, piece)
            run == [n \in 0..1 |-> IF n = 0 THEN mid ELSE next]
            one == <<piece>>
<1>1. one \in Seq(P) /\ Len(one) = 1 /\ one[1] = piece /\ Append(s, piece) = s \o one
    OBVIOUS
<1>2. run[0] = mid /\ run[1] = next
    OBVIOUS
<1>. HIDE DEF run, next, one
<1>3. Reads(rules, mid, one, run)
    <2>1. \A n \in 1..1 : n = 1 /\ n - 1 = 0
        OBVIOUS
    <2>2. QED
        BY <1>1, <1>2, <2>1 DEF Reads, next
<1>4. run[1] = After(rules, mid, one)
    <2>1. Len(one) \in Nat
        BY <1>1
    <2>2. run[Len(one)] = After(rules, mid, one)
        BY <1>3, <2>1, RunEnds
    <2>3. QED
        BY <1>1, <2>2
<1>5. After(rules, state, s \o one) = After(rules, mid, one)
    BY <1>1, AfterBoth
<1>6. QED
    BY <1>1, <1>2, <1>4, <1>5 DEF next

\* Pieces that are no tag and no text.
IsIdle(piece) == piece.kind \notin {"open", "close", "text"}

LEMMA IdleIs ==
    ASSUME NEW P, NEW rules, NEW state \in States(P), NEW piece, IsIdle(piece)
    PROVE  StateAfter(rules, state, piece) = state
BY DEF StateAfter, Deeper, IsIdle, States

LEMMA AfterIdle ==
    ASSUME NEW P, NEW rules, NEW state \in States(P), NEW s \in Seq(P),
           \A i \in 1..Len(s) : IsIdle(s[i])
    PROVE  After(rules, state, s) = state
<1>. DEFINE run == [n \in 0..Len(s) |-> state]
<1>1. Len(s) \in Nat
    OBVIOUS
<1>2. /\ \A n \in 1..Len(s) : run[n] = state /\ run[n - 1] = state
      /\ run[0] = state /\ run[Len(s)] = state
    BY <1>1
<1>. HIDE DEF run
<1>3. Reads(rules, state, s, run)
    BY <1>2, IdleIs DEF Reads
<1>4. QED
    BY <1>1, <1>2, <1>3, RunEnds

--------------------------------------------------------------------------------
(* Cleaning: what is visible by the markup is read at depth 0 *)

Begin == [level |-> 0, seen |-> {}]

Weight(piece) == IF piece.kind = "open" THEN 1 ELSE IF piece.kind = "close" THEN -1 ELSE 0

OfKind(source, S, kind) == {i \in S : source[i].kind = kind}

LEMMA OfKindOne ==
    ASSUME NEW source, NEW S, IsFiniteSet(S), NEW m, m \notin S, NEW kind
    PROVE  /\ Cardinality(OfKind(source, S, kind)) \in Nat
           /\ Cardinality(OfKind(source, S \cup {m}, kind))
                  = Cardinality(OfKind(source, S, kind)) + IF source[m].kind = kind THEN 1 ELSE 0
<1>. DEFINE old == OfKind(source, S, kind)
            new == OfKind(source, S \cup {m}, kind)
<1>1. IsFiniteSet(old) /\ m \notin old
    BY FS_Subset DEF OfKind
<1>2. Cardinality(old) \in Nat
    BY <1>1, FS_CardinalityType
<1>3. new = IF source[m].kind = kind THEN old \cup {m} ELSE old
    BY DEF OfKind
<1>. HIDE DEF old, new
<1>4. Cardinality(old \cup {m}) = Cardinality(old) + 1
    BY <1>1, FS_AddElement
<1>5. Cardinality(new) = Cardinality(old) + IF source[m].kind = kind THEN 1 ELSE 0
    BY <1>2, <1>3, <1>4
<1>6. QED
    BY <1>2, <1>5 DEF old, new

LEMMA UnclosedOne ==
    ASSUME NEW source, NEW S, IsFiniteSet(S), NEW m, m \notin S
    PROVE  /\ Unclosed(source, S) \in Int
           /\ Unclosed(source, S \cup {m}) = Unclosed(source, S) + Weight(source[m])
<1>. DEFINE old(kind) == Cardinality(OfKind(source, S, kind))
            new(kind) == Cardinality(OfKind(source, S \cup {m}, kind))
<1>1. /\ Unclosed(source, S) = old("open") - old("close")
      /\ Unclosed(source, S \cup {m}) = new("open") - new("close")
    BY DEF Unclosed, OfKind
<1>2. /\ old("open") \in Nat /\ old("close") \in Nat
      /\ new("open") = old("open") + IF source[m].kind = "open" THEN 1 ELSE 0
      /\ new("close") = old("close") + IF source[m].kind = "close" THEN 1 ELSE 0
    BY OfKindOne
<1>. HIDE DEF old, new
<1>3. QED
    BY <1>1, <1>2 DEF Weight

\* The elements open since j, and what the piece at m adds to them.
Depth(rules, source, j, m) == Unclosed(source, OfElement(rules, source, j, m))
Counts(rules, source, j, m) ==
    LET here == Depth(rules, source, j, m)  before == Depth(rules, source, j, m - 1)
    IN  /\ here \in Int /\ before \in Int
        /\ here = before + IF source[m].name \in rules.voids THEN 0 ELSE Weight(source[m])
        /\ m = j => before = 0

LEMMA UnclosedStep ==
    ASSUME NEW source, NEW rules, NEW j \in Nat, NEW m \in Nat, j <= m
    PROVE  Counts(rules, source, j, m)
<1>. DEFINE S == OfElement(rules, source, j, m - 1)
            T == OfElement(rules, source, j, m)
<1>1. \A n : n \in j..m <=> n \in j..(m - 1) \/ n = m
    OBVIOUS
<1>2. T = IF source[m].name \in rules.voids THEN S ELSE S \cup {m}
    BY <1>1 DEF OfElement
<1>3. IsFiniteSet(S) /\ m \notin S
    <2>1. m \notin S /\ S \subseteq j..(m - 1)
        BY DEF OfElement
    <2>2. IsFiniteSet(j..(m - 1))
        BY FS_Interval
    <2>. HIDE DEF S
    <2>3. QED
        BY <2>1, <2>2, FS_Subset
<1>. HIDE DEF T
<1>4. /\ Unclosed(source, S) \in Int
      /\ Unclosed(source, S \cup {m}) = Unclosed(source, S) + Weight(source[m])
    <2>. HIDE DEF S
    <2>1. QED
        BY <1>3, UnclosedOne
<1>5. m = j => Unclosed(source, S) = 0
    <2>1. SUFFICES ASSUME m = j PROVE Unclosed(source, S) = 0
        OBVIOUS
    <2>2. S = {}
        BY <2>1 DEF OfElement
    <2>. HIDE DEF S
    <2>3. \A kind : OfKind(source, S, kind) = {}
        BY <2>2 DEF OfKind
    <2>4. Cardinality(OfKind(source, S, "open")) = 0 /\ Cardinality(OfKind(source, S, "close")) = 0
        BY <2>3, FS_EmptySet
    <2>5. Unclosed(source, S) = Cardinality(OfKind(source, S, "open"))
                                    - Cardinality(OfKind(source, S, "close"))
        BY DEF Unclosed, OfKind
    <2>6. QED
        BY <2>4, <2>5
<1>6. Weight(source[m]) \in Int
    BY DEF Weight
<1>. HIDE DEF S
<1>7. QED
    BY <1>2, <1>4, <1>5, <1>6 DEF S, T, Counts, Depth

\* Inside what is ignored a text is behind its start tag, and no deeper than
\* elements are open since.
LEMMA LevelIs ==
    ASSUME NEW P, NEW rules, NEW source \in Seq(P), NEW run \in [0..Len(source) -> States(P)],
           Reads(rules, Begin, source, run)
    PROVE  \A n \in 0..Len(source) : run[n].level > 0 =>
               \E j \in 1..n : /\ Hides(rules, source[j])
                               /\ \A m \in j..n : Depth(rules, source, j, m) > 0
<1>. DEFINE N == Len(source)
            U(j, m) == Depth(rules, source, j, m)
            level(n) == run[n].level
            Under(j, n) == /\ Hides(rules, source[j]) /\ level(n) <= U(j, n)
                           /\ \A m \in j..n : U(j, m) > 0
            T == {n \in 0..N : level(n) > 0 => \E j \in 1..n : Under(j, n)}
<1>1. N \in Nat /\ \A n \in 0..N : level(n) \in Nat
    BY DEF States
<1>2. level(0) = 0 /\ \A n \in 1..N : level(n) = Deeper(rules, level(n - 1), source[n])
    <2>1. level(0) = 0
        BY DEF Reads, Begin
    <2>2. ASSUME NEW n \in 1..N PROVE level(n) = Deeper(rules, level(n - 1), source[n])
        <3>1. run[n] = StateAfter(rules, run[n - 1], source[n])
            BY DEF Reads
        <3>2. QED
            BY <3>1 DEF StateAfter
    <2>3. QED
        BY <2>1, <2>2
<1>3. \A j \in 1..N : \A m \in j..N :
          /\ U(j, m) \in Int /\ U(j, m - 1) \in Int
          /\ U(j, m) = U(j, m - 1) + IF source[m].name \in rules.voids THEN 0
                                     ELSE Weight(source[m])
          /\ m = j => U(j, m - 1) = 0
    <2>1. \A j \in 1..N : \A m \in j..N : j \in Nat /\ m \in Nat /\ j <= m
        BY <1>1
    <2>2. \A j \in 1..N : \A m \in j..N : Counts(rules, source, j, m)
        BY <2>1, UnclosedStep
    <2>3. QED
        BY <2>2 DEF Counts
<1>. HIDE DEF U, level, N
<1>4. 0 \in T
    BY <1>1, <1>2
<1>5. ASSUME NEW n \in 1..N, n - 1 \in T PROVE n \in T
    <2>1. SUFFICES ASSUME level(n) > 0 PROVE \E j \in 1..n : Under(j, n)
        BY <1>1
    <2>2. /\ n - 1 \in 0..N /\ level(n - 1) \in Nat /\ level(n) \in Nat
          /\ level(n) = Deeper(rules, level(n - 1), source[n])
        BY <1>1, <1>2
    <2>3. CASE level(n - 1) = 0
        <3>1. Hides(rules, source[n]) /\ level(n) = 1
            BY <2>1, <2>2, <2>3 DEF Deeper, Hides
        <3>2. n \in n..N /\ Weight(source[n]) = 1 /\ source[n].name \notin rules.voids
            BY <1>1, <3>1 DEF Hides, Weight
        <3>3. U(n, n) = 1
            BY <1>3, <3>2
        <3>4. \A m \in n..n : m = n
            BY <1>1
        <3>5. Under(n, n) /\ n \in 1..n
            BY <1>1, <3>1, <3>3, <3>4
        <3>6. QED
            BY <3>5
    <2>4. CASE level(n - 1) > 0
        <3>1. PICK j \in 1..(n - 1) : Under(j, n - 1)
            BY <1>5, <2>4
        <3>2. j \in 1..N /\ n \in j..N /\ j \in 1..n
            BY <1>1
        <3>3. /\ U(j, n) \in Int /\ U(j, n - 1) \in Int
              /\ U(j, n) = U(j, n - 1) + IF source[n].name \in rules.voids THEN 0
                                         ELSE Weight(source[n])
            BY <1>3, <3>2
        <3>4. level(n) <= level(n - 1) + IF source[n].name \in rules.voids THEN 0
                                         ELSE Weight(source[n])
            BY <2>2, <2>4 DEF Deeper, Weight
        <3>5. level(n) <= U(j, n) /\ U(j, n) > 0
            <4>1. level(n - 1) <= U(j, n - 1)
                BY <3>1
            <4>2. Weight(source[n]) \in Int
                BY DEF Weight
            <4>3. QED
                BY <2>1, <2>2, <3>3, <3>4, <4>1, <4>2
        <3>6. \A m \in j..n : m = n \/ m \in j..(n - 1)
            BY <1>1
        <3>7. Under(j, n)
            BY <3>1, <3>5, <3>6
        <3>8. QED
            BY <3>2, <3>7
    <2>5. QED
        BY <2>2, <2>3, <2>4
<1>. HIDE DEF T
<1>6. \A n \in 0..N : n \in T
    BY <1>1, <1>4, <1>5, InductionUpTo
<1>7. QED
    BY <1>6 DEF T, U, level, N

\* Where everything ignored is closed by its own end tag, a text that is not hidden
\* is read at depth 0.
LEMMA VisibleIsSeen ==
    ASSUME NEW P, NEW rules, NEW source \in Seq(P), EndsTogether(source, rules),
           NEW i \in 1..Len(source), source[i].kind = "text", ~IsHidden(source, i, rules)
    PROVE  source[i] \in After(rules, Begin, source).seen
<1>. DEFINE N == Len(source)
<1>1. Begin \in States(P) /\ N \in Nat
    BY DEF Begin, States
<1>2. PICK run \in [0..N -> States(P)] :
          Reads(rules, Begin, source, run) /\ run[N] = After(rules, Begin, source)
    BY <1>1, RunIs
<1>3. \A n \in 0..N : run[n].level \in Nat
    BY DEF States
<1>4. run[i - 1].level = 0
    <2>1. SUFFICES ASSUME run[i - 1].level > 0 PROVE FALSE
        BY <1>1, <1>3
    <2>2. PICK j \in 1..(i - 1) :
              /\ Hides(rules, source[j])
              /\ \A m \in j..(i - 1) : Depth(rules, source, j, m) > 0
        <3>1. i - 1 \in 0..N
            BY <1>1
        <3>2. QED
            BY <1>2, <2>1, <3>1, LevelIs
    <2>3. ASSUME NEW k \in j..(i - 1) PROVE Unclosed(source, OfName(source, j, k)) > 0
        <3>1. /\ j \in Nat /\ k \in j..N /\ j \in DOMAIN source
              /\ \A m \in j..k : m \in j..(i - 1)
            BY <1>1
        <3>2. ~(Unclosed(source, OfName(source, j, k)) <= 0)
            <4>1. SUFFICES ASSUME Unclosed(source, OfName(source, j, k)) <= 0 PROVE FALSE
                OBVIOUS
            <4>2. PICK m \in j..k : Depth(rules, source, j, m) <= 0
                BY <2>2, <3>1, <4>1 DEF EndsTogether, Depth
            <4>3. Depth(rules, source, j, m) > 0
                BY <2>2, <3>1
            <4>4. Depth(rules, source, j, m) \in Int
                <5>1. m \in Nat /\ j <= m
                    BY <3>1
                <5>2. Counts(rules, source, j, m)
                    BY <3>1, <5>1, UnclosedStep
                <5>3. QED
                    BY <5>2 DEF Counts
            <4>5. QED
                BY <4>2, <4>3, <4>4
        <3>3. Unclosed(source, OfName(source, j, k)) \in Int
            <4>1. OfName(source, j, k) \subseteq j..k /\ k + 1 \notin OfName(source, j, k)
                BY <3>1 DEF OfName
            <4>2. IsFiniteSet(OfName(source, j, k))
                <5>1. IsFiniteSet(j..k)
                    BY <3>1, FS_Interval
                <5>2. QED
                    BY <4>1, <5>1, FS_Subset
            <4>3. QED
                BY <4>1, <4>2, UnclosedOne
        <3>4. QED
            BY <3>2, <3>3
    <2>4. IsHidden(source, i, rules)
        BY <2>2, <2>3 DEF IsHidden
    <2>5. QED
        BY <2>4
<1>. DEFINE T == {n \in 0..N : n >= i => source[i] \in run[n].seen}
<1>5. 0 \in T
    BY <1>1
<1>6. ASSUME NEW n \in 1..N, n - 1 \in T PROVE n \in T
    <2>1. run[n] = StateAfter(rules, run[n - 1], source[n])
        BY <1>2 DEF Reads
    <2>2. run[n - 1].seen \subseteq run[n].seen
        BY <2>1 DEF StateAfter
    <2>3. n = i => source[i] \in run[n].seen
        BY <1>4, <2>1 DEF StateAfter
    <2>4. n >= i => n = i \/ n - 1 >= i
        BY <1>1
    <2>5. QED
        BY <1>1, <1>6, <2>2, <2>3, <2>4
<1>. HIDE DEF T
<1>7. \A n \in 0..N : n \in T
    BY <1>1, <1>5, <1>6, InductionUpTo
<1>8. N \in T /\ N >= i
    BY <1>1, <1>7
<1>9. QED
    BY <1>2, <1>8 DEF T

--------------------------------------------------------------------------------
(* Cleaning: what is read at depth 0 is kept *)

Known(P) == {NewLine, CellBar} \subseteq P

LEMMA BeginIs == \A P : Begin \in States(P)
BY DEF Begin, States

LEMMA VisiblePartsAre ==
    ASSUME NEW P, Known(P), NEW rules, NEW source \in Seq(P)
    PROVE  /\ VisibleParts(rules, source) \in Seq(P)
           /\ After(rules, Begin, source).seen \subseteq Range(VisibleParts(rules, source))
<1>. DEFINE N == Len(source)
            V == Readers(P)
            step == [p \in V \X (1..N) |-> ReadPiece(rules, p[1], source[p[2]])]
            after == CHOOSE f : f = [n \in 0..N |-> IF n = 0 THEN Reader
                                                    ELSE ReadPiece(rules, f[n - 1], source[n])]
<1>1. N \in Nat /\ (\A n \in 1..N : source[n] \in P) /\ {NewLine, CellBar} \subseteq P
    BY DEF Known
<1>2. step \in [V \X (1..N) -> V]
    <2>1. ASSUME NEW p \in V \X (1..N) PROVE ReadPiece(rules, p[1], source[p[2]]) \in V
        <3>1. p[1] \in Readers(P) /\ source[p[2]] \in P
            BY <1>1
        <3>. HIDE DEF V
        <3>2. QED
            BY <1>1, <3>1, ReadPieceIs DEF V, IsRead
    <2>2. QED
        BY <2>1
<1>3. \A v \in V : \A n \in 1..N : step[<<v, n>>] = ReadPiece(rules, v, source[n])
    OBVIOUS
<1>4. Reader \in V
    BY DEF Reader, Readers
<1>5. VisibleParts(rules, source) = after[N].parts
    BY DEF VisibleParts
<1>. HIDE DEF step, V
<1>6. PICK f \in [0..N -> V] : Loop(N, Reader, step, f)
    BY <1>1, <1>2, <1>4, LoopExists
<1>7. f = [n \in 0..N |-> IF n = 0 THEN Reader ELSE ReadPiece(rules, f[n - 1], source[n])]
    <2>1. ASSUME NEW n \in 0..N
          PROVE  f[n] = IF n = 0 THEN Reader ELSE ReadPiece(rules, f[n - 1], source[n])
        <3>1. CASE n = 0
            BY <1>6, <3>1 DEF Loop
        <3>2. CASE n # 0
            <4>1. n \in 1..N /\ f[n - 1] \in V
                BY <1>1, <3>2
            <4>2. QED
                BY <1>3, <1>6, <3>2, <4>1 DEF Loop
        <3>3. QED
            BY <3>1, <3>2
    <2>2. f = [n \in 0..N |-> f[n]]
        OBVIOUS
    <2>. HIDE DEF N
    <2>3. QED
        BY <2>1, <2>2
<1>. HIDE DEF after
<1>8. after = [n \in 0..N |-> IF n = 0 THEN Reader ELSE ReadPiece(rules, after[n - 1], source[n])]
    BY <1>7 DEF after
<1>9. after[0] = Reader /\ \A n \in 1..N : after[n] = ReadPiece(rules, after[n - 1], source[n])
    <2>1. 0 \in 0..N /\ \A n \in 1..N : n \in 0..N /\ n # 0
        BY <1>1
    <2>2. QED
        BY <1>8, <2>1
<1>10. PICK run \in [0..Len(source) -> States(P)] :
           /\ Reads(rules, Begin, source, run)
           /\ run[Len(source)] = After(rules, Begin, source)
    BY BeginIs, RunIs
<1>. DEFINE T == {n \in 0..N : /\ after[n] \in Readers(P) /\ after[n].ignored = run[n].level
                               /\ run[n].seen \subseteq Range(after[n].parts)}
<1>11. 0 \in T
    <2>1. run[0] = Begin
        BY <1>10 DEF Reads
    <2>2. QED
        BY <1>1, <1>4, <1>9, <2>1 DEF Begin, Reader, V
<1>12. ASSUME NEW n \in 1..N, n - 1 \in T PROVE n \in T
    <2>. DEFINE old == after[n - 1]
                new == after[n]
                piece == source[n]
    <2>1. /\ old \in Readers(P) /\ old.ignored = run[n - 1].level
          /\ run[n - 1].seen \subseteq Range(old.parts) /\ piece \in P /\ n \in 0..N
        BY <1>1, <1>12
    <2>2. new = ReadPiece(rules, old, piece)
        BY <1>9
    <2>. HIDE DEF old, new, piece
    <2>3. IsRead(rules, P, old, piece, new)
        BY <1>1, <2>1, <2>2, ReadPieceIs
    <2>4. run[n] = StateAfter(rules, run[n - 1], piece)
        BY <1>10 DEF Reads, piece
    <2>5. run[n].level = new.ignored /\ run[n].seen \subseteq Range(new.parts)
        BY <2>1, <2>3, <2>4 DEF StateAfter, IsRead
    <2>6. QED
        BY <2>1, <2>3, <2>5 DEF new, IsRead
<1>. HIDE DEF T
<1>13. \A n \in 0..N : n \in T
    BY <1>1, <1>11, <1>12, InductionUpTo
<1>14. N \in T
    BY <1>1, <1>13
<1>15. QED
    BY <1>5, <1>10, <1>14 DEF T, Readers

LEMMA SeenIsRead ==
    ASSUME NEW P, NEW rules, NEW s \in Seq(P)
    PROVE  After(rules, Begin, s).seen \subseteq Range(s)
<1>1. s \in Seq(Range(s))
    BY ListedSeq DEF Listed
<1>2. After(rules, Begin, s) \in States(Range(s))
    BY <1>1, BeginIs, AfterIsState
<1>3. QED
    BY <1>2 DEF States

LEMMA RemoveKnownMarkupIs ==
    ASSUME NEW P, Known(P), NEW s \in Seq(P)
    PROVE  /\ RemoveKnownMarkup(s) \in Seq(P)
           /\ After(PassageRules, Begin, s).seen \subseteq Range(RemoveKnownMarkup(s))
<1>1. /\ VisibleParts(PassageRules, s) \in Seq(P)
      /\ After(PassageRules, Begin, s).seen \subseteq Range(VisibleParts(PassageRules, s))
    BY VisiblePartsAre
<1>2. After(PassageRules, Begin, s).seen \subseteq Range(s)
    BY SeenIsRead
<1>3. QED
    BY <1>1, <1>2 DEF RemoveKnownMarkup
--------------------------------------------------------------------------------
(* Cleaning: lines *)

Lists(P, s) == Listed(s) /\ \A i \in 1..Len(s) : s[i] \in Seq(P)

LEMMA SameLists ==
    ASSUME NEW s, Listed(s), NEW t, Listed(t), Len(s) = Len(t),
           \A i \in 1..Len(s) : s[i] = t[i]
    PROVE  s = t
<1>1. s = [i \in 1..Len(s) |-> s[i]] /\ t = [i \in 1..Len(t) |-> t[i]]
    BY DEF Listed
<1>2. QED
    BY <1>1

LEMMA ListsOne ==
    ASSUME NEW P, NEW s, Lists(P, s), NEW e \in Seq(P)
    PROVE  Lists(P, Append(s, e))
<1>1. /\ Listed(Append(s, e)) /\ Len(Append(s, e)) = Len(s) + 1 /\ Len(s) \in Nat
      /\ \A i \in 1..Len(s) : Append(s, e)[i] = s[i]
      /\ Append(s, e)[Len(s) + 1] = e
    BY AppendIs DEF Lists, Listed
<1>2. \A i \in 1..(Len(s) + 1) : i = Len(s) + 1 \/ i \in 1..Len(s)
    BY <1>1
<1>3. \A i \in 1..(Len(s) + 1) : Append(s, e)[i] \in Seq(P)
    BY <1>1, <1>2 DEF Lists
<1>4. QED
    BY <1>1, <1>3 DEF Lists

\* Flat is a loop.
FlatRun(P, s, f) ==
    /\ f[0] = <<>> /\ \A n \in 1..Len(s) : f[n] = f[n - 1] \o s[n]
    /\ \A n \in 0..Len(s) : f[n] \in Seq(P)
    /\ Flat(s) = f[Len(s)]

LEMMA FlatLoop ==
    ASSUME NEW P, NEW s, Lists(P, s)
    PROVE  \E f : FlatRun(P, s, f)
<1>. DEFINE N == Len(s)
            first == CHOOSE f : f = [n \in 0..N |-> IF n = 0 THEN <<>> ELSE f[n - 1] \o s[n]]
            step == [p \in Seq(P) \X (1..N) |-> p[1] \o s[p[2]]]
<1>1. N \in Nat /\ Flat(s) = first[N] /\ \A n \in 1..N : s[n] \in Seq(P)
    BY DEF Flat, Lists, Listed
<1>2. step \in [Seq(P) \X (1..N) -> Seq(P)] /\ <<>> \in Seq(P)
    BY <1>1
<1>. HIDE DEF step
<1>3. PICK f \in [0..N -> Seq(P)] : Loop(N, <<>>, step, f)
    BY <1>1, <1>2, LoopExists
<1>4. ASSUME NEW n \in 1..N PROVE step[<<f[n - 1], n>>] = f[n - 1] \o s[n]
    <2>1. f[n - 1] \in Seq(P)
        BY <1>1
    <2>2. QED
        BY <2>1 DEF step
<1>5. f = [n \in 0..N |-> IF n = 0 THEN <<>> ELSE f[n - 1] \o s[n]]
    <2>1. ASSUME NEW n \in 0..N PROVE f[n] = IF n = 0 THEN <<>> ELSE f[n - 1] \o s[n]
        <3>1. CASE n = 0
            BY <1>3, <3>1 DEF Loop
        <3>2. CASE n # 0
            <4>1. n \in 1..N
                BY <1>1, <3>2
            <4>2. QED
                BY <1>3, <1>4, <3>2, <4>1 DEF Loop
        <3>3. QED
            BY <3>1, <3>2
    <2>2. f = [n \in 0..N |-> f[n]]
        OBVIOUS
    <2>. HIDE DEF N
    <2>3. QED
        BY <2>1, <2>2
<1>. HIDE DEF first
<1>6. first = [n \in 0..N |-> IF n = 0 THEN <<>> ELSE first[n - 1] \o s[n]]
    BY <1>5, ZenonT(40) DEF first
<1>7. first[0] = <<>> /\ \A n \in 1..N : first[n] = first[n - 1] \o s[n]
    <2>1. 0 \in 0..N /\ \A n \in 1..N : n \in 0..N /\ n # 0
        BY <1>1
    <2>2. QED
        BY <1>6, <2>1
<1>. DEFINE T == {n \in 0..N : first[n] \in Seq(P)}
<1>. HIDE DEF N
<1>8. 0 \in T
    <2>1. <<>> \in Seq(P)
        BY <1>2
    <2>2. first[0] \in Seq(P)
        BY <1>7, <2>1
    <2>3. QED
        BY <1>1, <2>2
<1>9. ASSUME NEW n \in 1..N, n - 1 \in T PROVE n \in T
    <2>1. first[n - 1] \in Seq(P) /\ s[n] \in Seq(P) /\ n \in 0..N
        BY <1>1, <1>9
    <2>2. first[n - 1] \o s[n] \in Seq(P)
        BY <2>1
    <2>3. QED
        BY <1>7, <2>1, <2>2
<1>. HIDE DEF T
<1>10. \A n \in 0..N : n \in T
    BY <1>1, <1>8, <1>9, InductionUpTo
<1>11. \A n \in 0..N : first[n] \in Seq(P)
    BY <1>10 DEF T
<1>12. FlatRun(P, s, first)
    BY <1>1, <1>7, <1>11 DEF FlatRun, N
<1>13. QED
    BY <1>12

LEMMA FlatOne ==
    ASSUME NEW P, NEW s, Lists(P, s), NEW e \in Seq(P)
    PROVE  /\ Flat(s) \in Seq(P)
           /\ Flat(Append(s, e)) = Flat(s) \o e
<1>. DEFINE N == Len(s)
            t == Append(s, e)
<1>1. /\ Lists(P, t) /\ Len(t) = N + 1 /\ N \in Nat
      /\ \A n \in 1..N : t[n] = s[n]
      /\ t[N + 1] = e
    BY ListsOne, AppendIs DEF Lists, Listed
<1>. HIDE DEF t, N
<1>2. PICK f : FlatRun(P, s, f)
    BY FlatLoop
<1>3. PICK g : FlatRun(P, t, g)
    BY <1>1, FlatLoop
<1>4. /\ f[0] = <<>> /\ \A n \in 1..N : f[n] = f[n - 1] \o s[n]
      /\ g[0] = <<>> /\ \A n \in 1..(N + 1) : g[n] = g[n - 1] \o t[n]
      /\ Flat(s) = f[N] /\ f[N] \in Seq(P) /\ Flat(t) = g[N + 1]
    <2>1. /\ f[0] = <<>> /\ \A n \in 1..N : f[n] = f[n - 1] \o s[n]
          /\ Flat(s) = f[N]
        BY <1>2 DEF FlatRun, N
    <2>2. f[N] \in Seq(P)
        <3>1. N \in 0..N
            BY <1>1
        <3>2. QED
            BY <1>2, <3>1 DEF FlatRun, N
    <2>3. /\ g[0] = <<>> /\ \A n \in 1..(N + 1) : g[n] = g[n - 1] \o t[n]
          /\ Flat(t) = g[N + 1]
        BY <1>1, <1>3 DEF FlatRun
    <2>4. QED
        BY <2>1, <2>2, <2>3
<1>. DEFINE T == {n \in 0..N : f[n] = g[n]}
<1>5. 0 \in T
    BY <1>1, <1>4
<1>6. ASSUME NEW n \in 1..N, n - 1 \in T PROVE n \in T
    <2>1. n \in 0..N /\ n \in 1..(N + 1) /\ f[n - 1] = g[n - 1]
        BY <1>1, <1>6
    <2>2. f[n] = f[n - 1] \o s[n] /\ g[n] = g[n - 1] \o t[n] /\ t[n] = s[n]
        BY <1>1, <1>4, <2>1
    <2>3. QED
        BY <2>1, <2>2
<1>. HIDE DEF T
<1>7. \A n \in 0..N : n \in T
    BY <1>1, <1>5, <1>6, InductionUpTo
<1>8. f[N] = g[N]
    BY <1>1, <1>7 DEF T
<1>9. N + 1 \in 1..(N + 1) /\ (N + 1) - 1 = N
    BY <1>1
<1>10. g[N + 1] = g[N] \o e
    BY <1>1, <1>4, <1>9
<1>11. QED
    BY <1>4, <1>8, <1>10 DEF t

LEMMA FlatNothing == Flat(<<>>) = <<>>
<1>1. Lists({}, <<>>) /\ Len(<<>>) = 0
    BY EmptyIsListed DEF Lists
<1>2. PICK f : FlatRun({}, <<>>, f)
    BY <1>1, FlatLoop
<1>3. QED
    BY <1>1, <1>2 DEF FlatRun

Ended(lines) == [i \in DOMAIN lines |-> Append(lines[i], NewLine)]

LEMMA EndedIs ==
    ASSUME NEW P, Known(P), NEW lines, Lists(P, lines)
    PROVE  /\ Lists(P, Ended(lines)) /\ Len(Ended(lines)) = Len(lines)
           /\ \A i \in 1..Len(lines) : Ended(lines)[i] = Append(lines[i], NewLine)
<1>1. DOMAIN lines = 1..Len(lines) /\ Len(lines) \in Nat /\ NewLine \in P
    BY DEF Lists, Listed, Known
<1>2. /\ \A i \in 1..Len(lines) : Ended(lines)[i] = Append(lines[i], NewLine)
      /\ Ended(lines) = [i \in 1..Len(lines) |-> Ended(lines)[i]]
    BY <1>1 DEF Ended
<1>3. Listed(Ended(lines)) /\ Len(Ended(lines)) = Len(lines)
    BY <1>1, <1>2, ListedIs
<1>4. \A i \in 1..Len(lines) : Append(lines[i], NewLine) \in Seq(P)
    BY <1>1 DEF Lists
<1>5. QED
    BY <1>2, <1>3, <1>4 DEF Lists

LEMMA JoinOne ==
    ASSUME NEW P, Known(P), NEW lines, Lists(P, lines), NEW line \in Seq(P)
    PROVE  /\ JoinLines(lines) \in Seq(P)
           /\ JoinLines(Append(lines, line)) = JoinLines(lines) \o Append(line, NewLine)
<1>. DEFINE more == Append(lines, line)
            end == Append(line, NewLine)
<1>1. NewLine \in P /\ end \in Seq(P)
    BY DEF Known
<1>2. Lists(P, more)
    BY ListsOne
<1>3. /\ Len(more) = Len(lines) + 1 /\ Len(lines) \in Nat
      /\ \A i \in 1..Len(lines) : more[i] = lines[i]
      /\ more[Len(lines) + 1] = line
    BY AppendIs DEF Lists, Listed
<1>. HIDE DEF more
<1>4. /\ Lists(P, Ended(lines)) /\ Len(Ended(lines)) = Len(lines)
      /\ \A i \in 1..Len(lines) : Ended(lines)[i] = Append(lines[i], NewLine)
    BY EndedIs
<1>5. /\ Lists(P, Ended(more)) /\ Len(Ended(more)) = Len(lines) + 1
      /\ \A i \in 1..(Len(lines) + 1) : Ended(more)[i] = Append(more[i], NewLine)
    BY <1>2, <1>3, EndedIs
<1>. HIDE DEF end
<1>6. Ended(more) = Append(Ended(lines), end)
    <2>1. /\ Listed(Append(Ended(lines), end))
          /\ Len(Append(Ended(lines), end)) = Len(lines) + 1
          /\ \A i \in 1..Len(lines) : Append(Ended(lines), end)[i] = Ended(lines)[i]
          /\ Append(Ended(lines), end)[Len(lines) + 1] = end
        BY <1>4, AppendIs DEF Lists
    <2>2. \A i \in 1..(Len(lines) + 1) : i = Len(lines) + 1 \/ i \in 1..Len(lines)
        BY <1>3
    <2>3. \A i \in 1..(Len(lines) + 1) : Ended(more)[i] = Append(Ended(lines), end)[i]
        BY <1>3, <1>4, <1>5, <2>1, <2>2 DEF end
    <2>4. Listed(Ended(more))
        BY <1>5 DEF Lists
    <2>5. QED
        BY <1>5, <2>1, <2>3, <2>4, SameLists
<1>7. /\ JoinLines(lines) = Flat(Ended(lines))
      /\ JoinLines(more) = Flat(Ended(more))
    BY DEF JoinLines, Ended
<1>8. /\ Flat(Ended(lines)) \in Seq(P)
      /\ Flat(Append(Ended(lines), end)) = Flat(Ended(lines)) \o end
    BY <1>1, <1>4, FlatOne
<1>9. QED
    BY <1>6, <1>7, <1>8 DEF more, end

LEMMA JoinNothing == JoinLines(<<>>) = <<>>
<1>1. [i \in DOMAIN <<>> |-> Append(<<>>[i], NewLine)] = <<>>
    OBVIOUS
<1>2. QED
    BY <1>1, FlatNothing DEF JoinLines

LineLists(P) == Seq(Seq(P))

LEMMA ListsAre ==
    ASSUME NEW P, NEW s
    PROVE  Lists(P, s) <=> s \in LineLists(P)
<1>. DEFINE S == Seq(P)
<1>1. ASSUME Lists(P, s) PROVE s \in Seq(S)
    <2>1. Listed(s) /\ \A i \in 1..Len(s) : s[i] \in S
        BY <1>1 DEF Lists
    <2>. HIDE DEF S
    <2>2. Range(s) \subseteq S
        BY <2>1 DEF Listed, Range
    <2>3. QED
        BY <2>1, <2>2 DEF Listed
<1>2. ASSUME s \in Seq(S) PROVE Lists(P, s)
    <2>. HIDE DEF S
    <2>1. Listed(s) /\ s \in [1..Len(s) -> S]
        BY <1>2, ListedSeq
    <2>2. QED
        BY <2>1 DEF Lists, S
<1>3. LineLists(P) = Seq(S)
    BY DEF LineLists
<1>. HIDE DEF S
<1>4. QED
    BY <1>1, <1>2, <1>3

Texts(P) == [lines : LineLists(P), line : Seq(P)]
WholeText(text) == JoinLines(text.lines) \o text.line
Has(text, piece) ==
    piece \in Range(text.line) \/ \E i \in 1..Len(text.lines) : piece \in Range(text.lines[i])
HeldText(P, text) ==
    /\ Lists(P, text.lines) /\ text.line \in Seq(P)
    /\ JoinLines(text.lines) \in Seq(P) /\ WholeText(text) \in Seq(P)

\* Another piece is read behind all others and nothing is lost.
IsAdded(P, text, piece, new) ==
    /\ new \in Texts(P)
    /\ \A p : Has(text, p) => Has(new, p)
    /\ piece.kind # "newline" => Has(new, piece)
    /\ \A rules : After(rules, Begin, WholeText(new))
                      = StateAfter(rules, After(rules, Begin, WholeText(text)), piece)

LEMMA HeldTextIs ==
    ASSUME NEW P, Known(P), NEW text, text \in Texts(P)
    PROVE  HeldText(P, text)
<1>1. text.lines \in LineLists(P) /\ text.line \in Seq(P)
    BY DEF Texts
<1>2. Lists(P, text.lines)
    BY <1>1, ListsAre
<1>3. JoinLines(text.lines) \in Seq(P)
    BY <1>1, <1>2, JoinOne
<1>4. WholeText(text) \in Seq(P)
    BY <1>1, <1>3 DEF WholeText
<1>5. QED
    BY <1>1, <1>2, <1>3, <1>4 DEF HeldText

\* A piece behind two sequences is behind the second.
LEMMA AppendBehind ==
    ASSUME NEW P, NEW a \in Seq(P), NEW l \in Seq(P), NEW x \in P
    PROVE  a \o Append(l, x) = Append(a \o l, x) /\ Append(a \o l, x) \o <<>> = Append(a \o l, x)
    OBVIOUS

LEMMA RangeAppend ==
    ASSUME NEW P, NEW s \in Seq(P), NEW e \in P
    PROVE  Range(s) \subseteq Range(Append(s, e)) /\ e \in Range(Append(s, e))
<1>1. Listed(s)
    BY ListedSeq
<1>2. /\ DOMAIN s = 1..Len(s) /\ Len(s) \in Nat
      /\ DOMAIN Append(s, e) = 1..(Len(s) + 1)
      /\ \A i \in 1..Len(s) : Append(s, e)[i] = s[i]
      /\ Append(s, e)[Len(s) + 1] = e
    BY <1>1, AppendIs DEF Listed
<1>3. QED
    BY <1>2 DEF Range

LEMMA AddPieceIs ==
    ASSUME NEW P, Known(P), NEW text \in Texts(P), NEW piece \in P
    PROVE  IsAdded(P, text, piece, AddPiece(text, piece))
<1>. DEFINE new == AddPiece(text, piece)
            lines == text.lines
            line == text.line
            all == WholeText(text)
<1>1. /\ Lists(P, lines) /\ line \in Seq(P) /\ JoinLines(lines) \in Seq(P) /\ all \in Seq(P)
      /\ NewLine \in P
    BY HeldTextIs DEF Known, HeldText
<1>2. Begin \in States(P)
    BY BeginIs
<1>3. CASE piece.kind = "newline"
    <2>1. new.lines = Append(lines, line) /\ new.line = <<>>
          /\ new = [lines |-> Append(lines, line), line |-> <<>>]
        BY <1>3 DEF AddPiece
    <2>. HIDE DEF lines, line, new
    <2>2. Lists(P, Append(lines, line))
        BY <1>1, ListsOne
    <2>3. Append(lines, line) \in LineLists(P) /\ <<>> \in Seq(P)
        BY <2>2, ListsAre
    <2>4. new \in Texts(P)
        BY <2>1, <2>3 DEF Texts
    <2>5. ASSUME NEW p, Has(text, p) PROVE Has(new, p)
        <3>1. /\ Len(new.lines) = Len(lines) + 1 /\ Len(lines) \in Nat
              /\ \A i \in 1..Len(lines) : new.lines[i] = lines[i]
              /\ new.lines[Len(lines) + 1] = line
            BY <1>1, <2>1, AppendIs DEF Lists, Listed
        <3>2. /\ Len(lines) + 1 \in 1..Len(new.lines)
              /\ \A i \in 1..Len(lines) : i \in 1..Len(new.lines)
            BY <3>1
        <3>3. p \in Range(line) \/ \E i \in 1..Len(lines) : p \in Range(lines[i])
            BY <2>5 DEF Has, line, lines
        <3>4. QED
            BY <3>1, <3>2, <3>3 DEF Has
    <2>6. WholeText(new) = Append(all, NewLine)
        <3>1. JoinLines(new.lines) = JoinLines(lines) \o Append(line, NewLine)
            BY <1>1, <2>1, JoinOne
        <3>2. (JoinLines(lines) \o Append(line, NewLine)) \o <<>>
                  = Append(JoinLines(lines) \o line, NewLine)
            BY <1>1, AppendBehind
        <3>3. QED
            BY <2>1, <3>1, <3>2 DEF WholeText, lines, line
    <2>7. ASSUME NEW rules
          PROVE  After(rules, Begin, WholeText(new)) = StateAfter(rules, After(rules, Begin, all), piece)
        <3>. HIDE DEF all
        <3>1. After(rules, Begin, all) \in States(P)
            BY <1>1, <1>2, AfterIsState
        <3>2. After(rules, Begin, Append(all, NewLine))
                  = StateAfter(rules, After(rules, Begin, all), NewLine)
            BY <1>1, <1>2, AfterOne
        <3>3. IsIdle(NewLine) /\ IsIdle(piece)
            BY <1>3 DEF IsIdle, NewLine, Piece
        <3>4. /\ StateAfter(rules, After(rules, Begin, all), NewLine) = After(rules, Begin, all)
              /\ StateAfter(rules, After(rules, Begin, all), piece) = After(rules, Begin, all)
            BY <3>1, <3>3, IdleIs
        <3>5. QED
            BY <2>6, <3>2, <3>4
    <2>8. QED
        BY <1>3, <2>4, <2>5, <2>7 DEF IsAdded, new
<1>4. CASE piece.kind # "newline"
    <2>1. new.lines = lines /\ new.line = Append(line, piece)
          /\ new = [lines |-> lines, line |-> Append(line, piece)]
        <3>1. text = [lines |-> lines, line |-> line]
            BY DEF Texts
        <3>2. QED
            BY <1>4, <3>1 DEF AddPiece
    <2>. HIDE DEF lines, line, new
    <2>2. lines \in LineLists(P) /\ Append(line, piece) \in Seq(P)
        <3>1. lines \in LineLists(P)
            BY <1>1, ListsAre
        <3>2. Append(line, piece) \in Seq(P)
            BY <1>1
        <3>3. QED
            BY <3>1, <3>2
    <2>3. new \in Texts(P)
        BY <2>1, <2>2 DEF Texts
    <2>4. Range(line) \subseteq Range(new.line) /\ piece \in Range(new.line)
        BY <1>1, <2>1, RangeAppend
    <2>5. ASSUME NEW p, Has(text, p) PROVE Has(new, p)
        BY <2>1, <2>4, <2>5 DEF Has, line, lines
    <2>6. WholeText(new) = Append(all, piece)
        <3>1. JoinLines(lines) \o Append(line, piece) = Append(JoinLines(lines) \o line, piece)
            BY <1>1, AppendBehind
        <3>2. QED
            BY <2>1, <3>1 DEF WholeText, lines, line
    <2>7. ASSUME NEW rules
          PROVE  After(rules, Begin, WholeText(new)) = StateAfter(rules, After(rules, Begin, all), piece)
        <3>. HIDE DEF all
        <3>1. QED
            BY <1>1, <1>2, <2>6, AfterOne
    <2>8. Has(new, piece)
        BY <2>4 DEF Has
    <2>9. QED
        BY <2>3, <2>5, <2>7, <2>8 DEF IsAdded, new
<1>5. QED
    BY <1>3, <1>4

LEMMA NoLinesIs ==
    ASSUME NEW P
    PROVE  NoLines \in Texts(P) /\ WholeText(NoLines) = <<>>
<1>1. NoLines = [lines |-> <<>>, line |-> <<>>]
    BY DEF NoLines
<1>2. <<>> \in Seq(P) /\ <<>> \o <<>> = <<>>
    OBVIOUS
<1>3. Lists(P, <<>>)
    BY EmptyIsListed DEF Lists
<1>4. <<>> \in LineLists(P)
    BY <1>3, ListsAre
<1>5. QED
    BY <1>1, <1>2, <1>4, JoinNothing DEF Texts, WholeText

\* The lines of a text hold all of its pieces, and are read as the text is.
LEMMA SplitLinesAre ==
    ASSUME NEW P, Known(P), NEW s \in Seq(P)
    PROVE  LET lines == SplitLines(s)
           IN  /\ Lists(P, lines)
               /\ \A p \in Range(s) : p.kind # "newline" =>
                      \E i \in 1..Len(lines) : p \in Range(lines[i])
               /\ \A rules : After(rules, Begin, JoinLines(lines)) = After(rules, Begin, s)
<1>. DEFINE N == Len(s)
            V == Texts(P)
            step == [p \in V \X (1..N) |-> AddPiece(p[1], s[p[2]])]
            after == CHOOSE f : f = [n \in 0..N |-> IF n = 0 THEN NoLines
                                                    ELSE AddPiece(f[n - 1], s[n])]
            text == after[N]
<1>1. N \in Nat /\ \A n \in 1..N : s[n] \in P
    OBVIOUS
<1>2. step \in [V \X (1..N) -> V]
    <2>1. ASSUME NEW p \in V \X (1..N) PROVE AddPiece(p[1], s[p[2]]) \in V
        <3>1. p[1] \in Texts(P) /\ s[p[2]] \in P
            BY <1>1
        <3>. HIDE DEF V
        <3>2. IsAdded(P, p[1], s[p[2]], AddPiece(p[1], s[p[2]]))
            BY <3>1, AddPieceIs
        <3>3. QED
            BY <3>2 DEF V, IsAdded
    <2>2. QED
        BY <2>1
<1>3. \A v \in V : \A n \in 1..N : step[<<v, n>>] = AddPiece(v, s[n])
    OBVIOUS
<1>4. SplitLines(s) = Append(text.lines, text.line)
    BY DEF SplitLines
<1>. HIDE DEF step, V
<1>5. NoLines \in V
    BY NoLinesIs DEF V
<1>6. PICK f \in [0..N -> V] : Loop(N, NoLines, step, f)
    BY <1>1, <1>2, <1>5, LoopExists
<1>7. f = [n \in 0..N |-> IF n = 0 THEN NoLines ELSE AddPiece(f[n - 1], s[n])]
    <2>1. ASSUME NEW n \in 0..N
          PROVE  f[n] = IF n = 0 THEN NoLines ELSE AddPiece(f[n - 1], s[n])
        <3>1. CASE n = 0
            BY <1>6, <3>1 DEF Loop
        <3>2. CASE n # 0
            <4>1. n \in 1..N /\ f[n - 1] \in V
                BY <1>1, <3>2
            <4>2. QED
                BY <1>3, <1>6, <3>2, <4>1 DEF Loop
        <3>3. QED
            BY <3>1, <3>2
    <2>2. f = [n \in 0..N |-> f[n]]
        OBVIOUS
    <2>. HIDE DEF N
    <2>3. QED
        BY <2>1, <2>2
<1>. HIDE DEF after
<1>8. after = [n \in 0..N |-> IF n = 0 THEN NoLines ELSE AddPiece(after[n - 1], s[n])]
    BY <1>7 DEF after
<1>9. after[0] = NoLines /\ \A n \in 1..N : after[n] = AddPiece(after[n - 1], s[n])
    <2>1. 0 \in 0..N /\ \A n \in 1..N : n \in 0..N /\ n # 0
        BY <1>1
    <2>2. QED
        BY <1>8, <2>1
<1>. DEFINE follows(n) == \A rules : \A run : Reads(rules, Begin, s, run) =>
                              After(rules, Begin, WholeText(after[n])) = run[n]
            holds(n) == \A k \in 1..n : s[k].kind # "newline" => Has(after[n], s[k])
            T == {n \in 0..N : after[n] \in Texts(P) /\ holds(n) /\ follows(n)}
<1>10. 0 \in T
    <2>1. ASSUME NEW rules, NEW run, Reads(rules, Begin, s, run)
          PROVE  After(rules, Begin, WholeText(after[0])) = run[0]
        <3>1. run[0] = Begin
            BY <2>1 DEF Reads
        <3>2. WholeText(after[0]) = <<>>
            BY <1>9, NoLinesIs
        <3>3. QED
            BY <3>1, <3>2, AfterNothing
    <2>2. after[0] \in Texts(P) /\ holds(0) /\ 0 \in 0..N
        BY <1>1, <1>9, NoLinesIs
    <2>3. QED
        BY <2>1, <2>2
<1>11. ASSUME NEW n \in 1..N, n - 1 \in T PROVE n \in T
    <2>. DEFINE old == after[n - 1]
    <2>1. old \in Texts(P) /\ holds(n - 1) /\ follows(n - 1) /\ n \in 0..N /\ s[n] \in P
        BY <1>1, <1>11
    <2>2. after[n] = AddPiece(old, s[n])
        BY <1>9
    <2>. HIDE DEF old
    <2>3. IsAdded(P, old, s[n], after[n])
        BY <2>1, <2>2, AddPieceIs
    <2>4. after[n] \in Texts(P)
        BY <2>3 DEF IsAdded
    <2>5. holds(n)
        <3>1. ASSUME NEW k \in 1..n, s[k].kind # "newline" PROVE Has(after[n], s[k])
            <4>1. CASE k = n
                BY <2>3, <3>1, <4>1 DEF IsAdded
            <4>2. CASE k # n
                <5>1. k \in 1..(n - 1)
                    BY <1>1, <4>2
                <5>2. Has(old, s[k])
                    BY <2>1, <3>1, <5>1 DEF old
                <5>3. QED
                    BY <2>3, <5>2 DEF IsAdded
            <4>3. QED
                BY <4>1, <4>2
        <3>2. QED
            BY <3>1
    <2>6. ASSUME NEW rules, NEW run, Reads(rules, Begin, s, run)
          PROVE  After(rules, Begin, WholeText(after[n])) = run[n]
        <3>1. After(rules, Begin, WholeText(old)) = run[n - 1]
            BY <2>1, <2>6 DEF old
        <3>2. After(rules, Begin, WholeText(after[n]))
                  = StateAfter(rules, After(rules, Begin, WholeText(old)), s[n])
            BY <2>3 DEF IsAdded
        <3>3. run[n] = StateAfter(rules, run[n - 1], s[n])
            BY <2>6 DEF Reads
        <3>4. QED
            BY <3>1, <3>2, <3>3
    <2>7. follows(n)
        BY <2>6
    <2>. HIDE DEF holds, follows
    <2>8. QED
        BY <2>1, <2>4, <2>5, <2>7
<1>. HIDE DEF T
<1>12. \A n \in 0..N : n \in T
    BY <1>1, <1>10, <1>11, InductionUpTo
<1>13. text \in Texts(P) /\ holds(N) /\ follows(N)
    <2>1. N \in T
        BY <1>1, <1>12
    <2>. HIDE DEF holds, follows
    <2>2. QED
        BY <2>1 DEF T
<1>14. Lists(P, text.lines) /\ text.line \in Seq(P)
    BY <1>13, HeldTextIs DEF HeldText
<1>. DEFINE lines == SplitLines(s)
<1>15. /\ Lists(P, lines) /\ Len(lines) = Len(text.lines) + 1 /\ Len(text.lines) \in Nat
       /\ \A i \in 1..Len(text.lines) : lines[i] = text.lines[i]
       /\ lines[Len(text.lines) + 1] = text.line
    BY <1>4, <1>14, ListsOne, AppendIs DEF Lists, Listed
<1>16. ASSUME NEW p \in Range(s), p.kind # "newline"
       PROVE  \E i \in 1..Len(lines) : p \in Range(lines[i])
    <2>1. PICK k \in 1..N : p = s[k]
        BY DEF Range
    <2>2. Has(text, p)
        BY <1>13, <1>16, <2>1
    <2>3. /\ Len(text.lines) + 1 \in 1..Len(lines)
          /\ \A i \in 1..Len(text.lines) : i \in 1..Len(lines)
        BY <1>15
    <2>. HIDE DEF lines, text
    <2>4. QED
        BY <1>15, <2>2, <2>3 DEF Has
<1>17. ASSUME NEW rules
       PROVE  After(rules, Begin, JoinLines(lines)) = After(rules, Begin, s)
    <2>1. PICK run \in [0..Len(s) -> States(P)] :
              Reads(rules, Begin, s, run) /\ run[Len(s)] = After(rules, Begin, s)
        BY BeginIs, RunIs
    <2>2. After(rules, Begin, WholeText(text)) = run[N]
        BY <1>13, <2>1
    <2>. HIDE DEF text
    <2>. DEFINE all == WholeText(text)
    <2>3. /\ JoinLines(text.lines) \in Seq(P) /\ all \in Seq(P) /\ NewLine \in P
        BY <1>13, HeldTextIs DEF Known, HeldText
    <2>4. JoinLines(lines) = JoinLines(text.lines) \o Append(text.line, NewLine)
        BY <1>4, <1>14, JoinOne
    <2>5. JoinLines(lines) = Append(all, NewLine)
        <3>1. JoinLines(text.lines) \o Append(text.line, NewLine)
                  = Append(JoinLines(text.lines) \o text.line, NewLine)
            <4>. DEFINE a == JoinLines(text.lines)
                        l == text.line
            <4>1. a \in Seq(P) /\ l \in Seq(P) /\ NewLine \in P
                BY <1>14, <2>3
            <4>. HIDE DEF a, l
            <4>2. a \o Append(l, NewLine) = Append(a \o l, NewLine)
                BY <4>1, AppendBehind
            <4>3. QED
                BY <4>2 DEF a, l
        <3>2. QED
            BY <2>4, <3>1 DEF WholeText
    <2>. HIDE DEF all, lines
    <2>6. After(rules, Begin, Append(all, NewLine))
              = StateAfter(rules, After(rules, Begin, all), NewLine)
        BY <2>3, BeginIs, AfterOne
    <2>7. After(rules, Begin, all) \in States(P)
        BY <2>3, BeginIs, AfterIsState
    <2>8. IsIdle(NewLine)
        BY DEF IsIdle, NewLine, Piece
    <2>9. StateAfter(rules, After(rules, Begin, all), NewLine) = After(rules, Begin, all)
        BY <2>7, <2>8, IdleIs
    <2>10. QED
        BY <2>1, <2>2, <2>5, <2>6, <2>9 DEF all
<1>18. QED
    BY <1>15, <1>16, <1>17

--------------------------------------------------------------------------------
(* Cleaning: scripts without a tag *)

LEMMA ScriptEndIs ==
    ASSUME NEW lines, Listed(lines), NEW i \in 1..Len(lines)
    PROVE  ScriptEnd(lines, i) = 0 \/ ScriptEnd(lines, i) \in i..Len(lines)
<1>. DEFINE opened(j) == \E k \in i..j : \E m \in DOMAIN lines[k] : lines[k][m].opens
            depth(j) == Total(i..j, LAMBDA k : Total(DOMAIN lines[k],
                                                     LAMBDA m : lines[k][m].braces))
            ends == {j \in i..Len(lines) : opened(j) /\ depth(j) <= 0}
<1>1. BalancedScriptEnd(lines, i)
          = IF ends = {} THEN 0 ELSE CHOOSE j \in ends : \A k \in ends : j <= k
    BY DEF BalancedScriptEnd
<1>2. ends \subseteq i..Len(lines)
    OBVIOUS
<1>. HIDE DEF ends, opened, depth
<1>3. Len(lines) \in Nat /\ i \in i..Len(lines)
    BY DEF Listed
<1>4. CASE ends # {}
    <2>1. ends \in SUBSET Nat
        BY <1>2, <1>3
    <2>2. \E j \in ends : \A k \in ends : j <= k
        BY <1>4, <2>1, LeastNumber
    <2>3. BalancedScriptEnd(lines, i) \in ends
        BY <1>1, <1>4, <2>2
    <2>. DEFINE b == BalancedScriptEnd(lines, i)
    <2>4. b \in i..Len(lines)
        BY <1>2, <2>3
    <2>. HIDE DEF b
    <2>5. ScriptEnd(lines, i) \in {i, b, 0}
        BY DEF ScriptEnd, b
    <2>6. QED
        BY <1>3, <2>4, <2>5
<1>5. CASE ends = {}
    BY <1>1, <1>3, <1>5 DEF ScriptEnd
<1>6. QED
    BY <1>4, <1>5

IsCode(line) == \A m \in DOMAIN line : line[m].kind = "code"

\* What is read of a text up to a line.
Followed(P, lines, run, n, text) ==
    /\ Lists(P, text.kept) /\ text.next \in Nat
    /\ \A k \in (n + 1)..(text.next - 1) : k \in 1..Len(lines) => IsCode(lines[k])
    /\ \A rules : After(rules, Begin, JoinLines(text.kept)) = After(rules, Begin, run[n])

LEMMA CodeIsIdle ==
    ASSUME NEW P, Known(P), NEW rules, NEW state \in States(P), NEW line \in Seq(P), IsCode(line)
    PROVE  After(rules, state, Append(line, NewLine)) = state
<1>1. NewLine \in P /\ IsIdle(NewLine)
    BY DEF Known, IsIdle, NewLine, Piece
<1>2. \A m \in 1..Len(line) : IsIdle(line[m])
    BY DEF IsCode, IsIdle
<1>3. After(rules, state, line) = state
    BY <1>2, AfterIdle
<1>4. After(rules, state, Append(line, NewLine)) = StateAfter(rules, After(rules, state, line), NewLine)
    BY <1>1, AfterOne
<1>5. QED
    BY <1>1, <1>3, <1>4, IdleIs

LEMMA ScriptLineIs ==
    ASSUME NEW P, Known(P), NEW lines, Lists(P, lines), ScriptsAreCode(lines),
           NEW run, FlatRun(P, Ended(lines), run),
           NEW n \in 1..Len(lines), NEW text \in [kept : LineLists(P), next : Nat],
           Followed(P, lines, run, n - 1, text)
    PROVE  Followed(P, lines, run, n, ReadScriptLine(lines, text, n))
<1>. DEFINE line == lines[n]
            end == Append(line, NewLine)
            new == ReadScriptLine(lines, text, n)
<1>1. /\ Listed(lines) /\ Len(lines) \in Nat /\ DOMAIN lines = 1..Len(lines) /\ line \in Seq(P)
      /\ NewLine \in P /\ end \in Seq(P)
    BY DEF Lists, Listed, Known
<1>2. /\ run[n] = run[n - 1] \o end
      /\ run[n - 1] \in Seq(P)
    <2>1. Len(Ended(lines)) = Len(lines) /\ Ended(lines)[n] = end
        BY EndedIs
    <2>2. n - 1 \in 0..Len(lines)
        BY <1>1
    <2>. HIDE DEF end
    <2>3. QED
        BY <2>1, <2>2 DEF FlatRun
<1>. HIDE DEF line, end, new
<1>3. ASSUME NEW rules
      PROVE  /\ After(rules, Begin, run[n - 1]) \in States(P)
             /\ After(rules, Begin, run[n]) = After(rules, After(rules, Begin, run[n - 1]), end)
    BY <1>1, <1>2, BeginIs, AfterIsState, AfterBoth, SMTT(40)
<1>4. ASSUME IsCode(line), NEW rules
      PROVE  After(rules, Begin, run[n]) = After(rules, Begin, run[n - 1])
    BY <1>1, <1>3, <1>4, CodeIsIdle DEF end
<1>5. /\ Lists(P, text.kept) /\ text.next \in Nat
      /\ \A k \in ((n - 1) + 1)..(text.next - 1) : k \in 1..Len(lines) => IsCode(lines[k])
      /\ \A rules : After(rules, Begin, JoinLines(text.kept)) = After(rules, Begin, run[n - 1])
    BY DEF Followed
<1>6. CASE n < text.next
    <2>1. new = text
        BY <1>6 DEF new, ReadScriptLine
    <2>2. IsCode(line)
        <3>1. n \in ((n - 1) + 1)..(text.next - 1)
            BY <1>1, <1>5, <1>6
        <3>2. QED
            BY <1>5, <3>1 DEF line
    <2>3. \A k \in (n + 1)..(text.next - 1) : k \in 1..Len(lines) => IsCode(lines[k])
        <3>1. \A k \in (n + 1)..(text.next - 1) : k \in ((n - 1) + 1)..(text.next - 1)
            BY <1>1, <1>5
        <3>2. QED
            BY <1>5, <3>1
    <2>4. QED
        BY <1>4, <1>5, <2>1, <2>2, <2>3 DEF Followed, new
<1>7. CASE ~(n < text.next) /\ ScriptEnd(lines, n) = 0
    <2>1. new = [text EXCEPT !.kept = Append(text.kept, line)]
        BY <1>7 DEF new, ReadScriptLine, line
    <2>2. new.kept = Append(text.kept, line) /\ new.next = text.next
        BY <2>1
    <2>3. /\ Lists(P, new.kept) /\ JoinLines(text.kept) \in Seq(P)
          /\ JoinLines(new.kept) = JoinLines(text.kept) \o end
        BY <1>1, <1>5, <2>2, ListsOne, JoinOne DEF end
    <2>4. ASSUME NEW rules
          PROVE  After(rules, Begin, JoinLines(new.kept)) = After(rules, Begin, run[n])
        BY <1>1, <1>3, <1>5, <2>3, BeginIs, AfterBoth
    <2>5. \A k \in (n + 1)..(new.next - 1) : FALSE
        BY <1>1, <1>5, <1>7, <2>2
    <2>6. QED
        BY <1>5, <2>2, <2>3, <2>4, <2>5 DEF Followed, new
<1>8. CASE ~(n < text.next) /\ ScriptEnd(lines, n) # 0
    <2>. DEFINE e == ScriptEnd(lines, n)
    <2>1. new = [text EXCEPT !.next = e + 1]
        BY <1>8 DEF new, ReadScriptLine
    <2>2. e \in n..Len(lines)
        BY <1>1, <1>8, ScriptEndIs
    <2>3. \A k \in n..e : IsCode(lines[k])
        BY <1>1 DEF ScriptsAreCode, IsCode
    <2>. HIDE DEF e
    <2>4. new.kept = text.kept /\ new.next = e + 1 /\ n \in n..e /\ e \in Nat
        BY <1>1, <2>1, <2>2
    <2>5. IsCode(line)
        BY <2>3, <2>4 DEF line
    <2>6. \A k \in (n + 1)..(new.next - 1) : k \in n..e
        BY <1>1, <2>4
    <2>7. new.next \in Nat
        BY <2>4
    <2>8. \A rules : After(rules, Begin, JoinLines(new.kept)) = After(rules, Begin, run[n])
        BY <1>4, <1>5, <2>4, <2>5
    <2>9. Lists(P, new.kept) /\ \A k \in (n + 1)..(new.next - 1) : IsCode(lines[k])
        BY <1>5, <2>3, <2>4, <2>6
    <2>10. QED
        BY <2>7, <2>8, <2>9 DEF Followed, new
<1>9. QED
    BY <1>6, <1>7, <1>8

LEMMA ScriptLineType ==
    ASSUME NEW P, NEW lines, Lists(P, lines), NEW n \in 1..Len(lines),
           NEW text \in [kept : LineLists(P), next : Nat]
    PROVE  ReadScriptLine(lines, text, n) \in [kept : LineLists(P), next : Nat]
<1>1. Listed(lines) /\ Len(lines) \in Nat /\ lines[n] \in Seq(P)
    BY DEF Lists, Listed
<1>2. Append(text.kept, lines[n]) \in LineLists(P)
    <2>1. Lists(P, text.kept)
        BY ListsAre
    <2>2. QED
        BY <1>1, <2>1, ListsOne, ListsAre
<1>3. ScriptEnd(lines, n) + 1 \in Nat
    BY <1>1, ScriptEndIs
<1>4. QED
    BY <1>2, <1>3 DEF ReadScriptLine

\* Scripts that are all code are removed without a tag or a text.
LEMMA RemoveNakedScriptIs ==
    ASSUME NEW P, Known(P), NEW lines, Lists(P, lines)
    PROVE  LET kept == RemoveNakedScript(lines)
           IN  /\ Lists(P, kept)
               /\ ScriptsAreCode(lines) => \A rules : After(rules, Begin, JoinLines(kept))
                                                = After(rules, Begin, JoinLines(lines))
<1>. DEFINE N == Len(lines)
            V == [kept : LineLists(P), next : Nat]
            start == [kept |-> <<>>, next |-> 1]
            step == [p \in V \X (1..N) |-> ReadScriptLine(lines, p[1], p[2])]
            after == CHOOSE f : f = [n \in 0..N |-> IF n = 0 THEN start
                                                    ELSE ReadScriptLine(lines, f[n - 1], n)]
<1>1. N \in Nat
    BY DEF Lists, Listed
<1>2. step \in [V \X (1..N) -> V]
    <2>1. ASSUME NEW p \in V \X (1..N) PROVE ReadScriptLine(lines, p[1], p[2]) \in V
        <3>1. p[1] \in V /\ p[2] \in 1..N
            OBVIOUS
        <3>2. QED
            BY <3>1, ScriptLineType
    <2>2. QED
        BY <2>1
<1>3. \A v \in V : \A n \in 1..N : step[<<v, n>>] = ReadScriptLine(lines, v, n)
    OBVIOUS
<1>4. RemoveNakedScript(lines) = after[N].kept
    BY DEF RemoveNakedScript
<1>5. start \in V /\ start.kept = <<>> /\ start.next = 1
    <2>1. <<>> \in LineLists(P)
        BY ListsAre, EmptyIsListed DEF Lists
    <2>2. QED
        BY <2>1
<1>. HIDE DEF step, V, start
<1>6. PICK f \in [0..N -> V] : Loop(N, start, step, f)
    BY <1>1, <1>2, <1>5, LoopExists
<1>7. f = [n \in 0..N |-> IF n = 0 THEN start ELSE ReadScriptLine(lines, f[n - 1], n)]
    <2>1. ASSUME NEW n \in 0..N
          PROVE  f[n] = IF n = 0 THEN start ELSE ReadScriptLine(lines, f[n - 1], n)
        <3>1. CASE n = 0
            BY <1>6, <3>1 DEF Loop
        <3>2. CASE n # 0
            <4>1. n \in 1..N /\ f[n - 1] \in V
                BY <1>1, <3>2
            <4>2. QED
                BY <1>3, <1>6, <3>2, <4>1 DEF Loop
        <3>3. QED
            BY <3>1, <3>2
    <2>2. f = [n \in 0..N |-> f[n]]
        OBVIOUS
    <2>. HIDE DEF N
    <2>3. QED
        BY <2>1, <2>2
<1>. HIDE DEF after
<1>8. after = [n \in 0..N |-> IF n = 0 THEN start ELSE ReadScriptLine(lines, after[n - 1], n)]
    BY <1>7 DEF after
<1>9. after[0] = start /\ \A n \in 1..N : after[n] = ReadScriptLine(lines, after[n - 1], n)
    <2>1. 0 \in 0..N /\ \A n \in 1..N : n \in 0..N /\ n # 0
        BY <1>1
    <2>2. QED
        BY <1>8, <2>1
<1>10. PICK run : FlatRun(P, Ended(lines), run)
    BY EndedIs, FlatLoop
<1>11. run[0] = <<>> /\ run[N] = JoinLines(lines)
    <2>1. Len(Ended(lines)) = N
        BY EndedIs
    <2>2. JoinLines(lines) = Flat(Ended(lines))
        BY DEF JoinLines, Ended
    <2>3. QED
        BY <1>10, <2>1, <2>2 DEF FlatRun
<1>. DEFINE T == {n \in 0..N :
                     /\ after[n] \in V
                     /\ ScriptsAreCode(lines) => Followed(P, lines, run, n, after[n])}
<1>12. 0 \in T
    <2>1. Lists(P, start.kept)
        BY <1>5, EmptyIsListed DEF Lists
    <2>2. \A rules : After(rules, Begin, JoinLines(start.kept)) = After(rules, Begin, run[0])
        BY <1>5, <1>11, JoinNothing
    <2>3. start.next \in Nat /\ \A k \in (0 + 1)..(start.next - 1) : FALSE
        BY <1>5
    <2>4. Followed(P, lines, run, 0, start)
        BY <2>1, <2>2, <2>3 DEF Followed
    <2>5. QED
        BY <1>1, <1>5, <1>9, <2>4
<1>13. ASSUME NEW n \in 1..N, n - 1 \in T PROVE n \in T
    <2>. DEFINE old == after[n - 1]
    <2>1. /\ old \in [kept : LineLists(P), next : Nat] /\ n \in 0..N
          /\ ScriptsAreCode(lines) => Followed(P, lines, run, n - 1, old)
        BY <1>1, <1>13 DEF V
    <2>2. after[n] = ReadScriptLine(lines, old, n)
        BY <1>9
    <2>. HIDE DEF old
    <2>3. ScriptsAreCode(lines) => Followed(P, lines, run, n, after[n])
        BY <1>10, <2>1, <2>2, ScriptLineIs
    <2>4. after[n] \in V
        BY <2>1, <2>2, ScriptLineType DEF V
    <2>5. QED
        BY <2>1, <2>3, <2>4
<1>. HIDE DEF T
<1>14. \A n \in 0..N : n \in T
    BY <1>1, <1>12, <1>13, InductionUpTo
<1>15. /\ after[N] \in V
       /\ ScriptsAreCode(lines) => Followed(P, lines, run, N, after[N])
    BY <1>1, <1>14 DEF T
<1>16. Lists(P, after[N].kept)
    BY <1>15, ListsAre DEF V
<1>17. QED
    BY <1>4, <1>11, <1>15, <1>16 DEF Followed

--------------------------------------------------------------------------------
(* Cleaning: the publisher's notices *)

Preceding(P, x) == {i \in P : i < x}

LEMMA NthIs ==
    ASSUME NEW P \in SUBSET Nat, IsFiniteSet(P), NEW x \in P, NEW k,
           Cardinality(Preceding(P, x)) = k
    PROVE  (CHOOSE p \in P : Cardinality(Preceding(P, p)) = k) = x
<1>. DEFINE R == {p \in P \X P : p[1] < p[2]}
            size(p) == Cardinality(Preceding(P, p))
<1>1. TotalOrder(P, R)
    BY DEF TotalOrder
<1>2. \A p \in P : Preceding(P, p) = Below(P, R, p)
    BY DEF Preceding, Below
<1>3. \A p, q \in P : <<p, q>> \in R <=> p < q
    OBVIOUS
<1>4. \A p, q \in P : p # q => p < q \/ q < p
    OBVIOUS
<1>. HIDE DEF R
<1>5. ASSUME NEW p \in P, NEW q \in P, p < q
      PROVE  size(p) \in Nat /\ size(q) \in Nat /\ size(p) < size(q)
    <2>1. <<p, q>> \in R
        BY <1>3, <1>5
    <2>2. /\ Cardinality(Below(P, R, p)) \in Nat /\ Cardinality(Below(P, R, q)) \in Nat
          /\ Cardinality(Below(P, R, p)) < Cardinality(Below(P, R, q))
        BY <1>1, <2>1, RankGrows
    <2>3. QED
        BY <1>2, <2>2
<1>. HIDE DEF size
<1>6. ASSUME NEW p \in P, size(p) = k PROVE p = x
    <2>1. size(x) = k
        BY DEF size
    <2>2. ~(p < x) /\ ~(x < p)
        <3>1. p < x => size(p) \in Nat /\ size(x) \in Nat /\ size(p) < size(x)
            BY <1>5
        <3>2. x < p => size(x) \in Nat /\ size(p) \in Nat /\ size(x) < size(p)
            BY <1>5
        <3>3. size(p) = size(x)
            BY <1>6, <2>1
        <3>4. QED
            BY <3>1, <3>2, <3>3
    <2>3. QED
        BY <1>4, <2>2
<1>7. size(x) = k
    BY DEF size
<1>8. (CHOOSE p \in P : size(p) = k) = x
    BY <1>6, <1>7
<1>9. QED
    BY <1>8 DEF size

\* A position behind all others adds its value behind all others.
LEMMA AtGrows ==
    ASSUME NEW values, Listed(values), NEW n \in 1..Len(values),
           NEW P \in SUBSET (1..(n - 1))
    PROVE  At(values, P \cup {n}) = Append(At(values, P), values[n])
<1>. DEFINE Q == P \cup {n}
            c == Cardinality(P)
            a == At(values, P)
            b == At(values, Q)
            v == values[n]
<1>1. /\ n \in Nat /\ Len(values) \in Nat /\ DOMAIN values = 1..Len(values)
      /\ 1..(n - 1) \subseteq 1..Len(values) /\ n \notin P
    BY DEF Listed
<1>2. /\ P \in SUBSET DOMAIN values /\ Q \in SUBSET DOMAIN values
      /\ P \in SUBSET Nat /\ Q \in SUBSET Nat
    BY <1>1
<1>3. /\ IsFiniteSet(P) /\ IsFiniteSet(Q) /\ c \in Nat
    BY <1>2, AtIs
<1>4. Cardinality(Q) = c + 1
    BY <1>1, <1>3, FS_AddElement
<1>5. \A i \in DOMAIN values : values[i] \in Range(values)
    BY DEF Range
<1>6. /\ Listed(a) /\ Len(a) = c /\ Listed(b) /\ Len(b) = c + 1
    <2>1. (\A i \in P : values[i] \in Range(values)) /\ (\A i \in Q : values[i] \in Range(values))
        BY <1>2, <1>5
    <2>. HIDE DEF Q
    <2>2. Listed(a) /\ Len(a) = c
        BY <1>2, <2>1, AtKeeps
    <2>3. Listed(b) /\ Len(b) = Cardinality(Q)
        BY <1>2, <2>1, AtKeeps
    <2>4. QED
        BY <1>4, <2>2, <2>3 DEF Q
<1>7. \A p \in P : Preceding(Q, p) = Preceding(P, p)
    BY <1>1 DEF Preceding
<1>8. Preceding(Q, n) = P
    <2>1. (\A i \in P : i < n) /\ ~(n < n)
        BY <1>1
    <2>2. QED
        BY <2>1 DEF Preceding
<1>9. \A k \in 1..c : \E p \in P : Cardinality(Preceding(P, p)) = k - 1
    <2>. DEFINE R == {p \in P \X P : p[1] < p[2]}
    <2>1. TotalOrder(P, R)
        BY <1>2 DEF TotalOrder
    <2>2. \A p \in P : Preceding(P, p) = Below(P, R, p)
        BY DEF Preceding, Below
    <2>. HIDE DEF R
    <2>3. \A k \in 1..c : \E p \in P : Cardinality(Below(P, R, p)) = k - 1
        BY <1>3, <2>1, EveryRank
    <2>4. QED
        BY <2>2, <2>3
<1>10. /\ \A k \in 1..c : a[k] = values[CHOOSE p \in P : Cardinality(Preceding(P, p)) = k - 1]
       /\ \A k \in 1..(c + 1) : b[k] = values[CHOOSE p \in Q : Cardinality(Preceding(Q, p)) = k - 1]
    <2>. HIDE DEF Q
    <2>1. a = [k \in 1..c |-> values[CHOOSE p \in P : Cardinality(Preceding(P, p)) = k - 1]]
        BY DEF At, Preceding
    <2>2. b = [k \in 1..Cardinality(Q) |->
                  values[CHOOSE p \in Q : Cardinality(Preceding(Q, p)) = k - 1]]
        BY DEF At, Preceding
    <2>. HIDE DEF a, b
    <2>3. QED
        BY <1>4, <2>1, <2>2 DEF Q
<1>. HIDE DEF Q, a, b
<1>11. ASSUME NEW k \in 1..c PROVE b[k] = a[k]
    <2>1. PICK p \in P : Cardinality(Preceding(P, p)) = k - 1
        BY <1>9
    <2>2. p \in Q /\ Cardinality(Preceding(Q, p)) = k - 1
        BY <1>7, <2>1 DEF Q
    <2>3. (CHOOSE q \in P : Cardinality(Preceding(P, q)) = k - 1) = p
        BY <1>2, <1>3, <2>1, NthIs
    <2>4. (CHOOSE q \in Q : Cardinality(Preceding(Q, q)) = k - 1) = p
        BY <1>2, <1>3, <2>2, NthIs
    <2>5. k \in 1..(c + 1)
        BY <1>3
    <2>6. QED
        BY <1>10, <2>3, <2>4, <2>5
<1>12. b[c + 1] = v
    <2>1. n \in Q /\ Cardinality(Preceding(Q, n)) = (c + 1) - 1
        BY <1>3, <1>8 DEF Q
    <2>2. (CHOOSE q \in Q : Cardinality(Preceding(Q, q)) = (c + 1) - 1) = n
        BY <1>2, <1>3, <2>1, NthIs
    <2>3. c + 1 \in 1..(c + 1)
        BY <1>3
    <2>4. QED
        BY <1>10, <2>2, <2>3
<1>. HIDE DEF c, v
<1>13. /\ Listed(Append(a, v)) /\ Len(Append(a, v)) = c + 1
       /\ \A k \in 1..c : Append(a, v)[k] = a[k]
       /\ Append(a, v)[c + 1] = v
    BY <1>6, AppendIs
<1>14. \A k \in 1..(c + 1) : k = c + 1 \/ k \in 1..c
    BY <1>3
<1>15. \A k \in 1..Len(b) : b[k] = Append(a, v)[k]
    BY <1>6, <1>11, <1>12, <1>13, <1>14
<1>16. b = Append(a, v)
    BY <1>6, <1>13, <1>15, SameLists
<1>17. QED
    BY <1>16 DEF a, b, v, Q

\* What is neither tag nor text may be left out.
LEMMA IdleLeftOut ==
    ASSUME NEW P, NEW rules, NEW s \in Seq(P), NEW S \in SUBSET (1..Len(s)),
           \A i \in 1..Len(s) : i \in S \/ IsIdle(s[i])
    PROVE  /\ At(s, S) \in Seq(P)
           /\ After(rules, Begin, At(s, S)) = After(rules, Begin, s)
<1>. DEFINE N == Len(s)
            kept(n) == At(s, S \cap 1..n)
<1>1. Listed(s) /\ N \in Nat /\ DOMAIN s = 1..N /\ \A n \in 1..N : s[n] \in P
    BY ListedSeq DEF Listed
<1>2. ASSUME NEW n \in 0..N PROVE kept(n) \in Seq(P)
    <2>1. S \cap 1..n \in SUBSET DOMAIN s /\ \A i \in S \cap 1..n : s[i] \in P
        BY <1>1
    <2>. DEFINE T == S \cap 1..n
    <2>. HIDE DEF T
    <2>2. At(s, T) \in Seq(P)
        BY <1>1, <2>1, AtKeeps DEF T
    <2>3. QED
        BY <2>2 DEF T
<1>3. PICK run \in [0..Len(s) -> States(P)] :
          Reads(rules, Begin, s, run) /\ run[Len(s)] = After(rules, Begin, s)
    <2>. HIDE DEF kept, N
    <2>1. Begin \in States(P)
        BY BeginIs
    <2>2. QED
        BY <2>1, RunIs
<1>. DEFINE T == {n \in 0..N : After(rules, Begin, kept(n)) = run[n]}
<1>4. 0 \in T
    <2>1. kept(0) = <<>>
        <3>1. S \cap 1..0 = {}
            OBVIOUS
        <3>2. Cardinality({}) = 0
            BY FS_EmptySet
        <3>3. At(s, {}) = [k \in 1..0 |->
                  s[CHOOSE p \in {} : Cardinality({i \in {} : i < p}) = k - 1]]
            BY <3>2 DEF At
        <3>4. At(s, {}) = <<>>
            BY <3>3
        <3>5. QED
            BY <3>1, <3>4
    <2>2. run[0] = Begin
        BY <1>3 DEF Reads
    <2>. HIDE DEF kept
    <2>3. QED
        BY <1>1, <2>1, <2>2, AfterNothing
<1>5. ASSUME NEW n \in 1..N, n - 1 \in T PROVE n \in T
    <2>1. /\ n \in 0..N /\ n - 1 \in 0..N /\ After(rules, Begin, kept(n - 1)) = run[n - 1]
          /\ run[n - 1] \in States(P)
        BY <1>1, <1>5
    <2>2. run[n] = StateAfter(rules, run[n - 1], s[n])
        BY <1>3 DEF Reads
    <2>3. CASE n \in S
        <3>1. S \cap 1..n = (S \cap 1..(n - 1)) \cup {n}
            BY <1>1, <2>3
        <3>2. S \cap 1..(n - 1) \in SUBSET (1..(n - 1))
            OBVIOUS
        <3>3. kept(n) = Append(kept(n - 1), s[n])
            BY <1>1, <3>1, <3>2, AtGrows
        <3>4. kept(n - 1) \in Seq(P)
            BY <1>2, <2>1
        <3>. HIDE DEF kept
        <3>5. After(rules, Begin, kept(n)) = StateAfter(rules, run[n - 1], s[n])
            BY <1>1, <2>1, <3>3, <3>4, BeginIs, AfterOne
        <3>6. QED
            BY <2>1, <2>2, <3>5
    <2>4. CASE n \notin S
        <3>1. S \cap 1..n = S \cap 1..(n - 1)
            BY <1>1, <2>4
        <3>2. kept(n) = kept(n - 1)
            BY <3>1
        <3>. HIDE DEF kept
        <3>3. StateAfter(rules, run[n - 1], s[n]) = run[n - 1]
            BY <1>1, <2>1, <2>4, IdleIs
        <3>4. QED
            BY <2>1, <2>2, <3>2, <3>3
    <2>5. QED
        BY <2>3, <2>4
<1>. HIDE DEF T
<1>6. \A n \in 0..N : n \in T
    BY <1>1, <1>4, <1>5, InductionUpTo
<1>7. N \in T /\ N \in 0..N
    BY <1>1, <1>6
<1>8. S \cap 1..N = S
    OBVIOUS
<1>9. QED
    BY <1>2, <1>3, <1>7, <1>8 DEF T

--------------------------------------------------------------------------------
(* Cleaning: the line that pieces make *)

AreSpoken(P, X) == \A p \in P : IsLine(p.line, X)

LEMMA NoLineIs == \A X : IsLine(NoLine, X)
<1>1. Listed(<<>>)
    BY EmptyIsListed
<1>2. QED
    BY <1>1 DEF NoLine, IsLine, LineFields

LEMMA ContinuedIs ==
    ASSUME NEW X, NEW line, IsLine(line, X), NEW piece, IsLine(piece.line, X)
    PROVE  /\ IsLine(Continued(line, piece), X)
           /\ Continued(line, piece).text = line.text \o piece.line.text
<1>. DEFINE new == Continued(line, piece)
            more == piece.line.text
            title == IF line.kind \in {"text", "clause", "point"} THEN line.title
                     ELSE line.title \o more
<1>1. /\ DOMAIN line = LineFields /\ Listed(line.title) /\ line.text \in Seq(X)
      /\ more \in Seq(X) /\ Listed(more)
    BY ListedSeq DEF IsLine
<1>. HIDE DEF more
<1>2. line.text \o more \in Seq(X)
    BY <1>1
<1>3. Listed(line.title \o more)
    BY <1>1, ConcatIs
<1>4. Listed(title)
    BY <1>1, <1>3
<1>5. DOMAIN new = LineFields /\ new.text = line.text \o more /\ new.title = title
    <2>1. /\ "text" \in LineFields /\ "title" \in LineFields /\ "names" \in LineFields
          /\ "titleLike" \in LineFields
        BY DEF LineFields
    <2>2. QED
        BY <1>1, <2>1 DEF Continued, more
<1>. HIDE DEF new, title
<1>6. IsLine(new, X)
    BY <1>2, <1>4, <1>5 DEF IsLine
<1>7. QED
    BY <1>5, <1>6 DEF new, more

LEMMA LineOfIs ==
    ASSUME NEW X, NEW P, AreSpoken(P, X), NEW line \in Seq(P), line # <<>>
    PROVE  /\ IsLine(LineOf(line), X)
           /\ \A k \in 1..Len(line) : Range(line[k].line.text) \subseteq Range(LineOf(line).text)
<1>. DEFINE N == Len(line) - 1
            start == line[1].line
            next(l, n) == Continued(l, line[n + 1])
            Runs(f, n) == f = [k \in 0..n |-> IF k = 0 THEN start ELSE next(f[k - 1], k)]
            T == {n \in 0..N : \E f : Runs(f, n)}
            after[n \in 0..N] == IF n = 0 THEN start ELSE next(after[n - 1], n)
<1>1. N \in Nat /\ \A n \in 0..N : n + 1 \in 1..Len(line) /\ line[n + 1] \in P
    OBVIOUS
<1>2. 0 \in T
    <2>. DEFINE f == [k \in 0..0 |-> start]
    <2>1. Runs(f, 0)
        OBVIOUS
    <2>. HIDE DEF f, Runs
    <2>2. QED
        BY <1>1, <2>1
<1>3. LineOf(line) = IF IsRow(line) THEN [NoLine EXCEPT !.kind = "table", !.text = after[N].text]
                     ELSE after[N]
    BY DEF LineOf
<1>4. start = line[0 + 1].line
    OBVIOUS
<1>. HIDE DEF N, next, start
<1>5. ASSUME NEW n \in 1..N, n - 1 \in T PROVE n \in T
    <2>1. PICK f : Runs(f, n - 1)
        BY <1>5
    <2>. DEFINE g == [k \in 0..n |-> IF k = n THEN next(f[n - 1], n) ELSE f[k]]
    <2>2. n \in Nat /\ n \in 0..N /\ n # 0
        BY <1>1
    <2>3. ASSUME NEW k \in 0..n PROVE g[k] = IF k = 0 THEN start ELSE next(g[k - 1], k)
        <3>1. CASE k = n
            <4>1. n - 1 \in 0..n /\ n - 1 # n
                BY <2>2
            <4>2. g[n - 1] = f[n - 1]
                BY <4>1
            <4>3. QED
                BY <2>2, <3>1, <4>2
        <3>2. CASE k # n
            <4>1. k \in 0..(n - 1)
                BY <2>2, <3>2
            <4>2. g[k] = f[k] /\ f[k] = IF k = 0 THEN start ELSE next(f[k - 1], k)
                BY <2>1, <3>2, <4>1
            <4>3. k # 0 => k - 1 \in 0..n /\ k - 1 # n
                BY <2>2, <4>1
            <4>4. k # 0 => g[k - 1] = f[k - 1]
                BY <4>3
            <4>5. QED
                BY <4>2, <4>4
        <3>3. QED
            BY <3>1, <3>2
    <2>4. g = [k \in 0..n |-> IF k = 0 THEN start ELSE next(g[k - 1], k)]
        <3>1. DOMAIN g = 0..n /\ g = [k \in 0..n |-> g[k]]
            OBVIOUS
        <3>. HIDE DEF g
        <3>2. QED
            BY <2>3, <3>1
    <2>5. Runs(g, n)
        BY <2>4
    <2>. HIDE DEF g, Runs
    <2>6. QED
        BY <2>2, <2>5
<1>6. N \in T
    <2>. HIDE DEF T
    <2>1. \A n \in 0..N : n \in T
        BY <1>1, <1>2, <1>5, InductionUpTo
    <2>2. QED
        BY <1>1, <2>1
<1>7. \E f : Runs(f, N)
    BY <1>6
<1>8. Runs(after, N)
    <2>. HIDE DEF Runs
    <2>1. after = CHOOSE f : Runs(f, N)
        BY DEF Runs
    <2>. HIDE DEF after
    <2>2. QED
        BY <1>7, <2>1
<1>. HIDE DEF after
<1>9. after[0] = start /\ \A n \in 1..N : after[n] = next(after[n - 1], n)
    <2>1. \A n \in 0..N : after[n] = IF n = 0 THEN start ELSE next(after[n - 1], n)
        BY <1>8
    <2>2. 0 \in 0..N /\ \A n \in 1..N : n \in 0..N /\ n # 0
        BY <1>1
    <2>3. QED
        BY <2>1, <2>2
<1>. DEFINE Holds(n) == \A k \in 0..n : Range(line[k + 1].line.text) \subseteq Range(after[n].text)
            U == {n \in 0..N : IsLine(after[n], X) /\ Holds(n)}
<1>10. 0 \in U
    <2>1. line[0 + 1] \in P /\ 0 \in 0..N
        BY <1>1
    <2>2. IsLine(after[0], X)
        BY <1>4, <1>9, <2>1 DEF AreSpoken
    <2>3. Holds(0)
        <3>1. \A k \in 0..0 : k = 0
            OBVIOUS
        <3>2. QED
            BY <1>4, <1>9, <3>1
    <2>. HIDE DEF Holds
    <2>4. QED
        BY <2>1, <2>2, <2>3
<1>11. ASSUME NEW n \in 1..N, n - 1 \in U PROVE n \in U
    <2>. DEFINE old == after[n - 1]
                piece == line[n + 1]
                new == after[n]
    <2>1. n \in 0..N /\ n \in Nat /\ piece \in P /\ IsLine(old, X) /\ Holds(n - 1)
        BY <1>1, <1>11
    <2>2. new = Continued(old, piece)
        BY <1>9 DEF next
    <2>3. IsLine(piece.line, X)
        BY <2>1 DEF AreSpoken
    <2>. HIDE DEF old, piece, new, Holds
    <2>4. IsLine(new, X) /\ new.text = old.text \o piece.line.text
        BY <2>1, <2>2, <2>3, ContinuedIs
    <2>5. Range(new.text) = Range(old.text) \cup Range(piece.line.text)
        <3>1. Listed(old.text) /\ Listed(piece.line.text)
            BY <2>1, <2>3, ListedSeq DEF IsLine
        <3>2. QED
            BY <2>4, <3>1, ConcatIs
    <2>6. Holds(n)
        <3>1. ASSUME NEW k \in 0..n
              PROVE  Range(line[k + 1].line.text) \subseteq Range(new.text)
            <4>1. k = n \/ k \in 0..(n - 1)
                BY <2>1
            <4>2. CASE k = n
                BY <2>5, <4>2 DEF piece
            <4>3. CASE k \in 0..(n - 1)
                <5>1. Range(line[k + 1].line.text) \subseteq Range(old.text)
                    BY <2>1, <4>3 DEF Holds, old
                <5>2. QED
                    BY <2>5, <5>1
            <4>4. QED
                BY <4>1, <4>2, <4>3
        <3>2. QED
            BY <3>1 DEF Holds, new
    <2>7. QED
        BY <2>1, <2>4, <2>6 DEF new
<1>12. N \in U
    <2>. HIDE DEF U
    <2>1. \A n \in 0..N : n \in U
        BY <1>1, <1>10, <1>11, InductionUpTo
    <2>2. QED
        BY <1>1, <2>1
<1>. DEFINE merged == after[N]
<1>13. IsLine(merged, X) /\ \A k \in 0..N : Range(line[k + 1].line.text) \subseteq Range(merged.text)
    BY <1>12
<1>. HIDE DEF merged
<1>14. IsLine(LineOf(line), X) /\ LineOf(line).text = merged.text
    <2>. DEFINE row == [NoLine EXCEPT !.kind = "table", !.text = merged.text]
    <2>1. DOMAIN row = LineFields /\ row.title = <<>> /\ row.text = merged.text
        BY DEF NoLine, LineFields
    <2>2. IsLine(row, X)
        BY <1>13, <2>1, EmptyIsListed DEF IsLine
    <2>3. LineOf(line) = IF IsRow(line) THEN row ELSE merged
        BY <1>3 DEF merged
    <2>. HIDE DEF row
    <2>4. QED
        BY <1>13, <2>1, <2>2, <2>3
<1>15. ASSUME NEW k \in 1..Len(line)
       PROVE  Range(line[k].line.text) \subseteq Range(LineOf(line).text)
    <2>1. k - 1 \in 0..N /\ (k - 1) + 1 = k
        BY <1>1 DEF N
    <2>2. Range(line[(k - 1) + 1].line.text) \subseteq Range(merged.text)
        BY <1>13, <2>1
    <2>3. QED
        BY <1>14, <2>1, <2>2
<1>16. QED
    BY <1>14, <1>15

\* What is neither a bar nor of any text is left out of a line.
LEMMA SpokenIs ==
    ASSUME NEW P, NEW line \in Seq(P)
    PROVE  /\ Spoken(line) \in Seq(P)
           /\ \A p \in Range(line) : p.line # NoLine => p \in Range(Spoken(line))
<1>. DEFINE S == {i \in DOMAIN line : line[i].kind = "bar" \/ line[i].line # NoLine}
<1>1. Listed(line) /\ S \in SUBSET DOMAIN line /\ \A i \in DOMAIN line : line[i] \in P
    BY ListedSeq DEF Listed
<1>2. \A i \in DOMAIN line : line[i].line # NoLine => i \in S
    OBVIOUS
<1>3. Spoken(line) = At(line, S)
    BY DEF Spoken
<1>. HIDE DEF S
<1>4. \A i \in S : line[i] \in P
    BY <1>1
<1>. DEFINE kept == At(line, S)
<1>5. /\ kept \in Seq(P)
      /\ \A i \in S : \E k \in DOMAIN kept : kept[k] = line[i]
    BY <1>1, <1>4, AtKeeps
<1>. HIDE DEF kept
<1>6. ASSUME NEW p \in Range(line), p.line # NoLine PROVE p \in Range(kept)
    <2>1. PICK i \in DOMAIN line : p = line[i]
        BY DEF Range
    <2>2. i \in S
        BY <1>2, <1>6, <2>1
    <2>3. QED
        BY <1>5, <2>1, <2>2 DEF Range
<1>7. QED
    BY <1>3, <1>5, <1>6 DEF kept

\* The lines of a text hold every token of its pieces.
HoldTokens(lines, s) ==
    \A p \in Range(s) : p.kind = "text" =>
        \A t \in Range(p.line.text) : \E i \in 1..Len(lines) : t \in Range(lines[i].text)

LEMMA NormalizeTextIs ==
    ASSUME NEW X, NEW P, Known(P), AreSpoken(P, X), NEW s \in Seq(P)
    PROVE  AreLines(NormalizeText(s), X) /\ HoldTokens(NormalizeText(s), s)
<1>. DEFINE lines == SplitLines(s)
            spoken == [i \in DOMAIN lines |-> Spoken(lines[i])]
            S == {i \in DOMAIN spoken : spoken[i] # <<>>}
            full == At(spoken, S)
            made == [i \in DOMAIN full |-> LineOf(full[i])]
<1>1. NormalizeText(s) = made
    BY DEF NormalizeText
<1>2. /\ Lists(P, lines)
      /\ \A p \in Range(s) : p.kind # "newline" => \E i \in 1..Len(lines) : p \in Range(lines[i])
    BY SplitLinesAre
<1>. HIDE DEF lines
<1>3. /\ Len(lines) \in Nat /\ DOMAIN lines = 1..Len(lines)
      /\ \A i \in 1..Len(lines) : lines[i] \in Seq(P)
    BY <1>2 DEF Lists, Listed
<1>4. /\ \A i \in 1..Len(lines) : spoken[i] = Spoken(lines[i])
      /\ spoken = [i \in 1..Len(lines) |-> spoken[i]]
    BY <1>3
<1>. HIDE DEF spoken
<1>5. Listed(spoken) /\ Len(spoken) = Len(lines) /\ DOMAIN spoken = 1..Len(lines)
    BY <1>3, <1>4, ListedIs DEF Listed
<1>6. ASSUME NEW i \in 1..Len(lines)
      PROVE  /\ spoken[i] \in Seq(P)
             /\ \A p \in Range(lines[i]) : p.line # NoLine => p \in Range(spoken[i])
    BY <1>3, <1>4, SpokenIs
<1>. DEFINE V == {v \in Seq(P) : v # <<>>}
<1>7. S \in SUBSET DOMAIN spoken /\ \A i \in S : spoken[i] \in V
    BY <1>5, <1>6
<1>8. \A i \in 1..Len(lines) : spoken[i] # <<>> => i \in S
    BY <1>5
<1>. HIDE DEF S, V
<1>9. /\ full \in Seq(V) /\ Listed(full)
      /\ \A i \in S : \E k \in DOMAIN full : full[k] = spoken[i]
    BY <1>5, <1>7, AtKeeps
<1>. HIDE DEF full
<1>10. /\ DOMAIN full = 1..Len(full) /\ Len(full) \in Nat
       /\ \A k \in 1..Len(full) : full[k] \in Seq(P) /\ full[k] # <<>>
    <2>1. \A k \in 1..Len(full) : full[k] \in V
        BY <1>9
    <2>2. QED
        BY <1>9, <2>1 DEF Listed, V
<1>11. /\ \A k \in 1..Len(full) : made[k] = LineOf(full[k])
       /\ made = [k \in 1..Len(full) |-> made[k]]
    BY <1>10
<1>. HIDE DEF made
<1>12. Listed(made) /\ Len(made) = Len(full)
    BY <1>10, <1>11, ListedIs
<1>13. ASSUME NEW k \in 1..Len(full)
       PROVE  /\ IsLine(made[k], X)
              /\ \A m \in 1..Len(full[k]) :
                    Range(full[k][m].line.text) \subseteq Range(made[k].text)
    BY <1>10, <1>11, LineOfIs
<1>14. AreLines(made, X)
    BY <1>12, <1>13 DEF AreLines
<1>15. ASSUME NEW p \in Range(s), p.kind = "text", NEW t \in Range(p.line.text)
       PROVE  \E i \in 1..Len(made) : t \in Range(made[i].text)
    <2>1. PICK i \in 1..Len(lines) : p \in Range(lines[i])
        BY <1>2, <1>15
    <2>2. p.line # NoLine
        <3>1. NoLine.text = <<>> /\ Range(<<>>) = {}
            <4>1. DOMAIN <<>> = {}
                BY EmptyIsListed DEF Listed
            <4>2. QED
                BY <4>1 DEF NoLine, Range
        <3>2. QED
            BY <1>15, <3>1
    <2>3. p \in Range(spoken[i])
        BY <1>6, <2>1, <2>2
    <2>4. spoken[i] # <<>>
        <3>1. DOMAIN <<>> = {}
            BY EmptyIsListed DEF Listed
        <3>2. QED
            BY <2>3, <3>1 DEF Range
    <2>5. PICK k \in 1..Len(full) : full[k] = spoken[i]
        BY <1>8, <1>9, <1>10, <2>4
    <2>6. PICK m \in 1..Len(full[k]) : full[k][m] = p
        <3>1. DOMAIN full[k] = 1..Len(full[k])
            BY <1>10
        <3>2. QED
            BY <2>3, <2>5, <3>1 DEF Range
    <2>7. t \in Range(made[k].text)
        BY <1>13, <1>15, <2>6
    <2>8. QED
        BY <1>12, <2>7
<1>16. HoldTokens(made, s)
    BY <1>15 DEF HoldTokens
<1>17. QED
    BY <1>1, <1>14, <1>16

--------------------------------------------------------------------------------
(* Cleaning: from a source to its lines *)

LEMMA JoinIs ==
    ASSUME NEW P, Known(P), NEW lines, Lists(P, lines)
    PROVE  /\ JoinLines(lines) \in Seq(P)
           /\ \A i \in 1..Len(lines) : Range(lines[i]) \subseteq Range(JoinLines(lines))
<1>1. JoinLines(lines) \in Seq(P)
    <2>1. <<>> \in Seq(P)
        OBVIOUS
    <2>2. QED
        BY <2>1, JoinOne
<1>2. /\ Lists(P, Ended(lines)) /\ Len(Ended(lines)) = Len(lines)
      /\ \A i \in 1..Len(lines) : Ended(lines)[i] = Append(lines[i], NewLine)
    BY EndedIs
<1>3. JoinLines(lines) = Flat(Ended(lines))
    BY DEF JoinLines, Ended
<1>4. Listed(Ended(lines)) /\ \A i \in 1..Len(Ended(lines)) : Ended(lines)[i] \in Seq(P)
    BY <1>2 DEF Lists
<1>5. \A p : p \in Range(Flat(Ended(lines)))
                 <=> \E i \in 1..Len(Ended(lines)) : p \in Range(Ended(lines)[i])
    BY <1>4, FlatIs
<1>6. ASSUME NEW i \in 1..Len(lines) PROVE Range(lines[i]) \subseteq Range(JoinLines(lines))
    <2>1. lines[i] \in Seq(P) /\ NewLine \in P
        BY DEF Lists, Known
    <2>2. Range(lines[i]) \subseteq Range(Append(lines[i], NewLine))
        BY <2>1, RangeAppend
    <2>3. QED
        BY <1>2, <1>3, <1>5, <2>2
<1>7. QED
    BY <1>1, <1>6

\* A label of a page is a line without a text.
LEMMA LabelsHoldNoText ==
    ASSUME NEW P, Known(P), NEW lines, Lists(P, lines)
    PROVE  LET left == RemoveAuditedWebUiLines(lines)
           IN  /\ Lists(P, left)
               /\ \A i \in 1..Len(lines) : \A p \in Range(lines[i]) : p.kind = "text" =>
                      \E k \in 1..Len(left) : p \in Range(left[k])
<1>. DEFINE S == {i \in DOMAIN lines : ~(Len(lines[i]) = 1 /\ lines[i][1].kind = "label")}
            left == At(lines, S)
<1>1. RemoveAuditedWebUiLines(lines) = left
    BY DEF RemoveAuditedWebUiLines
<1>2. /\ Listed(lines) /\ Len(lines) \in Nat /\ DOMAIN lines = 1..Len(lines)
      /\ \A i \in 1..Len(lines) : lines[i] \in Seq(P)
    BY DEF Lists, Listed
<1>3. S \in SUBSET DOMAIN lines
    OBVIOUS
<1>4. ASSUME NEW i \in 1..Len(lines), NEW p \in Range(lines[i]), p.kind = "text" PROVE i \in S
    <2>1. SUFFICES ASSUME Len(lines[i]) = 1, lines[i][1].kind = "label" PROVE FALSE
        BY <1>2
    <2>2. DOMAIN lines[i] = 1..Len(lines[i])
        BY <1>2
    <2>3. PICK k \in 1..Len(lines[i]) : p = lines[i][k]
        BY <2>2 DEF Range
    <2>4. k = 1
        BY <2>1
    <2>5. QED
        BY <1>4, <2>1, <2>3, <2>4
<1>. HIDE DEF S
<1>. DEFINE V == Seq(P)
<1>5. \A i \in S : lines[i] \in V
    BY <1>2, <1>3
<1>. HIDE DEF V
<1>6. /\ left \in Seq(V) /\ Listed(left)
      /\ \A i \in S : \E k \in DOMAIN left : left[k] = lines[i]
    BY <1>2, <1>3, <1>5, AtKeeps
<1>. HIDE DEF left
<1>7. Lists(P, left) /\ DOMAIN left = 1..Len(left)
    <2>1. \A k \in 1..Len(left) : left[k] \in V
        BY <1>6
    <2>2. QED
        BY <1>6, <2>1 DEF Lists, Listed, V
<1>8. ASSUME NEW i \in 1..Len(lines), NEW p \in Range(lines[i]), p.kind = "text"
      PROVE  \E k \in 1..Len(left) : p \in Range(left[k])
    <2>1. PICK k \in DOMAIN left : left[k] = lines[i]
        BY <1>4, <1>6, <1>8
    <2>2. QED
        BY <1>7, <1>8, <2>1
<1>9. QED
    BY <1>1, <1>7, <1>8

\* What becomes of a source before it is made lines.
PassageText(pieces) ==
    LET lines == NoticeFree(pieces)
        kept == RemoveNakedScript(lines)
        visible == RemoveKnownMarkup(JoinLines(kept))
    IN  IF kept = lines THEN visible ELSE JoinLines(RemoveAuditedWebUiLines(SplitLines(visible)))
TextLeft(document) ==
    IF document.cleaner = "html" THEN VisibleParts(HtmlRules, document.source)
    ELSE PassageText(document.source)

LEMMA CleanedIsNormalized ==
    \A document : CleanedLines(document) = NormalizeText(TextLeft(document))
BY DEF CleanedLines, CleanHtml, CleanPassage, CleanedPassage, TextLeft, PassageText

LEMMA NoticeFreeIs ==
    ASSUME NEW P, Known(P), NEW pieces \in Seq(P)
    PROVE  /\ Lists(P, NoticeFree(pieces))
           /\ \A rules : After(rules, Begin, JoinLines(NoticeFree(pieces)))
                             = After(rules, Begin, pieces)
<1>. DEFINE S == {i \in DOMAIN pieces : pieces[i].kind # "notice"}
            left == At(pieces, S)
<1>1. /\ S \in SUBSET (1..Len(pieces))
      /\ \A i \in 1..Len(pieces) : i \in S \/ IsIdle(pieces[i])
    BY DEF IsIdle
<1>2. NoticeFree(pieces) = SplitLines(left)
    BY DEF NoticeFree
<1>. HIDE DEF S
<1>3. left \in Seq(P) /\ \A rules : After(rules, Begin, left) = After(rules, Begin, pieces)
    BY <1>1, IdleLeftOut
<1>. HIDE DEF left
<1>4. QED
    BY <1>2, <1>3, SplitLinesAre

\* The passage cleaner leaves every text read at depth 0 when scripts are code.
LEMMA PassageTextIs ==
    ASSUME NEW P, Known(P), NEW pieces \in Seq(P)
    PROVE  /\ PassageText(pieces) \in Seq(P)
           /\ ScriptsAreCode(NoticeFree(pieces)) =>
                 \A p \in After(PassageRules, Begin, pieces).seen :
                     p.kind = "text" => p \in Range(PassageText(pieces))
<1>. DEFINE lines == NoticeFree(pieces)
            kept == RemoveNakedScript(lines)
            visible == RemoveKnownMarkup(JoinLines(kept))
            split == SplitLines(visible)
            left == RemoveAuditedWebUiLines(split)
<1>1. /\ Lists(P, lines)
      /\ \A rules : After(rules, Begin, JoinLines(lines)) = After(rules, Begin, pieces)
    BY NoticeFreeIs
<1>2. PassageText(pieces) = IF kept = lines THEN visible ELSE JoinLines(left)
    BY DEF PassageText
<1>. HIDE DEF lines
<1>3. /\ Lists(P, kept)
      /\ ScriptsAreCode(lines) => \A rules : After(rules, Begin, JoinLines(kept))
                                                 = After(rules, Begin, JoinLines(lines))
    BY <1>1, RemoveNakedScriptIs
<1>. HIDE DEF kept
<1>4. JoinLines(kept) \in Seq(P)
    BY <1>3, JoinIs
<1>5. /\ visible \in Seq(P)
      /\ After(PassageRules, Begin, JoinLines(kept)).seen \subseteq Range(visible)
    BY <1>4, RemoveKnownMarkupIs
<1>. HIDE DEF visible
<1>6. /\ Lists(P, split)
      /\ \A p \in Range(visible) : p.kind # "newline" =>
            \E i \in 1..Len(split) : p \in Range(split[i])
    BY <1>5, SplitLinesAre
<1>. HIDE DEF split
<1>7. /\ Lists(P, left)
      /\ \A i \in 1..Len(split) : \A p \in Range(split[i]) : p.kind = "text" =>
            \E k \in 1..Len(left) : p \in Range(left[k])
    BY <1>6, LabelsHoldNoText
<1>. HIDE DEF left
<1>8. /\ JoinLines(left) \in Seq(P)
      /\ \A k \in 1..Len(left) : Range(left[k]) \subseteq Range(JoinLines(left))
    BY <1>7, JoinIs
<1>9. PassageText(pieces) \in Seq(P)
    BY <1>2, <1>5, <1>8
<1>10. ASSUME ScriptsAreCode(lines), NEW p \in After(PassageRules, Begin, pieces).seen,
              p.kind = "text"
       PROVE  p \in Range(PassageText(pieces))
    <2>1. p \in Range(visible)
        BY <1>1, <1>3, <1>5, <1>10
    <2>2. p \in Range(JoinLines(left))
        <3>1. PICK i \in 1..Len(split) : p \in Range(split[i])
            BY <1>6, <1>10, <2>1
        <3>2. PICK k \in 1..Len(left) : p \in Range(left[k])
            BY <1>7, <1>10, <3>1
        <3>3. QED
            BY <1>8, <3>2
    <2>3. QED
        BY <1>2, <2>1, <2>2
<1>11. QED
    BY <1>9, <1>10 DEF lines

\* The pieces a cleaner may meet, and the words in them.
PiecesOf(source) == Range(source) \cup {NewLine, CellBar}
WordsOf(source) == UNION {Range(p.line.text) : p \in PiecesOf(source)}

LEMMA PiecesAreSpoken ==
    ASSUME NEW source, Listed(source), \A i \in 1..Len(source) : \E X : IsLine(source[i].line, X)
    PROVE  /\ Known(PiecesOf(source)) /\ source \in Seq(PiecesOf(source))
           /\ AreSpoken(PiecesOf(source), WordsOf(source))
<1>. DEFINE P == PiecesOf(source)
            W == WordsOf(source)
<1>1. Known(P)
    BY DEF Known, PiecesOf
<1>2. source \in Seq(P)
    <2>1. source \in Seq(Range(source)) /\ Range(source) \subseteq P
        BY DEF Listed, PiecesOf
    <2>. HIDE DEF P
    <2>2. QED
        BY <2>1
<1>3. ASSUME NEW p \in P PROVE IsLine(p.line, W)
    <2>1. PICK X : IsLine(p.line, X)
        <3>1. CASE p \in Range(source)
            <4>1. PICK i \in 1..Len(source) : p = source[i]
                BY <3>1 DEF Range, Listed
            <4>2. QED
                BY <4>1
        <3>2. CASE p \in {NewLine, CellBar}
            <4>1. p.line = NoLine
                BY <3>2 DEF NewLine, CellBar, Piece
            <4>2. QED
                BY <4>1, NoLineIs
        <3>3. QED
            BY <3>1, <3>2 DEF PiecesOf
    <2>2. Listed(p.line.text)
        BY <2>1, ListedSeq DEF IsLine
    <2>3. Range(p.line.text) \subseteq W
        BY DEF WordsOf
    <2>. HIDE DEF W
    <2>4. p.line.text \in Seq(W)
        BY <2>2, <2>3 DEF Listed
    <2>5. QED
        BY <2>1, <2>4 DEF IsLine
<1>4. QED
    BY <1>1, <1>2, <1>3 DEF AreSpoken

\* A cleaner makes lines, which hold every visible word of a clear document.
LEMMA CleanedLinesAre ==
    ASSUME NEW document, Listed(document.source),
           \A i \in 1..Len(document.source) : \E X : IsLine(document.source[i].line, X)
    PROVE  LET lines == CleanedLines(document)
               source == document.source
           IN  /\ AreLines(lines, WordsOf(source))
               /\ /\ EndsTogether(source, RulesOf(document))
                  /\ document.cleaner = "html" \/ ScriptsAreCode(NoticeFree(source))
                  => \A t \in LegalTokens(document) :
                         \E i \in 1..Len(lines) : t \in Range(lines[i].text)
<1>. DEFINE source == document.source
            rules == RulesOf(document)
            P == PiecesOf(source)
            W == WordsOf(source)
            left == TextLeft(document)
            lines == CleanedLines(document)
            clear == /\ EndsTogether(source, rules)
                     /\ document.cleaner = "html" \/ ScriptsAreCode(NoticeFree(source))
<1>1. Known(P) /\ source \in Seq(P) /\ AreSpoken(P, W)
    BY PiecesAreSpoken
<1>. HIDE DEF P, W
<1>2. /\ left \in Seq(P)
      /\ clear => \A p \in After(rules, Begin, source).seen :
                      p.kind = "text" => p \in Range(left)
    <2>1. CASE document.cleaner = "html"
        <3>1. left = VisibleParts(HtmlRules, source) /\ rules = HtmlRules
            BY <2>1 DEF TextLeft, RulesOf
        <3>2. QED
            BY <1>1, <3>1, VisiblePartsAre
    <2>2. CASE document.cleaner # "html"
        <3>1. left = PassageText(source) /\ rules = PassageRules
            BY <2>2 DEF TextLeft, RulesOf
        <3>2. clear => ScriptsAreCode(NoticeFree(source))
            BY <2>2
        <3>3. QED
            BY <1>1, <3>1, <3>2, PassageTextIs
    <2>3. QED
        BY <2>1, <2>2
<1>3. lines = NormalizeText(left)
    BY CleanedIsNormalized
<1>. HIDE DEF left
<1>4. AreLines(lines, W) /\ HoldTokens(lines, left)
    BY <1>1, <1>2, <1>3, NormalizeTextIs
<1>. HIDE DEF lines
<1>5. ASSUME clear, NEW t \in LegalTokens(document)
      PROVE  \E i \in 1..Len(lines) : t \in Range(lines[i].text)
    <2>1. LegalTokens(document) = VisibleTokens(source, rules)
        BY DEF LegalTokens
    <2>2. PICK i \in DOMAIN source : /\ source[i].kind = "text" /\ ~IsHidden(source, i, rules)
                                     /\ t \in ToSet(source[i].line.text)
        BY <1>5, <2>1 DEF VisibleTokens
    <2>. HIDE DEF rules
    <2>3. i \in 1..Len(source) /\ source[i] \in P
        BY <1>1, <2>2
    <2>4. source[i] \in After(rules, Begin, source).seen
        BY <1>1, <1>5, <2>2, <2>3, VisibleIsSeen
    <2>5. source[i] \in Range(left)
        BY <1>2, <1>5, <2>2, <2>4
    <2>6. t \in Range(source[i].line.text)
        BY <2>2 DEF ToSet, Range
    <2>7. QED
        BY <1>4, <2>2, <2>5, <2>6 DEF HoldTokens
<1>6. QED
    BY <1>4, <1>5 DEF W, lines
================================================================================
