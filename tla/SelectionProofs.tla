-------------------------- MODULE SelectionProofs --------------------------
(***************************************************************************)
(* The n-th of a set of indices: there is one for each n up to their       *)
(* number, in order.  From this follows that there is a least and a        *)
(* greatest one, and from the least one induction over a set of numbers.   *)
(***************************************************************************)
EXTENDS Selection, FiniteSetsExt, FiniteSetTheorems, SequenceTheorems, TLAPS

\* Indices are finitely many, and those up to k are no more than k and than all.
LEMMA RankType ==
  ASSUME NEW m \in Nat, NEW I \in SUBSET (1 .. m), NEW k \in Nat
  PROVE  /\ IsFiniteSet(I) /\ Cardinality(I) \in 0 .. m /\ Cardinality(I) \in Nat
         /\ I \subseteq Nat \ {0}
         /\ Rank(I, k) \in 0 .. Cardinality(I) /\ Rank(I, k) <= k
<1>1. IsFiniteSet(1 .. m) /\ Cardinality(1 .. m) = m
  BY FS_Interval
<1>2. IsFiniteSet(I) /\ Cardinality(I) \in Nat /\ Cardinality(I) <= m
  BY <1>1, FS_Subset, FS_CardinalityType
<1> DEFINE J == {j \in I : j <= k}
<1>3. IsFiniteSet(J) /\ Cardinality(J) \in Nat /\ Cardinality(J) <= Cardinality(I)
  BY <1>2, FS_Subset, FS_CardinalityType
<1>4. IsFiniteSet(1 .. k) /\ Cardinality(1 .. k) = k
  BY FS_Interval
<1>5. J \in SUBSET (1 .. k)
  <2>1. \A j \in 1 .. m : j <= k => j \in 1 .. k
    OBVIOUS
  <2>. QED
    BY <2>1
<1>6. Cardinality(J) <= k
  BY <1>4, <1>5, FS_Subset
<1>. QED
  BY <1>2, <1>3, <1>6 DEF Rank

\* An index has a higher rank than whatever comes before it.
LEMMA RankGrows ==
  ASSUME NEW m \in Nat, NEW I \in SUBSET (1 .. m), NEW k \in Nat, NEW l \in I, k < l
  PROVE  Rank(I, k) + 1 <= Rank(I, l)
<1> DEFINE J == {j \in I : j <= k}
<1> DEFINE L == {j \in I : j <= l}
<1>1. IsFiniteSet(I) /\ I \subseteq Nat /\ l \in Nat
  BY RankType
<1>2. IsFiniteSet(J) /\ IsFiniteSet(L)
  BY <1>1, FS_Subset
<1>3. l \notin J /\ J \cup {l} \in SUBSET L
  <2>1. ~(l <= k) /\ l <= l /\ \A j \in I : j <= k => j <= l
    BY <1>1
  <2>. QED
    BY <2>1
<1>4. Cardinality(J \cup {l}) = Cardinality(J) + 1
  BY <1>2, <1>3, FS_AddElement
<1>5. Cardinality(J \cup {l}) <= Cardinality(L)
  BY <1>2, <1>3, FS_Subset
<1>. QED
  BY <1>4, <1>5 DEF Rank

\* Each number up to that of the indices is the rank of one of them.
LEMMA NthIsThere ==
  ASSUME NEW m \in Nat, NEW I \in SUBSET (1 .. m), NEW n \in 1 .. Cardinality(I)
  PROVE  Nth(I, n) \in I /\ Rank(I, Nth(I, n)) = n
<1> DEFINE N == Cardinality(I)
<1> DEFINE f == [k \in I |-> Rank(I, k)]
<1>1. IsFiniteSet(I) /\ N \in Nat /\ I \subseteq Nat \ {0}
  BY RankType
<1>2. \A k \in I : Rank(I, k) \in 1 .. N
  <2> SUFFICES ASSUME NEW k \in I PROVE Rank(I, k) \in 1 .. N
    OBVIOUS
  <2>1. k \in Nat /\ k - 1 \in Nat /\ k - 1 < k
    BY <1>1
  <2>2. Rank(I, k - 1) \in 0 .. N /\ Rank(I, k) \in 0 .. N
    BY <2>1, RankType
  <2>3. Rank(I, k - 1) + 1 <= Rank(I, k)
    BY <2>1, RankGrows
  <2>. QED
    BY <2>2, <2>3, <1>1
<1>3. f \in [I -> 1 .. N]
  BY <1>2
<1>4. \A k, l \in I : f[k] = f[l] => k = l
  <2> SUFFICES ASSUME NEW k \in I, NEW l \in I, k < l PROVE f[k] # f[l]
    BY <1>1
  <2>1. Rank(I, k) \in Nat /\ Rank(I, l) \in Nat
    BY <1>1, <1>2
  <2>2. Rank(I, k) + 1 <= Rank(I, l)
    BY <1>1, RankGrows
  <2>. QED
    BY <2>1, <2>2
<1>5. IsFiniteSet(1 .. N) /\ Cardinality(1 .. N) = N
  BY <1>1, FS_Interval
<1>6. f \in Injection(I, 1 .. N)
  BY <1>3, <1>4 DEF Injection, IsInjective
<1>7. f \in Surjection(I, 1 .. N)
  BY <1>1, <1>5, <1>6, FS_Injection
<1>8. \E k \in I : Rank(I, k) = n
  BY <1>7 DEF Surjection
<1>. QED
  BY <1>8 DEF Nth

\* The n-th is what has the rank n.
LEMMA NthOfRank ==
  ASSUME NEW m \in Nat, NEW I \in SUBSET (1 .. m), NEW k \in I
  PROVE  Rank(I, k) \in 1 .. Cardinality(I) /\ Nth(I, Rank(I, k)) = k
<1>1. Cardinality(I) \in Nat /\ I \subseteq Nat \ {0}
  BY RankType
<1>2. k \in Nat /\ k - 1 \in Nat /\ k - 1 < k
  BY <1>1
<1>3. Rank(I, k - 1) \in 0 .. Cardinality(I) /\ Rank(I, k) \in 0 .. Cardinality(I)
  BY <1>2, RankType
<1>4. Rank(I, k) \in 1 .. Cardinality(I)
  <2>1. Rank(I, k - 1) + 1 <= Rank(I, k)
    BY <1>2, RankGrows
  <2>. QED
    BY <1>1, <1>3, <2>1
<1> DEFINE l == Nth(I, Rank(I, k))
<1>5. l \in I /\ Rank(I, l) = Rank(I, k)
  BY <1>4, NthIsThere
<1> HIDE DEF l
<1>6. l \in Nat
  BY <1>1, <1>5
<1>7. ~(l < k)
  <2>1. l < k => Rank(I, l) + 1 <= Rank(I, k)
    BY <1>6, RankGrows
  <2>. QED
    BY <2>1, <1>3, <1>5
<1>8. ~(k < l)
  <2>1. k < l => Rank(I, k) + 1 <= Rank(I, l)
    BY <1>2, <1>5, RankGrows
  <2>. QED
    BY <2>1, <1>3, <1>5
<1>9. l = k
  BY <1>2, <1>6, <1>7, <1>8
<1>. QED
  BY <1>4, <1>9 DEF l

\* The n-th come in order.
LEMMA NthGrows ==
  ASSUME NEW m \in Nat, NEW I \in SUBSET (1 .. m),
         NEW n \in 1 .. Cardinality(I), NEW o \in 1 .. Cardinality(I), n < o
  PROVE  Nth(I, n) < Nth(I, o)
<1> DEFINE k == Nth(I, n)
<1> DEFINE l == Nth(I, o)
<1>1. k \in I /\ l \in I /\ Rank(I, k) = n /\ Rank(I, l) = o
  BY NthIsThere
<1> HIDE DEF k, l
<1>2. k \in Nat /\ l \in Nat /\ k # l
  BY <1>1, RankType
<1>3. ~(l < k)
  <2>1. l < k => Rank(I, l) + 1 <= Rank(I, k)
    BY <1>1, <1>2, RankGrows
  <2>. QED
    BY <2>1, <1>1
<1>4. k < l
  BY <1>2, <1>3
<1>. QED
  BY <1>4 DEF k, l

\* Of the first n numbers the k-th is k.
LEMMA NthOfAll ==
  ASSUME NEW n \in Nat, NEW k \in 1 .. n
  PROVE  Rank(1 .. n, k) = k /\ Nth(1 .. n, k) = k
<1>1. {j \in 1 .. n : j <= k} = 1 .. k
  OBVIOUS
<1>2. Rank(1 .. n, k) = k
  <2>1. Cardinality(1 .. k) = k
    BY FS_Interval
  <2>. QED
    BY <1>1, <2>1 DEF Rank
<1>3. Nth(1 .. n, Rank(1 .. n, k)) = k
  BY NthOfRank
<1>. QED
  BY <1>2, <1>3

\* Behind an index there are no more of the indices than there are numbers.
LEMMA FromTheEnd ==
  ASSUME NEW m \in Nat, NEW I \in SUBSET (1 .. m), NEW k \in I
  PROVE  Cardinality(I) - Rank(I, k) <= m - k
<1> DEFINE J == {j \in I : j <= k}
           L == {j \in I : j > k}
<1>1. IsFiniteSet(I) /\ Cardinality(I) \in Nat /\ I \subseteq Nat \ {0} /\ k \in 1 .. m
  BY RankType
<1>2. J \cup L = I /\ J \cap L = {}
  <2>1. \A j \in I : (j <= k \/ j > k) /\ ~(j <= k /\ j > k)
    BY <1>1
  <2>. QED
    BY <2>1
<1>3. /\ IsFiniteSet(J) /\ Cardinality(J) \in Nat
      /\ IsFiniteSet(L) /\ Cardinality(L) \in Nat
  BY <1>1, FS_Subset, FS_CardinalityType
<1>4. Cardinality(I) = Cardinality(J) + Cardinality(L)
  <2>1. Cardinality(J \cup L) = Cardinality(J) + Cardinality(L) - Cardinality(J \cap L)
    BY <1>3, FS_Union
  <2>2. Cardinality(J \cap L) = 0
    BY <1>2, FS_EmptySet
  <2>. QED
    BY <2>1, <2>2, <1>2, <1>3
<1>5. Cardinality(L) <= m - k
  <2>1. L \in SUBSET (k + 1 .. m)
    <3>1. \A j \in I : j > k => j \in k + 1 .. m
      BY <1>1
    <3>. QED
      BY <3>1
  <2>2. IsFiniteSet(k + 1 .. m) /\ Cardinality(k + 1 .. m) = m - k
    <3>1. k \in Nat /\ k <= m /\ k + 1 \in Int /\ m \in Int
      BY <1>1
    <3>2. /\ IsFiniteSet(k + 1 .. m)
          /\ Cardinality(k + 1 .. m) = IF k + 1 > m THEN 0 ELSE m - (k + 1) + 1
      BY <3>1, FS_Interval
    <3>. QED
      BY <3>1, <3>2
  <2>. QED
    BY <2>1, <2>2, FS_Subset
<1>. QED
  BY <1>1, <1>3, <1>4, <1>5 DEF Rank

\* What is picked is there, at its rank, no further from the end than it was.
LEMMA PickedType ==
  ASSUME NEW S, NEW s \in Seq(S), NEW I \in SUBSET (1 .. Len(s)),
         NEW T, \A k \in I : s[k] \in T
  PROVE  /\ Picked(s, I) \in Seq(T) /\ Len(Picked(s, I)) = Cardinality(I)
         /\ Cardinality(I) \in Nat
         /\ \A k \in I : /\ Rank(I, k) \in 1 .. Cardinality(I)
                         /\ Picked(s, I)[Rank(I, k)] = s[k]
                         /\ Cardinality(I) - Rank(I, k) <= Len(s) - k
<1>1. Len(s) \in Nat
  BY LenProperties
<1>2. Cardinality(I) \in Nat
  BY <1>1, RankType
<1>3. \A n \in 1 .. Cardinality(I) : Nth(I, n) \in I
  BY <1>1, NthIsThere
<1>4. Picked(s, I) \in [1 .. Cardinality(I) -> T]
  BY <1>3 DEF Picked
<1>5. Picked(s, I) \in Seq(T) /\ Len(Picked(s, I)) = Cardinality(I)
  BY <1>2, <1>4, SeqDef, LenProperties
<1>6. ASSUME NEW k \in I
      PROVE  /\ Rank(I, k) \in 1 .. Cardinality(I)
             /\ Picked(s, I)[Rank(I, k)] = s[k]
             /\ Cardinality(I) - Rank(I, k) <= Len(s) - k
  <2>1. Rank(I, k) \in 1 .. Cardinality(I) /\ Nth(I, Rank(I, k)) = k
    BY <1>1, NthOfRank
  <2>2. Picked(s, I)[Rank(I, k)] = s[k]
    BY <2>1 DEF Picked
  <2>3. Cardinality(I) - Rank(I, k) <= Len(s) - k
    BY <1>1, FromTheEnd
  <2>. QED
    BY <2>1, <2>2, <2>3
<1>. QED
  BY <1>2, <1>5, <1>6

\* Who picks all has all.
LEMMA PickedAll ==
  ASSUME NEW S, NEW s \in Seq(S)
  PROVE  Picked(s, 1 .. Len(s)) = s
<1>1. Len(s) \in Nat /\ s \in [1 .. Len(s) -> S]
  BY LenProperties
<1>2. Cardinality(1 .. Len(s)) = Len(s)
  BY <1>1, FS_Interval
<1>3. \A n \in 1 .. Len(s) : Nth(1 .. Len(s), n) = n
  BY <1>1, NthOfAll
<1>. QED
  BY <1>1, <1>2, <1>3 DEF Picked

---------------------------------------------------------------------------
(* The least and the greatest of some indices, and induction over them     *)

\* The least of some indices is one of them.
LEMMA MinIsThere ==
  ASSUME NEW I \in SUBSET (Nat \ {0}), I # {}
  PROVE  Min(I) \in I /\ \A k \in I : Min(I) <= k
<1>1. PICK m \in I : TRUE
  OBVIOUS
<1> DEFINE J == {j \in I : j <= m}
           n == Nth(J, 1)
<1>2. m \in Nat /\ J \in SUBSET (1 .. m) /\ m \in J
  <2>1. m \in Nat /\ m <= m /\ \A j \in I : j <= m => j \in 1 .. m
    BY <1>1
  <2>. QED
    BY <2>1, <1>1
<1> HIDE DEF J
<1>3. 1 \in 1 .. Cardinality(J)
  <2>1. Rank(J, m) \in 1 .. Cardinality(J) /\ Cardinality(J) \in Nat
    BY <1>2, RankType, NthOfRank
  <2>. QED
    BY <2>1
<1>4. n \in J /\ Rank(J, n) = 1
  BY <1>2, <1>3, NthIsThere
<1> HIDE DEF n
<1>5. \A j \in J : n <= j
  <2> SUFFICES ASSUME NEW j \in J, j < n PROVE FALSE
    BY <1>2, <1>4
  <2>1. j \in Nat /\ Rank(J, j) + 1 <= Rank(J, n)
    BY <1>2, <1>4, RankGrows
  <2>2. Rank(J, j) \in 1 .. Cardinality(J) /\ Cardinality(J) \in Nat
    BY <1>2, NthOfRank, RankType
  <2>. QED
    BY <2>1, <2>2, <1>4
<1>6. n \in I /\ \A k \in I : n <= k
  <2>1. \A k \in I : k \in J \/ n <= k
    BY <1>2, <1>4 DEF J
  <2>. QED
    BY <2>1, <1>4, <1>5 DEF J
<1>. QED
  BY <1>6 DEF Min

\* So is the greatest.
LEMMA MaxIsThere ==
  ASSUME NEW m \in Nat, NEW I \in SUBSET (1 .. m), I # {}
  PROVE  Max(I) \in I /\ \A k \in I : k <= Max(I)
<1> DEFINE N == Cardinality(I)
           n == Nth(I, N)
<1>1. N \in Nat /\ I \subseteq Nat
  BY RankType
<1>2. N \in 1 .. N
  <2>1. PICK k \in I : Rank(I, k) \in 1 .. N
    BY NthOfRank
  <2>. QED
    BY <2>1, <1>1
<1>3. n \in I /\ Rank(I, n) = N
  BY <1>2, NthIsThere
<1> HIDE DEF n
<1>4. \A k \in I : n >= k
  <2> SUFFICES ASSUME NEW k \in I, n < k PROVE FALSE
    BY <1>1, <1>3
  <2>1. n \in Nat /\ Rank(I, n) + 1 <= Rank(I, k) /\ Rank(I, k) \in 1 .. N
    BY <1>1, <1>3, RankGrows, NthOfRank
  <2>. QED
    BY <2>1, <1>1, <1>3
<1>. QED
  <2>1. \E x \in I : \A y \in I : x >= y
    BY <1>3, <1>4
  <2>2. Max(I) \in I /\ \A y \in I : Max(I) >= y
    BY <2>1 DEF Max
  <2>. QED
    BY <2>2, <1>1

\* What holds of 1, and with each number below m of the next one, holds of each
\* number up to m: the numbers that it holds of are a set, so no operator is
\* needed for them.
LEMMA FromOneOn ==
  ASSUME NEW m \in Nat, NEW I, m # 0 => 1 \in I,
         \A k \in 1 .. m : k \in I /\ k < m => k + 1 \in I
  PROVE  1 .. m \subseteq I
<1> DEFINE J == {k \in 1 .. m : k \notin I}
<1> SUFFICES ASSUME J # {} PROVE FALSE
  OBVIOUS
<1>1. J \in SUBSET (Nat \ {0})
  OBVIOUS
<1>2. Min(J) \in J /\ \A k \in J : Min(J) <= k
  BY <1>1, MinIsThere
<1>3. PICK k \in J : \A j \in J : k <= j
  BY <1>2
<1>4. k \in 1 .. m /\ k \notin I /\ k # 1
  BY <1>3
<1>5. k - 1 \in 1 .. m /\ k - 1 < m /\ k - 1 < k /\ (k - 1) + 1 = k
  BY <1>4
<1>6. k - 1 \in I
  <2>1. k - 1 \notin I => k - 1 \in J
    BY <1>5
  <2>. QED
    BY <2>1, <1>3, <1>5
<1>. QED
  BY <1>4, <1>5, <1>6

=============================================================================
