----------------------------- MODULE Selection -----------------------------
(***************************************************************************)
(* Loops that copy some elements of a sequence, in order: where the n-th   *)
(* element that is kept comes from.  SelectSeq says the same by recursion. *)
(***************************************************************************)
EXTENDS Naturals, Sequences, FiniteSets

\* How many of the indices I are at most k.
Rank(I, k) == Cardinality({j \in I : j <= k})

\* The n-th of the indices I.
Nth(I, n) == CHOOSE k \in I : Rank(I, k) = n

\* The elements of s at the indices I.
Picked(s, I) == [n \in 1 .. Cardinality(I) |-> s[Nth(I, n)]]
=============================================================================
