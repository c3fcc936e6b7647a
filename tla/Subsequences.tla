---------------------------- MODULE Subsequences ----------------------------
(***************************************************************************)
(* The part of a sequence at given positions: [x for x in s if ...] keeps    *)
(* the order.                                                                *)
(***************************************************************************)
EXTENDS Integers, Sequences, FiniteSets

\* how many of the positions K are not behind i
Rank(K, i) == Cardinality({j \in K : j <= i})

\* the n-th of the positions K
Nth(K, n) == CHOOSE i \in K : Rank(K, i) = n

\* the elements of s at the positions K, in order
Picked(s, K) == [n \in 1..Cardinality(K) |-> s[Nth(K, n)]]
=============================================================================
