------------------------------- MODULE Ranks --------------------------------
(* Numbers by their rank, and what a loop keeps of a list: the entries at    *)
(* some of its positions, in the order of the list.                          *)
EXTENDS Integers, FiniteSets

(* The n-th smallest number of K.                                            *)
Nth(K, n) == CHOOSE k \in K : Cardinality({j \in K : j <= k}) = n

(* The entries of the sequence s at the positions K.                         *)
EntriesAt(s, K) == [n \in 1 .. Cardinality(K) |-> s[Nth(K, n)]]
=============================================================================
