---------------------------------- MODULE Ranks ---------------------------------
(***************************************************************************)
(* A finite set of numbers counted off from the smallest.                  *)
(***************************************************************************)
EXTENDS Integers, FiniteSets

\* How many of the numbers K are at most x.
CountTo(K, x) == Cardinality({k \in K : k <= x})

\* The i-th smallest of them.
Nth(K, i) == CHOOSE k \in K : CountTo(K, k) = i

\* All of them, rising.
InOrder(K) == [i \in 1..Cardinality(K) |-> Nth(K, i)]

\* The elements of a sequence at the indexes K.
ElementsAt(s, K) == [i \in 1..Cardinality(K) |-> s[Nth(K, i)]]
=================================================================================
