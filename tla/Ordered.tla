------------------------------- MODULE Ordered -------------------------------
EXTENDS Integers, FiniteSets

\* The members of a set of numbers, from the least to the greatest.
InOrder(S) ==
  CHOOSE s \in [1 .. Cardinality(S) -> S] : \A i, j \in DOMAIN s : i < j => s[i] < s[j]
=============================================================================
