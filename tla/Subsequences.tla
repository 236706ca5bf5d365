---------------------------- MODULE Subsequences ---------------------------
(* Parts of sequences, without recursion.                                  *)
EXTENDS Naturals, Sequences, FiniteSets

\* The elements of s at the positions in I, in order.
Pick(s, I) ==
  LET rank(i) == Cardinality({j \in I : j <= i})
  IN  [n \in 1..Cardinality(I) |-> s[CHOOSE i \in I : rank(i) = n]]

============================================================================
