------------------------------- MODULE Lists --------------------------------
(***************************************************************************)
(* Sequences made from sets of positions: what filter and sort return.     *)
(***************************************************************************)
EXTENDS Naturals, Sequences, FiniteSetsExt

\* The members of I, by their rank, and those of a set of numbers in order.
Arrange(rank, I) == [k \in 1 .. Cardinality(I) |-> CHOOSE i \in I : rank[i] = k]
Ascending(I) == Arrange([i \in I |-> Cardinality({j \in I : j <= i})], I)
=============================================================================
