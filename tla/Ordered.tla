------------------------------- MODULE Ordered -------------------------------
(* The numbers of a finite set as a list, the least first. *)
EXTENDS Integers, Sequences, FiniteSets

Nth(S, i)  == CHOOSE k \in S : Cardinality({j \in S : j <= k}) = i
InOrder(S) == [i \in 1 .. Cardinality(S) |-> Nth(S, i)]
=============================================================================
