------------------------------ MODULE Positions ------------------------------
(***************************************************************************)
(* Parts of a list, by positions.                                           *)
(***************************************************************************)
EXTENDS Integers, Sequences, FiniteSets

\* The members of a sequence that are at the positions S, in their order.
Picked(seq, S) ==
  [i \in 1..Cardinality(S) |-> seq[CHOOSE k \in S : Cardinality({j \in S : j <= k}) = i]]
=============================================================================
