---------------------------- MODULE Subsequences ----------------------------
(* Parts of a sequence, as JavaScript's slice and filter return them.        *)
EXTENDS Integers, Sequences, FiniteSets

(* s.slice(-n), for a positive n.                                           *)
LastOf(s, n) == SubSeq(s, IF Len(s) > n THEN Len(s) - n + 1 ELSE 1, Len(s))

(* The place that is the n-th of the places P.                              *)
PlaceOf(P, n) == CHOOSE i \in P : Cardinality({j \in P : j <= i}) = n

(* What s.filter(...) returns that says yes at the places P: the elements   *)
(* there, in their order.                                                   *)
Pick(s, P) == [n \in 1 .. Cardinality(P) |-> s[PlaceOf(P, n)]]
=============================================================================
