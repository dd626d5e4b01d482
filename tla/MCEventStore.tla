---------------------------- MODULE MCEventStore ----------------------------
(* Instances of EventStore for TLC; bounds are in the cfg files.            *)
EXTENDS EventStore, TLC

Symmetry == Permutations(Ids) \cup Permutations(Kinds)
=============================================================================
