----------------------------- MODULE MCPairing -----------------------------
(* Instances of Pairing for TLC; bounds are in the cfg files.               *)
EXTENDS Pairing, TLC

Symmetry == Permutations(Conns) \cup Permutations(Names) \cup Permutations(MsgIds)
=============================================================================
