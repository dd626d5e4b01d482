-------------------------- MODULE MCConfigPatcher --------------------------
(* Instances of ConfigPatcher for TLC; bounds are in the cfg files.         *)
EXTENDS ConfigPatcher, TLC

Symmetry == Permutations(Agents) \cup Permutations(Names) \cup Permutations(Paths)
=============================================================================
