------------------------------ MODULE MCBcache ------------------------------
(* Bcache for TLC; the constants are in the configurations.                *)
EXTENDS Bcache

Symmetry == Permutations(Proc) \cup Permutations(Block) \cup Permutations(Val)
=============================================================================
