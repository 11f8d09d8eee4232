------------------------------- MODULE MCLog --------------------------------
(* Log on small instances.                                                 *)
EXTENDS Log, TLC

Symmetry == Permutations(Op)
=============================================================================
