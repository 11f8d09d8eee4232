------------------------------- MODULE MCPipe -------------------------------
(* Pipe for TLC; the constants are in the configurations.                  *)
EXTENDS Pipe, TLC

(* The processes are alike, and so are the byte values.                    *)
Symmetry == Permutations(Proc) \cup Permutations(Byte)
=============================================================================
