------------------------------- MODULE MCProc -------------------------------
(* Proc for TLC; the constants are in the configurations.                  *)
EXTENDS Proc
=============================================================================
