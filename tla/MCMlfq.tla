------------------------------- MODULE MCMlfq -------------------------------
(* Mlfq for TLC: the time slices of proc.c, an eighth of them, and one     *)
(* tick for every queue.                                                   *)
EXTENDS Mlfq

CodeSlice == <<32, 16, 8>>
EighthSlice == <<4, 2, 1>>
UnitSlice == <<1, 1, 1>>
=============================================================================
