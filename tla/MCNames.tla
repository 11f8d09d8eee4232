------------------------------ MODULE MCNames ------------------------------
(* Values of the constants of Names for TLC.                               *)
EXTENDS Names, TLC

CONSTANTS p1, p2

TwoProcs == {p1, p2}
Symmetry == Permutations(TwoProcs)

(* Two names and a directory level.                                        *)
FewPaths == {<<"a">>, <<"b">>, <<"a", "b">>}
OnePath == {<<"b">>}

=============================================================================
