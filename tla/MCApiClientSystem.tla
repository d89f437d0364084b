------------------------- MODULE MCApiClientSystem --------------------------
(* Small instances of ApiClientSystem for TLC.                             *)
EXTENDS ApiClientSystem, TLC

CONSTANTS c1, c2, c3, foreign

MCCodes == {0, 5201}
MCData == {"data"}
JumpingOffsets == {-1, 0, 1}
LateOffset == {0, 1}
CallSymmetry == Permutations(Calls)
=============================================================================
