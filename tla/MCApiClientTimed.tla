-------------------------- MODULE MCApiClientTimed --------------------------
(* A small instance of ApiClientTimed for TLC.                             *)
EXTENDS ApiClientTimed, TLC

CONSTANTS c1, c2

MCCodes == {0}
MCData == {"data"}
SetOnce == {0, 1}
CallSymmetry == Permutations(Calls)
=============================================================================
