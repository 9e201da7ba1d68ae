------------------------------ MODULE MCViewerRun ------------------------------
(***************************************************************************)
(* Three public inputs, the last of Dash Platform, and two viewing keys, by  *)
(* two workers: while one waits for the first input, the other goes on.      *)
(***************************************************************************)
EXTENDS ViewerRun

CONSTANTS k1, k2

MCPublic == 1 .. 3
MCDapi == {3}
MCKeys == {k1, k2}
=============================================================================
