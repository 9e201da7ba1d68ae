------------------------------ MODULE MCScanRun ------------------------------
(* Two runs or a run and a Clear, over four inputs and two workers, or over  *)
(* two candidates of two coins.                                              *)
EXTENDS ScanRun
=============================================================================
