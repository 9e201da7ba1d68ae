--------------------------- MODULE MCRecoveryLimiter ---------------------------
(* Five requests: two share the signal of a run, one has a signal of its     *)
(* own, two cannot be aborted.                                               *)
EXTENDS RecoveryLimiter, TLC

CONSTANTS c1, c2, c3, c4, c5, s1, s2

MCCalls == {c1, c2, c3, c4, c5}
MCSignals == {s1, s2}
MCSignalOf == c1 :> s1 @@ c2 :> s1 @@ c3 :> s2 @@ c4 :> NoSignal @@ c5 :> NoSignal
=============================================================================
