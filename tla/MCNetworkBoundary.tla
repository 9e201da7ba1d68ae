-------------------------- MODULE MCNetworkBoundary --------------------------
(* Four calls: two of one run, one of another that the worker's validation   *)
(* rejects, and the startup ping, which has no signal.                       *)
EXTENDS NetworkBoundary, TLC

CONSTANTS balance, history, malformed, ping, run1, run2

MCSignalOf == balance :> run1 @@ history :> run1 @@ malformed :> run2 @@ ping :> Nobody
=============================================================================
