--------------------------- MODULE MCShieldedStream ---------------------------
(* Chunks of two over a pool of up to five notes: notes 0, 1 and 3 are the   *)
(* wallet's, the actions at 2 and 4 spend notes 0 and 1.                     *)
EXTENDS ShieldedStream, TLC

MCMine == {0, 1, 3}
MCSpends == 0 :> -1 @@ 1 :> -1 @@ 2 :> 0 @@ 3 :> -1 @@ 4 :> 1
=============================================================================
