---------------------------- MODULE MCBitcoinScan ----------------------------
(* Two branches over an index space of five: the first address of the second *)
(* branch is the second of the first one, as with a custom path.             *)
EXTENDS BitcoinScan

MCAddressOf == <<[i \in 0 .. Maximum - 1 |-> i],
                 [i \in 0 .. Maximum - 1 |-> IF i = 0 THEN 1 ELSE Maximum + i]>>

MCInitial == <<3, 1>>
=============================================================================
