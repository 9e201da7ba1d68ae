--------------------------- MODULE MCMainDerivation ---------------------------
(* Three runs over two branches of two batches each, and two versions of     *)
(* the source.                                                               *)
EXTENDS MainDerivation
=============================================================================
