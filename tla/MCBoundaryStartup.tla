-------------------------- MODULE MCBoundaryStartup --------------------------
(* A worker that raises up to two errors while it runs.                      *)
EXTENDS BoundaryStartup
=============================================================================
