--------------------------- MODULE MCNetObserver ---------------------------
(* Small instances of NetObserver for TLC. *)
EXTENDS NetObserver
=============================================================================
