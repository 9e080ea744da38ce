---------------------------- MODULE MCGoGateway ----------------------------
(* Small instances of GoGateway for TLC. *)
EXTENDS GoGateway, TLC

Symmetry == Permutations(Calls)
=============================================================================
