----------------------------- MODULE MCNotifier -----------------------------
(* Small instances of Notifier for TLC. *)
EXTENDS Notifier

CONSTANTS s1, s2

\* The row of s2, whose client stays, changes again after an update it missed.
Uneven == [s \in Streams |-> IF s = s2 THEN 2 ELSE 1]
=============================================================================
