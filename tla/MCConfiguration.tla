-------------------------- MODULE MCConfiguration --------------------------
(* Small instances of Configuration for TLC. *)
EXTENDS Configuration

CONSTANTS root, editor, gr, r1, r2, gf, f1, f2, n1, n2

\* The remotes and refractions at the start have different names.
MCFirstName == [i \in Remotes \cup Refractions |-> IF i \in {r2, f2} THEN n2 ELSE n1]

\* Somebody who owns a refraction and may edit one of its remotes.
MCProvisioned ==
    {[sub |-> editor, res |-> <<"refraction", f1>>, verb |-> "SUDO"],
     [sub |-> editor, res |-> <<"remote", r1>>, verb |-> "UPDATE"]}
=============================================================================
