------------------------------ MODULE MCNpmIndex ------------------------------
(* Small instances of NpmIndex for TLC. *)
EXTENDS NpmIndex, TLC

CONSTANTS f1, f2, m1, m2, v1, v2

\* A refraction of two remotes, and one of the second of them.
SharedRemotes == (f1 :> {m1, m2}) @@ (f2 :> {m2})
OneRemote == f1 :> {m1}

\* Each remote lists a version of its own.
Apart == (m1 :> {v1}) @@ (m2 :> {v2})
FirstOnly == m1 :> {v1}

Symmetry == Permutations(Requests)
=============================================================================
