---------------------------- MODULE MCRefraction ----------------------------
(* Small instances of Refraction for TLC. *)
EXTENDS Refraction

\* 404, two client errors up to the guard's limit, and two server errors.
FiveStatuses == {404, 401, 498, 500, 503}

\* With the client error beyond that limit.
ClosedByClient == {404, 401, 499, 500}
=============================================================================
