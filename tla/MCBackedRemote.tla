--------------------------- MODULE MCBackedRemote ---------------------------
(* Small instances of BackedRemote for TLC. *)
EXTENDS BackedRemote, TLC

CONSTANTS t1, u1

\* A client with a job token and one without.
OneToken == {t1}
OneClient == {Anonymous, Credential(JobToken, t1)}
OneUser == {u1}
OneOwner == t1 :> u1

Symmetry == Permutations(Requests)

Config(mode, kind) == [mode |-> mode, kind |-> kind]
\* Every authentication mode and every kind of remote, not every pair.
EveryConfig == {Config("NONE", "plain"), Config("PROXY", "gitlab"),
                Config("PROXY", "indexed"), Config("DIRECT", "plain")}
=============================================================================
