---------------------------- MODULE MCFileIndexes ----------------------------
(***************************************************************************)
(* Small instances of HelmIndex and PyPiIndex for TLC.  Neither reads what *)
(* the other writes, so a behaviour runs one of them.                      *)
(***************************************************************************)
EXTENDS HelmIndex, PyPiIndex, TLC

CONSTANTS m1, m2, x, y, r1, r2

\* Repositories that share a chart.
OverlappingCatalogue == (m1 :> {x}) @@ (m2 :> {x})

\* Refractions that share a remote.
SharedRemotes == (r1 :> {m1, m2}) @@ (r2 :> {m2})

VARIABLE indexing

vars == <<indexing, helmVars, pyVars>>

Helm(A) == indexing = "helm" /\ A /\ UNCHANGED <<indexing, pyVars>>
PyPi(A) == indexing = "pypi" /\ A /\ UNCHANGED <<indexing, helmVars>>

Init == indexing \in {"helm", "pypi"} /\ HelmInit /\ PyPiInit
Next == Helm(HelmNext) \/ PyPi(PyPiNext)
Spec == Init /\ [][Next]_vars /\ WF_vars(Helm(Cron)) /\ WF_vars(Helm(Work))

\* The variables of the batch process and of the pages have the values meant.
TypeOK == HelmTypeOK /\ PyPiTypeOK
=============================================================================
