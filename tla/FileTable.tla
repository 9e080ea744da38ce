------------------------------ MODULE FileTable ------------------------------
(***************************************************************************)
(* The tables that say where the files of Helm and PyPI packages are       *)
(* (core/pkg/db/repo/helm.go and pypi.go): a file name is unique in the    *)
(* table, whichever remote has it, and an insert leaves the rows that are  *)
(* there alone.  A row is the remote that listed the file's address, or    *)
(* Nowhere.                                                                *)
(***************************************************************************)
CONSTANTS
    Files,      \* file names
    Remotes,
    Nowhere

ASSUME FileTableAssumption == Nowhere \notin Remotes

Tables == [Files -> Remotes \cup {Nowhere}]
EmptyTable == [f \in Files |-> Nowhere]

\* BatchInsert: ON CONFLICT DO NOTHING, in one transaction.
BatchInsert_Refused(table, files, m) ==
    IF \E f \in files : table[f] # Nowhere THEN table
    ELSE [f \in Files |-> IF f \in files THEN m ELSE table[f]]
BatchInsert(table, files, m) ==
    [f \in Files |-> IF f \in files /\ table[f] = Nowhere THEN m ELSE table[f]]

\* GetPackage, which serves the requests for a file, knows it.
Located(table, f) == table[f] # Nowhere
=============================================================================
