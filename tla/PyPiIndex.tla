------------------------------ MODULE PyPiIndex ------------------------------
(***************************************************************************)
(* Pages of a PyPI package (core/internal/impl/pypiapi/simple.go): every   *)
(* remote of the refraction is asked at once; each goroutine inserts what  *)
(* the remote lists into the table of files, which all refractions share,  *)
(* and appends it to the items of the page under a lock.  The links of the *)
(* page lead back to Prism, which looks the file up in the table           *)
(* (GetPackage, called by PyPiRemote.Exists).                              *)
(***************************************************************************)
EXTENDS FileTable

CONSTANTS
    Pages,          \* pages asked for, each of one package
    Refractions,
    RemotesOf,      \* RemotesOf[r]: ref.Remotes()
    Listings        \* what a remote may list, of every package

ASSUME PyPiAssumption ==
    /\ RemotesOf \in [Refractions -> SUBSET Remotes]
    /\ "none" \notin Refractions
    /\ Listings \subseteq SUBSET Files

VARIABLES
    pyTable,    \* py_packages
    ref,        \* ref[p]: the refraction page p was asked of, or "none"
    fetch,      \* fetch[p][m]: the goroutine that asks m, and what it got
    items,      \* items[p]: the list the goroutines append to
    rendered,   \* the pages rendered, from their items
    refused     \* history: files whose insert failed

pyVars == <<pyTable, ref, fetch, items, rendered, refused>>

NotAsked == [at |-> "idle", files |-> {}]
Step(p, m, label) == fetch' = [fetch EXCEPT ![p][m].at = label]

-----------------------------------------------------------------------------
PyPiInit ==
    /\ pyTable = EmptyTable
    /\ ref = [p \in Pages |-> "none"]
    /\ fetch = [p \in Pages |-> [m \in Remotes |-> NotAsked]]
    /\ items = [p \in Pages |-> {}]
    /\ rendered = {}
    /\ refused = {}

\* ref.Remotes()
Asked(r) == RemotesOf[r]

\* fetch starts a goroutine for every remote.
Index(p) == \E r \in Refractions :
    /\ ref[p] = "none"
    /\ ref' = [ref EXCEPT ![p] = r]
    /\ fetch' = [fetch EXCEPT ![p] = [m \in Remotes |->
                    IF m \in Asked(r) THEN [NotAsked EXCEPT !.at = "download"]
                                          ELSE NotAsked]]
    /\ UNCHANGED <<pyTable, items, rendered, refused>>

\* Download and parse.
DownloadListing(p, m) == \E files \in Listings :
    /\ fetch[p][m].at = "download"
    /\ fetch' = [fetch EXCEPT ![p][m] = [at |-> "insert", files |-> files]]
    /\ UNCHANGED <<pyTable, ref, items, rendered, refused>>

\* The error is dropped: the page goes without this remote.
ListingFails(p, m) ==
    /\ fetch[p][m].at = "download"
    /\ Step(p, m, "done")
    /\ UNCHANGED <<pyTable, ref, items, rendered, refused>>

InsertFiles(p, m) ==
    /\ fetch[p][m].at = "insert"
    /\ pyTable' = BatchInsert(pyTable, fetch[p][m].files, m)
    /\ Step(p, m, "append")
    /\ UNCHANGED <<ref, items, rendered, refused>>

\* This error is dropped too, and the files are listed all the same.
InsertFilesFails(p, m) ==
    /\ fetch[p][m].at = "insert"
    /\ refused' = refused \cup fetch[p][m].files
    /\ Step(p, m, "append")
    /\ UNCHANGED <<pyTable, ref, items, rendered>>

\* items = append(items, packages...)
Appended_Only(list, files) == files
Appended(list, files) == list \cup files

AppendFiles(p, m) ==
    /\ fetch[p][m].at = "append"
    /\ items' = [items EXCEPT ![p] = Appended(@, fetch[p][m].files)]
    /\ Step(p, m, "done")
    /\ UNCHANGED <<pyTable, ref, rendered, refused>>

\* wg.Wait() returns and the page is rendered.
Waited(p) == \A m \in RemotesOf[ref[p]] : fetch[p][m].at = "done"

Render(p) ==
    /\ ref[p] # "none" /\ p \notin rendered
    /\ Waited(p)
    /\ rendered' = rendered \cup {p}
    /\ UNCHANGED <<pyTable, ref, fetch, items, refused>>

PyPiNext == \E p \in Pages :
    \/ Index(p) \/ Render(p)
    \/ \E m \in Remotes :
          \/ DownloadListing(p, m) \/ ListingFails(p, m)
          \/ InsertFiles(p, m) \/ InsertFilesFails(p, m) \/ AppendFiles(p, m)

PyPiSpec == PyPiInit /\ [][PyPiNext]_pyVars

-----------------------------------------------------------------------------
PyPiTypeOK ==
    /\ pyTable \in Tables
    /\ ref \in [Pages -> Refractions \cup {"none"}]
    /\ \A p \in Pages, m \in Remotes :
          /\ fetch[p][m].at \in {"idle", "download", "insert", "append", "done"}
          /\ fetch[p][m].files \subseteq Files
          /\ fetch[p][m].at # "idle" => m \in RemotesOf[ref[p]]
    /\ items \in [Pages -> SUBSET Files]
    /\ rendered \subseteq Pages
    /\ refused \subseteq Files

\* However the goroutines and the pages interleave, a page has what every remote
\* that answered listed: one remote's failure costs only its own files.
PagesAreComplete ==
    \A p \in rendered : items[p] = UNION {fetch[p][m].files : m \in Remotes}

\* A link on a page leads to the file, although refractions, remotes and pages
\* insert the same names at once, unless the insert of that file failed.
LinksResolve ==
    \A p \in rendered : \A f \in items[p] :
        Located(pyTable, f) \/ f \in refused
=============================================================================
