------------------------------ MODULE NpmIndex ------------------------------
(***************************************************************************)
(* Manifests of an NPM package (core/internal/impl/npmapi/packages.go over *)
(* core/pkg/db/repo/npm.go): a request looks in a cache, else asks every   *)
(* remote of its refraction at once, each in a goroutine that upserts what *)
(* it got into the one row of the package, then reads the row and caches   *)
(* what it read.  Neither the caches nor the row know of refractions.      *)
(*                                                                         *)
(* The module is about one package; packages share nothing.  A document is *)
(* the versions one remote listed, with download addresses in one          *)
(* refraction: the merge of two replaces the first's versions, whole.      *)
(***************************************************************************)
EXTENDS Naturals

CONSTANTS
    Requests,       \* requests under way, each of which may be made again
    Versions,       \* bound: versions the remotes may publish
    Remotes,
    FirstPublished, \* FirstPublished[m]: the versions remote m lists at first
    Publishers,     \* remotes that publish more
    Refractions,
    RemotesOf,      \* RemotesOf[f]: ref.Remotes(), in any order
    TTL,            \* ticks for which a manifest is cached
    Faults          \* which of "remote", "database" may fail

ASSUME NpmAssumption ==
    /\ FirstPublished \in [Remotes -> SUBSET Versions] /\ Publishers \subseteq Remotes
    /\ RemotesOf \in [Refractions -> SUBSET Remotes]
    /\ TTL \in Nat \ {0}

Document == [versions : SUBSET Versions, from : Remotes, ref : Refractions]
None == [versions |-> {}, from |-> "none", ref |-> "none"]
\* A manifest with an address between every two characters.
Garbled == [None EXCEPT !.from = "garbled"]

AnyVersion == "any"

VARIABLES
    published,      \* published[m]: the versions remote m lists
    row,            \* the row of the package, or None
    pkgCache,       \* the manifest cached, or None
    age,            \* ticks since pkgCache was set or used
    versionCache,   \* versionCache[v]: the version's manifest, or None
    request,        \* request[q]: where request q is, and for what
    worker,         \* worker[q][m]: the goroutine of q's fetch for remote m
    reply,          \* reply[q]: what q was answered last, or None
    replaced        \* history: requests whose last upsert another overwrote

vars == <<published, row, pkgCache, age, versionCache, request, worker, reply,
          replaced>>

Idle == [at |-> "idle", ref |-> "none", version |-> AnyVersion,
         data |-> None, stored |-> FALSE]
At(q, label) == request[q].at = label
Fan(q) == RemotesOf[request[q].ref]
Unstarted == [at |-> "unstarted", doc |-> None]
NoWorkers == [m \in Remotes |-> Unstarted]
Workers(q, label) == {m \in Fan(q) : worker[q][m].at = label}

-----------------------------------------------------------------------------
Init ==
    /\ published = FirstPublished
    /\ row = None
    /\ pkgCache = None
    /\ age = 0
    /\ versionCache = [v \in Versions |-> None]
    /\ request = [q \in Requests |-> Idle]
    /\ worker = [q \in Requests |-> NoWorkers]
    /\ reply = [q \in Requests |-> None]
    /\ replaced = {}

Publish(m) == \E v \in Versions \ published[m] :
    /\ published' = [published EXCEPT ![m] = @ \cup {v}]
    /\ UNCHANGED <<row, pkgCache, age, versionCache, request, worker, reply, replaced>>

Reply(q, doc) ==
    /\ reply' = [reply EXCEPT ![q] = doc]
    /\ request' = [request EXCEPT ![q] = [Idle EXCEPT !.ref = request[q].ref,
                                                      !.stored = request[q].stored,
                                                      !.version = request[q].version]]
    /\ worker' = [worker EXCEPT ![q] = NoWorkers]

Goto(q, label) == request' = [request EXCEPT ![q].at = label]

-----------------------------------------------------------------------------
(* The caches (ttlcache, external).                                        *)

\* Get renews the entry it finds.
Touched(a) == 0

AskFor(q, f, v) ==
    /\ At(q, "idle")
    /\ request' = [request EXCEPT ![q] = [Idle EXCEPT !.at = "asked", !.ref = f,
                                                      !.version = v]]
    /\ replaced' = replaced \ {q}
    /\ reply' = [reply EXCEPT ![q] = None]
    /\ UNCHANGED <<published, row, pkgCache, age, versionCache, worker>>

AskManifest(q) == \E f \in Refractions : AskFor(q, f, AnyVersion)
Ask(q) == AskManifest(q) \/ \E f \in Refractions, v \in Versions : AskFor(q, f, v)

\* Package finds the manifest in pkgCache.
Hit(q) ==
    /\ At(q, "asked") /\ request[q].version = AnyVersion
    /\ pkgCache # None
    /\ age' = Touched(age)
    /\ Reply(q, pkgCache)
    /\ UNCHANGED <<published, row, pkgCache, versionCache, replaced>>

\* PackageVersion finds the version's in pkgVersionCache.
VersionHit(q) ==
    /\ At(q, "asked") /\ request[q].version # AnyVersion
    /\ versionCache[request[q].version] # None
    /\ Reply(q, versionCache[request[q].version])
    /\ UNCHANGED <<published, row, pkgCache, age, versionCache, replaced>>

Miss(q) ==
    /\ At(q, "asked") /\ request[q].version = AnyVersion
    /\ pkgCache = None
    /\ Goto(q, "fetching")
    /\ UNCHANGED <<published, row, pkgCache, age, versionCache, worker, reply, replaced>>

VersionMiss(q) ==
    /\ At(q, "asked") /\ request[q].version # AnyVersion
    /\ versionCache[request[q].version] = None

Tick ==
    /\ pkgCache # None
    /\ IF age + 1 < TTL THEN age' = age + 1 /\ UNCHANGED pkgCache
                        ELSE age' = 0 /\ pkgCache' = None
    /\ UNCHANGED <<published, row, versionCache, request, worker, reply, replaced>>

\* The caches make room for other packages.
Evict ==
    /\ \/ pkgCache # None /\ pkgCache' = None /\ age' = 0 /\ UNCHANGED versionCache
       \/ \E v \in Versions :
             /\ versionCache[v] # None
             /\ versionCache' = [versionCache EXCEPT ![v] = None]
             /\ UNCHANGED <<pkgCache, age>>
    /\ UNCHANGED <<published, row, request, worker, reply, replaced>>

-----------------------------------------------------------------------------
(* NPMPackageRepo.                                                         *)

\* What the row holds for a request: the document, or that of one version.
Holds(q) == row # None /\ (request[q].version = AnyVersion
                           \/ request[q].version \in row.versions)

\* PackageVersion looks in the row first, and does not cache what it finds.
Found(q) ==
    /\ VersionMiss(q)
    /\ Holds(q)
    /\ Reply(q, row)
    /\ UNCHANGED <<published, row, pkgCache, age, versionCache, replaced>>

NotFound(q) ==
    /\ VersionMiss(q)
    /\ ~Holds(q) \/ "database" \in Faults
    /\ Goto(q, "fetching")
    /\ UNCHANGED <<published, row, pkgCache, age, versionCache, worker, reply, replaced>>

\* document || excluded.document: the new document's versions, whole.
Merged_AddressesKept(old, doc) == IF old = None THEN doc ELSE [doc EXCEPT !.ref = old.ref]
Merged_FirstWins(old, doc) == IF old = None THEN doc ELSE old
Merged(old, doc) == doc

\* The column holds JSON.
Accepts_Text(doc) == TRUE
Accepts(doc) == doc # Garbled

\* The document is no JSON, or the database fails: the error is dropped.
Insert(q, m) ==
    LET doc == worker[q][m].doc IN
    /\ worker[q][m].at = "inserting"
    /\ \/ /\ Accepts(doc)
          /\ row' = Merged(row, doc)
          /\ request' = [request EXCEPT ![q].stored = TRUE]
          /\ replaced' = (replaced \ {q}) \cup {p \in Requests \ {q} :
                                                    At(p, "fetching") /\ request[p].stored}
       \/ /\ ~Accepts(doc) \/ "database" \in Faults
          /\ UNCHANGED <<row, request, replaced>>
    /\ worker' = [worker EXCEPT ![q][m] = [at |-> "done", doc |-> None]]
    /\ UNCHANGED <<published, pkgCache, age, versionCache, reply>>

-----------------------------------------------------------------------------
(* fetch.                                                                  *)

\* One turn of the loop: the root of m is set, and its goroutine starts.
Start(q, m) ==
    /\ At(q, "fetching")
    /\ m \in Workers(q, "unstarted")
    /\ worker' = [worker EXCEPT ![q][m].at = "downloading"]
    /\ UNCHANGED <<published, row, pkgCache, age, versionCache, request, reply, replaced>>

\* rewriteURLs with the roots set so far: an empty one matches everywhere.
Rewritten(q, doc) == IF Workers(q, "unstarted") # {} THEN Garbled ELSE doc

Download(q, m) ==
    /\ worker[q][m].at = "downloading"
    /\ published[m] # {}
    /\ worker' = [worker EXCEPT ![q][m] =
          [at |-> "inserting",
           doc |-> Rewritten(q, [versions |-> published[m], from |-> m,
                                 ref |-> request[q].ref])]]
    /\ UNCHANGED <<published, row, pkgCache, age, versionCache, request, reply, replaced>>

\* The remote does not have the package, or does not answer.
DownloadFails(q, m) ==
    /\ worker[q][m].at = "downloading"
    /\ published[m] = {} \/ "remote" \in Faults
    /\ worker' = [worker EXCEPT ![q][m] = [at |-> "done", doc |-> None]]
    /\ UNCHANGED <<published, row, pkgCache, age, versionCache, request, reply, replaced>>

\* wg.Wait() returns, and the row is read.
ReadRow(q) ==
    /\ At(q, "fetching")
    /\ Workers(q, "done") = Fan(q)
    /\ Holds(q)
    /\ request' = [request EXCEPT ![q].at = "caching", ![q].data = row]
    /\ UNCHANGED <<published, row, pkgCache, age, versionCache, worker, reply, replaced>>

ReadFails(q) ==
    /\ At(q, "fetching")
    /\ Workers(q, "done") = Fan(q)
    /\ ~Holds(q) \/ "database" \in Faults
    /\ Reply(q, None)
    /\ UNCHANGED <<published, row, pkgCache, age, versionCache, replaced>>

Cache(q) ==
    /\ At(q, "caching")
    /\ IF request[q].version = AnyVersion
       THEN /\ pkgCache' = request[q].data
            /\ age' = 0
            /\ UNCHANGED versionCache
       ELSE /\ versionCache' = [versionCache EXCEPT ![request[q].version] = request[q].data]
            /\ UNCHANGED <<pkgCache, age>>
    /\ Reply(q, request[q].data)
    /\ UNCHANGED <<published, row, replaced>>

-----------------------------------------------------------------------------
Serve(q) ==
    \/ Hit(q) \/ VersionHit(q) \/ Miss(q) \/ Found(q) \/ NotFound(q)
    \/ ReadRow(q) \/ ReadFails(q) \/ Cache(q)
    \/ \E m \in Remotes :
          Start(q, m) \/ Download(q, m) \/ DownloadFails(q, m) \/ Insert(q, m)

Next ==
    \/ \E q \in Requests : Ask(q) \/ Serve(q)
    \/ \E m \in Publishers : Publish(m)
    \/ Tick
    \/ Evict

Spec == Init /\ [][Next]_vars

\* Time passes, requests and their goroutines run, the remotes and the database
\* answer, and a client that asked for the manifest asks for it again.  Nobody
\* has to publish anything.
FairSpec ==
    /\ Spec
    /\ WF_vars(Tick)
    /\ \A q \in Requests : WF_vars(Serve(q)) /\ SF_vars(AskManifest(q))

-----------------------------------------------------------------------------
Documents == Document \cup {None}

TypeOK ==
    /\ published \in [Remotes -> SUBSET Versions]
    /\ row \in Documents /\ pkgCache \in Documents
    /\ age \in 0..TTL - 1
    /\ versionCache \in [Versions -> Documents]
    /\ \A q \in Requests :
          /\ request[q].at \in {"idle", "asked", "fetching", "caching"}
          /\ request[q].data \in Documents
          /\ \A m \in Remotes :
                /\ worker[q][m].at \in {"unstarted", "downloading", "inserting", "done"}
                /\ worker[q][m].doc \in Documents \cup {Garbled}
          /\ reply[q] \in Documents
    /\ replaced \subseteq Requests

\* Whatever goroutines race on the roots, the row and the caches, a manifest
\* served is one a remote published, has the version asked for, and leads back
\* to that remote: its addresses are in a refraction the remote belongs to.
ServedIsGenuine ==
    \A q \in Requests : reply[q] # None =>
        /\ reply[q].versions \subseteq published[reply[q].from]
        /\ request[q].version \in reply[q].versions \cup {AnyVersion}
        /\ reply[q].from \in RemotesOf[reply[q].ref]

\* Although the row is shared by all refractions, a request that fetched and
\* stored a manifest is answered from its own refraction, unless a request that
\* overlapped it replaced the row in between.
OwnUnlessReplaced ==
    \A q \in Requests \ replaced : reply[q] # None /\ request[q].stored =>
        /\ reply[q].ref = request[q].ref
        /\ reply[q].from \in Fan(q)

\* "we can only cache temporarily otherwise we'll miss new versions"
\* (packages.go:51-52): a version that was published is listed sooner or later
\* to a client that keeps asking.
NewVersionsSeen ==
    \A q \in Requests, m \in Remotes, v \in Versions :
        v \in published[m] ~>
            v \in reply[q].versions /\ request[q].version = AnyVersion
=============================================================================
