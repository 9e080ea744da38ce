--------------------------- MODULE NpmIndexProofs ---------------------------
(***************************************************************************)
(* Theorems about NpmIndex, for any requests, remotes, refractions,        *)
(* versions, lifetime of an entry and faults.  A manifest passes through a *)
(* goroutine, the row, a request and two caches before it is served, and   *)
(* may wait in each while the others change; the invariant says of every   *)
(* one of these places that what it holds is genuine (Genuine), of a       *)
(* request that its goroutines are those of its own remotes (Progress) and *)
(* of a row that a request stored and nobody replaced that it is that      *)
(* request's own (Own).  Genuine stays true because remotes withdraw       *)
(* nothing, and because the column refuses what is no JSON.                *)
(***************************************************************************)
EXTENDS NpmIndex, TLAPS

RequestRecords == [at : {"idle", "asked", "fetching", "caching"},
                   ref : Refractions \cup {"none"}, version : Versions \cup {AnyVersion},
                   data : Documents, stored : BOOLEAN]
WorkerRecords == [at : {"unstarted", "downloading", "inserting", "done"},
                  doc : Documents \cup {Garbled}]
WorkerMaps == [Remotes -> WorkerRecords]

Types ==
    /\ published \in [Remotes -> SUBSET Versions]
    /\ row \in Documents
    /\ request \in [Requests -> RequestRecords]
    /\ worker \in [Requests -> WorkerMaps]
    /\ reply \in [Requests -> Documents]
    /\ replaced \subseteq Requests

\* Published by the remote it names, in a refraction of that remote.
Genuine(doc) ==
    /\ doc \in Document
    /\ doc.versions \subseteq published[doc.from]
    /\ doc.from \in RemotesOf[doc.ref]

Answers(doc, v) == v \in doc.versions \cup {AnyVersion}
Own(doc, f) == doc.ref = f /\ doc.from \in RemotesOf[f]

RowInv == row # None => Genuine(row)

CachesInv ==
    /\ pkgCache \in Documents
    /\ pkgCache # None => Genuine(pkgCache)
    /\ age \in 0..TTL - 1
    /\ versionCache \in [Versions -> Documents]
    /\ \A v \in Versions : versionCache[v] # None =>
          Genuine(versionCache[v]) /\ v \in versionCache[v].versions

\* A request r, its goroutines w and its answer a.
Progress(r, w, a) ==
    /\ r.at # "idle" => r.ref \in Refractions /\ a = None
    /\ r.at \in {"idle", "asked"} => w = NoWorkers
    /\ r.at = "asked" => ~r.stored
    /\ \A m \in Remotes : w[m].at # "unstarted" => m \in RemotesOf[r.ref]
    /\ r.at = "caching" => \A m \in Remotes : w[m].at \in {"unstarted", "done"}

Carried(r, w, a) ==
    /\ \A m \in Remotes : w[m].at = "inserting" =>
          w[m].doc = Garbled \/ (Genuine(w[m].doc) /\ w[m].doc.ref = r.ref)
    /\ r.at = "caching" => Genuine(r.data) /\ Answers(r.data, r.version)
    /\ a # None => Genuine(a) /\ Answers(a, r.version)

Stored(r, a) ==
    /\ r.at = "fetching" => Own(row, r.ref)
    /\ r.at = "caching" => Own(r.data, r.ref)
    /\ a # None => Own(a, r.ref)

Sound(q, r, w, a) ==
    Progress(r, w, a) /\ Carried(r, w, a) /\ (r.stored /\ q \notin replaced => Stored(r, a))

RequestsInv == \A q \in Requests : Sound(q, request[q], worker[q], reply[q])

IInv == Types /\ RowInv /\ CachesInv /\ RequestsInv

-----------------------------------------------------------------------------
LEMMA Blanks ==
    /\ None \in Documents /\ Idle \in RequestRecords /\ NoWorkers \in WorkerMaps
    /\ \A m \in Remotes : NoWorkers[m].at = "unstarted"
    /\ Idle.at = "idle" /\ Idle.stored = FALSE
  BY DEF None, Documents, Idle, RequestRecords, NoWorkers, WorkerMaps, WorkerRecords,
         Unstarted

LEMMA InitInvariant == Init => IInv
  <1> SUFFICES ASSUME Init PROVE IInv
    OBVIOUS
  <1> USE NpmAssumption DEF Init
  <1>1. Types
    BY Blanks DEF Types
  <1>2. RowInv /\ CachesInv
    BY Blanks DEF RowInv, CachesInv
  <1>3. RequestsInv
    BY Blanks DEF RequestsInv, Sound, Progress, Carried, Stored
  <1> QED  BY <1>1, <1>2, <1>3 DEF IInv

\* A step of one request, as long as it leaves the row alone.
LEMMA StepOfOne ==
    ASSUME IInv, NEW q \in Requests, NEW r \in RequestRecords, NEW w \in WorkerMaps,
           NEW a \in Documents,
           request' = [request EXCEPT ![q] = r],
           worker' = [worker EXCEPT ![q] = w],
           reply' = [reply EXCEPT ![q] = a],
           replaced' \in {replaced, replaced \ {q}}, UNCHANGED <<published, row>>,
           Sound(q, r, w, a)', CachesInv'
    PROVE  IInv'
  <1>1. Types'
    BY DEF IInv, Types
  <1>2. RowInv'
    BY DEF IInv, RowInv, Genuine
  <1>3. ASSUME NEW p \in Requests PROVE Sound(p, request[p], worker[p], reply[p])'
    <2>1. CASE p = q
      BY <2>1 DEF IInv, Types
    <2>2. CASE p # q
      <3>1. request'[p] = request[p] /\ worker'[p] = worker[p] /\ reply'[p] = reply[p]
        BY <2>2 DEF IInv, Types
      <3>2. Sound(p, request[p], worker[p], reply[p])
        BY DEF IInv, RequestsInv
      <3>3. p \in replaced' <=> p \in replaced
        BY <2>2
      <3> QED  BY <3>1, <3>2, <3>3 DEF Sound, Progress, Carried, Stored, Genuine
    <2> QED  BY <2>1, <2>2
  <1> QED  BY <1>1, <1>2, <1>3 DEF IInv, RequestsInv

LEMMA SameCaches ==
    ASSUME CachesInv, UNCHANGED <<published, pkgCache, age, versionCache>>
    PROVE  CachesInv'
  BY DEF CachesInv, Genuine

\* A request is answered with a manifest that is genuine and its own to get.
LEMMA Replies ==
    ASSUME IInv, NEW q \in Requests, NEW doc \in Documents, Reply(q, doc),
           doc # None => Genuine(doc) /\ Answers(doc, request[q].version),
           request[q].stored /\ q \notin replaced /\ doc # None =>
              Own(doc, request[q].ref),
           UNCHANGED <<published, row, replaced>>, CachesInv'
    PROVE  IInv'
  <1>1. request[q] \in RequestRecords
    BY DEF IInv, Types
  <1>2. PICK r \in RequestRecords :
          /\ request' = [request EXCEPT ![q] = r] /\ r.at = "idle"
          /\ r.ref = request[q].ref /\ r.stored = request[q].stored
          /\ r.version = request[q].version
    <2> DEFINE r == [Idle EXCEPT !.ref = request[q].ref, !.stored = request[q].stored,
                                 !.version = request[q].version]
    <2>1. request' = [request EXCEPT ![q] = r]
      BY DEF Reply
    <2>2. /\ r \in RequestRecords /\ r.at = "idle"
          /\ r.ref = request[q].ref /\ r.stored = request[q].stored
          /\ r.version = request[q].version
      BY <1>1, Blanks DEF RequestRecords, Idle
    <2> HIDE DEF r
    <2> QED  BY <2>1, <2>2
  <1>3. worker' = [worker EXCEPT ![q] = NoWorkers] /\ reply' = [reply EXCEPT ![q] = doc]
    BY DEF Reply
  <1>4. doc # None => /\ Genuine(doc)' /\ Answers(doc, r.version)
                      /\ r.stored /\ q \notin replaced => Own(doc, r.ref)
    BY <1>2 DEF Genuine
  <1>5. Sound(q, r, NoWorkers, doc)'
    BY <1>2, <1>4, Blanks DEF Sound, Progress, Carried, Stored
  <1> QED  BY <1>2, <1>3, <1>5, Blanks, StepOfOne

\* A request goes on to another round trip.
LEMMA GoesOn ==
    ASSUME IInv, NEW q \in Requests, At(q, "asked"), Goto(q, "fetching"),
           UNCHANGED <<published, row, worker, reply, replaced>>, CachesInv'
    PROVE  IInv'
  <1>1. PICK r \in RequestRecords :
          /\ request' = [request EXCEPT ![q] = r] /\ r.at = "fetching"
          /\ r.ref = request[q].ref /\ r.stored = request[q].stored
          /\ r.version = request[q].version
    <2> DEFINE r == [request[q] EXCEPT !.at = "fetching"]
    <2>1. request[q] \in RequestRecords /\ request' = [request EXCEPT ![q] = r]
      BY DEF Goto, IInv, Types
    <2>2. /\ r \in RequestRecords /\ r.at = "fetching"
          /\ r.ref = request[q].ref /\ r.stored = request[q].stored
          /\ r.version = request[q].version
      BY <2>1 DEF RequestRecords
    <2> HIDE DEF r
    <2> QED  BY <2>1, <2>2
  <1>2. PICK w \in WorkerMaps, a \in Documents :
          /\ w = worker[q] /\ a = reply[q]
          /\ worker' = [worker EXCEPT ![q] = w] /\ reply' = [reply EXCEPT ![q] = a]
    BY DEF IInv, Types
  <1>3. Sound(q, request[q], w, a) /\ request[q].at = "asked"
    BY <1>2 DEF IInv, RequestsInv, At
  <1>4. Sound(q, r, w, a)'
    BY <1>1, <1>3, Blanks DEF Sound, Progress, Carried, Stored, Genuine
  <1> QED  BY <1>1, <1>2, <1>4, StepOfOne

\* A goroutine of a request that is fetching goes on.
LEMMA WorkerGoesOn ==
    ASSUME IInv, NEW q \in Requests, NEW m \in Remotes, NEW x \in WorkerRecords,
           At(q, "fetching"), m \in Fan(q), worker' = [worker EXCEPT ![q][m] = x],
           x.at = "inserting" => \/ x.doc = Garbled
                                 \/ Genuine(x.doc) /\ x.doc.ref = request[q].ref,
           UNCHANGED <<published, row, pkgCache, age, versionCache, request, reply, replaced>>
    PROVE  IInv'
  <1>0. PICK r \in RequestRecords, a \in Documents :
          /\ r = request[q] /\ a = reply[q]
          /\ request' = [request EXCEPT ![q] = r] /\ reply' = [reply EXCEPT ![q] = a]
    BY DEF IInv, Types
  <1>1. PICK w \in WorkerMaps :
          /\ worker' = [worker EXCEPT ![q] = w]
          /\ w[m] = x /\ \A n \in Remotes \ {m} : w[n] = worker[q][n]
    <2> DEFINE w == [worker[q] EXCEPT ![m] = x]
    <2>1. worker[q] \in WorkerMaps /\ worker' = [worker EXCEPT ![q] = w]
      BY DEF IInv, Types
    <2>2. w \in WorkerMaps /\ w[m] = x /\ \A n \in Remotes \ {m} : w[n] = worker[q][n]
      BY <2>1 DEF WorkerMaps
    <2> HIDE DEF w
    <2> QED  BY <2>1, <2>2
  <1>2. Sound(q, r, worker[q], a) /\ r.at = "fetching" /\ m \in RemotesOf[r.ref]
    BY <1>0 DEF IInv, RequestsInv, At, Fan
  <1>3. x.at = "inserting" => x.doc = Garbled \/ (Genuine(x.doc)' /\ x.doc.ref = r.ref)
    BY <1>0 DEF Genuine
  <1>4. \A n \in Remotes : w[n].at = "inserting" =>
            w[n].doc = Garbled \/ (Genuine(w[n].doc)' /\ w[n].doc.ref = r.ref)
    BY <1>1, <1>2, <1>3 DEF Sound, Carried, Genuine
  <1>5. Sound(q, r, w, a)'
    BY <1>1, <1>2, <1>4, Blanks DEF Sound, Progress, Carried, Stored, Genuine
  <1>6. CachesInv'
    BY SameCaches DEF IInv
  <1>7. /\ request' = [request EXCEPT ![q] = r] /\ worker' = [worker EXCEPT ![q] = w]
        /\ reply' = [reply EXCEPT ![q] = a] /\ UNCHANGED <<published, row, replaced>>
    BY <1>0, <1>1
  <1> QED  BY <1>5, <1>6, <1>7, StepOfOne

-----------------------------------------------------------------------------
(* One lemma for each action.                                              *)

\* Remotes withdraw nothing, so that what was genuine is.
LEMMA PublishInvariant ==
    ASSUME IInv, NEW m \in Remotes, Publish(m)
    PROVE  IInv'
  <1>1. PICK v \in Versions : published' = [published EXCEPT ![m] = @ \cup {v}]
    BY DEF Publish
  <1>2. UNCHANGED <<row, pkgCache, age, versionCache, request, worker, reply, replaced>>
    BY DEF Publish
  <1>3. ASSUME NEW doc, Genuine(doc) PROVE Genuine(doc)'
    BY <1>1, <1>3 DEF Genuine, Document, IInv, Types
  <1>4. Types'
    BY <1>1, <1>2 DEF IInv, Types
  <1>5. RowInv' /\ CachesInv'
    BY <1>2, <1>3 DEF IInv, RowInv, CachesInv
  <1>6. RequestsInv'
    BY <1>2, <1>3 DEF IInv, RequestsInv, Sound, Progress, Carried, Stored
  <1> QED  BY <1>4, <1>5, <1>6 DEF IInv

LEMMA AskInvariant ==
    ASSUME IInv, NEW q \in Requests, Ask(q)
    PROVE  IInv'
  <1>0. PICK f \in Refractions, v \in Versions \cup {AnyVersion} : AskFor(q, f, v)
    BY DEF Ask, AskManifest
  <1>1. PICK r \in RequestRecords :
          /\ request' = [request EXCEPT ![q] = r]
          /\ r.at = "asked" /\ r.ref = f /\ ~r.stored
    <2> DEFINE r == [Idle EXCEPT !.at = "asked", !.ref = f, !.version = v]
    <2>1. request' = [request EXCEPT ![q] = r]
      BY <1>0 DEF AskFor
    <2>2. r \in RequestRecords /\ r.at = "asked" /\ r.ref = f /\ ~r.stored
      BY Blanks DEF RequestRecords, Idle
    <2> HIDE DEF r
    <2> QED  BY <2>1, <2>2
  <1>2. request[q].at = "idle" /\ worker[q] = NoWorkers
    BY <1>0 DEF AskFor, At, IInv, RequestsInv, Sound, Progress
  <1>3. /\ worker' = [worker EXCEPT ![q] = NoWorkers] /\ reply' = [reply EXCEPT ![q] = None]
        /\ replaced' = replaced \ {q}
        /\ UNCHANGED <<published, row, pkgCache, age, versionCache>>
    BY <1>0, <1>2 DEF AskFor, IInv, Types
  <1>4. Sound(q, r, NoWorkers, None)'
    BY <1>1, Blanks DEF Sound, Progress, Carried
  <1>5. CachesInv'
    BY <1>3, SameCaches DEF IInv
  <1> QED  BY <1>1, <1>3, <1>4, <1>5, Blanks, StepOfOne

\* What is said of a request that was asked and has done nothing yet.
LEMMA Fresh ==
    ASSUME IInv, NEW q \in Requests, At(q, "asked")
    PROVE  request[q].stored = FALSE
  BY DEF IInv, Types, RequestRecords, RequestsInv, Sound, Progress, At

LEMMA HitInvariant ==
    ASSUME IInv, NEW q \in Requests, Hit(q)
    PROVE  IInv'
  <1>1. /\ At(q, "asked") /\ request[q].version = AnyVersion /\ pkgCache # None
        /\ age' = 0 /\ Reply(q, pkgCache)
        /\ UNCHANGED <<published, row, pkgCache, versionCache, replaced>>
    BY DEF Hit, Touched
  <1>2. pkgCache \in Documents /\ Genuine(pkgCache)
    BY <1>1 DEF IInv, CachesInv
  <1>3. CachesInv'
    BY <1>1, NpmAssumption DEF IInv, CachesInv, Genuine
  <1> QED  BY <1>1, <1>2, <1>3, Fresh, Replies DEF Answers

LEMMA VersionHitInvariant ==
    ASSUME IInv, NEW q \in Requests, VersionHit(q)
    PROVE  IInv'
  <1> DEFINE v == request[q].version
             doc == versionCache[v]
  <1>1. /\ At(q, "asked") /\ v # AnyVersion /\ doc # None /\ Reply(q, doc)
        /\ UNCHANGED <<published, row, pkgCache, age, versionCache, replaced>>
    BY DEF VersionHit
  <1>2. v \in Versions
    BY <1>1 DEF IInv, Types, RequestRecords
  <1>3. doc \in Documents /\ Genuine(doc) /\ v \in doc.versions
    BY <1>1, <1>2 DEF IInv, CachesInv
  <1>4. CachesInv'
    BY <1>1, SameCaches DEF IInv
  <1> HIDE DEF doc
  <1> QED  BY <1>1, <1>3, <1>4, Fresh, Replies DEF Answers

\* The row is not looked at.
LEMMA MissInvariant ==
    ASSUME IInv, NEW q \in Requests, Miss(q) \/ NotFound(q)
    PROVE  IInv'
  <1>1. /\ At(q, "asked") /\ Goto(q, "fetching")
        /\ UNCHANGED <<published, row, pkgCache, age, versionCache, worker, reply, replaced>>
    BY DEF Miss, NotFound, VersionMiss
  <1> QED  BY <1>1, GoesOn, SameCaches DEF IInv

LEMMA FoundInvariant ==
    ASSUME IInv, NEW q \in Requests, Found(q)
    PROVE  IInv'
  <1>1. /\ At(q, "asked") /\ Holds(q) /\ Reply(q, row)
        /\ UNCHANGED <<published, row, pkgCache, age, versionCache, replaced>>
    BY DEF Found, VersionMiss
  <1>2. row \in Documents /\ Genuine(row) /\ Answers(row, request[q].version)
    BY <1>1 DEF Holds, IInv, Types, RowInv, Answers
  <1> QED  BY <1>1, <1>2, Fresh, Replies, SameCaches DEF IInv

LEMMA TickInvariant ==
    ASSUME IInv, Tick \/ Evict
    PROVE  IInv'
  <1>1. UNCHANGED <<published, row, request, worker, reply, replaced>>
    BY DEF Tick, Evict
  <1>2. Types' /\ RowInv' /\ RequestsInv'
    BY <1>1 DEF IInv, Types, RowInv, RequestsInv, Sound, Progress, Carried, Stored, Genuine
  <1>3. CASE Tick
    <2>1. pkgCache' \in {pkgCache, None} /\ UNCHANGED versionCache
      BY <1>3 DEF Tick
    <2>2. age' \in 0..TTL - 1
      BY <1>3, NpmAssumption DEF Tick, IInv, CachesInv
    <2> QED  BY <1>1, <1>2, <2>1, <2>2, Blanks DEF IInv, CachesInv, Genuine
  <1>4. CASE Evict
    <2>1. /\ pkgCache' \in {pkgCache, None} /\ age' \in {age, 0}
          /\ \/ UNCHANGED versionCache
             \/ \E v \in Versions : versionCache' = [versionCache EXCEPT ![v] = None]
      BY <1>4 DEF Evict
    <2>2. CachesInv'
      BY <1>1, <2>1, Blanks, NpmAssumption DEF IInv, CachesInv, Genuine
    <2> QED  BY <1>2, <2>2 DEF IInv
  <1> QED  BY <1>3, <1>4

LEMMA StartInvariant ==
    ASSUME IInv, NEW q \in Requests, NEW m \in Remotes, Start(q, m)
    PROVE  IInv'
  <1>1. /\ At(q, "fetching") /\ m \in Fan(q)
        /\ worker' = [worker EXCEPT ![q][m].at = "downloading"]
        /\ UNCHANGED <<published, row, pkgCache, age, versionCache, request, reply, replaced>>
    BY DEF Start, Workers
  <1>2. PICK x \in WorkerRecords :
          x.at = "downloading" /\ worker' = [worker EXCEPT ![q][m] = x]
    <2> DEFINE x == [worker[q][m] EXCEPT !.at = "downloading"]
    <2>1. worker[q][m] \in WorkerRecords
      BY DEF IInv, Types, WorkerMaps
    <2>2. x \in WorkerRecords /\ x.at = "downloading"
      BY <2>1 DEF WorkerRecords
    <2>3. worker' = [worker EXCEPT ![q][m] = x]
      BY <1>1
    <2> HIDE DEF x
    <2> QED  BY <2>2, <2>3
  <1> QED  BY <1>1, <1>2, WorkerGoesOn

\* A goroutine runs only for a request that waits for it.
LEMMA Running ==
    ASSUME IInv, NEW q \in Requests, NEW m \in Remotes,
           worker[q][m].at \in {"downloading", "inserting"}
    PROVE  /\ At(q, "fetching") /\ m \in Fan(q) /\ request[q].ref \in Refractions
           /\ reply[q] = None
  <1>1. /\ Progress(request[q], worker[q], reply[q])
        /\ request[q].at \in {"idle", "asked", "fetching", "caching"}
    BY DEF IInv, Types, RequestRecords, RequestsInv, Sound
  <1>2. request[q].at \notin {"idle", "asked"}
    BY <1>1, Blanks DEF Progress
  <1>3. request[q].at # "caching"
    BY <1>1 DEF Progress
  <1> QED  BY <1>1, <1>2, <1>3 DEF Progress, At, Fan

\* A manifest is garbled or what the remote lists, in the refraction asked for.
LEMMA DownloadInvariant ==
    ASSUME IInv, NEW q \in Requests, NEW m \in Remotes, Download(q, m)
    PROVE  IInv'
  <1> DEFINE doc == [versions |-> published[m], from |-> m, ref |-> request[q].ref]
             x == [at |-> "inserting", doc |-> Rewritten(q, doc)]
  <1>1. /\ worker[q][m].at = "downloading"
        /\ worker' = [worker EXCEPT ![q][m] = x]
        /\ UNCHANGED <<published, row, pkgCache, age, versionCache, request, reply, replaced>>
    BY DEF Download
  <1>2. At(q, "fetching") /\ m \in Fan(q) /\ request[q].ref \in Refractions
    BY <1>1, Running
  <1>3. doc \in Document /\ doc.ref = request[q].ref /\ Genuine(doc)
    BY <1>2 DEF Document, Genuine, Fan, IInv, Types
  <1>4. x \in WorkerRecords /\ x.doc \in {doc, Garbled}
    BY <1>3 DEF WorkerRecords, Rewritten, Documents
  <1>5. x.doc = Garbled \/ (Genuine(x.doc) /\ x.doc.ref = request[q].ref)
    BY <1>3, <1>4
  <1> HIDE DEF x
  <1> QED  BY <1>1, <1>2, <1>4, <1>5, WorkerGoesOn

LEMMA DoneRecord ==
    LET x == [at |-> "done", doc |-> None] IN x \in WorkerRecords /\ x.at = "done"
  BY Blanks DEF WorkerRecords

LEMMA DownloadFailsInvariant ==
    ASSUME IInv, NEW q \in Requests, NEW m \in Remotes, DownloadFails(q, m)
    PROVE  IInv'
  <1> DEFINE x == [at |-> "done", doc |-> None]
  <1>1. /\ worker[q][m].at = "downloading"
        /\ worker' = [worker EXCEPT ![q][m] = x]
        /\ UNCHANGED <<published, row, pkgCache, age, versionCache, request, reply, replaced>>
    BY DEF DownloadFails
  <1>2. x \in WorkerRecords /\ x.at = "done"
    BY DoneRecord
  <1> HIDE DEF x
  <1> QED  BY <1>1, <1>2, Running, WorkerGoesOn

\* The column refuses a garbled manifest; any other is the request's own, and
\* those who stored one before and have not read the row are overtaken.
LEMMA InsertInvariant ==
    ASSUME IInv, NEW q \in Requests, NEW m \in Remotes, Insert(q, m)
    PROVE  IInv'
  <1> DEFINE x == [at |-> "done", doc |-> None]
             overtaken == {p \in Requests \ {q} : At(p, "fetching") /\ request[p].stored}
  <1>1. /\ worker[q][m].at = "inserting"
        /\ worker' = [worker EXCEPT ![q][m] = x]
        /\ UNCHANGED <<published, pkgCache, age, versionCache, reply>>
    BY DEF Insert
  <1>2. x \in WorkerRecords /\ x.at = "done"
    BY DoneRecord
  <1>3. /\ At(q, "fetching") /\ m \in Fan(q) /\ request[q].ref \in Refractions
        /\ reply[q] = None
    BY <1>1, Running
  <1>4. CASE UNCHANGED <<row, request, replaced>>
    <2> HIDE DEF x
    <2> QED  BY <1>1, <1>2, <1>3, <1>4, WorkerGoesOn
  <1>5. ASSUME worker[q][m].doc # Garbled, row' = worker[q][m].doc,
               request' = [request EXCEPT ![q].stored = TRUE],
               replaced' = (replaced \ {q}) \cup overtaken
        PROVE  IInv'
    <2>1. PICK doc \in Document : /\ doc = worker[q][m].doc /\ Genuine(doc)
                                  /\ Own(doc, request[q].ref)
      BY <1>1, <1>5 DEF IInv, RequestsInv, Sound, Carried, Own, Genuine
    <2>2. row' = doc /\ Genuine(doc)'
      BY <1>1, <1>5, <2>1 DEF Genuine
    <2>3. PICK r \in RequestRecords :
            /\ request' = [request EXCEPT ![q] = r]
            /\ r.at = "fetching" /\ r.ref = request[q].ref
      <3> DEFINE r == [request[q] EXCEPT !.stored = TRUE]
      <3>1. request[q] \in RequestRecords /\ request' = [request EXCEPT ![q] = r]
        BY <1>5 DEF IInv, Types
      <3>2. r \in RequestRecords /\ r.at = "fetching" /\ r.ref = request[q].ref
        BY <1>3, <3>1 DEF RequestRecords, At
      <3> HIDE DEF r
      <3> QED  BY <3>1, <3>2
    <2>4. PICK w \in WorkerMaps :
            /\ worker' = [worker EXCEPT ![q] = w]
            /\ w[m] = x /\ \A n \in Remotes \ {m} : w[n] = worker[q][n]
      <3> HIDE DEF x
      <3> DEFINE w == [worker[q] EXCEPT ![m] = x]
      <3>1. worker[q] \in WorkerMaps /\ worker' = [worker EXCEPT ![q] = w]
        BY <1>1 DEF IInv, Types
      <3>2. w \in WorkerMaps /\ w[m] = x /\ \A n \in Remotes \ {m} : w[n] = worker[q][n]
        BY <1>2, <3>1 DEF WorkerMaps
      <3> HIDE DEF w
      <3> QED  BY <3>1, <3>2
    <2> HIDE DEF x
    <2>5. Types'
      <3>1. row' \in Documents /\ request' \in [Requests -> RequestRecords]
        BY <2>2, <2>3 DEF IInv, Types, Documents
      <3>2. worker' \in [Requests -> WorkerMaps]
        BY <2>4 DEF IInv, Types
      <3>3. replaced' \subseteq Requests
        BY <1>5 DEF IInv, Types
      <3> QED  BY <1>1, <3>1, <3>2, <3>3 DEF IInv, Types
    <2>6. RowInv' /\ CachesInv'
      BY <1>1, <2>2, SameCaches DEF IInv, RowInv
    <2>7. ASSUME NEW p \in Requests PROVE Sound(p, request[p], worker[p], reply[p])'
      <3>1. Sound(p, request[p], worker[p], reply[p])
        BY DEF IInv, RequestsInv
      <3>2. CASE p = q
        <4>1. request'[p] = r /\ worker'[p] = w /\ reply'[p] = None
          BY <1>1, <1>3, <2>3, <2>4, <3>2 DEF IInv, Types
        <4>2. Progress(r, w, None)
          BY <1>2, <1>3, <2>3, <2>4, <3>1, <3>2 DEF Sound, Progress, Fan, At
        <4>3. Carried(r, w, None)'
          BY <1>1, <1>2, <2>3, <2>4, <3>1, <3>2 DEF Sound, Carried, Genuine
        <4>4. Stored(r, None)'
          BY <2>1, <2>2, <2>3 DEF Stored, Own
        <4> QED  BY <4>1, <4>2, <4>3, <4>4 DEF Sound, Progress
      <3>3. CASE p # q
        <4>1. request'[p] = request[p] /\ worker'[p] = worker[p] /\ reply'[p] = reply[p]
          BY <1>1, <2>3, <2>4, <3>3 DEF IInv, Types
        <4>2. p \notin replaced' => /\ p \notin replaced
                                    /\ ~(request[p].at = "fetching" /\ request[p].stored)
          BY <1>5, <3>3 DEF At
        <4>3. Carried(request[p], worker[p], reply[p])'
          BY <1>1, <3>1, <4>1 DEF Sound, Carried, Genuine
        <4>4. Progress(request[p], worker[p], reply[p])'
          BY <3>1, <4>1 DEF Sound, Progress
        <4>5. (request[p].stored /\ p \notin replaced => Stored(request[p], reply[p]))'
          BY <3>1, <4>1, <4>2 DEF Sound, Stored
        <4> QED  BY <4>3, <4>4, <4>5 DEF Sound
      <3> QED  BY <3>2, <3>3
    <2> QED  BY <2>5, <2>6, <2>7 DEF IInv, RequestsInv
  <1> QED  BY <1>4, <1>5 DEF Insert, Accepts, Merged

\* The row is read when all goroutines of the request are done.
LEMMA ReadRowInvariant ==
    ASSUME IInv, NEW q \in Requests, ReadRow(q)
    PROVE  IInv'
  <1>1. /\ At(q, "fetching") /\ Workers(q, "done") = Fan(q) /\ Holds(q)
        /\ request' = [request EXCEPT ![q].at = "caching", ![q].data = row]
        /\ UNCHANGED <<published, row, pkgCache, age, versionCache, worker, reply, replaced>>
    BY DEF ReadRow
  <1>2. row \in Documents /\ Genuine(row) /\ Answers(row, request[q].version)
    BY <1>1 DEF Holds, IInv, Types, RowInv, Answers
  <1>3. PICK doc \in Documents : doc = row
    BY <1>2
  <1>4. PICK r \in RequestRecords :
          /\ request' = [request EXCEPT ![q] = r]
          /\ r.at = "caching" /\ r.data = doc /\ r.ref = request[q].ref
          /\ r.stored = request[q].stored /\ r.version = request[q].version
    <2> DEFINE r == [request[q] EXCEPT !.at = "caching", !.data = doc]
    <2>1. request[q] \in RequestRecords /\ request' = [request EXCEPT ![q] = r]
      BY <1>1, <1>3 DEF IInv, Types
    <2>2. /\ r \in RequestRecords /\ r.at = "caching" /\ r.data = doc
          /\ r.ref = request[q].ref
          /\ r.stored = request[q].stored /\ r.version = request[q].version
      BY <2>1 DEF RequestRecords
    <2> HIDE DEF r
    <2> QED  BY <2>1, <2>2
  <1>5. PICK w \in WorkerMaps, a \in Documents :
          /\ w = worker[q] /\ a = reply[q]
          /\ worker' = [worker EXCEPT ![q] = w] /\ reply' = [reply EXCEPT ![q] = a]
    BY <1>1 DEF IInv, Types
  <1>6. Sound(q, request[q], w, a) /\ request[q].at = "fetching"
    BY <1>1, <1>5 DEF IInv, RequestsInv, At
  <1>7. \A m \in Remotes : w[m].at \in {"unstarted", "done"}
    BY <1>1, <1>5, <1>6 DEF Sound, Progress, Workers, Fan
  <1>8. Progress(r, w, a)
    BY <1>4, <1>6, <1>7 DEF Sound, Progress
  <1>9. Carried(r, w, a)'
    BY <1>1, <1>2, <1>3, <1>4, <1>6, <1>7 DEF Sound, Carried, Genuine, Answers
  <1>10. r.stored /\ q \notin replaced => Stored(r, a)
    BY <1>3, <1>4, <1>6 DEF Sound, Stored
  <1>11. Sound(q, r, w, a)'
    BY <1>1, <1>8, <1>9, <1>10 DEF Sound, Progress, Stored
  <1>12. CachesInv'
    BY <1>1, SameCaches DEF IInv
  <1>13. /\ request' = [request EXCEPT ![q] = r] /\ worker' = [worker EXCEPT ![q] = w]
         /\ reply' = [reply EXCEPT ![q] = a] /\ UNCHANGED <<published, row, replaced>>
    BY <1>1, <1>4, <1>5
  <1> QED  BY <1>11, <1>12, <1>13, StepOfOne

LEMMA ReadFailsInvariant ==
    ASSUME IInv, NEW q \in Requests, ReadFails(q)
    PROVE  IInv'
  BY Replies, SameCaches, Blanks DEF ReadFails, IInv

LEMMA CacheInvariant ==
    ASSUME IInv, NEW q \in Requests, Cache(q)
    PROVE  IInv'
  <1> DEFINE v == request[q].version
  <1>1. PICK doc \in Documents : doc = request[q].data
    BY DEF IInv, Types, RequestRecords
  <1>2. /\ At(q, "caching") /\ Reply(q, doc) /\ UNCHANGED <<published, row, replaced>>
        /\ \/ v = AnyVersion /\ pkgCache' = doc /\ age' = 0 /\ UNCHANGED versionCache
           \/ /\ v # AnyVersion /\ versionCache' = [versionCache EXCEPT ![v] = doc]
              /\ UNCHANGED <<pkgCache, age>>
    BY <1>1 DEF Cache
  <1>3. Sound(q, request[q], worker[q], reply[q]) /\ request[q] \in RequestRecords
    BY DEF IInv, Types, RequestsInv
  <1>4. Genuine(doc) /\ Answers(doc, v)
    BY <1>1, <1>2, <1>3 DEF Sound, Carried, At
  <1>5. request[q].stored /\ q \notin replaced => Own(doc, request[q].ref)
    BY <1>1, <1>2, <1>3 DEF Sound, Stored, At
  <1>6. v \in Versions \cup {AnyVersion}
    BY <1>3 DEF RequestRecords
  <1>7. CachesInv'
    BY <1>2, <1>4, <1>6, NpmAssumption DEF IInv, CachesInv, Genuine, Answers
  <1> QED  BY <1>2, <1>4, <1>5, <1>7, Replies

LEMMA NextInvariant == IInv /\ [Next]_vars => IInv'
  <1> SUFFICES ASSUME IInv, [Next]_vars PROVE IInv'
    OBVIOUS
  <1>1. CASE Next
    <2>1. ASSUME NEW q \in Requests, Serve(q) PROVE IInv'
      BY <2>1, HitInvariant, VersionHitInvariant, MissInvariant, FoundInvariant,
         ReadRowInvariant, ReadFailsInvariant, CacheInvariant, StartInvariant,
         DownloadInvariant, DownloadFailsInvariant, InsertInvariant DEF Serve
    <2>2. Publishers \subseteq Remotes
      BY NpmAssumption
    <2> QED  BY <1>1, <2>1, <2>2, AskInvariant, PublishInvariant, TickInvariant DEF Next
  <1>2. CASE UNCHANGED vars
    BY <1>2 DEF vars, IInv, Types, RowInv, CachesInv, RequestsInv, Sound, Progress,
                Carried, Stored, Genuine
  <1> QED  BY <1>1, <1>2

\* The inductive invariant holds in every state that can be reached.
THEOREM Invariant == Spec => []IInv
  BY InitInvariant, NextInvariant, PTL DEF Spec

-----------------------------------------------------------------------------
\* Row, caches, requests and goroutines hold documents or nothing.
THEOREM TypeCorrect == Spec => []TypeOK
  <1>1. IInv => TypeOK
    BY DEF IInv, Types, CachesInv, RequestRecords, WorkerMaps, WorkerRecords, TypeOK
  <1> QED  BY <1>1, Invariant, PTL

\* A root that is not set yet, a row another refraction writes and caches that
\* know of no refraction stand between a remote and a client: whatever races on
\* them, the client gets what the remote of that address published.
THEOREM WhatIsServedIsGenuine == Spec => []ServedIsGenuine
  <1>1. IInv => ServedIsGenuine
    BY DEF IInv, RequestsInv, Sound, Carried, Genuine, Answers, ServedIsGenuine
  <1> QED  BY <1>1, Invariant, PTL

\* The row is shared by all refractions, yet only an overlapping request that
\* replaces it makes a request that stored a manifest get another's.
THEOREM OwnIsServed == Spec => []OwnUnlessReplaced
  <1>1. IInv => OwnUnlessReplaced
    BY DEF IInv, RequestsInv, Sound, Stored, Own, Fan, OwnUnlessReplaced
  <1> QED  BY <1>1, Invariant, PTL
=============================================================================
