-------------------------- MODULE FileIndexesProofs --------------------------
(***************************************************************************)
(* Theorems about HelmIndex and PyPiIndex, for any remotes, files, workers, *)
(* pages and refractions.                                                   *)
(*                                                                          *)
(* For PyPiIndex the inductive invariant adds to the type what each         *)
(* goroutine has left behind at each of its steps: nothing before it        *)
(* downloaded, rows in the table once it inserted, items on the page once   *)
(* it appended.  For HelmIndex it adds that only finitely many remotes are  *)
(* live, so that the tasks of a handler can be put in a sequence, and that  *)
(* an insert is for a remote.                                               *)
(***************************************************************************)
EXTENDS MCFileIndexes, FiniteSetTheorems, TLAPS

(* PyPiIndex.                                                              *)

Labels == {"idle", "download", "insert", "append", "done"}
Fetches == [at : Labels, files : SUBSET Files]

Types ==
    /\ pyTable \in Tables
    /\ ref \in [Pages -> Refractions \cup {"none"}]
    /\ fetch \in [Pages -> [Remotes -> Fetches]]
    /\ items \in [Pages -> SUBSET Files]
    /\ rendered \subseteq Pages
    /\ refused \subseteq Files

\* The goroutines of a page are those of its refraction's remotes.
AskedInv ==
    \A p \in Pages, m \in Remotes :
        /\ fetch[p][m].at # "idle" => ref[p] # "none" /\ m \in RemotesOf[ref[p]]
        /\ fetch[p][m].at \in {"idle", "download"} => fetch[p][m].files = {}

\* A page has the files of the goroutines that are done, and no others.
ItemsInv ==
    \A p \in Pages : \A f \in Files :
        f \in items[p] <=>
            \E m \in Remotes : fetch[p][m].at = "done" /\ f \in fetch[p][m].files

\* What a goroutine has inserted can be located, or was refused.
InsertedInv ==
    \A p \in Pages, m \in Remotes :
        fetch[p][m].at \in {"append", "done"} =>
            \A f \in fetch[p][m].files : Located(pyTable, f) \/ f \in refused

\* A page is rendered after its goroutines.
RenderedInv == \A p \in rendered : ref[p] # "none" /\ Waited(p)

IInv == Types /\ AskedInv /\ ItemsInv /\ InsertedInv /\ RenderedInv

-----------------------------------------------------------------------------
\* An insert moves no file that is in the table and loses none it is given.
LEMMA InsertKeepsRows ==
    ASSUME NEW table \in Tables, NEW files \in SUBSET Files, NEW m \in Remotes
    PROVE  /\ BatchInsert(table, files, m) \in Tables
           /\ \A f \in Files : Located(table, f) =>
                 BatchInsert(table, files, m)[f] = table[f]
           /\ \A f \in Files : Located(table, f) \/ f \in files =>
                 Located(BatchInsert(table, files, m), f)
  BY FileTableAssumption DEF Tables, BatchInsert, Located

LEMMA InitInvariant == PyPiInit => IInv
  BY DEF PyPiInit, IInv, Types, AskedInv, ItemsInv, InsertedInv, RenderedInv,
         EmptyTable, Tables, NotAsked, Fetches, Labels

\* A page asks each remote of its refraction, once.
LEMMA IndexInvariant ==
    ASSUME IInv, NEW p \in Pages, Index(p)
    PROVE  IInv'
  <1> PICK r \in Refractions :
        /\ ref[p] = "none"
        /\ ref' = [ref EXCEPT ![p] = r]
        /\ fetch' = [fetch EXCEPT ![p] = [m \in Remotes |->
                        IF m \in RemotesOf[r] THEN [NotAsked EXCEPT !.at = "download"]
                                              ELSE NotAsked]]
        /\ UNCHANGED <<pyTable, items, rendered, refused>>
    BY DEF Index, Asked
  <1> USE DEF IInv, Types, Fetches, Labels, NotAsked
  <1>1. ref' \in [Pages -> Refractions \cup {"none"}] /\ r # "none"
    BY PyPiAssumption
  <1>2. \A q \in Pages : q # p => fetch'[q] = fetch[q] /\ ref'[q] = ref[q]
    OBVIOUS
  <1>3. \A m \in Remotes :
          /\ fetch[p][m].at = "idle"
          /\ fetch'[p][m].files = {}
          /\ fetch'[p][m].at = IF m \in RemotesOf[r] THEN "download" ELSE "idle"
    BY DEF AskedInv
  <1>4. Types'
    BY <1>1
  <1>5. AskedInv'
    BY <1>1, <1>2, <1>3 DEF AskedInv
  <1>6. ItemsInv'
    BY <1>2, <1>3 DEF ItemsInv
  <1>7. InsertedInv'
    BY <1>2, <1>3 DEF InsertedInv
  <1>8. RenderedInv'
    <2> SUFFICES ASSUME NEW q \in rendered PROVE (ref[q] # "none" /\ Waited(q))'
      BY DEF RenderedInv
    <2>1. q # p
      BY DEF RenderedInv
    <2> QED  BY <1>2, <2>1 DEF RenderedInv, Waited
  <1> QED  BY <1>4, <1>5, <1>6, <1>7, <1>8

\* The goroutine that asks m for page p goes on to g; pages stay as they are.
GoesOn(p, m, g) ==
    /\ fetch[p][m].at \in {"download", "insert", "append"}
    /\ g.at # "idle" /\ (g.at = "download" => g.files = {})
    /\ fetch' = [fetch EXCEPT ![p][m] = g]
    /\ ref' = ref /\ rendered' = rendered

\* A step of one goroutine keeps the part of the invariant that is about the
\* goroutine's own state: it does not start over and a page that is rendered
\* has none that could step.
LEMMA StepOfOne ==
    ASSUME IInv, NEW p \in Pages, NEW m \in Remotes, NEW g \in Fetches,
           GoesOn(p, m, g)
    PROVE  /\ fetch' \in [Pages -> [Remotes -> Fetches]]
           /\ fetch'[p][m] = g
           /\ \A q \in Pages, n \in Remotes :
                 <<q, n>> # <<p, m>> => fetch'[q][n] = fetch[q][n]
           /\ AskedInv' /\ RenderedInv'
  <1> USE DEF IInv, Types, GoesOn
  <1>1. fetch' \in [Pages -> [Remotes -> Fetches]] /\ fetch'[p][m] = g
    OBVIOUS
  <1>2. \A q \in Pages, n \in Remotes :
           <<q, n>> # <<p, m>> => fetch'[q][n] = fetch[q][n]
    OBVIOUS
  <1>3. AskedInv'
    BY <1>1, <1>2 DEF AskedInv
  <1>4. RenderedInv'
    <2>1. ref[p] # "none" /\ m \in RemotesOf[ref[p]]
      BY DEF AskedInv
    <2>2. p \notin rendered
      BY <2>1 DEF RenderedInv, Waited
    <2> SUFFICES ASSUME NEW q \in rendered PROVE (ref[q] # "none" /\ Waited(q))'
      BY DEF RenderedInv
    <2>3. q # p /\ q \in Pages /\ ref[q] \in Refractions
      BY <2>2 DEF RenderedInv
    <2>4. \A n \in RemotesOf[ref[q]] : n \in Remotes
      BY <2>3, PyPiAssumption
    <2> QED  BY <1>2, <2>3, <2>4 DEF RenderedInv, Waited
  <1> QED  BY <1>1, <1>2, <1>3, <1>4

LEMMA DownloadInvariant ==
    ASSUME IInv, NEW p \in Pages, NEW m \in Remotes, DownloadListing(p, m)
    PROVE  IInv'
  <1> PICK files \in Listings :
        /\ fetch[p][m].at = "download"
        /\ fetch' = [fetch EXCEPT ![p][m] = [at |-> "insert", files |-> files]]
        /\ UNCHANGED <<pyTable, ref, items, rendered, refused>>
    BY DEF DownloadListing
  <1> DEFINE g == [at |-> "insert", files |-> files]
  <1>1. /\ g \in Fetches /\ g.at = "insert"
        /\ fetch' = [fetch EXCEPT ![p][m] = g]
        /\ UNCHANGED <<pyTable, ref, items, rendered, refused>>
        /\ fetch[p][m].at = "download"
    BY PyPiAssumption DEF Fetches, Labels
  <1> HIDE DEF g
  <1>2. /\ fetch' \in [Pages -> [Remotes -> Fetches]] /\ fetch'[p][m] = g
        /\ \A q \in Pages, n \in Remotes :
              <<q, n>> # <<p, m>> => fetch'[q][n] = fetch[q][n]
        /\ AskedInv' /\ RenderedInv'
    <2>1. GoesOn(p, m, g)
      BY <1>1 DEF GoesOn
    <2> QED  BY <1>1, <2>1, StepOfOne
  <1>3. Types'
    BY <1>2 DEF IInv, Types
  <1>4. ItemsInv'
    BY <1>2 DEF IInv, ItemsInv
  <1>5. InsertedInv'
    BY <1>2 DEF IInv, InsertedInv
  <1> QED  BY <1>2, <1>3, <1>4, <1>5 DEF IInv

\* A remote that fails leaves nothing on the page.
LEMMA FailsInvariant ==
    ASSUME IInv, NEW p \in Pages, NEW m \in Remotes, ListingFails(p, m)
    PROVE  IInv'
  <1> DEFINE g == [fetch[p][m] EXCEPT !.at = "done"]
  <1>1. /\ fetch[p][m].at = "download" /\ fetch[p][m].files = {}
        /\ fetch' = [fetch EXCEPT ![p][m] = g]
        /\ UNCHANGED <<pyTable, ref, items, rendered, refused>>
    BY DEF ListingFails, Step, IInv, AskedInv, Types
  <1>2. g \in Fetches /\ g.at = "done" /\ g.files = {}
    <2>1. fetch[p][m] \in Fetches
      BY DEF IInv, Types
    <2> QED  BY <1>1, <2>1 DEF Fetches, Labels
  <1> HIDE DEF g
  <1>3. /\ fetch' \in [Pages -> [Remotes -> Fetches]] /\ fetch'[p][m] = g
        /\ \A q \in Pages, n \in Remotes :
              <<q, n>> # <<p, m>> => fetch'[q][n] = fetch[q][n]
        /\ AskedInv' /\ RenderedInv'
    <2>1. GoesOn(p, m, g)
      BY <1>1, <1>2 DEF GoesOn
    <2> QED  BY <1>2, <2>1, StepOfOne
  <1>4. Types'
    BY <1>1, <1>3 DEF IInv, Types
  <1>5. ItemsInv'
    BY <1>1, <1>2, <1>3 DEF IInv, ItemsInv
  <1>6. InsertedInv'
    BY <1>1, <1>2, <1>3 DEF IInv, InsertedInv
  <1> QED  BY <1>3, <1>4, <1>5, <1>6 DEF IInv

\* After an insert, whether it was refused or not, the goroutine's files are in
\* the table or known as refused, and no other goroutine's files are lost.
LEMMA InsertInvariant ==
    ASSUME IInv, NEW p \in Pages, NEW m \in Remotes,
           InsertFiles(p, m) \/ InsertFilesFails(p, m)
    PROVE  IInv'
  <1> DEFINE g == [fetch[p][m] EXCEPT !.at = "append"]
  <1>1. /\ fetch[p][m].at = "insert"
        /\ fetch' = [fetch EXCEPT ![p][m] = g]
        /\ UNCHANGED <<ref, items, rendered>>
    BY DEF InsertFiles, InsertFilesFails, Step, IInv, Types
  <1>2. /\ g \in Fetches /\ g.at = "append"
        /\ g.files = fetch[p][m].files /\ g.files \in SUBSET Files
    <2>1. fetch[p][m] \in Fetches
      BY DEF IInv, Types
    <2> QED  BY <1>1, <2>1 DEF Fetches, Labels
  <1> HIDE DEF g
  <1>3. /\ fetch' \in [Pages -> [Remotes -> Fetches]] /\ fetch'[p][m] = g
        /\ \A q \in Pages, n \in Remotes :
              <<q, n>> # <<p, m>> => fetch'[q][n] = fetch[q][n]
        /\ AskedInv' /\ RenderedInv'
    <2>1. GoesOn(p, m, g)
      BY <1>1, <1>2 DEF GoesOn
    <2> QED  BY <1>2, <2>1, StepOfOne
  <1>4. /\ pyTable' \in Tables /\ refused' \subseteq Files
        /\ \A f \in Files : Located(pyTable, f) \/ f \in refused =>
              Located(pyTable', f) \/ f \in refused'
        /\ \A f \in g.files : Located(pyTable', f) \/ f \in refused'
    <2>1. CASE InsertFiles(p, m)
      <3>1. pyTable' = BatchInsert(pyTable, g.files, m) /\ refused' = refused
        BY <1>2, <2>1 DEF InsertFiles
      <3> QED  BY <1>2, <3>1, InsertKeepsRows DEF IInv, Types
    <2>2. CASE InsertFilesFails(p, m)
      BY <1>2, <2>2 DEF InsertFilesFails, IInv, Types
    <2> QED  BY <2>1, <2>2
  <1>5. Types'
    BY <1>1, <1>3, <1>4 DEF IInv, Types
  <1>6. ItemsInv'
    BY <1>1, <1>2, <1>3 DEF IInv, ItemsInv
  <1>7. InsertedInv'
    <2> SUFFICES ASSUME NEW q \in Pages, NEW n \in Remotes,
                        fetch'[q][n].at \in {"append", "done"},
                        NEW f \in fetch'[q][n].files
                 PROVE  Located(pyTable', f) \/ f \in refused'
      BY DEF InsertedInv, Located
    <2>1. CASE <<q, n>> = <<p, m>>
      BY <1>3, <1>4, <2>1
    <2>2. CASE <<q, n>> # <<p, m>>
      <3>1. fetch'[q][n] = fetch[q][n] /\ fetch[q][n] \in Fetches
        BY <1>3, <2>2 DEF IInv, Types
      <3>2. f \in Files
        BY <3>1 DEF Fetches
      <3>3. Located(pyTable, f) \/ f \in refused
        BY <3>1 DEF IInv, InsertedInv
      <3> QED  BY <1>4, <3>2, <3>3
    <2> QED  BY <2>1, <2>2
  <1> QED  BY <1>3, <1>5, <1>6, <1>7 DEF IInv

\* What is appended is what the goroutine that is now done has.
LEMMA AppendInvariant ==
    ASSUME IInv, NEW p \in Pages, NEW m \in Remotes, AppendFiles(p, m)
    PROVE  IInv'
  <1> DEFINE g == [fetch[p][m] EXCEPT !.at = "done"]
  <1>1. /\ fetch[p][m].at = "append"
        /\ fetch' = [fetch EXCEPT ![p][m] = g]
        /\ items' = [items EXCEPT ![p] = @ \cup fetch[p][m].files]
        /\ UNCHANGED <<pyTable, ref, rendered, refused>>
    BY DEF AppendFiles, Appended, Step, IInv, Types
  <1>2. /\ g \in Fetches /\ g.at = "done"
        /\ g.files = fetch[p][m].files /\ g.files \in SUBSET Files
    <2>1. fetch[p][m] \in Fetches
      BY DEF IInv, Types
    <2> QED  BY <1>1, <2>1 DEF Fetches, Labels
  <1> HIDE DEF g
  <1>3. /\ fetch' \in [Pages -> [Remotes -> Fetches]] /\ fetch'[p][m] = g
        /\ \A q \in Pages, n \in Remotes :
              <<q, n>> # <<p, m>> => fetch'[q][n] = fetch[q][n]
        /\ AskedInv' /\ RenderedInv'
    <2>1. GoesOn(p, m, g)
      BY <1>1, <1>2 DEF GoesOn
    <2> QED  BY <1>2, <2>1, StepOfOne
  <1>4. /\ items' \in [Pages -> SUBSET Files]
        /\ items'[p] = items[p] \cup g.files
        /\ \A q \in Pages : q # p => items'[q] = items[q]
    BY <1>1, <1>2 DEF IInv, Types
  <1>5. Types'
    BY <1>1, <1>3, <1>4 DEF IInv, Types
  <1>6. ItemsInv'
    <2> SUFFICES ASSUME NEW q \in Pages, NEW f \in Files
                 PROVE  (f \in items[q] <=> \E n \in Remotes :
                           fetch[q][n].at = "done" /\ f \in fetch[q][n].files)'
      BY DEF ItemsInv
    <2>1. CASE q # p
      BY <1>3, <1>4, <2>1 DEF IInv, ItemsInv
    <2>2. CASE q = p
      <3>1. f \in items[p] <=> \E n \in Remotes :
               fetch[p][n].at = "done" /\ f \in fetch[p][n].files
        BY DEF IInv, ItemsInv
      <3>2. \A n \in Remotes : n # m => fetch'[p][n] = fetch[p][n]
        BY <1>3
      <3> QED  BY <1>1, <1>2, <1>3, <1>4, <2>2, <3>1, <3>2
    <2> QED  BY <2>1, <2>2
  <1>7. InsertedInv'
    BY <1>1, <1>2, <1>3 DEF IInv, InsertedInv
  <1> QED  BY <1>3, <1>5, <1>6, <1>7 DEF IInv

LEMMA RenderInvariant ==
    ASSUME IInv, NEW p \in Pages, Render(p)
    PROVE  IInv'
  <1> USE DEF Render, IInv
  <1>1. Types' /\ AskedInv' /\ ItemsInv' /\ InsertedInv'
    BY DEF Types, AskedInv, ItemsInv, InsertedInv, Located
  <1>2. RenderedInv'
    BY DEF RenderedInv, Waited
  <1> QED  BY <1>1, <1>2

LEMMA NextInvariant == IInv /\ [PyPiNext]_pyVars => IInv'
  <1> SUFFICES ASSUME IInv, [PyPiNext]_pyVars PROVE IInv'
    OBVIOUS
  <1>1. ASSUME NEW p \in Pages, Index(p) PROVE IInv'
    BY <1>1, IndexInvariant
  <1>2. ASSUME NEW p \in Pages, Render(p) PROVE IInv'
    BY <1>2, RenderInvariant
  <1>3. ASSUME NEW p \in Pages, NEW m \in Remotes, DownloadListing(p, m) PROVE IInv'
    BY <1>3, DownloadInvariant
  <1>4. ASSUME NEW p \in Pages, NEW m \in Remotes, ListingFails(p, m) PROVE IInv'
    BY <1>4, FailsInvariant
  <1>5. ASSUME NEW p \in Pages, NEW m \in Remotes,
               InsertFiles(p, m) \/ InsertFilesFails(p, m) PROVE IInv'
    BY <1>5, InsertInvariant
  <1>6. ASSUME NEW p \in Pages, NEW m \in Remotes, AppendFiles(p, m) PROVE IInv'
    BY <1>6, AppendInvariant
  <1>7. CASE UNCHANGED pyVars
    BY <1>7 DEF pyVars, IInv, Types, AskedInv, ItemsInv, InsertedInv,
                RenderedInv, Waited, Located
  <1> QED  BY <1>1, <1>2, <1>3, <1>4, <1>5, <1>6, <1>7 DEF PyPiNext

\* The inductive invariant holds in every state that can be reached.
THEOREM Invariant == PyPiSpec => []IInv
  BY InitInvariant, NextInvariant, PTL DEF PyPiSpec

-----------------------------------------------------------------------------
LEMMA PyPiTypes == IInv => PyPiTypeOK
  BY DEF IInv, Types, AskedInv, Fetches, Labels, PyPiTypeOK

\* The variables of the pages of a PyPI package have the values meant.
THEOREM TypesHold == PyPiSpec => []PyPiTypeOK
  BY PyPiTypes, Invariant, PTL

\* A rendered page has what every remote that answered listed, in whatever order
\* the goroutines of pypiapi's fetch append to its items.
THEOREM CompletePages == PyPiSpec => []PagesAreComplete
  <1>1. IInv => PagesAreComplete
    <2> SUFFICES ASSUME IInv, NEW p \in rendered
                 PROVE  items[p] = UNION {fetch[p][m].files : m \in Remotes}
      BY DEF PagesAreComplete
    <2>1. p \in Pages /\ items[p] \subseteq Files
      BY DEF IInv, Types
    <2>2. \A m \in Remotes : fetch[p][m].files \subseteq Files
      BY <2>1 DEF IInv, Types, Fetches
    <2>3. \A m \in Remotes : fetch[p][m].at = "done" \/ fetch[p][m].files = {}
      <3> TAKE m \in Remotes
      <3>1. CASE m \in RemotesOf[ref[p]]
        BY <3>1 DEF IInv, RenderedInv, Waited
      <3>2. CASE m \notin RemotesOf[ref[p]]
        BY <2>1, <3>2 DEF IInv, AskedInv
      <3> QED  BY <3>1, <3>2
    <2>4. \A f \in Files : f \in items[p] <=> \E m \in Remotes : f \in fetch[p][m].files
      BY <2>1, <2>3 DEF IInv, ItemsInv
    <2> QED  BY <2>1, <2>2, <2>4
  <1> QED  BY <1>1, Invariant, PTL

\* A link on a rendered page leads to a row of py_packages, unless the insert of
\* that file failed, whichever remotes and refractions insert the same names.
THEOREM LinksLead == PyPiSpec => []LinksResolve
  <1>1. IInv => LinksResolve
    <2> SUFFICES ASSUME IInv, NEW p \in rendered, NEW f \in items[p]
                 PROVE  Located(pyTable, f) \/ f \in refused
      BY DEF LinksResolve
    <2>1. p \in Pages /\ f \in Files
      BY DEF IInv, Types
    <2>2. PICK m \in Remotes : fetch[p][m].at = "done" /\ f \in fetch[p][m].files
      BY <2>1 DEF IInv, ItemsInv
    <2> QED  BY <2>1, <2>2 DEF IInv, InsertedInv
  <1> QED  BY <1>1, Invariant, PTL

-----------------------------------------------------------------------------
(* HelmIndex.                                                              *)

HelmTypes ==
    /\ remote \in [Remotes -> {"new", "live", "deleted"}]
    /\ charts \in [Remotes -> SUBSET Files]
    /\ queue \in Seq(HelmTasks)
    /\ worker \in [Workers -> [task : HelmTasks, at : {"idle", "handle", "insert"},
                               packages : SUBSET Files]]
    /\ helmTable \in Tables
    /\ faults \in 0..MaxFaults

\* Charts are inserted for a remote.
ForARemote == \A w \in Workers : worker[w].at = "insert" => Subject(w) \in Remotes

\* No row and no task is about a remote that is not there yet.
Unmentioned ==
    \A m \in Remotes : remote[m] = "new" =>
        /\ \A f \in Files : helmTable[f] # m
        /\ \A i \in DOMAIN queue : queue[i].remote # m
        /\ \A w \in Workers : Subject(w) # m

HelmIInv == HelmTypes /\ ForARemote /\ Unmentioned /\ IsFiniteSet(Live)

-----------------------------------------------------------------------------
\* The elements of a finite set can be put in a sequence.
LEMMA SetInSequence ==
    ASSUME NEW S, IsFiniteSet(S)
    PROVE  SetToSeq(S) \in Seq(S)
  <1>1. Cardinality(S) \in Nat /\ ExistsBijection(1..Cardinality(S), S)
    BY FS_CardinalityType
  <1>2. PICK g : g \in Bijection(1..Cardinality(S), S)
    BY <1>1 DEF ExistsBijection
  <1>3. g \in [1..Cardinality(S) -> S] /\ IsInjective(g)
    BY <1>2 DEF Bijection, Injection, IsInjective
  <1>4. SetToSeq(S) \in [1..Cardinality(S) -> S]
    BY <1>3 DEF SetToSeq
  <1>5. [1..Cardinality(S) -> S] \subseteq Seq(S)
    BY <1>1
  <1> QED  BY <1>4, <1>5

\* Enqueue adds no tasks but those it is given.
LEMMA Enqueued ==
    ASSUME queue \in Seq(HelmTasks),
           NEW S \in SUBSET HelmTasks, IsFiniteSet(S), Enqueue(S)
    PROVE  /\ queue' \in Seq(HelmTasks)
           /\ \A i \in DOMAIN queue' : queue'[i] \in S \cup Range(queue)
  <1> DEFINE s == SetToSeq(S)
  <1>1. s \in Seq(S)
    BY SetInSequence
  <1>2. s \in Seq(HelmTasks) /\ queue' = queue \o s
    BY <1>1 DEF Enqueue
  <1>3. \A i \in DOMAIN s : s[i] \in S
    BY <1>1
  <1>4. \A i \in DOMAIN queue : queue[i] \in Range(queue)
    BY DEF Range
  <1> HIDE DEF s
  <1>5. /\ queue' \in Seq(HelmTasks) /\ Len(queue') = Len(queue) + Len(s)
        /\ Len(queue) \in Nat /\ Len(s) \in Nat
        /\ \A i \in 1..Len(queue) : queue'[i] = queue[i]
        /\ \A i \in 1..Len(s) : queue'[Len(queue) + i] = s[i]
        /\ DOMAIN queue = 1..Len(queue) /\ DOMAIN s = 1..Len(s)
        /\ DOMAIN queue' = 1..Len(queue')
    BY <1>2
  <1>6. \A i \in DOMAIN queue' :
           \/ i \in DOMAIN queue /\ queue'[i] = queue[i]
           \/ i - Len(queue) \in DOMAIN s /\ queue'[i] = s[i - Len(queue)]
    BY <1>5
  <1> QED  BY <1>3, <1>4, <1>5, <1>6

\* Neither what waits nor what is handled changes its nature in a queue.
LEMMA TasksWait ==
    ASSUME HelmIInv, NEW S \in SUBSET HelmTasks, IsFiniteSet(S), Enqueue(S),
           \A t \in S, m \in Remotes : t.remote = m => remote[m] # "new"
    PROVE  /\ queue' \in Seq(HelmTasks)
           /\ \A m \in Remotes : remote[m] = "new" =>
                 \A i \in DOMAIN queue' : queue'[i].remote # m
  <1>1. /\ queue' \in Seq(HelmTasks)
        /\ \A i \in DOMAIN queue' : queue'[i] \in S \cup Range(queue)
    BY Enqueued DEF HelmIInv, HelmTypes
  <1>2. \A m \in Remotes : remote[m] = "new" => \A t \in Range(queue) : t.remote # m
    BY DEF HelmIInv, Unmentioned, Range
  <1> QED  BY <1>1, <1>2

-----------------------------------------------------------------------------
LEMMA HelmShapes ==
    /\ IndexAll \in HelmTasks /\ IndexAll.remote = Nowhere
    /\ \A m \in Remotes : IndexRemote(m) \in HelmTasks /\ IndexRemote(m).remote = m
    /\ \A m \in HelmRemotes : HelmRepository(m) \in HelmTasks /\ HelmRepository(m).remote = m
    /\ Idle = [task |-> IndexAll, at |-> "idle", packages |-> {}]
    /\ Nowhere \notin Remotes /\ HelmRemotes \subseteq Remotes
  BY HelmAssumption, FileTableAssumption
     DEF HelmTasks, IndexAll, IndexRemote, HelmRepository, Task, Idle

\* What the state of the workers owes to the invariant.
WorkersInv ==
    /\ worker \in [Workers -> [task : HelmTasks, at : {"idle", "handle", "insert"},
                               packages : SUBSET Files]]
    /\ ForARemote
    /\ \A m \in Remotes : remote[m] = "new" => \A w \in Workers : Subject(w) # m

LEMMA Finished ==
    ASSUME HelmIInv, UNCHANGED remote, NEW w \in Workers, Finish(w)
    PROVE  WorkersInv'
  <1> HIDE DEF HelmTasks, IndexAll, Idle
  <1>1. Idle \in [task : HelmTasks, at : {"idle", "handle", "insert"}, packages : SUBSET Files]
    BY HelmShapes
  <1>2. Idle.at = "idle" /\ Idle.task.remote \notin Remotes
    BY HelmShapes
  <1>3. /\ worker' = [worker EXCEPT ![w] = Idle]
        /\ worker \in [Workers -> [task : HelmTasks, at : {"idle", "handle", "insert"},
                                   packages : SUBSET Files]]
    BY DEF Finish, HelmIInv, HelmTypes
  <1>4. \A v \in Workers : worker'[v] = IF v = w THEN Idle ELSE worker[v]
    BY <1>3
  <1>5. worker' \in [Workers -> [task : HelmTasks, at : {"idle", "handle", "insert"},
                                 packages : SUBSET Files]]
    BY <1>1, <1>3
  <1>6. ForARemote'
    BY <1>2, <1>4 DEF HelmIInv, ForARemote, Subject
  <1>7. \A m \in Remotes : remote'[m] = "new" => \A v \in Workers : Subject(v)' # m
    BY <1>2, <1>4 DEF HelmIInv, Unmentioned, Subject
  <1> QED  BY <1>5, <1>6, <1>7 DEF WorkersInv

\* A step of a handler that is done keeps the invariant if it leaves the table
\* alone, whatever tasks about remotes that are there it enqueues.
LEMMA DoneInvariant ==
    ASSUME HelmIInv, NEW w \in Workers, Finish(w),
           UNCHANGED <<remote, charts, helmTable>>,
           faults' \in 0..MaxFaults,
           NEW S \in SUBSET HelmTasks, IsFiniteSet(S), Enqueue(S) \/ UNCHANGED queue,
           \A t \in S, m \in Remotes : t.remote = m => remote[m] # "new"
    PROVE  HelmIInv'
  <1>1. WorkersInv'
    BY Finished
  <1>2. /\ queue' \in Seq(HelmTasks)
        /\ \A m \in Remotes : remote[m] = "new" =>
              \A i \in DOMAIN queue' : queue'[i].remote # m
    <2>1. CASE Enqueue(S)
      BY <2>1, TasksWait
    <2>2. CASE UNCHANGED queue
      BY <2>2 DEF HelmIInv, HelmTypes, Unmentioned
    <2> QED  BY <2>1, <2>2
  <1>3. HelmTypes'
    BY <1>1, <1>2 DEF HelmIInv, HelmTypes, WorkersInv
  <1>4. Unmentioned'
    BY <1>1, <1>2 DEF HelmIInv, Unmentioned, WorkersInv
  <1>5. IsFiniteSet(Live')
    BY DEF HelmIInv, Live
  <1> QED  BY <1>1, <1>3, <1>4, <1>5 DEF HelmIInv, WorkersInv

\* The tasks of some of the remotes that are live.
LEMMA LiveTasks ==
    ASSUME HelmIInv, NEW M \in SUBSET Live
    PROVE  /\ {IndexRemote(m) : m \in M} \in SUBSET HelmTasks
           /\ IsFiniteSet({IndexRemote(m) : m \in M})
           /\ \A t \in {IndexRemote(m) : m \in M}, m \in Remotes :
                 t.remote = m => remote[m] # "new"
           /\ {HelmRepository(m) : m \in M \cap HelmRemotes} \in SUBSET HelmTasks
           /\ IsFiniteSet({HelmRepository(m) : m \in M \cap HelmRemotes})
           /\ \A t \in {HelmRepository(m) : m \in M \cap HelmRemotes}, m \in Remotes :
                 t.remote = m => remote[m] # "new"
  <1>1. IsFiniteSet(M) /\ IsFiniteSet(M \cap HelmRemotes)
    BY FS_Subset DEF HelmIInv
  <1>2. M \subseteq Remotes /\ \A m \in M : remote[m] = "live"
    BY DEF Live
  <1>3. IsFiniteSet({IndexRemote(m) : m \in M})
    <2> DEFINE T == {IndexRemote(m) : m \in M}
               g == [m \in M |-> IndexRemote(m)]
    <2>1. g \in Surjection(M, T)
      BY DEF Surjection
    <2> QED  BY <1>1, <2>1, FS_Surjection DEF ExistsSurjection
  <1>4. IsFiniteSet({HelmRepository(m) : m \in M \cap HelmRemotes})
    <2> DEFINE K == M \cap HelmRemotes
               T == {HelmRepository(m) : m \in K}
               g == [m \in K |-> HelmRepository(m)]
    <2>1. g \in Surjection(K, T)
      BY DEF Surjection
    <2> QED  BY <1>1, <2>1, FS_Surjection DEF ExistsSurjection
  <1> HIDE DEF HelmTasks, IndexRemote, HelmRepository
  <1> QED  BY <1>2, <1>3, <1>4, HelmShapes

\* The task at hand, as one to enqueue again.
LEMMA TaskAtHand ==
    ASSUME HelmIInv, NEW w \in Workers
    PROVE  /\ {worker[w].task} \in SUBSET HelmTasks
           /\ IsFiniteSet({worker[w].task})
           /\ \A t \in {worker[w].task}, m \in Remotes : t.remote = m => remote[m] # "new"
  <1>1. IsFiniteSet({worker[w].task})
    BY FS_Singleton
  <1> QED  BY <1>1 DEF HelmIInv, HelmTypes, Unmentioned, Subject

LEMMA NoTask ==
    /\ {} \in SUBSET HelmTasks /\ IsFiniteSet({})
    /\ \A t \in {}, m \in Remotes : t.remote = m => remote[m] # "new"
  BY FS_EmptySet

-----------------------------------------------------------------------------
LEMMA HelmInitInvariant == HelmInit => HelmIInv
  <1> SUFFICES ASSUME HelmInit PROVE HelmIInv
    OBVIOUS
  <1> HIDE DEF HelmTasks, IndexAll, Idle
  <1>1. WorkersInv
    BY HelmShapes DEF HelmInit, WorkersInv, ForARemote, Subject
  <1>2. queue \in Seq(HelmTasks) /\ DOMAIN queue = {}
    BY DEF HelmInit
  <1>3. helmTable \in Tables /\ \A m \in Remotes, f \in Files : helmTable[f] # m
    BY FileTableAssumption DEF HelmInit, EmptyTable, Tables
  <1>4. faults \in 0..MaxFaults
    BY HelmAssumption DEF HelmInit
  <1>5. HelmTypes
    BY <1>1, <1>2, <1>3, <1>4 DEF HelmInit, HelmTypes, WorkersInv
  <1>6. Unmentioned
    BY <1>1, <1>2, <1>3 DEF Unmentioned, WorkersInv
  <1>7. Live = FirstRemotes
    BY HelmAssumption DEF HelmInit, Live
  <1> QED  BY <1>1, <1>5, <1>6, <1>7, HelmAssumption DEF HelmIInv, WorkersInv

\* A remote that is created is one more that is live, and may be mentioned.
LEMMA CreateInvariant ==
    ASSUME HelmIInv, NEW m \in Remotes, CreateRemote(m) \/ CreateRemoteUnannounced(m)
    PROVE  HelmIInv'
  <1>1. remote' = [remote EXCEPT ![m] = "live"] /\ UNCHANGED <<charts, worker, helmTable>>
    BY DEF CreateRemote, CreateRemoteUnannounced
  <1>2. remote' \in [Remotes -> {"new", "live", "deleted"}]
    BY <1>1 DEF HelmIInv, HelmTypes
  <1>3. \A n \in Remotes : remote'[n] = "new" => remote[n] = "new" /\ n # m
    BY <1>1 DEF HelmIInv, HelmTypes
  <1>4. IsFiniteSet(Live')
    <2>1. Live' = Live \cup {m}
      BY <1>1 DEF HelmIInv, HelmTypes, Live
    <2> QED  BY <2>1, FS_AddElement DEF HelmIInv
  <1>5. faults' \in 0..MaxFaults
    BY HelmAssumption DEF HelmIInv, HelmTypes, CreateRemote, CreateRemoteUnannounced
  <1>6. /\ queue' \in Seq(HelmTasks)
        /\ \A n \in Remotes \ {m} : remote[n] = "new" =>
              \A i \in DOMAIN queue' : queue'[i].remote # n
    <2>1. CASE CreateRemote(m)
      <3>1. Enqueue({IndexRemote(m)})
        BY <2>1 DEF CreateRemote
      <3>2. {IndexRemote(m)} \in SUBSET HelmTasks /\ IndexRemote(m).remote = m
        BY HelmShapes
      <3>3. IsFiniteSet({IndexRemote(m)})
        BY FS_Singleton
      <3>4. /\ queue' \in Seq(HelmTasks)
            /\ \A i \in DOMAIN queue' : queue'[i] \in {IndexRemote(m)} \cup Range(queue)
        BY <3>1, <3>2, <3>3, Enqueued DEF HelmIInv, HelmTypes
      <3>5. \A n \in Remotes : remote[n] = "new" => \A t \in Range(queue) : t.remote # n
        BY DEF HelmIInv, Unmentioned, Range
      <3> HIDE DEF HelmTasks, IndexRemote
      <3> QED  BY <3>2, <3>4, <3>5
    <2>2. CASE CreateRemoteUnannounced(m)
      BY <2>2 DEF CreateRemoteUnannounced, HelmIInv, HelmTypes, Unmentioned
    <2> QED  BY <2>1, <2>2
  <1>7. HelmTypes'
    BY <1>1, <1>2, <1>5, <1>6 DEF HelmIInv, HelmTypes
  <1>8. ForARemote'
    BY <1>1 DEF HelmIInv, ForARemote, Subject
  <1>9. Unmentioned'
    BY <1>1, <1>3, <1>6 DEF HelmIInv, Unmentioned, Subject
  <1> QED  BY <1>4, <1>7, <1>8, <1>9 DEF HelmIInv

LEMMA DeleteInvariant ==
    ASSUME HelmIInv, NEW m \in Remotes, DeleteRemote(m)
    PROVE  HelmIInv'
  <1>1. HelmTypes'
    BY DEF DeleteRemote, HelmIInv, HelmTypes
  <1>2. ForARemote'
    BY DEF DeleteRemote, HelmIInv, ForARemote, Subject
  <1>3. Unmentioned'
    BY DEF DeleteRemote, HelmIInv, HelmTypes, Unmentioned, Subject
  <1>4. IsFiniteSet(Live')
    <2>1. Live' \subseteq Live
      BY DEF DeleteRemote, HelmIInv, HelmTypes, Live
    <2> QED  BY <2>1, FS_Subset DEF HelmIInv
  <1> QED  BY <1>1, <1>2, <1>3, <1>4 DEF HelmIInv

LEMMA PublishInvariant ==
    ASSUME HelmIInv, NEW m \in Remotes, Publish(m)
    PROVE  HelmIInv'
  <1>1. charts' \in [Remotes -> SUBSET Files]
    <2>1. PICK f \in Catalogue[m] : charts' = [charts EXCEPT ![m] = charts[m] \cup {f}]
      BY DEF Publish
    <2>2. Catalogue[m] \subseteq Files /\ charts \in [Remotes -> SUBSET Files]
      BY HelmAssumption DEF HelmIInv, HelmTypes
    <2>3. charts[m] \cup {f} \in SUBSET Files
      BY <2>1, <2>2
    <2> QED  BY <2>1, <2>2, <2>3
  <1>2. UNCHANGED <<remote, queue, worker, helmTable, faults>>
    BY DEF Publish
  <1> QED  BY <1>1, <1>2 DEF HelmIInv, HelmTypes, ForARemote, Unmentioned, Subject, Live

LEMMA CronInvariant ==
    ASSUME HelmIInv, Cron
    PROVE  HelmIInv'
  <1>1. {IndexAll} \in SUBSET HelmTasks /\ IsFiniteSet({IndexAll})
    BY HelmShapes, FS_Singleton
  <1>2. \A t \in {IndexAll}, m \in Remotes : t.remote = m => remote[m] # "new"
    BY HelmShapes
  <1>3. /\ queue' \in Seq(HelmTasks)
        /\ \A m \in Remotes : remote[m] = "new" =>
              \A i \in DOMAIN queue' : queue'[i].remote # m
    BY <1>1, <1>2, TasksWait DEF Cron
  <1>4. UNCHANGED <<remote, charts, worker, helmTable, faults>>
    BY DEF Cron
  <1> QED  BY <1>3, <1>4 DEF HelmIInv, HelmTypes, ForARemote, Unmentioned, Subject, Live

LEMMA TakeInvariant ==
    ASSUME HelmIInv, NEW w \in Workers, Take(w)
    PROVE  HelmIInv'
  <1>1. /\ queue \in Seq(HelmTasks) /\ queue # <<>> /\ queue' = Tail(queue)
        /\ UNCHANGED <<remote, charts, helmTable, faults>>
    BY DEF Take, HelmIInv, HelmTypes
  <1>2. /\ queue' \in Seq(HelmTasks) /\ Head(queue) \in HelmTasks
        /\ 1 \in DOMAIN queue /\ Head(queue) = queue[1]
        /\ \A i \in DOMAIN queue' : i + 1 \in DOMAIN queue /\ queue'[i] = queue[i + 1]
    BY <1>1
  <1>4. /\ worker' = [worker EXCEPT ![w] = worker'[w]]
        /\ worker'[w].task = Head(queue) /\ worker'[w].at = "handle"
        /\ worker'[w] \in [task : HelmTasks, at : {"idle", "handle", "insert"},
                           packages : SUBSET Files]
    BY <1>2 DEF Take, Idle, HelmIInv, HelmTypes
  <1>5. HelmTypes'
    BY <1>1, <1>2, <1>4 DEF HelmIInv, HelmTypes
  <1>6. ForARemote'
    BY <1>4 DEF HelmIInv, HelmTypes, ForARemote, Subject
  <1>7. Unmentioned'
    <2> SUFFICES ASSUME NEW m \in Remotes, remote[m] = "new"
                 PROVE  /\ \A f \in Files : helmTable'[f] # m
                        /\ \A i \in DOMAIN queue' : queue'[i].remote # m
                        /\ \A v \in Workers : worker'[v].task.remote # m
      BY <1>1 DEF Unmentioned, Subject
    <2>1. /\ \A f \in Files : helmTable[f] # m
          /\ \A i \in DOMAIN queue : queue[i].remote # m
          /\ \A v \in Workers : worker[v].task.remote # m
      BY DEF HelmIInv, Unmentioned, Subject
    <2>2. \A v \in Workers : worker'[v] = worker[v] \/ worker'[v].task = queue[1]
      BY <1>2, <1>4 DEF HelmIInv, HelmTypes
    <2> QED  BY <1>1, <1>2, <2>1, <2>2
  <1>8. Live' = Live
    BY <1>1 DEF Live
  <1> QED  BY <1>5, <1>6, <1>7, <1>8 DEF HelmIInv

LEMMA DownloadIndexInvariant ==
    ASSUME HelmIInv, NEW w \in Workers, DownloadIndex(w)
    PROVE  HelmIInv'
  <1>1. /\ Subject(w) \in Remotes /\ remote[Subject(w)] = "live"
        /\ UNCHANGED <<remote, charts, queue, helmTable, faults>>
        /\ worker' = [worker EXCEPT ![w].at = "insert", ![w].packages = charts[Subject(w)]]
    BY DEF DownloadIndex, Live
  <1>2. /\ worker' \in [Workers -> [task : HelmTasks, at : {"idle", "handle", "insert"},
                                    packages : SUBSET Files]]
        /\ \A v \in Workers : worker'[v].task = worker[v].task
        /\ \A v \in Workers \ {w} : worker'[v] = worker[v]
    <2> HIDE DEF HelmTasks
    <2> QED  BY <1>1 DEF HelmIInv, HelmTypes
  <1>3. HelmTypes'
    BY <1>1, <1>2 DEF HelmIInv, HelmTypes
  <1>4. ForARemote'
    BY <1>1, <1>2 DEF HelmIInv, ForARemote, Subject
  <1>5. Unmentioned'
    BY <1>1, <1>2 DEF HelmIInv, Unmentioned, Subject
  <1>6. Live' = Live
    BY <1>1 DEF Live
  <1> QED  BY <1>3, <1>4, <1>5, <1>6 DEF HelmIInv

LEMMA InsertChartsInvariant ==
    ASSUME HelmIInv, NEW w \in Workers, InsertCharts(w)
    PROVE  HelmIInv'
  <1>1. /\ Subject(w) \in Remotes /\ remote[Subject(w)] # "new"
        /\ worker[w].packages \subseteq Files
        /\ UNCHANGED <<remote, charts, queue, faults>>
        /\ helmTable' = BatchInsert(helmTable, worker[w].packages, Subject(w))
    BY DEF InsertCharts, HelmIInv, HelmTypes, ForARemote, Unmentioned
  <1>2. WorkersInv'
    BY <1>1, Finished DEF InsertCharts
  <1>3. helmTable' \in Tables
    BY <1>1, InsertKeepsRows DEF HelmIInv, HelmTypes
  <1>4. \A f \in Files : helmTable'[f] = helmTable[f] \/ helmTable'[f] = Subject(w)
    BY <1>1 DEF BatchInsert
  <1>5. HelmTypes'
    BY <1>1, <1>2, <1>3 DEF HelmIInv, HelmTypes, WorkersInv
  <1>6. Unmentioned'
    BY <1>1, <1>2, <1>4 DEF HelmIInv, Unmentioned, WorkersInv
  <1>7. Live' = Live
    BY <1>1 DEF Live
  <1> QED  BY <1>2, <1>5, <1>6, <1>7 DEF HelmIInv, WorkersInv

\* The handlers that only enqueue tasks, whether or not they succeed.
LEMMA HandleInvariant ==
    ASSUME HelmIInv, NEW w \in Workers,
           HandleIndexAll(w) \/ HandleIndex(w) \/ RemoteIsGone(w)
    PROVE  HelmIInv'
  <1>1. /\ Finish(w) /\ UNCHANGED <<remote, charts, helmTable>>
        /\ faults' \in 0..MaxFaults
    BY DEF HandleIndexAll, HandleIndex, RemoteIsGone, HelmIInv, HelmTypes
  <1>2. CASE HandleIndexAll(w)
    <2>1. Enqueue({IndexRemote(m) : m \in Live})
      BY <1>2 DEF HandleIndexAll, Listed
    <2>2. /\ {IndexRemote(m) : m \in Live} \in SUBSET HelmTasks
          /\ IsFiniteSet({IndexRemote(m) : m \in Live})
          /\ \A t \in {IndexRemote(m) : m \in Live}, m \in Remotes :
                t.remote = m => remote[m] # "new"
      BY LiveTasks
    <2> QED  BY <1>1, <2>1, <2>2, DoneInvariant
  <1>3. CASE HandleIndex(w)
    <2> DEFINE M == {Subject(w)}
    <2>1. M \in SUBSET Live /\ Enqueue({HelmRepository(m) : m \in M \cap HelmRemotes})
      BY <1>3 DEF HandleIndex
    <2> HIDE DEF M
    <2>2. /\ {HelmRepository(m) : m \in M \cap HelmRemotes} \in SUBSET HelmTasks
          /\ IsFiniteSet({HelmRepository(m) : m \in M \cap HelmRemotes})
          /\ \A t \in {HelmRepository(m) : m \in M \cap HelmRemotes}, m \in Remotes :
                t.remote = m => remote[m] # "new"
      BY <2>1, LiveTasks
    <2> QED  BY <1>1, <2>1, <2>2, DoneInvariant
  <1>4. CASE RemoteIsGone(w)
    <2>1. UNCHANGED queue
      BY <1>4 DEF RemoteIsGone
    <2> QED  BY <1>1, <2>1, NoTask, DoneInvariant
  <1> QED  BY <1>2, <1>3, <1>4

LEMMA FaultInvariant ==
    ASSUME HelmIInv, NEW w \in Workers,
           Retried(w) \/ EnqueueFails(w) \/ InsertChartsFails(w)
    PROVE  HelmIInv'
  <1>1. Fault(w)
    BY DEF Retried, EnqueueFails, InsertChartsFails
  <1>2. /\ Finish(w) /\ UNCHANGED <<remote, charts, helmTable>>
        /\ faults' \in 0..MaxFaults
    BY <1>1, HelmAssumption DEF Fault, HelmIInv, HelmTypes
  <1>3. CASE Retried(w)
    <2>1. Enqueue({worker[w].task})
      BY <1>3 DEF Retried
    <2> QED  BY <1>2, <2>1, TaskAtHand, DoneInvariant
  <1>4. CASE \E M \in SUBSET Live : Enqueue({IndexRemote(m) : m \in M})
    <2>1. PICK M \in SUBSET Live : Enqueue({IndexRemote(m) : m \in M})
      BY <1>4
    <2>2. /\ {IndexRemote(m) : m \in M} \in SUBSET HelmTasks
          /\ IsFiniteSet({IndexRemote(m) : m \in M})
          /\ \A t \in {IndexRemote(m) : m \in M}, m \in Remotes :
                t.remote = m => remote[m] # "new"
      BY LiveTasks
    <2> QED  BY <1>2, <2>1, <2>2, DoneInvariant
  <1>5. CASE UNCHANGED queue
    BY <1>2, <1>5, NoTask, DoneInvariant
  <1> QED  BY <1>3, <1>4, <1>5 DEF EnqueueFails, InsertChartsFails, Listed

LEMMA HelmNextInvariant == HelmIInv /\ [HelmNext]_helmVars => HelmIInv'
  <1> SUFFICES ASSUME HelmIInv, [HelmNext]_helmVars PROVE HelmIInv'
    OBVIOUS
  <1>1. CASE Cron
    BY <1>1, CronInvariant
  <1>2. ASSUME NEW m \in Remotes,
               CreateRemote(m) \/ CreateRemoteUnannounced(m) \/ DeleteRemote(m) \/ Publish(m)
        PROVE  HelmIInv'
    BY <1>2, CreateInvariant, DeleteInvariant, PublishInvariant
  <1>3. ASSUME NEW w \in Workers, Take(w) PROVE HelmIInv'
    BY <1>3, TakeInvariant
  <1>4. ASSUME NEW w \in Workers, Handle(w) PROVE HelmIInv'
    BY <1>4, HandleInvariant, DownloadIndexInvariant, InsertChartsInvariant DEF Handle
  <1>5. ASSUME NEW w \in Workers, Retried(w) \/ EnqueueFails(w) \/ InsertChartsFails(w)
        PROVE  HelmIInv'
    BY <1>5, FaultInvariant
  <1>6. CASE UNCHANGED helmVars
    BY <1>6 DEF helmVars, HelmIInv, HelmTypes, ForARemote, Unmentioned, Subject, Live
  <1> QED  BY <1>1, <1>2, <1>3, <1>4, <1>5, <1>6 DEF HelmNext

\* The inductive invariant holds in every state that can be reached.
LEMMA HelmInvariant == HelmInit /\ [][HelmNext]_helmVars => []HelmIInv
  BY HelmInitInvariant, HelmNextInvariant, PTL

-----------------------------------------------------------------------------
LEMMA HelmTypesFollow == HelmIInv => HelmTypeOK
  <1> SUFFICES ASSUME HelmIInv PROVE HelmTypeOK
    OBVIOUS
  <1> HIDE DEF HelmTasks
  <1>1. Range(queue) \subseteq HelmTasks
    BY DEF HelmIInv, HelmTypes, Range
  <1>2. \A m \in Remotes : remote[m] = "new" =>
            /\ Served({m}) = {}
            /\ \A t \in Range(queue) \cup {worker[w].task : w \in Workers} : t.remote # m
    BY DEF HelmIInv, Unmentioned, Served, Range, Subject
  <1> QED  BY <1>1, <1>2 DEF HelmIInv, HelmTypes, HelmTypeOK

\* The tasks, the workers, the charts and the table of the batch process have the
\* values meant, however often a task waits and at however many workers it runs at
\* once: no task and no row is about a remote that has not been created.
THEOREM HelmTypesHold == HelmSpec => []HelmTypeOK
  BY HelmTypesFollow, HelmInvariant, PTL DEF HelmSpec

-----------------------------------------------------------------------------
(* The two together.                                                       *)

\* The variables of both have the values meant, whichever of them runs.
THEOREM TypeCorrect == Spec => []TypeOK
  <1>1. Init => HelmInit /\ PyPiInit
    BY DEF Init
  <1>2. [Next]_vars => [HelmNext]_helmVars /\ [PyPiNext]_pyVars
    BY DEF Next, Helm, PyPi, vars
  <1>3. HelmIInv /\ IInv => TypeOK
    <2>1. IInv => PyPiTypeOK
      BY PyPiTypes
    <2>2. HelmIInv => HelmTypeOK
      BY HelmTypesFollow
    <2> QED  BY <2>1, <2>2 DEF TypeOK
  <1> QED
    BY <1>1, <1>2, <1>3, InitInvariant, NextInvariant, HelmInitInvariant,
       HelmNextInvariant, PTL DEF Spec
=============================================================================
