-------------------------- MODULE GoGatewayProofs --------------------------
(***************************************************************************)
(* Theorems about GoGateway, for any finite set of requests and any paths. *)
(* The inductive invariant says what the shared closure holds: the path of *)
(* every request under way that was not overtaken, and in any case a path  *)
(* some request asked for; and what a request has recorded before its      *)
(* response, which is nothing.  Of the rows of the database it says that a *)
(* call that has yet to succeed has none, and that an artifact without     *)
(* rows has no recorded download (RowsInv): the first row counts from 1.   *)
(***************************************************************************)
EXTENDS GoGateway, FiniteSetTheorems, TLAPS

Types ==
    /\ pc \in [Calls -> {"idle", "update", "insert", "ok", "error"}]
    /\ target \in [Calls -> Artifacts \cup {NoArtifact}]
    /\ downloads \in [Calls -> Nat]
    /\ at \in [Calls -> {"idle", "proxied", "copying", "refused", "done"}]
    /\ path \in [Calls -> Paths \cup {NoPath}]
    /\ hook \in Paths \cup {NoPath}
    /\ succeeded \cup observed \cup overtaken \subseteq Calls

\* Until its response a request has recorded nothing.
BeforeInv ==
    \A c \in Calls : at[c] \in {"idle", "proxied"} =>
        target[c] = NoArtifact /\ pc[c] = "idle" /\ c \notin succeeded

\* The closure is that of every request under way, but for those overtaken.
HookInv ==
    \A c \in Calls : at[c] = "proxied" =>
        /\ c \notin overtaken => hook = path[c]
        /\ \E d \in Calls : at[d] # "idle" /\ path[d] = hook

\* What is recorded was asked for by a request that has begun.
RecordInv ==
    \A c \in Calls : target[c] # NoArtifact =>
        c \in succeeded /\ \E d \in Calls : at[d] # "idle" /\ path[d] = target[c]

\* A row is incremented at most once by each call that succeeded.
Done == {c \in Calls : pc[c] = "ok"}
CountInv == \A c \in Calls : downloads[c] <= Cardinality(Done)

\* A row is inserted as its call succeeds.
InsertedInv == \A c \in Calls : downloads[c] > 0 => pc[c] = "ok"

\* The counts of an artifact's rows cover the recorded downloads, all by the
\* first row while there is no other.
RowsInv(a) ==
    /\ RowsOf(a) = {} => Recorded(a) = {}
    /\ Total(a) >= Cardinality(Recorded(a))
    /\ Cardinality(RowsOf(a)) = 1 => Total(a) = Cardinality(Recorded(a))

TableInv == InsertedInv /\ \A a \in Artifacts : RowsInv(a)

IInv ==
    /\ Types /\ BeforeInv /\ HookInv /\ CountInv /\ OwnUnlessOvertaken /\ RecordInv
    /\ TableInv

-----------------------------------------------------------------------------
(* The counts.                                                             *)

\* The union that Counted(a) is has the rows with each number they have reached.
LEMMA Numbered ==
    ASSUME NEW R, NEW n, NEW C, C = UNION {{c} \X (1..n[c]) : c \in R}
    PROVE  /\ \A c, i : <<c, i>> \in C <=> c \in R /\ i \in 1..n[c]
           /\ \A p \in C : p = <<p[1], p[2]>>
  <1> DEFINE Of(c) == {c} \X (1..n[c])
  <1>1. \A p : p \in C <=> \E c \in R : p \in Of(c)
    OBVIOUS
  <1>2. \A c, p : p \in Of(c) <=> \E i \in 1..n[c] : p = <<c, i>>
    OBVIOUS
  <1> HIDE DEF Of
  <1> QED  BY <1>1, <1>2

LEMMA InCounted ==
    ASSUME NEW a
    PROVE  /\ \A c, i : <<c, i>> \in Counted(a) <=> c \in RowsOf(a) /\ i \in 1..downloads[c]
           /\ \A p \in Counted(a) : p = <<p[1], p[2]>>
  BY Numbered DEF Counted

LEMMA SetsFinite ==
    ASSUME Types, CountInv, NEW a
    PROVE  /\ IsFiniteSet(RowsOf(a)) /\ Cardinality(RowsOf(a)) \in Nat
           /\ IsFiniteSet(Recorded(a)) /\ Cardinality(Recorded(a)) \in Nat
           /\ IsFiniteSet(Counted(a)) /\ Total(a) \in Nat
  <1>1. /\ IsFiniteSet(RowsOf(a)) /\ Cardinality(RowsOf(a)) \in Nat
        /\ IsFiniteSet(Recorded(a)) /\ Cardinality(Recorded(a)) \in Nat
    BY CallsAssumption, FS_Subset, FS_CardinalityType DEF RowsOf, Recorded
  <1>2. /\ Cardinality(Done) \in Nat /\ Cardinality(Calls) \in Nat
        /\ Cardinality(Done) <= Cardinality(Calls)
    BY CallsAssumption, FS_CardinalityType, FS_Subset DEF Done
  <1> DEFINE Grid == Calls \X (1..Cardinality(Calls))
  <1>3. IsFiniteSet(Grid)
    <2>1. IsFiniteSet(1..Cardinality(Calls))
      BY <1>2, FS_Interval
    <2> QED  BY <2>1, CallsAssumption, FS_Product
  <1>4. Counted(a) \in SUBSET Grid
    <2> SUFFICES ASSUME NEW p \in Counted(a) PROVE p \in Grid
      OBVIOUS
    <2>1. p = <<p[1], p[2]>> /\ p[1] \in RowsOf(a) /\ p[2] \in 1..downloads[p[1]]
      BY InCounted
    <2>2. p[1] \in Calls /\ downloads[p[1]] \in Nat
      BY <2>1 DEF RowsOf, Types
    <2>3. downloads[p[1]] <= Cardinality(Calls)
      BY <1>2, <2>2 DEF CountInv
    <2>4. p[2] \in 1..Cardinality(Calls)
      BY <1>2, <2>1, <2>2, <2>3
    <2> QED  BY <2>1, <2>2, <2>4
  <1> HIDE DEF Grid
  <1>5. IsFiniteSet(Counted(a))
    BY <1>3, <1>4, FS_Subset
  <1> QED  BY <1>1, <1>5, FS_CardinalityType DEF Total

LEMMA InitInvariant == GatewayInit => IInv
  <1> SUFFICES ASSUME GatewayInit PROVE IInv
    OBVIOUS
  <1> USE DEF GatewayInit, Init
  <1>1. Types
    BY DEF Types
  <1>2. CountInv
    <2>1. Cardinality(Done) \in Nat
      BY CallsAssumption, FS_CardinalityType, FS_Subset DEF Done
    <2> QED  BY <2>1 DEF CountInv
  <1>3. BeforeInv /\ HookInv /\ OwnUnlessOvertaken /\ RecordInv
    BY DEF BeforeInv, HookInv, OwnUnlessOvertaken, RecordInv
  <1>4. TableInv
    <2>1. \A a \in Artifacts : RowsOf(a) = {} /\ Recorded(a) = {}
      BY DEF RowsOf, Recorded
    <2>2. \A a \in Artifacts : Counted(a) = {}
      BY <2>1 DEF Counted
    <2>3. \A a \in Artifacts : RowsInv(a)
      BY <2>1, <2>2, FS_EmptySet DEF RowsInv, Total
    <2> QED  BY <2>3 DEF TableInv, InsertedInv
  <1> QED  BY <1>1, <1>2, <1>3, <1>4 DEF IInv

\* The counts do not change while no call runs.
LEMMA CountKept ==
    ASSUME CountInv, downloads' = downloads,
           {c \in Calls : pc'[c] = "ok"} = {c \in Calls : pc[c] = "ok"}
    PROVE  CountInv'
  BY DEF CountInv, Done

\* Nor does anything change for an artifact when a call that has yet to succeed
\* is given one or goes on without success.
LEMMA TableKept ==
    ASSUME TableInv, NEW c \in Calls, downloads' = downloads,
           \/ pc'[c] = pc[c] /\ target'[c] = target[c]
           \/ {pc[c], pc'[c]} \cap {"ok"} = {},
           \A d \in Calls : d # c => pc'[d] = pc[d] /\ target'[d] = target[d]
    PROVE  TableInv'
  <1>1. InsertedInv'
    BY DEF TableInv, InsertedInv
  <1>2. ASSUME NEW a \in Artifacts PROVE RowsInv(a)'
    <2>1. RowsOf(a)' = RowsOf(a) /\ Recorded(a)' = Recorded(a)
      BY DEF TableInv, InsertedInv, RowsOf, Recorded
    <2>2. Counted(a)' = Counted(a)
      BY <2>1 DEF Counted
    <2> QED  BY <2>1, <2>2 DEF TableInv, RowsInv, Total
  <1> QED  BY <1>1, <1>2 DEF TableInv

\* A request that is refused at once or on its way records nothing.
LEMMA RefusedInvariant ==
    ASSUME IInv, NEW c \in Calls, ServeDisabled(c) \/ Unreachable(c)
    PROVE  IInv'
  <1> USE DEF IInv, ServeDisabled, Unreachable, Enter, repoVars
  <1>1. Types'
    BY DEF Types
  <1>2. CountInv'
    BY CountKept
  <1>3. BeforeInv'
    BY DEF Types, BeforeInv
  <1>4. HookInv'
    <2>1. \A d \in Calls :
            /\ at'[d] = "proxied" => at[d] = "proxied"
            /\ at[d] # "idle" => at'[d] # "idle"
      BY DEF Types
    <2> QED  BY <2>1 DEF HookInv
  <1>5. OwnUnlessOvertaken'
    <2>1. target[c] = NoArtifact /\ c \notin succeeded
      BY DEF BeforeInv
    <2> QED  BY <2>1 DEF OwnUnlessOvertaken, Types
  <1>6. RecordInv'
    <2>1. \A d \in Calls : at[d] # "idle" => at'[d] # "idle"
      BY DEF Types
    <2> QED  BY <2>1 DEF RecordInv
  <1>7. TableInv'
    BY TableKept
  <1> QED  BY <1>1, <1>2, <1>3, <1>4, <1>5, <1>6, <1>7

\* The closure is replaced: it is that of the new request, and of those under
\* way for the same path, and the others are overtaken.
LEMMA ServeInvariant ==
    ASSUME IInv, NEW c \in Calls, ServeGo(c)
    PROVE  IInv'
  <1> PICK p \in Paths :
        /\ at[c] = "idle"
        /\ path' = [path EXCEPT ![c] = p]
        /\ hook' = p
        /\ overtaken' = overtaken \cup {d \in Proxied : path[d] # p}
        /\ at' = [at EXCEPT ![c] = "proxied"]
        /\ UNCHANGED <<repoVars, goProxy, succeeded, observed>>
    BY DEF ServeGo, Hooked, Enter
  <1> USE DEF IInv, repoVars
  <1>1. /\ path'[c] = p /\ at'[c] = "proxied"
        /\ \A d \in Calls : d # c => path'[d] = path[d] /\ at'[d] = at[d]
        /\ target[c] = NoArtifact
    BY DEF Types, BeforeInv
  <1>2. Types'
    BY DEF Types, Proxied
  <1>3. CountInv'
    BY CountKept
  <1>4. BeforeInv'
    BY <1>1 DEF BeforeInv
  <1>5. HookInv'
    BY <1>1 DEF HookInv, Proxied
  <1>6. OwnUnlessOvertaken'
    BY <1>1 DEF OwnUnlessOvertaken
  <1>7. RecordInv'
    BY <1>1 DEF RecordInv
  <1>8. TableInv'
    BY TableKept
  <1> QED  BY <1>2, <1>3, <1>4, <1>5, <1>6, <1>7, <1>8

\* A response records the path the closure holds, if it is a version's; a
\* request that was not overtaken finds its own path there.
LEMMA RespondInvariant ==
    ASSUME IInv, NEW c \in Calls, Respond(c)
    PROVE  IInv'
  <1> PICK ok \in BOOLEAN :
        /\ at[c] = "proxied"
        /\ succeeded' = IF ok THEN succeeded \cup {c} ELSE succeeded
        /\ IF Records(ok) THEN Call(c, hook) ELSE UNCHANGED repoVars
        /\ at' = [at EXCEPT ![c] = "copying"]
        /\ UNCHANGED <<goProxy, path, hook, observed, overtaken>>
    BY DEF Respond, Enter
  <1> USE DEF IInv
  <1>1. /\ target[c] = NoArtifact /\ c \notin succeeded
        /\ c \notin overtaken => hook = path[c]
        /\ \E d \in Calls : at[d] # "idle" /\ path[d] = hook
    BY DEF BeforeInv, HookInv
  <1>2. /\ downloads' = downloads
        /\ target' = [target EXCEPT ![c] = IF Records(ok) THEN hook ELSE NoArtifact]
        /\ pc' = [pc EXCEPT ![c] = IF Records(ok) THEN "update" ELSE pc[c]]
        /\ pc[c] = "idle"
    BY <1>1 DEF Call, Goto, repoVars, Types, BeforeInv
  <1>3. Types'
    BY <1>2 DEF Types, Records
  <1>4. CountInv'
    BY <1>2, CountKept DEF Types
  <1>5. \A d \in Calls : d # c =>
           /\ target'[d] = target[d] /\ pc'[d] = pc[d] /\ at'[d] = at[d]
           /\ d \in succeeded' <=> d \in succeeded
    BY <1>2 DEF Types
  <1>6. at'[c] = "copying"
    BY DEF Types
  <1>7. BeforeInv' /\ HookInv'
    BY <1>5, <1>6 DEF BeforeInv, HookInv
  <1>8. OwnUnlessOvertaken'
    <2>1. target'[c] = IF Records(ok) THEN hook ELSE NoArtifact
      BY <1>2 DEF Types
    <2>2. c \notin overtaken' => target'[c] =
             IF c \in succeeded' /\ path'[c] \in Artifacts THEN path'[c] ELSE NoArtifact
      BY <1>1, <2>1 DEF Records
    <2> QED  BY <1>5, <2>2 DEF OwnUnlessOvertaken
  <1>9. RecordInv'
    <2>1. target'[c] = IF Records(ok) THEN hook ELSE NoArtifact
      BY <1>2 DEF Types
    <2>2. \A d \in Calls : at[d] # "idle" => at'[d] # "idle"
      BY <1>5, <1>6
    <2> QED  BY <1>1, <1>5, <2>1, <2>2 DEF RecordInv, Records
  <1>10. TableInv'
    BY <1>2, TableKept DEF Types
  <1> QED  BY <1>3, <1>4, <1>7, <1>8, <1>9, <1>10

\* The rest of a request only observes its traffic.
LEMMA ObserveInvariant ==
    ASSUME IInv, NEW c \in Calls, Observe(c) \/ AbortCopy(c)
    PROVE  IInv'
  <1> USE DEF IInv, Observe, AbortCopy, Enter, repoVars
  <1>1. Types'
    BY DEF Types
  <1>2. CountInv'
    BY CountKept
  <1>3. BeforeInv' /\ HookInv'
    BY DEF Types, BeforeInv, HookInv
  <1>4. OwnUnlessOvertaken'
    BY DEF OwnUnlessOvertaken, Types
  <1>5. RecordInv'
    BY DEF RecordInv, Types
  <1>6. TableInv'
    BY TableKept
  <1> QED  BY <1>1, <1>2, <1>3, <1>4, <1>5, <1>6

-----------------------------------------------------------------------------
(* The calls of CreateArtifact.                                            *)

LEMMA RunTypes ==
    ASSUME Types, NEW c \in Calls, Run(c), UNCHANGED requestVars
    PROVE  Types' /\ target' = target /\ pc[c] # "idle"
  <1> USE DEF Types, requestVars, Goto
  <1>1. CASE Update(c)
    BY <1>1 DEF Update, Incremented
  <1>2. CASE UpdateMatchesNone(c)
    BY <1>2 DEF UpdateMatchesNone
  <1>3. CASE Insert(c)
    BY <1>3 DEF Insert, InitialDownloads
  <1>4. CASE Fail(c)
    BY <1>4 DEF Fail
  <1> QED  BY <1>1, <1>2, <1>3, <1>4 DEF Run

LEMMA RunOthers ==
    ASSUME Types, NEW c \in Calls, Run(c)
    PROVE  /\ \A d \in Calls : d # c => pc'[d] = pc[d]
           /\ pc'[c] # "idle"
  BY DEF Types, Run, Update, UpdateMatchesNone, Insert, Fail, Goto

\* The call that increments rows, or inserts one, has not succeeded before.
LEMMA RunCount ==
    ASSUME Types, CountInv, NEW c \in Calls, Run(c)
    PROVE  CountInv'
  <1> USE DEF Types, Goto
  <1>1. IsFiniteSet(Done) /\ Cardinality(Done) \in Nat
    BY CallsAssumption, FS_CardinalityType, FS_Subset DEF Done
  <1>2. CASE Update(c) \/ Insert(c)
    <2>1. Done' = Done \cup {c} /\ c \notin Done
      BY <1>2 DEF Update, Insert, Done
    <2>2. Cardinality(Done') = Cardinality(Done) + 1
      BY <1>1, <2>1, FS_AddElement
    <2>3. \A d \in Calls : downloads'[d] <= downloads[d] + 1
      BY <1>2 DEF Update, Insert, Incremented, InitialDownloads
    <2>4. \A d \in Calls : downloads'[d] \in Nat
      BY <1>2 DEF Update, Insert, Incremented, InitialDownloads
    <2> QED  BY <1>1, <2>2, <2>3, <2>4 DEF CountInv
  <1>3. CASE UpdateMatchesNone(c) \/ Fail(c)
    <2>1. downloads' = downloads /\ Done' = Done
      BY <1>3 DEF UpdateMatchesNone, Fail, Done
    <2> QED  BY <2>1 DEF CountInv
  <1> QED  BY <1>2, <1>3 DEF Run

\* Every row of the artifact counts one more download, and there is a row; the
\* only row, if there is no other, counts exactly one more.
LEMMA UpdateTable ==
    ASSUME Types, CountInv, TableInv, NEW c \in Calls, Update(c), Types', CountInv'
    PROVE  TableInv'
  <1> DEFINE t == target[c]
  <1>1. /\ pc[c] = "update" /\ RowsOf(t) # {} /\ target' = target
        /\ downloads' = [d \in Calls |-> IF d \in RowsOf(t) THEN downloads[d] + 1
                                         ELSE downloads[d]]
        /\ pc' = [pc EXCEPT ![c] = "ok"]
    BY DEF Update, Incremented, Goto
  <1>2. /\ \A d \in Calls : downloads[d] \in Nat /\ (downloads'[d] > 0 <=> downloads[d] > 0)
        /\ pc'[c] = "ok" /\ \A d \in Calls : d # c => pc'[d] = pc[d]
    BY <1>1 DEF Types, RowsOf
  <1>3. InsertedInv'
    BY <1>1, <1>2 DEF TableInv, InsertedInv
  <1>4. ASSUME NEW a \in Artifacts PROVE RowsInv(a)'
    <2>1. RowsOf(a)' = RowsOf(a)
      BY <1>1, <1>2 DEF RowsOf
    <2>2. CASE a # t
      <3>1. Recorded(a)' = Recorded(a)
        BY <1>1, <1>2, <2>2 DEF Recorded
      <3>2. \A d \in RowsOf(a) : downloads'[d] = downloads[d]
        BY <1>1, <2>2 DEF RowsOf
      <3>3. Counted(a)' = Counted(a)
        BY <2>1, <3>2 DEF Counted
      <3> QED  BY <2>1, <3>1, <3>3 DEF TableInv, RowsInv, Total
    <2>3. CASE a = t
      <3>1. c \notin Recorded(a) /\ Recorded(a)' = Recorded(a) \cup {c}
        BY <1>1, <1>2, <2>3 DEF Recorded
      <3>2. Cardinality(Recorded(a)') = Cardinality(Recorded(a)) + 1
        BY <3>1, SetsFinite, FS_AddElement
      <3>3. /\ IsFiniteSet(Counted(a)) /\ IsFiniteSet(Counted(a)')
            /\ Total(a) \in Nat /\ Total(a)' \in Nat /\ Cardinality(Recorded(a)) \in Nat
        <4>1. IsFiniteSet(Counted(a)) /\ Total(a) \in Nat /\ Cardinality(Recorded(a)) \in Nat
          BY SetsFinite
        <4>2. (IsFiniteSet(Counted(a)) /\ Total(a) \in Nat)'
          BY SetsFinite, PTL
        <4> QED  BY <4>1, <4>2
      <3>4. PICK d \in RowsOf(a) : TRUE
        BY <1>1, <2>3
      <3> DEFINE new == <<d, downloads[d] + 1>>
      <3>5. \A e \in RowsOf(a) : downloads'[e] = downloads[e] + 1 /\ downloads[e] \in Nat
        BY <1>1, <1>2, <2>3 DEF RowsOf
      <3>6. /\ \A e, i : <<e, i>> \in Counted(a)' <=> e \in RowsOf(a) /\ i \in 1..downloads'[e]
            /\ \A p \in Counted(a)' : p = <<p[1], p[2]>>
        <4>1. Counted(a)' = UNION {{e} \X (1..downloads'[e]) : e \in RowsOf(a)}
          BY <2>1 DEF Counted
        <4> QED  BY <4>1, Numbered
      <3>7. new \notin Counted(a) /\ new \in Counted(a)' /\ Counted(a) \subseteq Counted(a)'
        <4>1. new \notin Counted(a)
          BY <3>5, InCounted
        <4>2. new \in Counted(a)'
          BY <3>5, <3>6
        <4>3. ASSUME NEW p \in Counted(a) PROVE p \in Counted(a)'
          <5>1. p = <<p[1], p[2]>> /\ p[1] \in RowsOf(a) /\ p[2] \in 1..downloads[p[1]]
            BY InCounted
          <5>2. p[2] \in 1..downloads'[p[1]]
            BY <3>5, <5>1
          <5> QED  BY <3>6, <5>1, <5>2
        <4> QED  BY <4>1, <4>2, <4>3
      <3>8. Cardinality(Counted(a) \cup {new}) = Total(a) + 1
        BY <3>3, <3>7, FS_AddElement DEF Total
      <3>9. Total(a)' >= Total(a) + 1
        <4>1. Counted(a) \cup {new} \in SUBSET Counted(a)'
          BY <3>7
        <4>2. Cardinality(Counted(a) \cup {new}) <= Cardinality(Counted(a)')
          BY <3>3, <4>1, FS_Subset
        <4> QED  BY <3>3, <3>8, <4>2 DEF Total
      <3>10. ASSUME Cardinality(RowsOf(a)) = 1 PROVE Total(a)' = Total(a) + 1
        <4>1. RowsOf(a) = {d}
          <5>1. \E e : RowsOf(a) = {e}
            BY <3>10, SetsFinite, FS_Singleton
          <5> QED  BY <3>4, <5>1
        <4>2. ASSUME NEW p \in Counted(a)' PROVE p \in Counted(a) \cup {new}
          <5>1. p = <<p[1], p[2]>> /\ p[1] = d /\ p[2] \in 1..downloads'[d]
            BY <3>6, <4>1
          <5>2. p[2] \in 1..downloads[d] \/ p[2] = downloads[d] + 1
            BY <3>5, <4>1, <5>1
          <5>3. p[2] \in 1..downloads[d] => <<d, p[2]>> \in Counted(a)
            BY <4>1, InCounted
          <5> QED  BY <5>1, <5>2, <5>3
        <4>3. Counted(a)' = Counted(a) \cup {new}
          BY <3>7, <4>2
        <4> QED  BY <3>8, <4>3 DEF Total
      <3>11. RowsInv(a)
        BY DEF TableInv
      <3> QED  BY <1>1, <2>1, <2>3, <3>2, <3>3, <3>9, <3>10, <3>11 DEF RowsInv
    <2> QED  BY <2>2, <2>3
  <1> QED  BY <1>3, <1>4 DEF TableInv

\* The new row counts the call that inserts it.  If it is the only one, nothing
\* was recorded before.
LEMMA InsertTable ==
    ASSUME Types, CountInv, TableInv, NEW c \in Calls, Insert(c), Types', CountInv'
    PROVE  TableInv'
  <1>1. /\ pc[c] = "insert" /\ target' = target
        /\ downloads' = [downloads EXCEPT ![c] = 1]
        /\ pc' = [pc EXCEPT ![c] = "ok"]
    BY DEF Insert, InitialDownloads, Goto
  <1>2. /\ downloads[c] = 0 /\ downloads'[c] = 1 /\ pc'[c] = "ok"
        /\ \A d \in Calls : d # c => pc'[d] = pc[d] /\ downloads'[d] = downloads[d]
    BY <1>1 DEF Types, TableInv, InsertedInv
  <1>3. InsertedInv'
    BY <1>2 DEF TableInv, InsertedInv
  <1>4. ASSUME NEW a \in Artifacts PROVE RowsInv(a)'
    <2>1. RowsInv(a)
      BY DEF TableInv
    <2>2. CASE a # target[c]
      <3>1. Recorded(a)' = Recorded(a) /\ RowsOf(a)' = RowsOf(a)
        BY <1>1, <1>2, <2>2 DEF Recorded, RowsOf
      <3>2. \A d \in RowsOf(a) : downloads'[d] = downloads[d]
        BY <1>1, <1>2, <2>2 DEF RowsOf
      <3>3. Counted(a)' = Counted(a)
        BY <3>1, <3>2 DEF Counted
      <3> QED  BY <2>1, <3>1, <3>3 DEF RowsInv, Total
    <2>3. CASE a = target[c]
      <3>1. /\ c \notin Recorded(a) /\ Recorded(a)' = Recorded(a) \cup {c}
            /\ c \notin RowsOf(a) /\ RowsOf(a)' = RowsOf(a) \cup {c}
        BY <1>1, <1>2, <2>3 DEF Recorded, RowsOf
      <3>2. /\ IsFiniteSet(RowsOf(a)) /\ Cardinality(RowsOf(a)) \in Nat
            /\ IsFiniteSet(Recorded(a)) /\ Cardinality(Recorded(a)) \in Nat
            /\ IsFiniteSet(Counted(a)) /\ Total(a) \in Nat
        BY SetsFinite
      <3>3. /\ Cardinality(Recorded(a)') = Cardinality(Recorded(a)) + 1
            /\ Cardinality(RowsOf(a)') = Cardinality(RowsOf(a)) + 1
        BY <3>1, <3>2, FS_AddElement
      <3>4. Counted(a)' = Counted(a) \cup {<<c, 1>>}
        <4>1. Counted(a)' = UNION {{d} \X (1..downloads'[d]) : d \in RowsOf(a) \cup {c}}
          BY <3>1 DEF Counted
        <4>2. \A d \in RowsOf(a) : downloads'[d] = downloads[d]
          BY <1>2, <3>1 DEF RowsOf
        <4>3. {c} \X (1..downloads'[c]) = {<<c, 1>>}
          <5>1. 1..downloads'[c] = {1}
            BY <1>2
          <5> QED  BY <5>1
        <4> QED  BY <4>1, <4>2, <4>3 DEF Counted
      <3>5. <<c, 1>> \notin Counted(a)
        BY <3>1, InCounted
      <3>6. Total(a)' = Total(a) + 1
        BY <3>2, <3>4, <3>5, FS_AddElement DEF Total
      <3>7. Cardinality(RowsOf(a)') = 1 => Total(a) = 0 /\ Cardinality(Recorded(a)) = 0
        <4> SUFFICES ASSUME Cardinality(RowsOf(a)') = 1
                     PROVE  Total(a) = 0 /\ Cardinality(Recorded(a)) = 0
          OBVIOUS
        <4>1. RowsOf(a) = {}
          BY <3>2, <3>3, FS_EmptySet
        <4>2. Counted(a) = {} /\ Recorded(a) = {}
          BY <2>1, <4>1 DEF Counted, RowsInv
        <4> QED  BY <4>2, FS_EmptySet DEF Total
      <3> QED  BY <2>1, <3>1, <3>2, <3>3, <3>6, <3>7 DEF RowsInv
    <2> QED  BY <2>2, <2>3
  <1> QED  BY <1>3, <1>4 DEF TableInv

LEMMA RunTable ==
    ASSUME IInv, NEW c \in Calls, Run(c), Types', CountInv'
    PROVE  TableInv'
  <1> USE DEF IInv
  <1>1. CASE Update(c)
    BY <1>1, UpdateTable
  <1>2. CASE Insert(c)
    BY <1>2, InsertTable
  <1>3. CASE UpdateMatchesNone(c) \/ Fail(c)
    <2>1. /\ downloads' = downloads /\ target' = target
          /\ {pc[c], pc'[c]} \cap {"ok"} = {}
          /\ \A d \in Calls : d # c => pc'[d] = pc[d]
      BY <1>3 DEF UpdateMatchesNone, Fail, Goto, Types
    <2> QED  BY <2>1, TableKept
  <1> QED  BY <1>1, <1>2, <1>3 DEF Run

LEMMA RunInvariant ==
    ASSUME IInv, NEW c \in Calls, Run(c), UNCHANGED requestVars
    PROVE  IInv'
  <1> USE DEF IInv
  <1>1. Types' /\ target' = target /\ pc[c] # "idle"
    BY RunTypes
  <1>2. CountInv'
    BY RunCount
  <1>3. BeforeInv'
    BY <1>1, RunOthers DEF BeforeInv, requestVars
  <1>4. HookInv' /\ OwnUnlessOvertaken' /\ RecordInv'
    BY <1>1 DEF HookInv, OwnUnlessOvertaken, RecordInv, requestVars
  <1>5. TableInv'
    BY <1>1, <1>2, RunTable
  <1> QED  BY <1>1, <1>2, <1>3, <1>4, <1>5

-----------------------------------------------------------------------------
LEMMA NextInvariant == IInv /\ [GatewayNext]_vars => IInv'
  <1> SUFFICES ASSUME IInv, [GatewayNext]_vars PROVE IInv'
    OBVIOUS
  <1>1. ASSUME NEW c \in Calls, ServeDisabled(c) \/ Unreachable(c) PROVE IInv'
    BY <1>1, RefusedInvariant
  <1>2. ASSUME NEW c \in Calls, ServeGo(c) PROVE IInv'
    BY <1>2, ServeInvariant
  <1>3. ASSUME NEW c \in Calls, Respond(c) PROVE IInv'
    BY <1>3, RespondInvariant
  <1>4. ASSUME NEW c \in Calls, Observe(c) \/ AbortCopy(c) PROVE IInv'
    BY <1>4, ObserveInvariant
  <1>5. ASSUME NEW c \in Calls, Run(c), UNCHANGED requestVars PROVE IInv'
    BY <1>5, RunInvariant
  <1>6. CASE UNCHANGED vars
    <2> USE <1>6 DEF vars, repoVars, requestVars, IInv
    <2>1. Types' /\ BeforeInv' /\ HookInv' /\ CountInv' /\ OwnUnlessOvertaken' /\ RecordInv'
      BY DEF Types, BeforeInv, HookInv, CountInv, Done, OwnUnlessOvertaken, RecordInv
    <2>2. TableInv'
      BY DEF TableInv, InsertedInv, RowsInv, RowsOf, Recorded, Counted, Total
    <2> QED  BY <2>1, <2>2
  <1> QED  BY <1>1, <1>2, <1>3, <1>4, <1>5, <1>6 DEF GatewayNext

\* The inductive invariant holds in every state that can be reached.
THEOREM Invariant == GatewaySpec => []IInv
  BY InitInvariant, NextInvariant, PTL DEF GatewaySpec

-----------------------------------------------------------------------------
\* The variables of the gateway and of the table have the values meant; a row
\* never counts more downloads than there were requests.
THEOREM TypesHold == GatewaySpec => []GatewayTypeOK
  <1>1. IInv => GatewayTypeOK
    <2> SUFFICES ASSUME IInv PROVE GatewayTypeOK
      OBVIOUS
    <2>1. /\ Cardinality(Done) \in Nat /\ Cardinality(Calls) \in Nat
          /\ Cardinality(Done) <= Cardinality(Calls)
      BY CallsAssumption, FS_CardinalityType, FS_Subset DEF Done
    <2>2. \A c \in Calls : downloads[c] \in 0..Cardinality(Calls)
      BY <2>1 DEF IInv, Types, CountInv
    <2>3. downloads \in [Calls -> 0..Cardinality(Calls)]
      BY <2>2 DEF IInv, Types
    <2> QED  BY <2>3 DEF IInv, Types, GatewayTypeOK, TypeOK
  <1> QED  BY <1>1, Invariant, PTL

\* ServeGo replaces one closure for all requests, and yet one that no other
\* overtook is recorded as what it asked for, if it got it.
THEOREM OwnRecords == GatewaySpec => []OwnUnlessOvertaken
  <1>1. IInv => OwnUnlessOvertaken
    BY DEF IInv
  <1> QED  BY <1>1, Invariant, PTL

\* Whatever closure a response meets, what it records was asked for, and it was
\* answered with success.
THEOREM OnlyRequests == GatewaySpec => []RecordsOnlyRequests
  <1>1. IInv => RecordsOnlyRequests
    BY DEF IInv, RecordInv, RecordsOnlyRequests
  <1> QED  BY <1>1, Invariant, PTL

\* CreateArtifact's two statements run in no transaction, and any number of calls
\* may find no row and insert their own; still no recorded download is missing
\* from the sum of an artifact's counts.
THEOREM DownloadsAreCounted == GatewaySpec => []NeverUndercounted
  <1>1. IInv => NeverUndercounted
    BY DEF IInv, TableInv, RowsInv, NeverUndercounted
  <1> QED  BY <1>1, Invariant, PTL

\* And as long as an artifact has one row, that row's count is exact: an update
\* counts a call twice only where two calls have inserted.
THEOREM OneRowIsExact == GatewaySpec => []ExactWhileUnique
  <1>1. IInv => ExactWhileUnique
    BY DEF IInv, TableInv, RowsInv, ExactWhileUnique
  <1> QED  BY <1>1, Invariant, PTL
=============================================================================
