------------------------- MODULE NetObserverProofs -------------------------
(***************************************************************************)
(* Theorems about NetObserver, for any calls, types and resources, with    *)
(* and without failing writes and restarts.  That usage is counted once is *)
(* not inductive by itself.  It needs to know whose inner map is whose: a  *)
(* map nobody has stored yet is empty and known to its maker only          *)
(* (PrivateInv), and no two types share a map (OwnersInv).  And it needs   *)
(* to know what a flush that nothing disturbed is reading: the map that is *)
(* in use and all its keys, of every type that has a map (FlushInv).       *)
(***************************************************************************)
EXTENDS NetObserver, FiniteSetTheorems, TLAPS

Flushers == [at : {"sleep", "types", "keys", "swap"},
             due : SUBSET Types, seen : SUBSET Types,
             map : Calls \cup {None}, type : Types \cup {None},
             dueKeys : SUBSET Resources, seenKeys : SUBSET Resources]
Usages == [Types -> [Resources -> Nat]]

Typed ==
    /\ pc \in [Calls -> {"idle", "lock", "done"}]
    /\ arg \in [Calls -> Entries]
    /\ m \in [Calls -> Calls \cup {None}]
    /\ content \in [Calls -> [Resources -> Nat]]
    /\ buckets \in [Types -> Calls \cup {None}]
    /\ flusher \in Flushers
    /\ usage \in Usages /\ observed \in Usages
    /\ tainted \subseteq Types

Finished == {c \in Calls : pc[c] = "done"}

\* Every call adds one unit, to one map and one entry.
CountsInv ==
    /\ \A c \in Calls, k \in Resources : content[c][k] <= Cardinality(Finished)
    /\ \A t \in Types, k \in Resources : observed[t][k] <= Cardinality(Finished)

\* A call that has the lock yet to take has looked a map up; until then nobody
\* else has the map it may make.
PrivateInv ==
    /\ \A c \in Calls : pc[c] = "lock" => m[c] # None
    /\ \A c \in Calls : pc[c] \in {"idle", "lock"} =>
          /\ content[c] = Empty
          /\ \A t \in Types : buckets[t] # c
          /\ \A d \in Calls \ {c} : m[d] # c

OwnersInv ==
    /\ \A t \in Types : buckets[t] # None => arg[buckets[t]].type = t
    /\ \A c \in Calls : m[c] # None => arg[m[c]].type = arg[c].type

\* The inner range is over a map; the outer range is over when it is to be.
RangesInv ==
    /\ flusher.at = "keys" => /\ flusher.type \in flusher.seen
                              /\ flusher.map \in Calls
    /\ flusher.at # "keys" => flusher.type = None
    /\ flusher.at = "swap" => flusher.due \subseteq flusher.seen

\* What an undisturbed flush reads is what is in use.
FlushInv ==
    \A t \in Types \ tainted :
        /\ flusher.at # "sleep" /\ buckets[t] # None => t \in flusher.due
        /\ flusher.at = "keys" /\ t = flusher.type =>
              flusher.map = buckets[t] /\ flusher.dueKeys = Keys(buckets[t])

IInv ==
    /\ Typed /\ CountsInv /\ PrivateInv /\ OwnersInv /\ RangesInv /\ FlushInv
    /\ CountedOnce

-----------------------------------------------------------------------------
LEMMA FinishedFinite ==
    /\ IsFiniteSet(Finished) /\ Cardinality(Finished) \in Nat
    /\ Cardinality(Finished) <= Cardinality(Calls) /\ Cardinality(Calls) \in Nat
  BY NetObserverAssumption, FS_Subset, FS_CardinalityType DEF Finished

LEMMA AsleepRecord ==
    /\ Asleep \in Flushers /\ Asleep.at = "sleep" /\ Asleep.type = None
  BY DEF Asleep, Flushers

LEMMA InitInvariant == Init => IInv
  <1> SUFFICES ASSUME Init PROVE IInv
    OBVIOUS
  <1> USE DEF Init
  <1>1. Typed
    BY AsleepRecord DEF Typed, Empty, NoUsage, Usages
  <1>2. CountsInv
    BY FinishedFinite DEF CountsInv, Empty, NoUsage
  <1>3. PrivateInv /\ OwnersInv
    BY NetObserverAssumption DEF PrivateInv, OwnersInv
  <1>4. RangesInv /\ FlushInv
    BY AsleepRecord DEF RangesInv, FlushInv
  <1>5. CountedOnce
    BY AsleepRecord DEF CountedOnce, Unwritten, Held, NoUsage, Empty
  <1> QED  BY <1>1, <1>2, <1>3, <1>4, <1>5 DEF IInv

\* The map that is made is private, the one that is found has its type.
LEMMA ObserveInvariant ==
    ASSUME IInv, NEW c \in Calls, Observe(c)
    PROVE  IInv'
  <1>1. /\ pc[c] = "idle" /\ m' = [m EXCEPT ![c] = LookedUp(c)]
        /\ pc' = [pc EXCEPT ![c] = "lock"]
        /\ UNCHANGED <<arg, content, buckets, flusher, usage, observed, tainted>>
    BY DEF Observe
  <1>2. arg[c].type \in Types
    BY DEF IInv, Typed, Entries
  <1>3. LookedUp(c) \in Calls
    BY <1>2 DEF LookedUp, IInv, Typed
  <1>4. Typed'
    BY <1>1, <1>3 DEF IInv, Typed
  <1>5. CountsInv'
    <2>1. Finished' = Finished
      BY <1>1 DEF Finished, IInv, Typed
    <2> QED  BY <1>1, <2>1 DEF CountsInv, IInv
  <1>6. PrivateInv'
    <2>1. \A d \in Calls : pc[d] \in {"idle", "lock"} /\ d # c => LookedUp(c) # d
      BY <1>2 DEF LookedUp, IInv, PrivateInv
    <2> QED  BY <1>1, <1>3, <2>1, NetObserverAssumption DEF IInv, Typed, PrivateInv
  <1>7. OwnersInv'
    BY <1>1, <1>2 DEF LookedUp, IInv, Typed, OwnersInv
  <1>8. RangesInv' /\ FlushInv' /\ CountedOnce'
    BY <1>1 DEF IInv, RangesInv, FlushInv, Keys, CountedOnce, Unwritten, Written, Held
  <1> QED  BY <1>4, <1>5, <1>6, <1>7, <1>8 DEF IInv

\* The map that is stored has one unit more, of the type it had; nobody else's
\* type sees the difference.
LEMMA AddInvariant ==
    ASSUME IInv, NEW c \in Calls, Add(c)
    PROVE  IInv'
  <1> DEFINE t == arg[c].type
             k == arg[c].resource
  <1>1. /\ pc[c] = "lock"
        /\ content' = [content EXCEPT ![m[c]][k] = @ + 1]
        /\ buckets' = [buckets EXCEPT ![t] = m[c]]
        /\ observed' = [observed EXCEPT ![t][k] = @ + 1]
        /\ tainted' = IF Raced(c) THEN tainted \cup {t} ELSE tainted
        /\ pc' = [pc EXCEPT ![c] = "done"]
        /\ UNCHANGED <<arg, m, flusher, usage>>
    BY DEF Add, Stored
  <1>2. t \in Types /\ k \in Resources /\ m[c] \in Calls /\ arg[m[c]].type = t
    BY <1>1 DEF IInv, Typed, Entries, PrivateInv, OwnersInv
  <1>3. /\ content'[m[c]] = [content[m[c]] EXCEPT ![k] = @ + 1]
        /\ \A d \in Calls \ {m[c]} : content'[d] = content[d]
        /\ observed'[t] = [observed[t] EXCEPT ![k] = @ + 1]
        /\ \A u \in Types \ {t} : observed'[u] = observed[u] /\ buckets'[u] = buckets[u]
        /\ buckets'[t] = m[c]
    BY <1>1, <1>2 DEF IInv, Typed, Usages
  <1> HIDE DEF t, k
  <1>4. Typed'
    <2>1. content' \in [Calls -> [Resources -> Nat]]
      BY <1>1, <1>2 DEF IInv, Typed
    <2>2. observed' \in Usages
      BY <1>1, <1>2 DEF IInv, Typed, Usages
    <2>3. tainted' \subseteq Types /\ buckets' \in [Types -> Calls \cup {None}]
          /\ pc' \in [Calls -> {"idle", "lock", "done"}]
      BY <1>1, <1>2 DEF IInv, Typed
    <2> QED  BY <1>1, <2>1, <2>2, <2>3 DEF IInv, Typed
  <1>5. CountsInv'
    <2>1. Finished' = Finished \cup {c} /\ c \notin Finished
      BY <1>1 DEF Finished, IInv, Typed
    <2>2. Cardinality(Finished') = Cardinality(Finished) + 1 /\ Cardinality(Finished) \in Nat
      BY <2>1, FinishedFinite, FS_AddElement
    <2>3. ASSUME NEW d \in Calls, NEW l \in Resources
          PROVE  content[d][l] \in Nat /\ content'[d][l] \in {content[d][l], content[d][l] + 1}
      <3>1. content[d] \in [Resources -> Nat]
        BY DEF IInv, Typed
      <3> QED  BY <1>2, <1>3, <3>1
    <2>4. ASSUME NEW u \in Types, NEW l \in Resources
          PROVE  observed[u][l] \in Nat
                 /\ observed'[u][l] \in {observed[u][l], observed[u][l] + 1}
      <3>1. observed[u] \in [Resources -> Nat]
        BY DEF IInv, Typed, Usages
      <3> QED  BY <1>2, <1>3, <3>1
    <2>5. /\ \A d \in Calls, l \in Resources : content[d][l] <= Cardinality(Finished)
          /\ \A u \in Types, l \in Resources : observed[u][l] <= Cardinality(Finished)
      BY DEF IInv, CountsInv
    <2> HIDE DEF Finished
    <2> QED  BY <2>2, <2>3, <2>4, <2>5 DEF CountsInv
  <1>6. PrivateInv'
    <2>0. pc'[c] = "done" /\ \A d \in Calls \ {c} : pc'[d] = pc[d]
      BY <1>1 DEF IInv, Typed
    <2>1. ASSUME NEW d \in Calls, pc'[d] \in {"idle", "lock"}
          PROVE  /\ d # c /\ pc[d] \in {"idle", "lock"} /\ m[c] # d
      <3>1. d # c /\ pc[d] \in {"idle", "lock"}
        BY <2>0, <2>1
      <3> QED  BY <3>1 DEF IInv, PrivateInv
    <2>2. \A d \in Calls : pc'[d] = "lock" => pc[d] = "lock"
      BY <2>0
    <2> QED  BY <1>1, <1>3, <2>1, <2>2 DEF IInv, PrivateInv
  <1>7. OwnersInv'
    BY <1>1, <1>2, <1>3 DEF IInv, OwnersInv
  <1>8. RangesInv'
    BY <1>1 DEF IInv, RangesInv
  <1>9. FlushInv'
    <2> SUFFICES ASSUME NEW u \in Types \ tainted'
                 PROVE  /\ flusher'.at # "sleep" /\ buckets'[u] # None => u \in flusher'.due
                        /\ flusher'.at = "keys" /\ u = flusher'.type =>
                              /\ flusher'.map = buckets'[u]
                              /\ flusher'.dueKeys = Keys(buckets[u])'
      BY DEF FlushInv
    <2>1. u \notin tainted
      BY <1>1
    <2>2. CASE u = t
      BY <1>1, <2>2 DEF Raced, t
    <2>3. CASE u # t
      <3>1. buckets[u] # m[c]
        BY <1>2, <2>3, NetObserverAssumption DEF IInv, OwnersInv
      <3>2. ASSUME buckets[u] \in Calls PROVE Keys(buckets[u])' = Keys(buckets[u])
        <4>1. buckets'[u] = buckets[u] /\ content'[buckets[u]] = content[buckets[u]]
          BY <1>3, <2>3, <3>1, <3>2
        <4> QED  BY <4>1 DEF Keys
      <3> QED  BY <1>1, <1>3, <2>1, <2>3, <3>2 DEF IInv, FlushInv, RangesInv
    <2> QED  BY <2>2, <2>3
  <1>10. CountedOnce'
    <2> SUFFICES ASSUME NEW u \in Types \ tainted', NEW l \in Resources
                 PROVE  usage'[u][l] + Unwritten(u, l)' = observed'[u][l]
      BY DEF CountedOnce
    <2>1. u \notin tainted /\ usage[u][l] + Unwritten(u, l) = observed[u][l]
      BY <1>1 DEF IInv, CountedOnce
    <2>2. Written(u, l)' = Written(u, l)
      BY <1>1 DEF Written
    <2>3. CASE u # t
      <3>1. buckets[u] \in Calls \cup {None} /\ buckets[u] # m[c]
        BY <1>2, <2>3, NetObserverAssumption DEF IInv, Typed, OwnersInv
      <3>2. Held(u, l)' = Held(u, l)
        <4>1. /\ buckets'[u] = buckets[u]
              /\ buckets[u] # None => content'[buckets[u]] = content[buckets[u]]
          BY <1>3, <2>3, <3>1
        <4> QED  BY <4>1 DEF Held
      <3> QED  BY <1>1, <1>3, <2>1, <2>2, <2>3, <3>2 DEF Unwritten
    <2>4. CASE u = t
      <3>1. flusher.at = "sleep" /\ m[c] = LookedUp(c)
        BY <1>1, <2>4 DEF Raced, t
      <3>2. ~Written(u, l)
        BY <3>1 DEF Written
      <3>3. Held(u, l) = content[m[c]][l]
        <4>1. CASE buckets[u] = None
          BY <1>1, <2>4, <3>1, <4>1 DEF Held, LookedUp, t, IInv, PrivateInv, Empty
        <4>2. CASE buckets[u] # None
          BY <2>4, <3>1, <4>2 DEF Held, LookedUp, t
        <4> QED  BY <4>1, <4>2
      <3>4. Held(u, l)' = content'[m[c]][l]
        BY <1>1, <1>2, <1>3, <2>4, NetObserverAssumption DEF Held
      <3>5. /\ content[m[c]][l] \in Nat /\ observed[u][l] \in Nat /\ usage[u][l] \in Nat
            /\ content'[m[c]][l] = content[m[c]][l] + (IF l = k THEN 1 ELSE 0)
            /\ observed'[u][l] = observed[u][l] + (IF l = k THEN 1 ELSE 0)
        BY <1>2, <1>3, <2>4 DEF IInv, Typed, Usages
      <3> QED  BY <1>1, <2>1, <2>2, <3>2, <3>3, <3>4, <3>5 DEF Unwritten
    <2> QED  BY <2>3, <2>4
  <1> QED  BY <1>4, <1>5, <1>6, <1>7, <1>8, <1>9, <1>10 DEF IInv

-----------------------------------------------------------------------------
(* The flush.                                                              *)

\* What a flush leaves alone.
LEMMA FlushFrame ==
    ASSUME IInv, UNCHANGED <<pc, arg, m, content, observed>>,
           usage' \in Usages, tainted \subseteq tainted', tainted' \subseteq Types,
           flusher' \in Flushers, buckets' \in {buckets, Swapped},
           RangesInv', FlushInv', CountedOnce'
    PROVE  IInv'
  <1>1. \A t \in Types : buckets'[t] \in {buckets[t], None}
    BY DEF Swapped
  <1>2. Typed'
    BY DEF IInv, Typed, Swapped
  <1>3. CountsInv'
    BY DEF IInv, CountsInv, Finished
  <1>4. PrivateInv' /\ OwnersInv'
    BY <1>1, NetObserverAssumption DEF IInv, PrivateInv, OwnersInv
  <1> QED  BY <1>2, <1>3, <1>4 DEF IInv

\* Nothing is written and nothing held is forgotten.
LEMMA CountKept ==
    ASSUME IInv, UNCHANGED <<usage, observed>>, tainted \subseteq tainted',
           \A t \in Types \ tainted', k \in Resources :
              Unwritten(t, k)' = Unwritten(t, k)
    PROVE  CountedOnce'
  BY DEF IInv, CountedOnce

LEMMA HeldKept ==
    ASSUME UNCHANGED <<content, buckets>>, NEW t, NEW k
    PROVE  Held(t, k)' = Held(t, k) /\ Keys(buckets[t])' = Keys(buckets[t])
  BY DEF Held, Keys

LEMMA FlushBeginInvariant ==
    ASSUME IInv, FlushBegin
    PROVE  IInv'
  <1>1. /\ flusher.at = "sleep"
        /\ UNCHANGED <<pc, arg, m, content, buckets, usage, observed, tainted>>
    BY DEF FlushBegin, Wakes, calls
  <1>2. /\ flusher' \in Flushers /\ flusher'.at = "types" /\ flusher'.seen = {}
        /\ flusher'.due = {t \in Types : buckets[t] # None} /\ flusher'.type = None
    BY DEF FlushBegin, Asleep, Flushers
  <1>3. RangesInv'
    BY <1>2 DEF RangesInv
  <1>4. FlushInv'
    BY <1>1, <1>2 DEF FlushInv
  <1>5. CountedOnce'
    BY <1>1, <1>2, HeldKept, CountKept DEF Unwritten, Written
  <1> QED  BY <1>1, <1>2, <1>3, <1>4, <1>5, FlushFrame DEF IInv, Typed

\* What the outer range has reached is written, the type it is at key by key.
LEMMA RangeTypeInvariant ==
    ASSUME IInv, NEW t \in Types, RangeType(t)
    PROVE  IInv'
  <1>1. /\ flusher.at = "types" /\ t \notin flusher.seen /\ buckets[t] # None
        /\ UNCHANGED <<pc, arg, m, content, buckets, usage, observed, tainted>>
    BY DEF RangeType, calls
  <1>2. buckets[t] \in Calls /\ Keys(buckets[t]) \subseteq Resources
    BY <1>1 DEF IInv, Typed, Keys
  <1>3. /\ flusher' \in Flushers /\ flusher'.at = "keys"
        /\ flusher'.due = flusher.due /\ flusher'.seen = flusher.seen \cup {t}
        /\ flusher'.type = t /\ flusher'.map = buckets[t]
        /\ flusher'.dueKeys = Keys(buckets[t]) /\ flusher'.seenKeys = {}
    BY <1>2 DEF RangeType, IInv, Typed, Flushers
  <1>4. RangesInv'
    BY <1>2, <1>3 DEF RangesInv
  <1>5. FlushInv'
    BY <1>1, <1>3, HeldKept DEF IInv, FlushInv
  <1>6. flusher.type = None
    BY <1>1 DEF IInv, RangesInv
  <1>7. ASSUME NEW u \in Types, NEW k \in Resources
        PROVE  Unwritten(u, k)' = Unwritten(u, k)
    BY <1>1, <1>3, <1>6, HeldKept, NetObserverAssumption DEF Unwritten, Written
  <1>8. CountedOnce'
    BY <1>1, <1>7, CountKept
  <1> QED  BY <1>1, <1>3, <1>4, <1>5, <1>8, FlushFrame DEF IInv, Typed

\* A step of the inner range.
LEMMA KeySeen ==
    ASSUME IInv, NEW k \in Resources, RangeKey(k), UNCHANGED <<content, buckets>>,
           tainted \subseteq tainted'
    PROVE  /\ flusher' \in Flushers /\ RangesInv' /\ FlushInv'
           /\ flusher.type \in Types /\ flusher.map \in Calls /\ ~Written(flusher.type, k)
           /\ \A t \in Types, l \in Resources :
                 Written(t, l)' <=> Written(t, l) \/ (t = flusher.type /\ l = k)
  <1>1. flusher.at = "keys" /\ k \notin flusher.seenKeys
    BY DEF RangeKey
  <1>2. /\ flusher' \in Flushers /\ flusher'.at = "keys"
        /\ flusher'.due = flusher.due /\ flusher'.seen = flusher.seen
        /\ flusher'.type = flusher.type /\ flusher'.map = flusher.map
        /\ flusher'.dueKeys = flusher.dueKeys
        /\ flusher'.seenKeys = flusher.seenKeys \cup {k}
    BY <1>1 DEF RangeKey, IInv, Typed, Flushers
  <1>3. flusher.type \in Types /\ flusher.type \in flusher.seen /\ flusher.map \in Calls
    BY <1>1 DEF IInv, RangesInv, Typed, Flushers
  <1>4. RangesInv' /\ FlushInv'
    <2>1. RangesInv'
      BY <1>2, <1>3 DEF RangesInv
    <2>2. \A t \in Types : buckets'[t] = buckets[t] /\ Keys(buckets[t])' = Keys(buckets[t])
      BY DEF Keys
    <2>3. FlushInv'
      <3> SUFFICES ASSUME NEW t \in Types, t \notin tainted'
                   PROVE  FlushInv!(t)'
        BY DEF FlushInv
      <3>1. FlushInv!(t)
        BY DEF IInv, FlushInv
      <3> QED  BY <1>1, <1>2, <2>2, <3>1
    <2> QED  BY <2>1, <2>3
  <1>5. /\ ~Written(flusher.type, k)
        /\ \A t \in Types, l \in Resources :
              Written(t, l)' <=> Written(t, l) \/ (t = flusher.type /\ l = k)
    BY <1>1, <1>2, <1>3 DEF Written
  <1> QED  BY <1>2, <1>3, <1>4, <1>5

\* The row gains what the map in use holds, and that is then written.
LEMMA WriteInvariant ==
    ASSUME IInv, NEW k \in Resources, Write(k)
    PROVE  IInv'
  <1> DEFINE t == flusher.type
  <1>1. /\ RangeKey(k)
        /\ usage' = [usage EXCEPT ![t][k] = @ + content[flusher.map][k]]
        /\ UNCHANGED <<pc, arg, m, content, buckets, observed, tainted>>
    BY DEF Write, Upserted, calls
  <1>2. /\ flusher' \in Flushers /\ RangesInv' /\ FlushInv'
        /\ t \in Types /\ flusher.map \in Calls /\ ~Written(t, k)
        /\ \A u \in Types, l \in Resources :
              Written(u, l)' <=> Written(u, l) \/ (u = t /\ l = k)
    BY <1>1, KeySeen
  <1>3. content[flusher.map][k] \in Nat /\ usage \in Usages /\ observed \in Usages
    BY <1>2 DEF IInv, Typed
  <1> HIDE DEF t
  <1>4. usage' \in Usages
    BY <1>1, <1>2, <1>3 DEF Usages
  <1>5. CountedOnce'
    <2> SUFFICES ASSUME NEW u \in Types \ tainted, NEW l \in Resources
                 PROVE  usage'[u][l] + Unwritten(u, l)' = observed[u][l]
      BY <1>1 DEF CountedOnce
    <2>1. usage[u][l] + Unwritten(u, l) = observed[u][l]
      BY DEF IInv, CountedOnce
    <2>2. usage[u][l] \in Nat /\ observed[u][l] \in Nat
      BY <1>3 DEF Usages
    <2>3. CASE u = t /\ l = k
      <3>1. flusher.map = buckets[u] /\ buckets[u] # None
        BY <1>1, <1>2, <2>3, NetObserverAssumption DEF IInv, FlushInv, RangeKey, t
      <3>2. Unwritten(u, l) = content[flusher.map][k]
        BY <1>2, <2>3, <3>1 DEF Unwritten, Held
      <3>3. Unwritten(u, l)' = 0
        BY <1>2, <2>3 DEF Unwritten
      <3>4. usage'[u][l] = usage[u][l] + content[flusher.map][k]
        BY <1>1, <1>2, <1>3, <2>3 DEF Usages
      <3> QED  BY <1>3, <2>1, <2>2, <3>2, <3>3, <3>4
    <2>4. CASE ~(u = t /\ l = k)
      <3>1. Unwritten(u, l)' = Unwritten(u, l)
        BY <1>1, <1>2, <2>4, HeldKept DEF Unwritten
      <3>2. usage'[u][l] = usage[u][l]
        BY <1>1, <1>2, <1>3, <2>4 DEF Usages
      <3> QED  BY <2>1, <3>1, <3>2
    <2> QED  BY <2>3, <2>4
  <1> QED  BY <1>1, <1>2, <1>4, <1>5, FlushFrame DEF IInv, Typed

LEMMA WriteFailsInvariant ==
    ASSUME IInv, NEW k \in Resources, WriteFails(k)
    PROVE  IInv'
  <1>1. /\ RangeKey(k) /\ tainted' = tainted \cup {flusher.type}
        /\ UNCHANGED <<pc, arg, m, content, buckets, usage, observed>>
    BY DEF WriteFails, calls
  <1>2. /\ flusher' \in Flushers /\ RangesInv' /\ FlushInv' /\ flusher.type \in Types
        /\ \A u \in Types, l \in Resources :
              Written(u, l)' <=> Written(u, l) \/ (u = flusher.type /\ l = k)
    BY <1>1, KeySeen
  <1>3. \A u \in Types \ tainted', l \in Resources : Unwritten(u, l)' = Unwritten(u, l)
    BY <1>1, <1>2, HeldKept DEF Unwritten
  <1>4. CountedOnce'
    BY <1>1, <1>3, CountKept
  <1> QED  BY <1>1, <1>2, <1>4, FlushFrame DEF IInv, Typed

\* The keys that were not reached hold nothing.
LEMMA NextTypeInvariant ==
    ASSUME IInv, NextType
    PROVE  IInv'
  <1>1. /\ flusher.at = "keys" /\ flusher.dueKeys \subseteq flusher.seenKeys
        /\ UNCHANGED <<pc, arg, m, content, buckets, usage, observed, tainted>>
    BY DEF NextType, calls
  <1>2. /\ flusher' \in Flushers /\ flusher'.at = "types" /\ flusher'.type = None
        /\ flusher'.due = flusher.due /\ flusher'.seen = flusher.seen
    BY DEF NextType, IInv, Typed, Flushers
  <1>3. RangesInv'
    BY <1>2 DEF RangesInv
  <1>4. FlushInv'
    BY <1>1, <1>2 DEF IInv, FlushInv
  <1>5. ASSUME NEW u \in Types \ tainted, NEW l \in Resources
        PROVE  Unwritten(u, l)' = Unwritten(u, l)
    <2>1. Written(u, l)' <=> u \in flusher.seen
      BY <1>2, NetObserverAssumption DEF Written
    <2>2. Written(u, l) <=> u \in flusher.seen /\ (u = flusher.type => l \in flusher.seenKeys)
      BY <1>1 DEF Written
    <2>3. CASE u = flusher.type /\ l \notin flusher.seenKeys
      <3>1. flusher.map = buckets[u] /\ l \notin Keys(buckets[u]) /\ buckets[u] \in Calls
        BY <1>1, <2>3 DEF IInv, FlushInv, RangesInv
      <3>2. content[buckets[u]][l] = 0
        BY <3>1 DEF Keys, IInv, Typed
      <3>3. Unwritten(u, l) = 0 /\ Unwritten(u, l)' = 0
        BY <1>1, <3>2, HeldKept DEF Unwritten, Held
      <3> QED  BY <3>3
    <2>4. CASE ~(u = flusher.type /\ l \notin flusher.seenKeys)
      BY <1>1, <2>1, <2>2, <2>4, HeldKept DEF Unwritten
    <2> QED  BY <2>3, <2>4
  <1>6. CountedOnce'
    BY <1>1, <1>5, CountKept
  <1> QED  BY <1>1, <1>2, <1>3, <1>4, <1>6, FlushFrame DEF IInv, Typed

LEMMA RangeEndInvariant ==
    ASSUME IInv, RangeEnd
    PROVE  IInv'
  <1>1. /\ flusher.at = "types" /\ flusher.due \subseteq flusher.seen
        /\ UNCHANGED <<pc, arg, m, content, buckets, usage, observed, tainted>>
    BY DEF RangeEnd, calls
  <1>2. /\ flusher' \in Flushers /\ flusher'.at = "swap" /\ flusher'.type = flusher.type
        /\ flusher'.due = flusher.due /\ flusher'.seen = flusher.seen
        /\ flusher'.seenKeys = flusher.seenKeys
    BY DEF RangeEnd, IInv, Typed, Flushers
  <1>3. RangesInv' /\ FlushInv'
    BY <1>1, <1>2 DEF IInv, RangesInv, FlushInv
  <1>4. CountedOnce'
    BY <1>1, <1>2, HeldKept, CountKept DEF Unwritten, Written
  <1> QED  BY <1>1, <1>2, <1>3, <1>4, FlushFrame DEF IInv, Typed

\* What is forgotten was written.
LEMMA SwapInvariant ==
    ASSUME IInv, Swap
    PROVE  IInv'
  <1>1. /\ flusher.at = "swap" /\ buckets' = Swapped /\ flusher' = Asleep
        /\ UNCHANGED <<pc, arg, m, content, usage, observed, tainted>>
    BY DEF Swap, calls
  <1>2. flusher.type = None /\ flusher.due \subseteq flusher.seen
    BY <1>1 DEF IInv, RangesInv
  <1>3. RangesInv' /\ FlushInv'
    BY <1>1, AsleepRecord DEF RangesInv, FlushInv
  <1>4. ASSUME NEW u \in Types \ tainted, NEW l \in Resources
        PROVE  Unwritten(u, l) = 0 /\ Unwritten(u, l)' = 0
    <2>1. buckets[u] # None => Written(u, l)
      BY <1>1, <1>2, NetObserverAssumption DEF IInv, FlushInv, Written
    <2> QED  BY <1>1, <2>1 DEF Unwritten, Held, Swapped
  <1>5. CountedOnce'
    BY <1>1, <1>4, CountKept
  <1> QED  BY <1>1, <1>3, <1>5, AsleepRecord, FlushFrame DEF IInv, Typed

-----------------------------------------------------------------------------
LEMMA RestartInvariant ==
    ASSUME IInv, Restart
    PROVE  IInv'
  <1>1. /\ pc' = [c \in Calls |-> IF pc[c] = "lock" THEN "done" ELSE pc[c]]
        /\ tainted' = tainted \cup {t \in Types : buckets[t] # None}
        /\ buckets' = [t \in Types |-> None] /\ flusher' = Asleep
        /\ UNCHANGED <<arg, m, content, usage, observed>>
    BY DEF Restart
  <1>2. Typed'
    BY <1>1, AsleepRecord DEF IInv, Typed
  <1>3. CountsInv'
    <2>1. Finished \subseteq Finished' /\ Finished' \subseteq Calls
      BY <1>1 DEF Finished, IInv, Typed
    <2>2. IsFiniteSet(Finished')
      BY <2>1, NetObserverAssumption, FS_Subset
    <2>3. Cardinality(Finished) <= Cardinality(Finished') /\ Cardinality(Finished) \in Nat
          /\ Cardinality(Finished') \in Nat
      BY <2>1, <2>2, FS_Subset, FS_CardinalityType, FinishedFinite
    <2>4. /\ \A d \in Calls, l \in Resources : content[d][l] \in Nat
          /\ \A u \in Types, l \in Resources : observed[u][l] \in Nat
      BY DEF IInv, Typed, Usages
    <2> HIDE DEF Finished
    <2> QED  BY <1>1, <2>3, <2>4 DEF IInv, CountsInv
  <1>4. PrivateInv' /\ OwnersInv'
    BY <1>1, NetObserverAssumption DEF IInv, Typed, PrivateInv, OwnersInv
  <1>5. RangesInv' /\ FlushInv'
    BY <1>1, AsleepRecord DEF RangesInv, FlushInv
  <1>6. CountedOnce'
    <2>1. \A u \in Types \ tainted', l \in Resources :
              Unwritten(u, l) = 0 /\ Unwritten(u, l)' = 0
      BY <1>1 DEF Unwritten, Held
    <2> QED  BY <1>1, <2>1, CountKept
  <1> QED  BY <1>2, <1>3, <1>4, <1>5, <1>6 DEF IInv

LEMMA NextInvariant == IInv /\ [Next]_vars => IInv'
  <1> SUFFICES ASSUME IInv, [Next]_vars PROVE IInv'
    OBVIOUS
  <1>1. CASE Next
    BY <1>1, ObserveInvariant, AddInvariant, FlushBeginInvariant, RangeTypeInvariant,
       WriteInvariant, WriteFailsInvariant, NextTypeInvariant, RangeEndInvariant,
       SwapInvariant, RestartInvariant DEF Next, Flush
  <1>2. CASE UNCHANGED vars
    <2> USE <1>2 DEF vars
    <2>1. Typed' /\ CountsInv' /\ PrivateInv' /\ OwnersInv' /\ RangesInv'
      BY DEF IInv, Typed, CountsInv, Finished, PrivateInv, OwnersInv, RangesInv
    <2>2. FlushInv'
      BY DEF IInv, FlushInv, Keys
    <2>3. CountedOnce'
      BY DEF IInv, CountedOnce, Unwritten, Written, Held
    <2> QED  BY <2>1, <2>2, <2>3 DEF IInv
  <1> QED  BY <1>1, <1>2

\* The inductive invariant holds in every state that can be reached.
THEOREM Invariant == Spec => []IInv
  BY InitInvariant, NextInvariant, PTL DEF Spec

-----------------------------------------------------------------------------
\* Every variable has the values meant; in particular no inner map and no history
\* ever shows more usage than there were calls, however they race on the maps.
THEOREM TypeCorrect == Spec => []TypeOK
  <1>1. IInv => TypeOK
    <2> SUFFICES ASSUME IInv PROVE TypeOK
      OBVIOUS
    <2>1. content \in [Calls -> [Resources -> 0..Cardinality(Calls)]]
      BY FinishedFinite DEF IInv, Typed, CountsInv
    <2>2. observed \in [Types -> [Resources -> 0..Cardinality(Calls)]]
      BY FinishedFinite DEF IInv, Typed, CountsInv, Usages
    <2> QED  BY <2>1, <2>2 DEF IInv, Typed, Flushers, Usages, TypeOK
  <1> QED  BY <1>1, Invariant, PTL

\* Observe looks its map up before it takes the lock and flush reads without it;
\* still a type is miscounted only by a call that met a flush or another map, by
\* a row that was refused or by a restart.
THEOREM UsageIsCountedOnce == Spec => []CountedOnce
  <1>1. IInv => CountedOnce
    BY DEF IInv
  <1> QED  BY <1>1, Invariant, PTL
=============================================================================
