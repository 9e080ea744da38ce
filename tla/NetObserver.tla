---------------------------- MODULE NetObserver ----------------------------
(***************************************************************************)
(* NetObserver (core/pkg/quota/bandwidth.go), which holds the usage of each *)
(* type and resource until a goroutine writes it to the database, and the  *)
(* rows BandwidthRepo keeps of it (core/pkg/db/repo/bandwidth.go).          *)
(*                                                                         *)
(* buckets is a map of maps.  Observe looks its inner map up before it     *)
(* takes the lock and stores it back under the lock; flush ranges over     *)
(* both levels without the lock and takes it only to replace the outer map. *)
(* Maps are references, so inner maps are named after the call that made   *)
(* them.  A call adds one unit of usage; the months of a row are summed.    *)
(***************************************************************************)
EXTENDS Naturals, FiniteSets

CONSTANTS
    Calls,      \* calls of Observe
    Types,      \* model.BandwidthType
    Resources,  \* names of remotes
    None,       \* no inner map
    WritesFail, \* may the database refuse a row?
    Restarts    \* may the process end (or the runtime abort on the map race)?

ASSUME NetObserverAssumption ==
    /\ IsFiniteSet(Calls) /\ None \notin Calls \cup Types
    /\ WritesFail \in BOOLEAN /\ Restarts \in BOOLEAN

VARIABLES
    pc,         \* pc[c]: idle, between look-up and lock, done
    arg,        \* arg[c]: the type and resource observed
    m,          \* m[c]: the inner map call c holds
    content,    \* content[c]: usage by resource in the inner map made by c
    buckets,    \* the outer map: the inner map of each type
    flusher,    \* the goroutine of the constructor, see Asleep
    usage,      \* the database: usage by type and resource
    observed,   \* history: usage of the calls that have returned
    tainted     \* history: the types a race, a failure or a restart touched

vars == <<pc, arg, m, content, buckets, flusher, usage, observed, tainted>>
calls == <<pc, arg, m>>

Entries == [type : Types, resource : Resources]
Empty == [k \in Resources |-> 0]
NoUsage == [t \in Types |-> Empty]
Keys(map) == {k \in Resources : content[map][k] > 0}

\* at: sleep, types (the outer range), keys (the inner range) or swap; due and
\* seen are the types the outer range has to and did reach, type and map what
\* the inner range is over, dueKeys and seenKeys the same for its keys.
Asleep == [at |-> "sleep", due |-> {}, seen |-> {},
           map |-> None, type |-> None, dueKeys |-> {}, seenKeys |-> {}]

\* What is held for an entry: what a flush that nothing disturbs would write.
Held(t, k) == IF buckets[t] = None THEN 0 ELSE content[buckets[t]][k]

\* The same, without what a flush under way has written.
Written(t, k) ==
    /\ flusher.at # "sleep"
    /\ t \in flusher.seen
    /\ t = flusher.type => k \in flusher.seenKeys
Unwritten(t, k) == IF Written(t, k) THEN 0 ELSE Held(t, k)

-----------------------------------------------------------------------------
Init ==
    /\ pc = [c \in Calls |-> "idle"]
    /\ arg \in [Calls -> Entries]
    /\ m = [c \in Calls |-> None]
    /\ content = [c \in Calls |-> Empty]
    /\ buckets = [t \in Types |-> None]
    /\ flusher = Asleep
    /\ usage = NoUsage
    /\ observed = NoUsage
    /\ tainted = {}

\* A first look-up of a type makes the map.
LookedUp(c) == IF buckets[arg[c].type] = None THEN c ELSE buckets[arg[c].type]

Observe(c) ==
    /\ pc[c] = "idle"
    /\ m' = [m EXCEPT ![c] = LookedUp(c)]
    /\ pc' = [pc EXCEPT ![c] = "lock"]
    /\ UNCHANGED <<arg, content, buckets, flusher, usage, observed, tainted>>

\* Is the map of call c no longer the one in use, or is a flush reading it?
Raced(c) == flusher.at # "sleep" \/ m[c] # LookedUp(c)

Stored_Dropped(c) == buckets
Stored(c) == [buckets EXCEPT ![arg[c].type] = m[c]]

Add(c) ==
    LET t == arg[c].type
        k == arg[c].resource
    IN  /\ pc[c] = "lock"
        /\ content' = [content EXCEPT ![m[c]][k] = @ + 1]
        /\ buckets' = Stored(c)
        /\ observed' = [observed EXCEPT ![t][k] = @ + 1]
        /\ tainted' = IF Raced(c) THEN tainted \cup {t} ELSE tainted
        /\ pc' = [pc EXCEPT ![c] = "done"]
        /\ UNCHANGED <<arg, m, flusher, usage>>

-----------------------------------------------------------------------------
(* flush.  A range over a map reaches every entry that was there when it   *)
(* began and may or may not reach one that is added meanwhile.             *)

Wakes_Once == flusher.at = "sleep" /\ usage = NoUsage
Wakes == flusher.at = "sleep"

FlushBegin ==
    /\ Wakes
    /\ flusher' = [Asleep EXCEPT !.at = "types",
                                 !.due = {t \in Types : buckets[t] # None}]
    /\ UNCHANGED <<calls, content, buckets, usage, observed, tainted>>

RangeType(t) ==
    /\ flusher.at = "types"
    /\ t \notin flusher.seen
    /\ buckets[t] # None
    /\ flusher' = [flusher EXCEPT !.at = "keys", !.seen = @ \cup {t},
                                  !.type = t, !.map = buckets[t],
                                  !.dueKeys = Keys(buckets[t]), !.seenKeys = {}]
    /\ UNCHANGED <<calls, content, buckets, usage, observed, tainted>>

RangeKey(k) ==
    /\ flusher.at = "keys"
    /\ k \in Keys(flusher.map) \ flusher.seenKeys
    /\ flusher' = [flusher EXCEPT !.seenKeys = @ \cup {k}]

\* Create: INSERT ... ON CONFLICT (id) DO UPDATE SET usage = usage + ?
Upserted_Negative(old, new) == old - new
Upserted(old, new) == old + new

Write(k) ==
    /\ RangeKey(k)
    /\ usage' = [usage EXCEPT ![flusher.type][k] =
                     Upserted(@, content[flusher.map][k])]
    /\ UNCHANGED <<calls, content, buckets, observed, tainted>>

\* The error is dropped, and the usage is with the swap.
WriteFails(k) ==
    /\ WritesFail
    /\ RangeKey(k)
    /\ tainted' = tainted \cup {flusher.type}
    /\ UNCHANGED <<calls, content, buckets, usage, observed>>

NextType ==
    /\ flusher.at = "keys"
    /\ flusher.dueKeys \subseteq flusher.seenKeys
    /\ flusher' = [flusher EXCEPT !.at = "types", !.type = None, !.map = None,
                                  !.dueKeys = {}, !.seenKeys = {}]
    /\ UNCHANGED <<calls, content, buckets, usage, observed, tainted>>

RangeEnd ==
    /\ flusher.at = "types"
    /\ flusher.due \subseteq flusher.seen
    /\ flusher' = [flusher EXCEPT !.at = "swap"]
    /\ UNCHANGED <<calls, content, buckets, usage, observed, tainted>>

Swapped == [t \in Types |-> None]

Swap ==
    /\ flusher.at = "swap"
    /\ buckets' = Swapped
    /\ flusher' = Asleep
    /\ UNCHANGED <<calls, content, usage, observed, tainted>>

\* Memory is lost, and with it the calls that are under way.
Restart ==
    /\ Restarts
    /\ pc' = [c \in Calls |-> IF pc[c] = "lock" THEN "done" ELSE pc[c]]
    /\ tainted' = tainted \cup {t \in Types : buckets[t] # None}
    /\ buckets' = [t \in Types |-> None]
    /\ flusher' = Asleep
    /\ UNCHANGED <<arg, m, content, usage, observed>>

Flush ==
    \/ FlushBegin \/ NextType \/ RangeEnd \/ Swap
    \/ \E t \in Types : RangeType(t)
    \/ \E k \in Resources : Write(k) \/ WriteFails(k)

Next ==
    \/ \E c \in Calls : Observe(c) \/ Add(c)
    \/ Flush
    \/ Restart

Spec == Init /\ [][Next]_vars

\* The goroutine's loop never ends; requests owe nothing.
FairSpec == Spec /\ WF_vars(Flush)

-----------------------------------------------------------------------------
TypeOK ==
    /\ pc \in [Calls -> {"idle", "lock", "done"}]
    /\ arg \in [Calls -> Entries]
    /\ m \in [Calls -> Calls \cup {None}]
    /\ content \in [Calls -> [Resources -> 0..Cardinality(Calls)]]
    /\ buckets \in [Types -> Calls \cup {None}]
    /\ flusher.at \in {"sleep", "types", "keys", "swap"}
    /\ flusher.due \subseteq Types /\ flusher.seen \subseteq Types
    /\ flusher.map \in Calls \cup {None} /\ flusher.type \in Types \cup {None}
    /\ flusher.dueKeys \subseteq Resources /\ flusher.seenKeys \subseteq Resources
    /\ usage \in [Types -> [Resources -> Nat]]
    /\ observed \in [Types -> [Resources -> 0..Cardinality(Calls)]]
    /\ tainted \subseteq Types

\* Usage is written or held exactly once, whatever a flush is doing, as long as
\* no Observe of its type ran into a flush or found another map in use than it
\* had looked up, no row of it was refused and no restart found it in memory.
\* So those are the only ways to miscount, and one type's do not reach another's.
CountedOnce ==
    \A t \in Types \ tainted : \A k \in Resources :
        usage[t][k] + Unwritten(t, k) = observed[t][k]

\* Usage reaches the database: once requests stop, an undisturbed type has all
\* of its usage there, which is what GetTotal reports.
EndsUpWritten ==
    <>[](\A t \in Types \ tainted : usage[t] = observed[t])
=============================================================================
