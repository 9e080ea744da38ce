------------------------------ MODULE Resolver ------------------------------
(***************************************************************************)
(* The cache of refractions in front of the database                       *)
(* (core/internal/resolver/simple.go): a request finds the refraction it   *)
(* names, loaded at most TTL ago, or loads it.  A load is a query for the  *)
(* row, those for its remotes (the join table and the rows it names, here  *)
(* one step) and one for their settings, without a transaction, while      *)
(* mutations go on (Configuration); transport profiles are left out.  At   *)
(* most one load of a name is under way; requests that miss meanwhile wait *)
(* for it.  Mutations do not tell the cache.                               *)
(*                                                                         *)
(* Time is the age of the entries, in ticks.  A load has no deadline.  The *)
(* observer that a load starts, whose goroutine never ends, is left out.   *)
(***************************************************************************)
EXTENDS Configuration

CONSTANTS
    TTL         \* ticks for which an entry is used

ASSUME ResolverAssumption == TTL \in Nat \ {0}

VARIABLES
    entry,      \* entry[n]: the cached refraction of that name
    load,       \* load[n]: the load of that name under way
    dirty       \* history: names whose rows changed since their load began

resolverVars == <<entry, load, dirty>>
vars == <<configVars, resolverVars>>

Buckets == Names \cup {GoName}
NoEntry == [id |-> Absent, settings |-> <<>>, age |-> TTL]
NoLoad == [at |-> "none", id |-> Absent, remotes |-> {}]

\* An entry is used while it is young enough; a hit does not renew it.
Usable(n) == entry[n].age < TTL

\* RemoteSecurity.AfterFind: the loader's context has no user.
Loaded(s) == [s EXCEPT !.token = NoToken]

\* The refraction of a name, and what a load of it would find.
Named(n) == {f \in Refractions \cap live : name[f] = n}
Current(f) == [r \in members[f] |-> Loaded(security[r])]

-----------------------------------------------------------------------------
ResolverInit ==
    /\ Init
    /\ entry = [n \in Buckets |-> NoEntry]
    /\ load = [n \in Buckets |-> NoLoad]
    /\ dirty = {}

\* A request does not find the refraction, or finds it too old, and queries its
\* row.  A name without a row is an error, which is not remembered.
Miss(n) ==
    /\ load[n].at = "none"
    /\ ~Usable(n)
    /\ \E f \in Named(n) :
          load' = [load EXCEPT ![n] = [at |-> "row", id |-> f, remotes |-> {}]]
    /\ dirty' = dirty \ {n}
    /\ UNCHANGED <<configVars, entry>>

\* Preload("Remotes"): the join table and the rows it names.
LoadedRemotes_WithRow(f) == members[f] \cup {f}
LoadedRemotes_All(f) == live \cap Remotes
LoadedRemotes(f) == members[f] \cap live

LoadRemotes(n) ==
    /\ load[n].at = "row"
    /\ load' = [load EXCEPT ![n].at = "remotes",
                            ![n].remotes = LoadedRemotes(load[n].id)]
    /\ UNCHANGED <<configVars, entry, dirty>>

\* Preload("Remotes.Security"); the backed remotes are new.
Store(n) ==
    /\ load[n].at = "remotes"
    /\ entry' = [entry EXCEPT ![n] =
                    [id |-> load[n].id, age |-> 0,
                     settings |-> [r \in load[n].remotes |-> Loaded(security[r])]]]
    /\ load' = [load EXCEPT ![n] = NoLoad]
    /\ UNCHANGED <<configVars, dirty>>

\* A query fails: the error goes to all who wait and is not remembered.
LoadFails(n) ==
    /\ load[n].at # "none"
    /\ load' = [load EXCEPT ![n] = NoLoad]
    /\ UNCHANGED <<configVars, entry, dirty>>

Aged(age) == age + 1

\* An entry too old to be used is as good as gone.
Tick ==
    /\ \E n \in Buckets : Usable(n)
    /\ entry' = [n \in Buckets |->
                    IF Usable(n) /\ Aged(entry[n].age) < TTL
                    THEN [entry[n] EXCEPT !.age = Aged(@)] ELSE NoEntry]
    /\ UNCHANGED <<configVars, load, dirty>>

\* ARC makes room for another name.
Evict(n) ==
    /\ Usable(n)
    /\ entry' = [entry EXCEPT ![n] = NoEntry]
    /\ UNCHANGED <<configVars, load, dirty>>

\* A mutation, which tells the cache nothing.
Mutation ==
    /\ Configure
    /\ dirty' = IF tables' = tables THEN dirty ELSE Buckets
    /\ UNCHANGED <<entry, load>>

ResolverNext ==
    \/ \E n \in Buckets :
          Miss(n) \/ LoadRemotes(n) \/ Store(n) \/ LoadFails(n) \/ Evict(n)
    \/ Tick
    \/ Mutation

ResolverSpec == ResolverInit /\ [][ResolverNext]_vars

\* Time passes.  Queries need not be answered: loads have no deadline.
FairResolverSpec == ResolverSpec /\ WF_vars(Tick)

-----------------------------------------------------------------------------
CacheTypeOK ==
    /\ \A n \in Buckets :
          /\ entry[n].id \in Refractions \cup {Absent}
          /\ entry[n].age \in 0..TTL
          /\ DOMAIN entry[n].settings \subseteq Remotes
          /\ load[n].at \in {"none", "row", "remotes"}
          /\ load[n].remotes \subseteq Remotes
    /\ dirty \subseteq Buckets

\* Only a change since its load began makes an entry differ from the database,
\* although a load is three queries: a refraction served is the one of that
\* name, with the remotes it has and the settings they have.
StaleOnlyByChange ==
    \A n \in Buckets \ dirty : Usable(n) =>
        /\ entry[n].id \in Named(n)
        /\ entry[n].settings = Current(entry[n].id)

\* Nobody tells the cache of a change, a renaming or a deletion, but it does not
\* outlive the entry: once mutations stop, what is served is what is configured,
\* however often it is loaded anew.
EndsUpCurrent ==
    <>[](\A n \in Buckets : Usable(n) =>
            /\ entry[n].id \in Named(n)
            /\ entry[n].settings = Current(entry[n].id))
=============================================================================
