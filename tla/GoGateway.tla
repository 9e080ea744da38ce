------------------------------ MODULE GoGateway ------------------------------
(***************************************************************************)
(* Gateway.ServeGo (core/internal/api/v1/go.go): requests for Go modules   *)
(* are handed to one reverse proxy, shared by all of them, whose           *)
(* ModifyResponse each request replaces by a closure over its own path.    *)
(* When a response arrives the proxy calls the closure it has then, which  *)
(* records the download of a module's version in a goroutine of its own    *)
(* (ArtifactRepo.CreateArtifact).                                          *)
(*                                                                         *)
(* A response starts at most one such goroutine: it has the request's name.*)
(* The field is a word, so a racing read finds the last value written.     *)
(***************************************************************************)
EXTENDS ArtifactRepo

CONSTANTS
    Paths       \* paths asked for

\* A path with "/@v/v" names a version; lists and checksums do not.
ASSUME PathsAssumption == Artifacts \subseteq Paths

NoPath == "no path"

VARIABLES
    goProxy,    \* a URL of the Go proxy was configured
    at,         \* at[c]: where request c is
    path,       \* path[c]: what it asks for
    hook,       \* the path held by the closure in ModifyResponse
    succeeded,  \* requests answered with 200
    observed,   \* requests whose traffic was handed to the observer
    overtaken   \* history: requests during which the hook changed

requestVars == <<goProxy, at, path, hook, succeeded, observed, overtaken>>
vars == <<repoVars, requestVars>>

Enter(c, label) == at' = [at EXCEPT ![c] = label]
Proxied == {c \in Calls : at[c] = "proxied"}

-----------------------------------------------------------------------------
GatewayInit ==
    /\ Init
    /\ goProxy \in BOOLEAN
    /\ at = [c \in Calls |-> "idle"]
    /\ path = [c \in Calls |-> NoPath]
    /\ hook = NoPath
    /\ succeeded = {}
    /\ observed = {}
    /\ overtaken = {}

\* http.NotFound
ServeDisabled(c) ==
    /\ at[c] = "idle"
    /\ ~goProxy
    /\ Enter(c, "done")
    /\ UNCHANGED <<repoVars, goProxy, path, hook, succeeded, observed, overtaken>>

\* g.goProxy.ModifyResponse = func...
Hooked_Once(p) == IF hook = NoPath THEN p ELSE hook
Hooked(p) == p

ServeGo(c) == \E p \in Paths :
    /\ at[c] = "idle"
    /\ goProxy
    /\ path' = [path EXCEPT ![c] = p]
    /\ hook' = Hooked(p)
    /\ overtaken' = overtaken \cup {d \in Proxied : path[d] # p}
    /\ Enter(c, "proxied")
    /\ UNCHANGED <<repoVars, goProxy, succeeded, observed>>

\* The closure on a response with that status.
Records_AnyPath(ok) == ok
Records_AnyStatus(ok) == hook \in Artifacts
Records(ok) == ok /\ hook \in Artifacts

\* The response arrives and the proxy reads ModifyResponse.
Respond(c) == \E ok \in BOOLEAN :
    /\ at[c] = "proxied"
    /\ succeeded' = IF ok THEN succeeded \cup {c} ELSE succeeded
    /\ IF Records(ok) THEN Call(c, hook) ELSE UNCHANGED repoVars
    /\ Enter(c, "copying")
    /\ UNCHANGED <<goProxy, path, hook, observed, overtaken>>

\* The proxy's error handler answers 502 and calls no closure.
Unreachable(c) ==
    /\ at[c] = "proxied"
    /\ Enter(c, "refused")
    /\ UNCHANGED <<repoVars, goProxy, path, hook, succeeded, observed, overtaken>>

\* goNetObserver.Observe, with all that was written.
Observe(c) ==
    /\ at[c] \in {"copying", "refused"}
    /\ observed' = observed \cup {c}
    /\ Enter(c, "done")
    /\ UNCHANGED <<repoVars, goProxy, path, hook, succeeded, overtaken>>

\* Copying the body fails: the proxy panics with http.ErrAbortHandler, through
\* the handler, and what was written is not observed.
AbortCopy(c) ==
    /\ at[c] = "copying"
    /\ Enter(c, "done")
    /\ UNCHANGED <<repoVars, goProxy, path, hook, succeeded, observed, overtaken>>

GatewayNext == \E c \in Calls :
    \/ ServeDisabled(c) \/ ServeGo(c) \/ Respond(c) \/ Unreachable(c)
    \/ Observe(c) \/ AbortCopy(c)
    \/ Run(c) /\ UNCHANGED requestVars

GatewaySpec == GatewayInit /\ [][GatewayNext]_vars

-----------------------------------------------------------------------------
GatewayTypeOK ==
    /\ TypeOK
    /\ at \in [Calls -> {"idle", "proxied", "copying", "refused", "done"}]
    /\ path \in [Calls -> Paths \cup {NoPath}]
    /\ hook \in Paths \cup {NoPath}
    /\ succeeded \cup observed \cup overtaken \subseteq Calls

\* Although all requests share one closure, a request that no other overtook on
\* its way is recorded as what it asked for, if it got it, and as nothing else.
OwnUnlessOvertaken ==
    \A c \in Calls \ overtaken : at[c] \in {"copying", "refused", "done"} =>
        target[c] = IF c \in succeeded /\ path[c] \in Artifacts THEN path[c]
                    ELSE NoArtifact

\* Overtaken or not, nothing is recorded that nobody asked for, and no more than
\* there were successful answers.
RecordsOnlyRequests ==
    \A c \in Calls : target[c] # NoArtifact =>
        c \in succeeded /\ \E d \in Calls : path[d] = target[c]
=============================================================================
