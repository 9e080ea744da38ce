---------------------------- MODULE BackedRemote ----------------------------
(***************************************************************************)
(* One BackedRemote (core/pkg/remote/backed.go) under concurrent calls: a  *)
(* remote behind a policy, with a cache in the object store that is        *)
(* partitioned by the caller's credentials, the ephemeral remote's memory  *)
(* of successful probes (ephemeral.go), and the process-wide memory of the *)
(* GitLab users behind job tokens (internal/partition/gitlab.go).          *)
(*                                                                         *)
(* A "HEAD" call is Exists, a "GET" call is Exists and then Download, each *)
(* on a fresh clone of the caller's request context, as                    *)
(* Refraction.Download makes them, and a "FETCH" call is Download alone,   *)
(* as the npm, PyPI and Helm indexes make it.  Every round trip to the     *)
(* store, to the remote or to GitLab is a step of its own; the steps of    *)
(* concurrent calls interleave.                                            *)
(*                                                                         *)
(* An object is a number of parts, the unit in which the S3 uploader reads *)
(* a body: Parts of them when whole.                                       *)
(***************************************************************************)
EXTENDS Naturals, FiniteSets

CONSTANTS
    Requests,       \* concurrent calls
    Paths,          \* the files asked for
    Cacheable,      \* those policy.CanCache admits
    Blocked,        \* those policy.CanReceive refuses
    Relocated,      \* those an index lists under another path
    Tokens,         \* the tokens clients hold
    Users,          \* the GitLab users behind job tokens
    UserOf,         \* UserOf[t]: the user GitLab names for job token t
    DirectToken,    \* the remote's own credential
    NoToken,
    Clients,        \* the credentials clients present
    AuthHeaders,    \* the headers a PROXY remote lets through
    Configs,        \* how the remote may be configured: [mode, kind]
    Parts,          \* the length of an object
    Faults          \* the failures that may happen (see Kinds of fault)

NoUser == "no user"
Public == "public"
JobToken == "Job-Token"
Headers == {JobToken, "Authorization"}

\* Tokens and user IDs are told apart here; to the code both are strings.
ASSUME DataAssumption ==
    /\ Cacheable \subseteq Paths /\ Blocked \subseteq Paths
    /\ Relocated \subseteq Paths
    /\ Tokens \cap Users = {} /\ UserOf \in [Tokens -> Users]
    /\ {DirectToken, NoToken, Public, NoUser} \cap (Tokens \cup Users) = {}
    /\ DirectToken \notin {NoToken, Public, NoUser} /\ NoToken # Public
    /\ Parts \in Nat \ {0}
    /\ Configs \subseteq [mode : {"NONE", "PROXY", "DIRECT"},
                          kind : {"plain", "gitlab", "indexed"}]

\* Kinds of fault: "gitlab" a failed query for a token's user, "head", "get"
\* and "put" failed calls of the store, "remote" a remote that does not answer,
\* "body" a response body that breaks off, "record" a failed write of the
\* artifact's row.
ASSUME FaultsAssumption ==
    Faults \subseteq {"gitlab", "head", "get", "put", "remote", "body", "record"}

VARIABLES
    conf,       \* the remote's configuration
    call,       \* call[r]: what the client of request r asked for
    phase,      \* phase[r]: in Exists or in Download
    pc,         \* pc[r]: the round trip request r is about to make
    rctx,       \* rctx[r]: the clone of the request context in use
    result,     \* result[r]: what the call returned
    store,      \* store[k]: the parts stored under key k, 0 if absent
    origin,     \* origin[k]: the credential the object was fetched with
    known,      \* the job tokens whose user is remembered
    seen,       \* the <<path, token>> pairs the ephemeral remote remembers
    live,       \* the tokens the remote accepts
    created,    \* created[r]: the downloads the call recorded, or failed to
    observed,   \* what was reported to the bandwidth observer
    heard       \* the credentials the remote was sent

shared == <<store, origin, known, seen, live, observed, heard>>
vars == <<conf, call, phase, pc, rctx, result, store, origin, known, seen,
          live, created, observed, heard>>

Credential(h, t) == [header |-> h, token |-> t]
Anonymous == Credential("none", NoToken)
ClientCredentials == {Anonymous} \cup {Credential(h, t) : h \in Headers, t \in Tokens}
ASSUME ClientsAssumption == Clients \subseteq ClientCredentials

AnyCredential == ClientCredentials \cup {Credential("Authorization", DirectToken)}

Parting == {Public, DirectToken} \cup Users \cup Tokens
Keys == [path : Paths, moved : BOOLEAN, part : Parting]

\* What a call returns: the parts of the body, where they came from, and the
\* credential they were fetched with.
Ok(n, from, by) == [status |-> "ok", parts |-> n, from |-> from, by |-> by]
Exists == Ok(0, "none", Anonymous)
Error == [Exists EXCEPT !.status = "error"]
Unanswered == [Exists EXCEPT !.status = "none"]

-----------------------------------------------------------------------------
(* The request context and the cache key.                                  *)

\* validateContext, up to the partitions: what is left of the client's
\* credentials on a remote with this authentication mode.
Validated_KeepsClients(c) ==
    CASE conf.mode = "NONE" -> Anonymous
      [] conf.mode = "PROXY" -> IF c.header \in AuthHeaders THEN c ELSE Anonymous
      [] conf.mode = "DIRECT" -> IF c # Anonymous THEN c
                                 ELSE Credential("Authorization", DirectToken)
Validated(c) ==
    CASE conf.mode = "NONE" -> Anonymous
      [] conf.mode = "PROXY" -> IF c.header \in AuthHeaders THEN c ELSE Anonymous
      [] conf.mode = "DIRECT" -> Credential("Authorization", DirectToken)

\* GitLabPartition.Apply asks GitLab: the remote is on a GitLab host and not
\* an index, and the token's user is not remembered.  A remembered user is
\* returned as if no partition applied.
AsksGitLab(c) ==
    conf.kind = "gitlab" /\ c.header = JobToken /\ c.token \notin known

\* The partition of getPath: the user if Apply named one, else the token.
Partition_Public(c) == Public
Partition(c) ==
    IF c.header = "none" \/ c.token = NoToken THEN Public
    ELSE IF c.user # NoUser THEN c.user ELSE c.token

\* getPath: Exists is given the path of the request, Download the location the
\* index named.
Key(r) ==
    [path |-> call[r].path,
     moved |-> phase[r] = "download" /\ conf.kind = "indexed"
                 /\ call[r].path \in Relocated,
     part |-> Partition(rctx[r])]

CanCache(r) == call[r].path \in Cacheable

\* The remote serves those it knows.
Grants(r) == rctx[r].token \in live

SentTo(r) == Credential(rctx[r].header, rctx[r].token)

-----------------------------------------------------------------------------
Init ==
    /\ conf \in Configs
    /\ call = [r \in Requests |->
                 [op |-> "none", path |-> "none", cred |-> Anonymous]]
    /\ phase = [r \in Requests |-> "exists"]
    /\ pc = [r \in Requests |-> "idle"]
    /\ rctx = [r \in Requests |->
                 [header |-> "none", token |-> NoToken, user |-> NoUser]]
    /\ result = [r \in Requests |-> Unanswered]
    /\ store = [k \in Keys |-> 0]
    /\ origin = [k \in Keys |-> Anonymous]
    /\ known = {}
    /\ seen = {}
    /\ live \in {Tokens \cup {DirectToken}, Tokens \cup {DirectToken, NoToken}}
    /\ created = [r \in Requests |-> [made |-> 0, refused |-> 0]]
    /\ observed = [networkA |-> 0, networkB |-> 0, storage |-> 0]
    /\ heard = {}

Goto(r, label) == pc' = [pc EXCEPT ![r] = label] /\ UNCHANGED <<phase, result>>

Finish(r, res) ==
    /\ pc' = [pc EXCEPT ![r] = "done"]
    /\ result' = [result EXCEPT ![r] = res]
    /\ UNCHANGED phase

\* Exists returned a location: a GET goes on to Download.
Located(r) ==
    IF call[r].op = "HEAD" THEN Finish(r, Exists)
    ELSE /\ phase' = [phase EXCEPT ![r] = "download"]
         /\ pc' = [pc EXCEPT ![r] = "validate"]
         /\ UNCHANGED result

\* onCreate: a download of the path is recorded, or the database refuses the
\* row.  The error is dropped, and the call goes on as if nothing had happened.
Outcomes == {"made"} \cup (IF "record" \in Faults THEN {"refused"} ELSE {})

Record_Twice(r) ==
    \E o \in Outcomes : created' = [created EXCEPT ![r][o] = @ + 2]
Record_ProbesOnly(r) ==
    IF phase[r] = "exists"
    THEN \E o \in Outcomes : created' = [created EXCEPT ![r][o] = @ + 1]
    ELSE UNCHANGED created
Record(r) ==
    \E o \in Outcomes : created' = [created EXCEPT ![r][o] = @ + 1]

\* The times onCreate was called.
Tried(r) == created[r].made + created[r].refused

\* The first round trip after the context is validated.
FirstTrip(r) == IF CanCache(r) THEN "head" ELSE "ask"

\* A call arrives; Exists returns at once if the policy refuses the path.
Start(r) ==
    /\ pc[r] = "idle"
    /\ \E op \in {"HEAD", "GET", "FETCH"}, p \in Paths, c \in Clients :
          /\ call' = [call EXCEPT ![r] = [op |-> op, path |-> p, cred |-> c]]
          /\ phase' = [phase EXCEPT ![r] = IF op = "FETCH" THEN "download" ELSE "exists"]
          /\ IF op # "FETCH" /\ p \in Blocked
             THEN /\ pc' = [pc EXCEPT ![r] = "done"]
                  /\ result' = [result EXCEPT ![r] = Error]
             ELSE /\ pc' = [pc EXCEPT ![r] = "validate"]
                  /\ UNCHANGED result
    /\ UNCHANGED <<conf, rctx, created, shared>>

\* validateContext on a fresh clone of the client's context.
Validate(r) ==
    /\ pc[r] = "validate"
    /\ LET c == Validated(call[r].cred)
       IN  /\ rctx' = [rctx EXCEPT ![r] =
                         [header |-> c.header, token |-> c.token, user |-> NoUser]]
           /\ Goto(r, IF AsksGitLab(c) THEN "query" ELSE FirstTrip(r))
    /\ UNCHANGED <<conf, call, created, shared>>

\* GitLab names the user of the job token, and the answer is remembered.
Query(r) ==
    /\ pc[r] = "query"
    /\ Grants(r)
    /\ rctx' = [rctx EXCEPT ![r].user = UserOf[rctx[r].token]]
    /\ known' = known \cup {rctx[r].token}
    /\ heard' = heard \cup {SentTo(r)}
    /\ Goto(r, FirstTrip(r))
    /\ UNCHANGED <<conf, call, created, store, origin, seen, live, observed>>

\* GitLab refuses the token or cannot be reached: no partition applies.
QueryFails(r) ==
    /\ pc[r] = "query"
    /\ ~Grants(r) \/ "gitlab" \in Faults
    /\ heard' = heard \cup {SentTo(r)}
    /\ Goto(r, FirstTrip(r))
    /\ UNCHANGED <<conf, call, rctx, created, store, origin, known, seen, live,
                   observed>>

\* store.Head finds the object: Exists answers with it, Download serves it.
HeadHit(r) ==
    /\ pc[r] = "head"
    /\ store[Key(r)] > 0
    /\ IF phase[r] = "exists" THEN Located(r) /\ UNCHANGED created
                              ELSE Goto(r, "get") /\ Record(r)
    /\ UNCHANGED <<conf, call, rctx, shared>>

\* store.Head finds nothing, or fails, which counts as nothing.
HeadMiss(r) ==
    /\ pc[r] = "head"
    /\ store[Key(r)] = 0 \/ "head" \in Faults
    /\ Goto(r, "ask")
    /\ UNCHANGED <<conf, call, rctx, created, shared>>

\* store.Get, and the bytes reported.
Get(r) ==
    /\ pc[r] = "get"
    /\ Finish(r, Ok(store[Key(r)], "store", origin[Key(r)]))
    /\ observed' = [observed EXCEPT !.networkB = @ + store[Key(r)]]
    /\ UNCHANGED <<conf, call, rctx, created, store, origin, known, seen, live,
                   heard>>

\* store.Get breaks off; what it had read is reported all the same.
GetFails(r) ==
    /\ pc[r] = "get"
    /\ "get" \in Faults
    /\ Finish(r, Error)
    /\ \E n \in 0..store[Key(r)] :
          observed' = [observed EXCEPT !.networkB = @ + n]
    /\ UNCHANGED <<conf, call, rctx, created, store, origin, known, seen, live,
                   heard>>

\* eph.Exists has the answer already: a probe remembered, or an index entry.
\* The index is asked without credentials, and so can say yes to anyone.
ProbeKnown(r) ==
    /\ pc[r] = "ask" /\ phase[r] = "exists"
    /\ conf.kind = "indexed" \/ <<call[r].path, rctx[r].token>> \in seen
    /\ Located(r)
    /\ IF CanCache(r) THEN Record(r) ELSE UNCHANGED created
    /\ UNCHANGED <<conf, call, rctx, shared>>

\* eph.Exists probes the remote, which has the object.
ProbeGranted(r) ==
    /\ pc[r] = "ask" /\ phase[r] = "exists"
    /\ conf.kind # "indexed" /\ <<call[r].path, rctx[r].token>> \notin seen
    /\ Grants(r)
    /\ seen' = seen \cup {<<call[r].path, rctx[r].token>>}
    /\ heard' = heard \cup {SentTo(r)}
    /\ Located(r)
    /\ IF CanCache(r) THEN Record(r) ELSE UNCHANGED created
    /\ UNCHANGED <<conf, call, rctx, store, origin, known, live, observed>>

\* The index does not list the file.
NotListed(r) ==
    /\ pc[r] = "ask" /\ phase[r] = "exists"
    /\ conf.kind = "indexed"
    /\ Finish(r, Error)
    /\ UNCHANGED <<conf, call, rctx, created, shared>>

\* The remote refuses or does not answer, to a probe or to a download.
AskFails(r) ==
    /\ pc[r] = "ask"
    /\ ~Grants(r) \/ "remote" \in Faults
    /\ phase[r] = "exists" =>
          conf.kind # "indexed" /\ <<call[r].path, rctx[r].token>> \notin seen
    /\ heard' = heard \cup {SentTo(r)}
    /\ Finish(r, Error)
    /\ UNCHANGED <<conf, call, rctx, created, store, origin, known, seen, live,
                   observed>>

\* eph.Download opens the body; one that is not to be cached is passed on.
Fetch(r) ==
    /\ pc[r] = "ask" /\ phase[r] = "download"
    /\ Grants(r)
    /\ heard' = heard \cup {SentTo(r)}
    /\ IF CanCache(r) THEN Goto(r, "upload") /\ Record(r)
                      ELSE Finish(r, Ok(Parts, "remote", SentTo(r))) /\ UNCHANGED created
    /\ UNCHANGED <<conf, call, rctx, store, origin, known, seen, live, observed>>

\* The parts the upload has read are the ones the tee has kept for the client.
Deliver_NotStored(r, n) ==
    /\ Finish(r, Ok(n, "remote", SentTo(r)))
    /\ observed' = [observed EXCEPT !.networkA = @ + n]
Deliver(r, n) ==
    /\ Finish(r, Ok(n, "remote", SentTo(r)))
    /\ observed' = [observed EXCEPT !.networkA = @ + n, !.storage = @ + n]

\* store.Put reads the body to its end and stores it.
Upload(r) ==
    /\ pc[r] = "upload"
    /\ store' = [store EXCEPT ![Key(r)] = Parts]
    /\ origin' = [origin EXCEPT ![Key(r)] = SentTo(r)]
    /\ Deliver(r, Parts)
    /\ UNCHANGED <<conf, call, rctx, created, known, seen, live, heard>>

\* What a failed upload leaves in the store: an upload is all or nothing.
Leftover_Partial(k, n) == n
Leftover(k, n) == store[k]

\* store.Put fails after reading n parts, at least one of them unless the body
\* itself broke off; the error is dropped and the n parts are the response.
UploadFails(r) ==
    /\ pc[r] = "upload"
    /\ \E n \in 0..Parts :
          /\ \/ "put" \in Faults /\ n >= 1
             \/ "body" \in Faults /\ n < Parts
          /\ Deliver(r, n)
          /\ store' = [store EXCEPT ![Key(r)] = Leftover(Key(r), n)]
    /\ UNCHANGED <<conf, call, rctx, created, origin, known, seen, live, heard>>

-----------------------------------------------------------------------------
(* What happens around the calls.                                          *)

\* The remembered user of a job token expires or is evicted.
ForgetUser(t) ==
    /\ t \in known
    /\ known' = known \ {t}
    /\ UNCHANGED <<conf, call, phase, pc, rctx, result, store, origin, seen,
                   live, created, observed, heard>>

\* A full probe cache evicts an entry; entries do not expire.
ForgetProbe(e) ==
    /\ e \in seen
    /\ seen' = seen \ {e}
    /\ UNCHANGED <<conf, call, phase, pc, rctx, result, store, origin, known,
                   live, created, observed, heard>>

\* The remote stops accepting a token: a job token dies with its pipeline.
Revoke(t) ==
    /\ t \in live
    /\ live' = live \ {t}
    /\ UNCHANGED <<conf, call, phase, pc, rctx, result, store, origin, known,
                   seen, created, observed, heard>>

Environment ==
    \/ \E t \in known : ForgetUser(t)
    \/ \E t \in live : Revoke(t)
    \/ \E e \in seen : ForgetProbe(e)

Step(r) ==
    \/ Start(r) \/ Validate(r) \/ Query(r) \/ QueryFails(r)
    \/ HeadHit(r) \/ HeadMiss(r) \/ Get(r) \/ GetFails(r)
    \/ ProbeKnown(r) \/ ProbeGranted(r) \/ NotListed(r) \/ AskFails(r)
    \/ Fetch(r) \/ Upload(r) \/ UploadFails(r)

Next == Environment \/ \E r \in Requests : Step(r)

Spec == Init /\ [][Next]_vars

-----------------------------------------------------------------------------
TypeOK ==
    /\ conf \in Configs
    /\ call \in [Requests -> [op : {"none", "HEAD", "GET", "FETCH"},
                             path : Paths \cup {"none"}, cred : ClientCredentials]]
    /\ phase \in [Requests -> {"exists", "download"}]
    /\ pc \in [Requests -> {"idle", "validate", "query", "head", "get", "ask",
                            "upload", "done"}]
    /\ rctx \in [Requests -> [header : Headers \cup {"none"},
                             token : Tokens \cup {DirectToken, NoToken},
                             user : Users \cup {NoUser}]]
    /\ result \in [Requests -> [status : {"none", "ok", "error"}, parts : 0..Parts,
                               from : {"none", "store", "remote"},
                               by : AnyCredential]]
    /\ store \in [Keys -> 0..Parts]
    /\ origin \in [Keys -> AnyCredential]
    /\ known \subseteq Tokens
    /\ seen \subseteq Paths \X (Tokens \cup {DirectToken, NoToken})
    /\ live \subseteq Tokens \cup {DirectToken, NoToken}
    /\ created \in [Requests -> [made : 0..2, refused : 0..2]]
    /\ observed \in [networkA : Nat, networkB : Nat, storage : Nat]
    /\ heard \subseteq AnyCredential

\* Content fetched with credential d may be given to a client that presents c:
\* anyone, if it was fetched anonymously; else only with the same token or a
\* job token of the same user, in a header the remote lets through.
Entitled(c, d) ==
    \/ d.token = NoToken
    \/ /\ c.header \in AuthHeaders
       /\ \/ c.token = d.token
          \/ /\ c.header = JobToken /\ d.header = JobToken
             /\ UserOf[c.token] = UserOf[d.token]

\* On a pass-through remote no client is served content that another client's
\* credentials fetched, whatever calls fill the caches of users, probes and
\* objects in between, and whoever's token has since been revoked.
NoForeignContent ==
    conf.mode = "PROXY" =>
        \A r \in Requests : result[r].status = "ok" =>
            Entitled(call[r].cred, result[r].by)

\* A remote, and the GitLab API beside it, is sent the credentials its
\* authentication mode allows and no other: none, the ones in the headers it
\* lets through, or its own (web/src/docs/remote-settings-auth.md).
SentOnlyAllowed ==
    \A c \in heard :
        CASE conf.mode = "NONE" -> c = Anonymous
          [] conf.mode = "PROXY" -> c = Anonymous \/ c.header \in AuthHeaders
          [] conf.mode = "DIRECT" -> c.token = DirectToken

\* What the cache serves is whole, though uploads fail and bodies break off:
\* a truncated response may reach one client, never the ones after it.
CacheServesWhole ==
    \A r \in Requests : result[r].from = "store" => result[r].parts = Parts

\* A call that returns a cacheable file has recorded a download of it, by way
\* of the cache or not, unless the database refused every row it tried to
\* write; a call for any other file never records one, and one that is a probe
\* alone or a download alone is not counted twice.
DeliveriesRecorded ==
    \A r \in Requests :
        /\ Tried(r) > 0 => CanCache(r)
        /\ call[r].op # "GET" => Tried(r) <= 1
        /\ result[r].status = "ok" /\ call[r].op # "HEAD" /\ CanCache(r)
              => created[r].made > 0 \/ created[r].refused > 0

\* The parts the store holds, each numbered in its object.
StoredParts == UNION {{k} \X (1..store[k]) : k \in Keys}
Stored == Cardinality(StoredParts)

\* The parts of cacheable files the clients were given.
DeliveredParts == UNION {{r} \X (1..result[r].parts) : r \in {q \in Requests : CanCache(q)}}
Delivered == Cardinality(DeliveredParts)

\* Nothing reaches the store or a client of the cache without being reported
\* to the bandwidth observer: storage is never under-counted, and what was
\* delivered is covered by what was taken from the remote and the store.
TrafficReported ==
    /\ Stored <= observed.storage
    /\ Delivered <= observed.networkA + observed.networkB
=============================================================================
