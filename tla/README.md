# Prism: a verification development

Prism (this repository) is a caching proxy for package repositories. A client
asks it for a file of a *refraction*, a named set of *remotes*; Prism asks the
remotes at the same time, streams the file from one that has it, and keeps a copy
in an object store. This directory models the parts of it that run
concurrently or fail in parts, checks them with TLC, and proves with TLAPS
nearly all of the safety properties it checks, for every number of remotes, calls,
clients, users, rows and streams.

Paths below are relative to `src/`; Go files are under `core/` unless said
otherwise.

## The system

| Component | State | Operations | Correct when |
|---|---|---|---|
| Gateway (`internal/api/v1`) | a pool of requests, one shared Go reverse proxy | one HTTP handler per protocol | a request is served and recorded as itself, not as a concurrent one |
| Resolver (`internal/resolver`) | a cache of refractions by name, 1000 entries for five minutes | `Resolve`, `ResolveHelm`, ... | a refraction is the one in the database, at most five minutes old |
| Refraction (`internal/refract`) | none between calls; in a call a channel, a goroutine per remote, a deadline | `Exists`, `Download` | see *Lookup* below |
| BackedRemote (`pkg/remote/backed.go`) with its ephemeral, Helm or PyPI remote | the memory of successful probes | `Exists`, `Download` | content stays within its partition, the cache holds whole files, traffic and downloads are recorded |
| GitLab partition (`internal/partition`) | users behind job tokens, one hour, whole process | `Apply` | a user's job tokens share one partition |
| Policy (`internal/policy`) | compiled expressions | `CanReceive`, `CanCache` | blocked files are not served, indexes are not cached |
| Object storage (`pkg/storage`) | objects by key | `Head`, `Get`, `Put`, `Size` | all or nothing uploads |
| ArtifactRepo (`pkg/db/repo/artifact.go`) | one row per artifact | `CreateArtifact`, counts | one row per artifact, which counts its downloads |
| NetObserver (`pkg/quota`) and BandwidthRepo | usage not yet written, by type and resource | `Observe`, `flush` | usage is written once |
| Notifier (`pkg/db/notify`), streams (`internal/graph/resolver.go`) | registered channels; a goroutine per stream, one broadcaster, one listener per table | `Listen`, `AddListener`, `RemoveListener`, `stream` | a client ends up seeing the row as it is; streams end with their clients |
| NPM, PyPI and Helm indexes (`internal/impl`) | two caches (NPM); tables | `Package`, `PackageVersion`, `Index`, `Serve` | an index lists what the remotes list, with addresses rewritten |
| Batch (`batch/`) | a Redis queue (asynq, external) | cron, `HandleIndexAllTask`, `HandleIndexTask`, Helm `ProcessTask` | every Helm remote is indexed again and again |
| Permissions (`internal/permissions`), graph mutations | remotes, refractions and their settings in the database; roles in the RBAC sidecar (external) | `CanI`, `AmI`, create, patch, delete, bind | a mutation needs the role; nobody gains a role that was not given; what Prism manages is left alone |
| Go proxy (`goproxy/`) | none of its own | `Get`, `Set` | objects under `go/` |

How they interact on a download: a gateway handler reads the client's
credentials into a *request context* (one authentication header at most), and
asks the resolver, which loads the refraction from the database on a miss.
`Refraction.Download` calls `Exists` on each `BackedRemote` in a goroutine with
a clone of the context, and `Download` on the winner with another clone. Each
call first decides which credentials survive (`validateContext`), possibly by
asking GitLab; the key in the store contains a hash of the user or token.
`Download` serves the store's copy or fetches the file, uploads it and returns
what it copied on the way. Both record a download in the database and
`Download` reports bytes to the observer. Indexes call `Download` directly,
without credentials and without `Exists`. Users watch their own row by a
subscription that the database's notifications drive.

What is hard: the fan-out with an early return; unsynchronised maps
(notifier, observer) and shared callbacks (Go gateway); read-then-write against
the database without a transaction; two round trips that use caches which
change in between; dropped errors (upload, insert, fetch); notifications lost
while a connection is down. `PROJECT.json` lists each at its line under
`hazards`.

## The modules

| Module | Models | Kind |
|---|---|---|
| `Lookup` | what `Refraction.Exists` promises | abstract specification |
| `Refraction` | `Refraction.Exists` and `Download` | detailed specification, implements `Lookup` |
| `RefractionProofs` | theorems about `Refraction` | proofs |
| `BackedRemote` | one remote, its caches, the store, under concurrent calls | specification |
| `BackedRemoteProofs` | theorems about `BackedRemote` | proofs |
| `ArtifactRepo` | `CreateArtifact` and its table | specification |
| `GoGateway` | `ServeGo`, on top of `ArtifactRepo` | specification, a composition |
| `GoGatewayProofs` | theorems about `GoGateway` | proofs |
| `NetObserver` | `Observe`, `flush` and the rows of usage | specification |
| `NetObserverProofs` | theorems about `NetObserver` | proofs |
| `Notifier` | row, listener, broadcaster, streams, clients | specification |
| `NotifierProofs` | theorems about `Notifier` | proofs |
| `Configuration` | mutations, permissions and the configuration in the database | specification |
| `Resolver` | the cache of refractions, on top of `Configuration` | specification, a composition |
| `ConfigurationProofs` | theorems about `Configuration` and `Resolver` | proofs |
| `NpmIndex` | NPM manifests: caches, fetch, row | specification |
| `NpmIndexProofs` | theorems about `NpmIndex` | proofs |
| `FileTable` | the tables of PyPI and Helm files | operators |
| `PyPiIndex` | the page of a package, over `FileTable` | specification |
| `HelmIndex` | batch indexing of Helm repositories, over `FileTable` | specification |
| `FileIndexesProofs` | theorems about `PyPiIndex` and `HelmIndex` | proofs |
| `MC*` | small instances for TLC | |

An operator whose name has a suffix after an underscore (`Prefer_Latest` beside
`Prefer`) is the same operation with a slip in it. No action uses it; putting
it in place of the original shows that a property notices the slip.

### Lookup and Refraction

`Lookup` has three variables: what each remote answered, whether the client is
gone, and the verdict. Remotes answer in any order. The verdict is a remote
that has the object, or, when all have said no, a *most informative* status (a
client error, else another error, else 404), or the client's cancellation. An
answer without a status (a policy block, a time-out) counts as a no.

`Refraction` adds the goroutines. `probe[r]` is where the goroutine of remote r
is (line 70-79 of `refract.go`), `ch` the channel of capacity one (60), `count`
and `bestStatus` the loop's locals (83-84), `ctxDone` and `reqDone` the two
contexts. `Spawn`, `EnterLoop`, `ReceiveHit`, `ReceiveError`, `GiveUp`,
`Conclude` and `Download` are the caller's steps in the order of the code;
`Answer` and `Send` are a goroutine's. Where two cases of the `select` are ready
either may be taken. The refinement mapping is `answers <- answer,
gone <- ctxDone`; the verdict has the same name in both.

A client error is any status from 400 to 499 to `Lookup`, as in the comment at
`refract.go:97-98`. To the code's guard it ends at 498 (`Prefer`), so the code keeps
a 500 heard before a 499: the run `refraction_client` shows it, and what else is
said of the status reported is checked and proved for remotes that do not answer
499.

### BackedRemote

A request is one client call: `HEAD` is `Exists`, `GET` is `Exists` and then
`Download` (as `Refraction.Download` composes them), `FETCH` is `Download` alone
(as the indexes call it). `pc[r]` names the next round trip: the query to
GitLab, `store.Head`, `store.Get`, the remote (`ask`), `store.Put` (`upload`).
`Validate` runs on a fresh clone of the client's context in both phases, so the
partition is computed twice and the memory of users may change in between:
`known` holds the job tokens remembered, and a remembered token is treated as
the code treats it, as having no partition of its own. `Key` is `getPath`: path,
whether it is the location an index named, and partition (what is hashed, not
the hash). `seen` is the ephemeral remote's memory of probes, `live` what the
remote accepts, `origin` and `result[r].by` record the credential content was
fetched with. Tokens are revoked and both memories forget at any time.

An object is `Parts` parts long, a part being what the S3 uploader reads at a
time; this tells a truncated copy from a whole one, which is what failures of
`Put` are about.

`onCreate` is `Record`: the row of the download is written, or the database refuses
it, an error the code drops at each of its three calls. `created[r]` counts both.

Policy verdicts are constants: `Blocked` (what `CanReceive` refuses) and
`Cacheable` (what `CanCache` admits). The remote's own credential travels in the
`Authorization` header.

### ArtifactRepo

The UPDATE and the INSERT of `CreateArtifact` are one step each, evaluated by the
database one row at a time. A row is named by the call that inserted it.

### GoGateway

One reverse proxy serves all requests for Go modules, and each request writes its
own closure into the proxy's `ModifyResponse` before it is proxied: `hook` is the
path that closure holds. A response is handled by the closure there is when it
arrives (`Respond`), and, if that path names a version, starts a call of
`ArtifactRepo`, whose steps are part of this specification (`Run`). `overtaken` is
history: requests during which another wrote a different path. An unreachable Go
proxy and a client that leaves in the middle (`AbortCopy`, where the proxy
panics past `Observe`) are steps of their own.

### NetObserver

`buckets` are the observer's nested maps; `Observe` reads the map of a type before
it takes the lock (`LookedUp`) and writes into it after (`Add`), and `flush` ranges
over the maps without the lock (`FlushBegin`, `RangeType`, `RangeKey`, `Write`) and
swaps them with it (`Swap`). Restarts and refused rows happen at any time.

### Configuration

A mutation is a `call`: permission is asked of the sidecar (`Superusers`,
`Permitted`), a role may be bound (`Bind`), and the repository's reads and writes
follow, each a step, since no transaction holds them together; `Fail` ends the
call anywhere and undoes nothing. `live` is which rows exist, `name`, `security`
and `members` their contents. Roles are bound to `kind::name` and checked on
`kind::id`, as in the code. The input of a binding has a subject, `call[c].subject`;
`Bound` and `BindGlobal` do not look at it, as the code does not: the role goes to the
caller. `copy` is what a patch of a refraction has read and will
save; gorm's save of a row with its associations writes the associated rows too.
Prism's own remote and refraction, which `Database.defaults` creates, are
`GoRemote` and `GoRefraction`. The history variables `deleted` and `overtaken` say
what was deleted, and what was deleted while another mutation held a copy of it.

### Resolver

`entry[n]` is what the cache holds under the name n, `load[n]` the load under way:
the row (`Miss`), the remotes (`LoadRemotes`, which takes the query of the join table and
that of the rows it names as one), the settings (`Store`). Mutations of
`Configuration` may happen between these steps; the transport profiles, which a load
also fetches, are left out, as is the observer it starts. Requests for a name that is
being loaded wait for the load, as in gcache. `Loaded` is the hook that wipes the
remote's own token, which it does in every load because the loader's context has
no user: remotes in `DIRECT` mode are therefore queried without the token they were
given, whatever happens, which the model shows in `Loaded` and states as no
property. `dirty` names entries whose rows changed since their load began.

### NpmIndex

The module is about one package. `request[q]` is where a request is, `worker[q][m]`
the goroutine of its fetch for remote m, `row` the package's row, `pkgCache` and
`versionCache` the caches, which like the row know nothing of refractions. The
roots that addresses are rewritten with are set one by one while goroutines
already run; one that reads them too early finds empty strings, which match
everywhere, so it produces a text that is no JSON (`Garbled`) and the database
refuses it. `||` on JSON replaces the key `versions` as a whole, so a merge is the
newer document. `Touched` is what ttlcache's `Get` does to an entry's age.

### FileTable, PyPiIndex, HelmIndex

A table maps a file name to the remote that listed it first. `PyPiIndex` has the
goroutines of any number of pages: download, insert, append, with both errors
dropped. `HelmIndex` has the batch process: `Cron` and the mutation that creates a
remote enqueue tasks, workers take them in order, and the handlers enqueue
further tasks or insert rows. Tasks are created without asynq's `Unique`, so a task
may wait twice and two workers may handle equal tasks at once. Faults are a step
each: a task retried, an enqueue or an insert that fails and whose error is
dropped, a creation that is not announced.

### Notifier

A row is the number of its changes, so that `older` means something. `queue` is
what the database has sent and the listener has not handed over, `msg`, `left`
and `target` the broadcaster's loop (`notify.go:70-79`): the message, the streams
its range has yet to reach, and the one it is sending to. `stream[s]` is the
goroutine of one subscription: the first read (before the goroutine runs),
`select`, reading the row, sending to the client. Channels are unbuffered, so
`Receive` is the broadcaster's send and the stream's receive in one step; the
client's channel holds one event. Ranges over a Go map that is written to may or
may not reach a new entry and never reach a deleted one; the race detector of
maps in the runtime aborting the process is `Abort`. Reading the row is
`CreateCtx`, an upsert that leaves preferences alone and returns them, so it
fires the trigger only when it inserts. A failed query sends an event with the
user's identity and nothing else (`Blank`). `missed` is history: the streams to which
a lost notification or a failed query has denied an update, until they next read
their row.

## The runs

| Run | Checks | Shows |
|---|---|---|
| `refraction_lookup` | `TypeOK`, `Accounting`, `NoFalseNotFound`, `ReportsMostInformative`, `NeverLessInformative`, `Implements`, `LeaksBounded` | three remotes, five statuses and every interleaving with the deadline and the client leaving |
| `refraction_client` | `ReportsMostInformative` (violated) | a 500, heard before a 499, is what is reported |
| `backed_faults` | `TypeOK`, `CacheServesWhole`, `DeliveriesRecorded`, `TrafficReported`, `SentOnlyAllowed`, `NoForeignContent` | two calls with and without a token, four configurations, three files (plain, not cacheable, blocked), every failure, of the record of a download too |
| `notifier_updates` | `TypeOK`, `NoneMissed`, `NeverOlder`, `EndsUpCurrent` | two streams, of which one may lose its client, with losses, failed queries and the map race; the one that stays ends up current unless a fault denied it the last update or a stopped stream holds up the broadcaster |
| `notifier_stuck` | `KeepsListening` (violated) | a client leaves, its stream stops while the broadcaster is at its channel |
| `observer_usage` | `TypeOK`, `CountedOnce`, `EndsUpWritten` | three calls of `Observe`, flushes, refused rows and restarts: usage is counted once but for the races, which the history names |
| `configured` | `TypeOK`, `GoIsManaged`, `DeletedIsGone`, `CacheTypeOK`, `StaleOnlyByChange`, `AuthorityIsGiven`, `OnlyPermitted`, `EndsUpCurrent` | two mutations by a superuser, an owner of a refraction or nobody, interleaved and failing anywhere; or one of them at any moment of loads that go on for ever |
| `binding_subject` | `SubjectIsBound` (violated) | a superuser binds a role for another user and gets it |
| `go_gateway` | `GatewayTypeOK`, `NeverUndercounted`, `ExactWhileUnique`, `RecordsOnlyRequests`, `OwnUnlessOvertaken` | four requests for a version or a list and the calls of `CreateArtifact` they start |
| `npm_served` | `TypeOK`, `ServedIsGenuine`, `OwnUnlessReplaced` | two requests at once in refractions that share a remote; a remote may fail or publish |
| `npm_fresh` | `NewVersionsSeen` (violated) | a client asks again before the entry expires, each hit renews it, and the new version is never listed |
| `file_indexes` | `TypeOK`, `PagesAreComplete`, `LinksResolve`, `ChartsEndUpServed` | two workers, two Helm repositories with one chart, one fault; two PyPI pages with a shared remote |

The four violated properties are sentences of the repository's comments and what its
schema and form say; `findings` in `PROJECT.json` quotes them:

- a client error may be passed over for a server error: the guard at `refract.go:99`
  leaves out 499;
- the broadcaster may wait for ever on a stream that has stopped (`notify.go:76`);
- a role is bound to the caller and not to the subject in the input
  (`resolver.go:121`);
- a package asked for often enough never shows a new version (`packages.go:40`).

Bounds. Three remotes are the fewest with which an early return can block a
goroutine (one message received, one in the buffer, one waiting) and with which
two errors precede a hit; the theorems cover the rest. Two concurrent calls of
a remote suffice for every race on a shared key, since a call touches one key
per phase and cached state is the only thing calls share; one token and none
give content to mix up, and the theorem covers any number of tokens and users.
Two parts tell whole, truncated and empty. Four requests to the Go gateway give
two that overtake each other and two rows of one artifact that are incremented
after. Two streams are needed for one to block the other; the row of the one that
stays changes twice, which gives an older and a newer update and one after a loss.
Three calls of `Observe` put one on each side of a flush and one across it. Two
mutations show every overlap of two, and a
sequence of two; users are of three kinds because permissions tell apart only who
has SUPER, who has a role on the row, and who has neither. Of two mutations that
overlap, `MCResolver` leaves one to the superuser, who binds no roles with it, and
the other to a user: one without a user ends at its first check, as a mutation alone
shows. Loads overlap one mutation, of the superuser, and never end: an entry expires
and is loaded again, before and after. Two requests to the NPM index fetch from one or two remotes, each of which lists a
version of its own; the database does not fail in this run, though an insert is
refused when the race garbles a manifest. One fault of the batch process is
followed by any number of rounds of the schedule; two workers let tasks of one
remote overlap, and rounds too, as the schedule adds a task when no more than
`MaxWaiting` wait (none in this run, though two may be at work): a round, a creation
and a retry still leave equal tasks in the queue. `MaxChanges`, `MaxFaults`,
`MaxWaiting`, `Catalogue`, `Versions` and the bounds of `NetObserver` are bounds of
the model and named so.

The symmetry sets permute requests or calls, which the modules do not
tell apart, and only in runs without liveness properties.

Deadlock checking is off wherever everything modelled may stop: a call returns,
and rows need not change.

## Fairness

`Refraction`: the Go scheduler runs goroutines that can run, so `Spawn`, `Send`
and the caller's steps are weakly fair, and the timer of the ten-second
deadline fires. A remote owes an answer only after `reqCtx` has ended, because
then `net/http` and the database driver abandon the request; without this
assumption nothing bounds a slow remote. The client owes nothing. `GiveUp` needs
no fairness since the deadline brings all the answers.

`Notifier`: the broadcaster and the streams run when they can, and a connected
client reads its events. Changes, subscriptions, disconnections and losses are
not fair.

`NetObserver`: the goroutine that flushes every ten seconds runs; nothing else is
owed. `Resolver`: time passes (`Tick`); mutations, requests and queries are owed
nothing, since what is stale goes by ageing alone, while loads may go on. `NpmIndex`
(`FairSpec`, for the violated run only): time passes, requests and their goroutines go on, and a client
asks for the manifest again and again. `HelmIndex`: the schedule fires, and some
worker goes on; the others may hang for ever. Faults are bounded, as a queue that
loses everything keeps no promise. `BackedRemote`, `GoGateway`, `Configuration` and
`PyPiIndex` are checked for safety only.

## The proofs

Every invariant and every action property a passing run checks is also proved, for
every value of the constants that satisfies the named assumptions of the module and the
modules it extends. TLC evaluates those assumptions in each run. What remains to
TLC alone is listed at the end of this section.

`RefractionProofs` proves, for any finite set of remotes and any set of statuses
between 400 and 599, of which `FailureIsInformative` and `RefinesLookup` leave out 499:

- `TypeCorrect`: `TypeOK`, including that `count` never exceeds the number of remotes;
- `FailureIsHonest`: `NoFalseNotFound`;
- `FailureIsInformative`: `ReportsMostInformative`;
- `StatusOnlyImproves`: `NeverLessInformative`;
- `AnswersAccountedFor`: `Accounting`;
- `RefinesLookup`: every behaviour of `Refraction` is, under the mapping, a
  behaviour of `Lookup` without its fairness.

The assumptions are the two named ones of `Refraction`. `NoFalseNotFound` is not
inductive: it says nothing of the loop. The inductive invariant `IInv` adds that
the channel holds at most one message and only messages already sent; that,
until a verdict, `count` is the number of messages received, none of which
is a hit; that an answer exists exactly from the moment its goroutine starts to
send it; and that `bestStatus` is the one the guard ranks highest of the statuses
received, or zero if there were none; without a 499 that is the most informative. With `count = N` and all received messages
distinct, a finite set argument gives that every remote was received, hence
none was a hit. Each action has a step of its own in the proof of inductiveness.
The refinement reuses `IInv`: `ReceiveHit` maps to `Find`, `Conclude` to `Fail`,
`GiveUp` to `Cancel`, `Answer` to `Answer`, `ClientLeaves` to `Leave`, and the rest
stutter.

`BackedRemoteProofs` proves, for any number of concurrent calls, any tokens and
users and any set of faults:

- `TypeCorrect`: `TypeOK`, including that a call records at most two downloads;
- `ContentStaysWithOwners`: `NoForeignContent`;
- `CacheIsWhole`: `CacheServesWhole`;
- `OnlyAllowedSent`: `SentOnlyAllowed`;
- `DownloadsRecorded`: `DeliveriesRecorded`;
- `AllTrafficReported`: `TrafficReported`.

The assumptions are the three named ones of `BackedRemote`; they say that tokens,
user IDs and the names the model uses for "none" are different things (in the
code the hashed strings of a token and of a user ID could only coincide if a
token were a small number), that an object has at least one part, and what
credentials, configurations and faults there are.

`Base` is the invariant under all of them: the types and, for each call between
two round trips, that it carries exactly what `Validated` leaves of its client's
credentials, and that the user it holds, if any, is the one GitLab names for its
job token. A step of one call touches nothing of another (`OthersKeep`), so only
the call that moves is looked at. Effect lemmas then state once what any step does:
`HeardEffect` (who sends what), `StoreEffect` (one key changes, by a whole upload),
`AnswersEffect` (what a call may answer) and `GetEffect` (who gets to read the
store). `NoForeignContent` needs the strengthening `PartitionsInv`: whatever is
under a key was fetched anonymously, with the token the partition is named
after, or with a job token of the user it is named after. The same file may be
in two partitions, one for the token and one for its user, which is why the
invariant has to allow both, and why tokens and users have to be told apart.
`CacheServesWhole` needs that a key once filled stays filled, so that what `Head`
found `Get` still finds; `DeliveriesRecorded` that a call past `onCreate` has its
record, or was refused it, and that only cacheable files get there. `TrafficReported` compares sums over
all keys and all calls with what was observed. A sum would take an induction over
data, so `Stored` and `Delivered` are numbers of elements: the first n parts of an
object are the set {key} × 1..n, and the parts stored are the union of these sets.
`TrafficEffect` says that a step adds parts of one key and one call at most and
reports no fewer; adding at most n elements to a finite set (`PartsAdded`) adds at
most n to its size.

`GoGatewayProofs` proves, for any finite set of requests and any paths:

- `TypesHold`: `GatewayTypeOK`, including that no row counts more downloads than
  there were requests;
- `OwnRecords`: `OwnUnlessOvertaken`;
- `OnlyRequests`: `RecordsOnlyRequests`;
- `DownloadsAreCounted`: `NeverUndercounted`;
- `OneRowIsExact`: `ExactWhileUnique`.

The assumptions are that requests are finitely many and that versions are paths.
None of the properties is inductive, as none says what the shared closure holds.
`HookInv` does: while a request waits for its response the closure holds its path,
unless it was overtaken, and in any case the path of a request that has begun.
`BeforeInv` adds that a request records nothing before its response, so that the
path it meets there is the only one it can record; `RecordInv` names the request
that asked for what is recorded among those that have begun, since an idle one may
still be given another path. The bound on a row's count is inductive as a bound by
the number of calls that have succeeded (`CountInv`): each step that increments
rows adds one to both. `NeverUndercounted` and `ExactWhileUnique` are inductive
together (`TableInv`), with two facts: a row belongs to a call that succeeded, so the
row a call is about to insert is not there yet, and an artifact without a row has
no recorded download, so the first row starts exact. Their sums over the rows of
an artifact are, again, numbers of elements of a union (`Counted`).

`ConfigurationProofs` proves, for any number of mutations under way, any users, rows,
names, tokens and role bindings:

- `TypeCorrect`: `TypeOK`;
- `AuthorityIsHandedOn`: `AuthorityIsGiven`;
- `GoStaysManaged`: `GoIsManaged`;
- `DeletionsHold`: `DeletedIsGone`;
- `ChangesArePermitted`: `OnlyPermitted`;
- `ReferencesResolve`: no refraction refers to a remote that is gone (`MembersExist`);

and for the cache of refractions in front of it, with any lifetime:

- `CacheTypesHold`: `CacheTypeOK`;
- `OnlyChangesMakeStale`: `StaleOnlyByChange`;
- `CacheRefinesConfiguration`: the specification with the cache implements
  `Configuration`, so that the theorems above hold of it too.

The assumptions are `ConfigurationAssumption` (IDs, names and the marks for
their absence are different things, Prism's own rows are among the rows, and
what the operator provisioned is a set of role bindings, whichever) and
`ResolverAssumption`. A mutation checks a permission in one round trip and acts
in a later one, so no property is inductive without what the mutation remembers:
`CallsInv` says of each, at the statement it is about to run, what it was asked,
what its user may do, which rows it cannot be about, and what it holds. Others
keep this while one moves, because roles are only added (`StepOfOne`): this is
why a check made round trips ago is still good, and it would fail if roles could
be taken away. `HeldInv` ties the copies mutations hold to `overtaken`. A load
of the cache has, before and after its second query, the row and the remotes
that are in the database, unless its name is dirty (`LoadsCurrent`); it needs
`MembersExist`, as the query for remotes would silently return fewer than the
row refers to.

`NpmIndexProofs` proves, for any requests, remotes, refractions, versions and faults:

- `TypeCorrect`: `TypeOK`;
- `WhatIsServedIsGenuine`: `ServedIsGenuine`;
- `OwnIsServed`: `OwnUnlessReplaced`.

A manifest is in a goroutine, the row, a request and two caches before it is
served, and the invariant says of each that what it holds is genuine: it was
published by the remote its addresses lead to, in a refraction of that remote. A
goroutine may also hold a manifest that the race on the roots garbled; such a text
never gets past the insert. `OwnUnlessReplaced` needs that a row stored by a request
that nobody replaced is still of its refraction when the request reads it.

`NetObserverProofs` proves, for any finite set of calls, any types and resources, with
refused rows and restarts:

- `TypeCorrect`: `TypeOK`;
- `UsageIsCountedOnce`: `CountedOnce`.

`CountedOnce` excuses the types on record in `tainted`, so its strength is in when a
type gets there: an `Observe` that added while a flush was under way or that found
another map in use than the one it had looked up, a refused row, or a restart that
found usage in memory. The invariant shows that nothing else miscounts: a map
nobody has stored is known to its maker only (`PrivateInv`), two types never share
one (`OwnersInv`), and what an undisturbed flush ranges over is what is in use, with
all its keys (`FlushInv`).

`NotifierProofs` proves, for any finite set of streams and any number of changes, with
losses, failed queries and the race on the map:

- `TypeCorrect`: `TypeOK`;
- `ClientsMoveForward`: `NeverOlder`;
- `UpdatesAreUnderWay`: `NoneMissed`, that a subscribed client to which no fault denied
  an update since its row was last read has seen the row as it is, or its event, its
  stream's reading, the broadcaster's message or the queue will still bring it.

The last is the safety half of `EndsUpCurrent`, for every number of streams: what
is left to the run is that what is under way arrives. `NeverOlder` is about a whole
pipeline: a client has seen nothing newer than the event it has yet to take, nor that
than what its stream is about to send, nor that than the row (`InOrder`).
`NoneMissed` rests on `Registered` (a stream is registered from before its first
reading until its end): the reverse order of `AddListener` and the first reading
would break it, as a change between them would be told to nobody.

`FileIndexesProofs` proves, for any pages, refractions, remotes, files and listings:

- `TypesHold`: `PyPiTypeOK`;
- `CompletePages`: `PagesAreComplete`;
- `LinksLead`: `LinksResolve`;

for any remotes, workers, charts and faults:

- `HelmTypesHold`: `HelmTypeOK`, including that no task and no row is about a remote that
  does not exist yet, however often a task waits or runs;

and `TypeCorrect`, the `TypeOK` of the run, which puts the two together. The
assumptions are the named ones of `FileTable`, `PyPiIndex` and `HelmIndex`. The PyPI
properties speak of rendered pages only, and what makes them true happened before:
the invariant says of each goroutine, at each of its steps, what it has left behind
(`AskedInv`, `ItemsInv`, `InsertedInv`), and `RenderedInv` that a page waited for
all of them. `InsertKeepsRows` states what an insert that ignores conflicts keeps,
which is why another page's insert of the same names breaks no link; `StepOfOne` that
a step of one goroutine touches no other and none of a rendered page. For the queue
the remotes that are live have to be finitely many, which holds since finitely many
are there at the start and each mutation adds one: a handler's tasks can then be put
in a sequence (`SetInSequence`), which `Enqueued` says is all that is added.

Only model-checked: `EndsUpCurrent` (of clients and of the cache), `EndsUpWritten`,
`ChartsEndUpServed`, `LeaksBounded` and the liveness half of `Implements`, temporal
properties under fairness that are beyond the prover; and the four violations.

## Not modelled

The web UI, the Helm chart, generated GraphQL code, tracing, metrics and error
reporting, TLS and proxy settings, column encodings, task serialisation and
process start-up have no behaviour of the kind checked here. The gateway's other
handlers parse a path, call the resolver and copy its answer; the requests they
take from a pool are theirs until they return them. The Go proxy's cacher has no
state. Of Policy only the verdicts matter; of storage, `Size` is a loop over pages
without shared state. Transport profiles and preferences are single statements.

Within what is modelled: the cache of refractions (`Resolver`) is not composed
with `BackedRemote`, whose configuration is constant; a remote's answer to a probe
depends only on the token; and the indexes do not share a store.

Three things the code does are visible in the modules without a property of their
own. A failed upload truncates the answer of the client that waits for it
(`UploadFails`). A remembered job token is partitioned by itself and not by its
user (`known` in `BackedRemote`). Two first downloads of one artifact insert two
rows (`UpdateMatchesNone`, then `Insert`, twice); `ExactWhileUnique` says what still
holds.

## Plan

1. *PullThrough* - `Refraction` over several `BackedRemote`s, with an abstract
   pull-through cache it implements: what is delivered is what some remote of the
   refraction holds. Covers remembered probes of files since deleted, and
   locations that change the key.
2. *Proofs* - for *PullThrough*, that it implements the abstract cache, from the
   theorems about `Refraction` and `BackedRemote`.
