------------------------------ MODULE HelmIndex ------------------------------
(***************************************************************************)
(* Indexing of Helm repositories by the batch process: every five minutes  *)
(* a task lists the remotes and enqueues one task for each, which enqueues *)
(* another if it is a Helm repository, which downloads its index and       *)
(* inserts the charts it lists into the table of files                     *)
(* (batch/internal/task).  Prism's own index of a refraction, and requests *)
(* for a chart, read that table (helmapi/index.go, repo/helm.go).          *)
(*                                                                         *)
(* Tasks are asynq's (external): delivered at least once, to any worker,   *)
(* again when the handler fails or its process dies, until they are        *)
(* archived.  Nothing makes a task unique (core/pkg/tasks/generic.go): a   *)
(* task that waits already is enqueued again, and two workers may handle   *)
(* equal tasks at once.                                                    *)
(***************************************************************************)
EXTENDS FileTable, Naturals, SequencesExt

CONSTANTS
    Workers,        \* handlers that run at once
    HelmRemotes,    \* remotes of that archetype
    FirstRemotes,   \* remotes at the start
    Catalogue,      \* Catalogue[m]: bound: charts m may publish
    MaxWaiting,     \* bound: most tasks that wait when the schedule adds one
    MaxFaults       \* bound: faults of the queue, the database and the workers

ASSUME HelmAssumption ==
    /\ HelmRemotes \subseteq Remotes /\ FirstRemotes \subseteq Remotes
    /\ Catalogue \in [Remotes -> SUBSET Files]
    /\ IsFiniteSet(FirstRemotes) /\ MaxWaiting \in Nat /\ MaxFaults \in Nat

VARIABLES
    remote,     \* remote[m]: "new", "live" or "deleted"
    charts,     \* charts[m]: what the index of m lists
    queue,      \* tasks that wait, oldest first
    worker,     \* worker[w]: the task w handles, and how far it is
    helmTable,  \* helm_packages
    faults      \* faults that happened so far

helmVars == <<remote, charts, queue, worker, helmTable, faults>>

Task(type, m) == [type |-> type, remote |-> m]
IndexAll == Task("all", Nowhere)
IndexRemote(m) == Task("remote", m)
HelmRepository(m) == Task("helm", m)
HelmTasks == {IndexAll} \cup {IndexRemote(m) : m \in Remotes}
                        \cup {HelmRepository(m) : m \in HelmRemotes}

Idle == [task |-> IndexAll, at |-> "idle", packages |-> {}]
Handles(w, type) == worker[w].at = "handle" /\ worker[w].task.type = type
Subject(w) == worker[w].task.remote
Finish(w) == worker' = [worker EXCEPT ![w] = Idle]
Live == {m \in Remotes : remote[m] = "live"}

\* Tasks added at the end of the queue, whether or not their like wait there.
Enqueue(tasks) == queue' = queue \o SetToSeq(tasks)

\* Index.Serve: the rows of the remotes of a refraction.
Served(remotes) == {f \in Files : helmTable[f] \in remotes}

-----------------------------------------------------------------------------
HelmInit ==
    /\ remote = [m \in Remotes |-> IF m \in FirstRemotes THEN "live" ELSE "new"]
    /\ charts = [m \in Remotes |-> {}]
    /\ queue = <<>>
    /\ worker = [w \in Workers |-> Idle]
    /\ helmTable = EmptyTable
    /\ faults = 0

\* The mutation that creates a remote.
CreateRemote(m) ==
    /\ remote[m] = "new"
    /\ remote' = [remote EXCEPT ![m] = "live"]
    /\ Enqueue({IndexRemote(m)})
    /\ UNCHANGED <<charts, worker, helmTable, faults>>

\* Its rows in the table stay.  Its index is not read any more.
DeleteRemote(m) ==
    /\ remote[m] = "live"
    /\ remote' = [remote EXCEPT ![m] = "deleted"]
    /\ charts' = [charts EXCEPT ![m] = {}]
    /\ UNCHANGED <<queue, worker, helmTable, faults>>

\* A chart is published at a remote.
Publish(m) == \E f \in Catalogue[m] \ charts[m] :
    /\ remote[m] # "deleted"
    /\ charts' = [charts EXCEPT ![m] = @ \cup {f}]
    /\ UNCHANGED <<remote, queue, worker, helmTable, faults>>

\* "*/5 * * * *"
Cron ==
    /\ Len(queue) <= MaxWaiting
    /\ Enqueue({IndexAll})
    /\ UNCHANGED <<remote, charts, worker, helmTable, faults>>

-----------------------------------------------------------------------------
(* The handlers.                                                           *)

Take(w) ==
    /\ worker[w].at = "idle"
    /\ queue # <<>>
    /\ worker' = [worker EXCEPT ![w] = [Idle EXCEPT !.task = Head(queue), !.at = "handle"]]
    /\ queue' = Tail(queue)
    /\ UNCHANGED <<remote, charts, helmTable, faults>>

\* ListRemotes
Listed_All == Remotes
Listed_Indexed == {m \in Live : Served({m}) # {}}
Listed == Live

HandleIndexAll(w) ==
    /\ Handles(w, "all")
    /\ Enqueue({IndexRemote(m) : m \in Listed})
    /\ Finish(w)
    /\ UNCHANGED <<remote, charts, helmTable, faults>>

\* GetRemote, and the switch on its archetype.
HandleIndex(w) ==
    /\ Handles(w, "remote")
    /\ Subject(w) \in Live
    /\ Enqueue({HelmRepository(m) : m \in {Subject(w)} \cap HelmRemotes})
    /\ Finish(w)
    /\ UNCHANGED <<remote, charts, helmTable, faults>>

\* HelmProcessor.ProcessTask: GetRemote, then the index as it is now.
DownloadIndex(w) ==
    /\ Handles(w, "helm")
    /\ Subject(w) \in Live
    /\ worker' = [worker EXCEPT ![w].at = "insert", ![w].packages = charts[Subject(w)]]
    /\ UNCHANGED <<remote, charts, queue, helmTable, faults>>

InsertCharts(w) ==
    /\ worker[w].at = "insert"
    /\ helmTable' = BatchInsert(helmTable, worker[w].packages, Subject(w))
    /\ Finish(w)
    /\ UNCHANGED <<remote, charts, queue, faults>>

\* GetRemote finds no row, an error: the task is archived, when it has been
\* Retried often enough.
RemoteIsGone(w) ==
    /\ worker[w].at = "handle" /\ worker[w].task # IndexAll
    /\ Subject(w) \notin Live
    /\ Finish(w)
    /\ UNCHANGED <<remote, charts, queue, helmTable, faults>>

Handle(w) ==
    \/ HandleIndexAll(w) \/ HandleIndex(w)
    \/ DownloadIndex(w) \/ InsertCharts(w) \/ RemoteIsGone(w)

-----------------------------------------------------------------------------
(* What goes wrong.                                                        *)

Fault(w) ==
    /\ faults < MaxFaults
    /\ faults' = faults + 1
    /\ Finish(w)
    /\ UNCHANGED <<remote, charts, helmTable>>

\* The worker dies, or its handler returns an error: the task waits again.
Retried(w) ==
    /\ worker[w].at # "idle"
    /\ Enqueue({worker[w].task})
    /\ Fault(w)

\* The error of Enqueue is dropped: some or all of the tasks are lost.
EnqueueFails(w) ==
    /\ \/ Handles(w, "all") /\ \E S \in SUBSET Listed : Enqueue({IndexRemote(m) : m \in S})
       \/ Handles(w, "remote") /\ Subject(w) \in Live \cap HelmRemotes /\ UNCHANGED queue
    /\ Fault(w)

\* The error of BatchInsert is dropped, and the task is done.
InsertChartsFails(w) ==
    /\ worker[w].at = "insert"
    /\ UNCHANGED queue
    /\ Fault(w)

\* Nor does the mutation look at its error.
CreateRemoteUnannounced(m) ==
    /\ remote[m] = "new"
    /\ faults < MaxFaults
    /\ remote' = [remote EXCEPT ![m] = "live"]
    /\ faults' = faults + 1
    /\ UNCHANGED <<charts, queue, worker, helmTable>>

HelmNext ==
    \/ Cron
    \/ \E m \in Remotes :
          \/ CreateRemote(m) \/ CreateRemoteUnannounced(m)
          \/ DeleteRemote(m) \/ Publish(m)
    \/ \E w \in Workers :
          \/ Take(w) \/ Handle(w)
          \/ Retried(w) \/ EnqueueFails(w) \/ InsertChartsFails(w)

Work == \E w \in Workers : Take(w) \/ Handle(w)

\* The schedule fires, and some worker works: the others may hang.
HelmSpec == HelmInit /\ [][HelmNext]_helmVars /\ WF_helmVars(Cron) /\ WF_helmVars(Work)

-----------------------------------------------------------------------------
HelmTypeOK ==
    /\ remote \in [Remotes -> {"new", "live", "deleted"}]
    /\ charts \in [Remotes -> SUBSET Files]
    /\ Range(queue) \subseteq HelmTasks
    /\ \A w \in Workers :
          /\ worker[w].task \in HelmTasks
          /\ worker[w].at \in {"idle", "handle", "insert"}
          /\ worker[w].packages \subseteq Files
    /\ helmTable \in Tables
    /\ \A m \in Remotes : remote[m] = "new" =>
          /\ Served({m}) = {}
          /\ \A t \in Range(queue) \cup {worker[w].task : w \in Workers} : t.remote # m
    /\ faults \in 0..MaxFaults

\* Although tasks are lost and repeated, errors are dropped and workers die, once
\* that stops a chart of a Helm repository that is kept ends up in the index
\* of every refraction with that repository, or another repository has its name.
ChartsEndUpServed ==
    \A m \in HelmRemotes : \A f \in Catalogue[m] :
        f \in charts[m] /\ m \in Live ~>
            \/ f \in Served({m})
            \/ m \notin Live
            \/ \E n \in HelmRemotes \ {m} : f \in Served({n})
=============================================================================
