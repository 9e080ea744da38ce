---------------------------- MODULE ArtifactRepo ----------------------------
(***************************************************************************)
(* ArtifactRepo.CreateArtifact (core/pkg/db/repo/artifact.go), called for  *)
(* every download by any number of requests at once, and the table it      *)
(* keeps.  A call first increments the rows of its artifact in one UPDATE  *)
(* and, if that matched none, inserts a row: two statements, no            *)
(* transaction around them, and no unique index on (uri, remote_id).       *)
(*                                                                         *)
(* A call inserts at most one row, so the row is named after the call.     *)
(***************************************************************************)
EXTENDS Naturals, FiniteSets

CONSTANTS
    Calls,      \* concurrent calls of CreateArtifact
    Artifacts   \* pairs of a path, trimmed of its leading slash, and a remote

ASSUME CallsAssumption == IsFiniteSet(Calls)

VARIABLES
    pc,         \* pc[c]: the statement call c is about to run
    target,     \* target[c]: the artifact of call c, and of the row it inserts
    downloads   \* downloads[c]: the row inserted by call c, 0 if there is none

repoVars == <<pc, target, downloads>>

NoArtifact == "no artifact"

RowsOf(a) == {c \in Calls : downloads[c] > 0 /\ target[c] = a}

-----------------------------------------------------------------------------
Init ==
    /\ pc = [c \in Calls |-> "idle"]
    /\ target = [c \in Calls |-> NoArtifact]
    /\ downloads = [c \in Calls |-> 0]

Goto(c, label) == pc' = [pc EXCEPT ![c] = label]

Call(c, a) ==
    /\ pc[c] = "idle"
    /\ Goto(c, "update")
    /\ target' = [target EXCEPT ![c] = a]
    /\ UNCHANGED downloads

\* SET downloads = downloads + 1, evaluated by the database in each row.
Incremented_Lost(n) == IF n = 1 THEN 2 ELSE n
Incremented_Twice(n) == n + 2
Incremented(n) == n + 1

\* UPDATE ... WHERE uri = ? AND remote_id = ?: every row that matches.
Update(c) ==
    /\ pc[c] = "update"
    /\ RowsOf(target[c]) # {}
    /\ downloads' = [d \in Calls |-> IF d \in RowsOf(target[c])
                                     THEN Incremented(downloads[d])
                                     ELSE downloads[d]]
    /\ Goto(c, "ok")
    /\ UNCHANGED target

\* RowsAffected is 0.
UpdateMatchesNone(c) ==
    /\ pc[c] = "update"
    /\ RowsOf(target[c]) = {}
    /\ Goto(c, "insert")
    /\ UNCHANGED <<target, downloads>>

\* Downloads: 1
InitialDownloads == 1

Insert(c) ==
    /\ pc[c] = "insert"
    /\ downloads' = [downloads EXCEPT ![c] = InitialDownloads]
    /\ Goto(c, "ok")
    /\ UNCHANGED target

\* The database refuses a statement, or the caller's context is done.
Fail(c) ==
    /\ pc[c] \in {"update", "insert"}
    /\ Goto(c, "error")
    /\ UNCHANGED <<target, downloads>>

\* What a call does once it is made.
Run(c) == Update(c) \/ UpdateMatchesNone(c) \/ Insert(c) \/ Fail(c)

Next == \E c \in Calls : Run(c) \/ \E a \in Artifacts : Call(c, a)

Spec == Init /\ [][Next]_repoVars

-----------------------------------------------------------------------------
TypeOK ==
    /\ pc \in [Calls -> {"idle", "update", "insert", "ok", "error"}]
    /\ target \in [Calls -> Artifacts \cup {NoArtifact}]
    /\ downloads \in [Calls -> 0..Cardinality(Calls)]

Recorded(a) == {c \in Calls : pc[c] = "ok" /\ target[c] = a}

\* The sum of the counts of an artifact's rows: the downloads they count, each
\* numbered in its row.
Counted(a) == UNION {{c} \X (1..downloads[c]) : c \in RowsOf(a)}
Total(a) == Cardinality(Counted(a))

\* No download is ever lost: the counts of an artifact's rows add up to at
\* least the calls that reported success, however the calls interleave.
NeverUndercounted ==
    \A a \in Artifacts : Total(a) >= Cardinality(Recorded(a))

\* The duplicates are the only source of error: while an artifact has one row
\* its count is exactly the number of downloads recorded.
ExactWhileUnique ==
    \A a \in Artifacts : Cardinality(RowsOf(a)) = 1 =>
        Total(a) = Cardinality(Recorded(a))
=============================================================================
