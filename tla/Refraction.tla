----------------------------- MODULE Refraction -----------------------------
(***************************************************************************)
(* One call of Refraction.Exists or Refraction.Download                    *)
(* (core/internal/refract/refract.go): a goroutine per remote probes it    *)
(* under a shared request context, sends its Message on a channel of       *)
(* capacity one, and the caller receives until a remote has the object,    *)
(* every remote has answered, or its own context is done.  Whatever ends   *)
(* the call cancels the shared context, which releases the probes still in *)
(* flight but not a goroutine that waits to send.                          *)
(*                                                                         *)
(* What a remote answers is any of Answers (see Lookup): BackedRemote      *)
(* models where the answers come from.                                     *)
(***************************************************************************)
EXTENDS Integers, FiniteSets

CONSTANTS
    Remotes,    \* r.remotes
    Statuses    \* the HTTP error statuses remotes answer with

ASSUME RemotesAssumption == IsFiniteSet(Remotes)
ASSUME StatusesAssumption == Statuses \subseteq 400..599

VARIABLES
    op,         \* "HEAD" calls Exists, "GET" calls Download
    pc,         \* where the caller is
    probe,      \* probe[r]: where the goroutine of remote r is
    answer,     \* answer[r]: the Message it has composed, Pending before
    ch,         \* the remotes whose Message is in the channel's buffer
    ctxDone,    \* the caller's context is done
    reqDone,    \* reqCtx, derived from it with a timeout, is done
    count,
    bestStatus,
    verdict,    \* what Exists returns
    body        \* what Download returns

vars == <<op, pc, probe, answer, ch, ctxDone, reqDone, count, bestStatus,
          verdict, body>>

L == INSTANCE Lookup WITH answers <- answer, gone <- ctxDone

Hit == L!Hit
Opaque == L!Opaque
Pending == L!Pending
NotFound == L!NotFound

N == Cardinality(Remotes)

-----------------------------------------------------------------------------
Init ==
    /\ op \in {"HEAD", "GET"}
    /\ pc = "spawning"
    /\ probe = [r \in Remotes |-> "unborn"]
    /\ answer = [r \in Remotes |-> Pending]
    /\ ch = {}
    /\ ctxDone = FALSE
    /\ reqDone = FALSE
    /\ count = 0
    /\ bestStatus = 0
    /\ verdict = L!Undecided
    /\ body = "none"

\* go func() for one more remote.
Spawn(r) ==
    /\ pc = "spawning"
    /\ probe[r] = "unborn"
    /\ probe' = [probe EXCEPT ![r] = "probing"]
    /\ UNCHANGED <<op, pc, answer, ch, ctxDone, reqDone, count, bestStatus,
                   verdict, body>>

\* The caller enters the receive loop.
EnterLoop ==
    /\ pc = "spawning"
    /\ \A r \in Remotes : probe[r] # "unborn"
    /\ pc' = "receiving"
    /\ UNCHANGED <<op, probe, answer, ch, ctxDone, reqDone, count, bestStatus,
                   verdict, body>>

\* rem.Exists returns in the goroutine.
Answer(r) ==
    /\ probe[r] = "probing"
    /\ probe' = [probe EXCEPT ![r] = "sending"]
    /\ \E a \in L!Answers : answer' = [answer EXCEPT ![r] = a]
    /\ UNCHANGED <<op, pc, ch, ctxDone, reqDone, count, bestStatus, verdict,
                   body>>

\* ch <- Message{...} goes ahead: ch is made with a buffer of one.
CanSend_Unbuffered == ch = {} /\ pc = "receiving"
CanSend == ch = {}

Send(r) ==
    /\ probe[r] = "sending"
    /\ CanSend
    /\ ch' = {r}
    /\ probe' = [probe EXCEPT ![r] = "done"]
    /\ UNCHANGED <<op, pc, answer, ctxDone, reqDone, count, bestStatus,
                   verdict, body>>

\* Exists returns v; the deferred cancel() ends reqCtx.
Return(v) ==
    /\ verdict' = v
    /\ pc' = IF v.kind = "found" /\ op = "GET" THEN "downloading" ELSE "returned"
    /\ reqDone' = TRUE

\* The loop's condition, count < len(r.remotes).
Waiting_OneShort == count + 1 < N
Waiting == count < N

\* A message with a URI ends the wait.
ReceiveHit(r) ==
    /\ pc = "receiving"
    /\ Waiting
    /\ r \in ch
    /\ answer[r] = Hit
    /\ ch' = ch \ {r}
    /\ Return(L!FoundAt(r))
    /\ UNCHANGED <<op, probe, answer, ctxDone, count, bestStatus, body>>

\* The status kept after hearing s.
Prefer_Latest(best, s) == s
Prefer_First(best, s) == IF best \in {0, NotFound} THEN s ELSE best
Prefer(best, s) ==
    IF best \in {0, NotFound} \/ (s < 499 /\ s # NotFound) THEN s ELSE best

\* count++ runs for every message, whatever it holds.
Counted_OnlyStatuses(r) == IF answer[r] = Opaque THEN count ELSE count + 1
Counted_Twice(r) == IF answer[r] = Opaque THEN count + 1 ELSE count + 2
Counted(r) == count + 1

\* A message with an error; only a problem.HTTPError carries a status.
ReceiveError(r) ==
    /\ pc = "receiving"
    /\ Waiting
    /\ r \in ch
    /\ answer[r] # Hit
    /\ ch' = ch \ {r}
    /\ bestStatus' = IF answer[r] = Opaque THEN bestStatus
                                           ELSE Prefer(bestStatus, answer[r])
    /\ count' = Counted(r)
    /\ UNCHANGED <<op, pc, probe, answer, ctxDone, reqDone, verdict, body>>

\* case <-ctx.Done(): the caller's context, not reqCtx.
GiveUp ==
    /\ pc = "receiving"
    /\ Waiting
    /\ ctxDone
    /\ Return(L!Cancelled)
    /\ UNCHANGED <<op, probe, answer, ch, ctxDone, count, bestStatus, body>>

\* The loop is over: nobody has the object.
Conclude ==
    /\ pc = "receiving"
    /\ ~Waiting
    /\ Return(L!Failed(IF bestStatus = 0 THEN NotFound ELSE bestStatus))
    /\ UNCHANGED <<op, probe, answer, ch, ctxDone, count, bestStatus, body>>

\* msg.Remote.Download, under the caller's context.
Download ==
    /\ pc = "downloading"
    /\ body' \in {"stream", "error"}
    /\ pc' = "returned"
    /\ UNCHANGED <<op, probe, answer, ch, ctxDone, reqDone, count, bestStatus,
                   verdict>>

\* Ten seconds have passed.
Deadline_Forgotten ==
    /\ ~reqDone /\ ctxDone
    /\ reqDone' = TRUE
    /\ UNCHANGED <<op, pc, probe, answer, ch, ctxDone, count, bestStatus,
                   verdict, body>>

Deadline ==
    /\ ~reqDone
    /\ reqDone' = TRUE
    /\ UNCHANGED <<op, pc, probe, answer, ch, ctxDone, count, bestStatus,
                   verdict, body>>

\* The client goes away, or the server's own context ends.
ClientLeaves ==
    /\ ~ctxDone
    /\ pc # "returned"
    /\ ctxDone' = TRUE
    /\ reqDone' = TRUE
    /\ UNCHANGED <<op, pc, probe, answer, ch, count, bestStatus, verdict, body>>

Receive == \E r \in Remotes : ReceiveHit(r) \/ ReceiveError(r)

Next ==
    \/ \E r \in Remotes : Spawn(r) \/ Answer(r) \/ Send(r)
    \/ EnterLoop \/ Receive \/ GiveUp \/ Conclude \/ Download
    \/ Deadline \/ ClientLeaves

Spec == Init /\ [][Next]_vars

\* The scheduler runs every runnable goroutine and the timer fires.  A remote
\* owes an answer only once its request context is done: net/http and the
\* database driver abandon a request whose context has ended.
Fairness ==
    /\ \A r \in Remotes : WF_vars(Spawn(r)) /\ WF_vars(Send(r))
    /\ \A r \in Remotes : WF_vars(reqDone /\ Answer(r))
    /\ WF_vars(EnterLoop)
    /\ WF_vars(Receive \/ Conclude)
    /\ WF_vars(Deadline)

FairSpec == Spec /\ Fairness

-----------------------------------------------------------------------------
TypeOK ==
    /\ op \in {"HEAD", "GET"}
    /\ pc \in {"spawning", "receiving", "downloading", "returned"}
    /\ probe \in [Remotes -> {"unborn", "probing", "sending", "done"}]
    /\ answer \in [Remotes -> L!Answers \cup {Pending}]
    /\ ch \in SUBSET Remotes
    /\ ctxDone \in BOOLEAN
    /\ reqDone \in BOOLEAN
    /\ count \in 0..N
    /\ bestStatus \in Statuses \cup {0}
    /\ verdict \in L!Verdicts
    /\ body \in {"none", "stream", "error"}

\* The messages the caller has taken out of the channel.
Received == {r \in Remotes : probe[r] = "done"} \ ch

\* Every answer is accounted for exactly once: received and counted, waiting
\* in the buffer, or still owed by a goroutine.  The loop's count therefore
\* never ends the wait early nor waits for a message that was already taken,
\* and the goroutines left behind by an early return are exactly the rest.
Accounting ==
    /\ Cardinality(ch) <= 1
    /\ count = Cardinality({r \in Received : answer[r] # Hit})
    /\ Cardinality({r \in Received : answer[r] = Hit}) =
          IF verdict.kind = "found" THEN 1 ELSE 0

\* "Nobody has it" is said only after every remote has said so: however the
\* probes interleave, a remote that has the object is never passed over.
NoFalseNotFound ==
    verdict.kind = "error" =>
        \A r \in Remotes : answer[r] \notin {Pending, Hit}

\* "prefer to return a client error rather than a server error"
\* (refract.go:97-98): the status reported is the most informative of all that
\* were heard, a client error if any remote gave one, else a server error, else
\* 404, in whatever order the messages arrived.  It is true of the code unless
\* a remote answers 499, which the guard takes for a server error.
ReportsMostInformative ==
    verdict.kind = "error" =>
        verdict.status \in L!MostInformative({answer[r] : r \in Remotes})

\* A status once heard is never traded for a less informative one.
NeverLessInformative ==
    [][ /\ L!IsClientError(bestStatus) => L!IsClientError(bestStatus')
        /\ bestStatus \notin {0, NotFound} => bestStatus' \notin {0, NotFound}
      ]_vars

\* Refraction.Exists implements Lookup: the caller always reaches a verdict,
\* and one Lookup allows.
Implements == L!FairSpec

\* The goroutines an early return leaves waiting to send are bounded: all but
\* those whose message was received or fits in the channel's buffer end.  In
\* particular none is left after an error, and none with two remotes unless
\* the client leaves before the first message.
LeaksBounded ==
    <>[](LET left == {r \in Remotes : probe[r] # "done"}
         IN  left # {} => Cardinality(left) + Cardinality(Received) + 1 <= N)
=============================================================================
