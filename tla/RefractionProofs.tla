-------------------------- MODULE RefractionProofs --------------------------
(***************************************************************************)
(* Theorems about Refraction, for any finite set of remotes and any        *)
(* statuses.  Everything follows from one inductive invariant, IInv: the   *)
(* count is the number of messages taken out of the channel, none of them  *)
(* had the object while the caller waits, and bestStatus is already the    *)
(* best of the statuses among them, as the guard of Exists ranks them.     *)
(* That ranking is the most informative one unless a remote answers 499,   *)
(* so the theorems about what is reported assume that none does.           *)
(***************************************************************************)
EXTENDS Refraction, FiniteSetTheorems, TLAPS

\* What the caller would report for the status kept so far.
Shown(best) == IF best = 0 THEN NotFound ELSE best

\* The guard's ranking: below 499 and not 404, then any other, then a 404.
Ranked(heard) ==
    LET errors == {s \in heard : s \in Statuses /\ s # NotFound}
        first  == {s \in errors : s < 499}
    IN  IF first # {} THEN first
        ELSE IF errors # {} THEN errors ELSE {NotFound}

\* What the verdict says is the best of the answers in that ranking.
ReportsRanked ==
    verdict.kind = "error" =>
        verdict.status \in Ranked({answer[r] : r \in Remotes})

\* A goroutine has a message exactly when its probe has returned.
AnswerInv ==
    \A r \in Remotes :
        probe[r] \in {"unborn", "probing"} <=> answer[r] = Pending

\* The buffer holds at most one message, of a goroutine that has sent it.
ChannelInv ==
    /\ ch \subseteq {r \in Remotes : probe[r] = "done"}
    /\ \A r, s \in ch : r = s

WaitingInv ==
    verdict = L!Undecided =>
        /\ pc \in {"spawning", "receiving"}
        /\ \A r \in Received : answer[r] # Hit
        /\ count = Cardinality(Received)
        /\ Shown(bestStatus) \in Ranked({answer[r] : r \in Received})

VerdictInv ==
    /\ verdict # L!Undecided => pc \in {"downloading", "returned"}
    /\ NoFalseNotFound
    /\ ReportsRanked

IInv == TypeOK /\ AnswerInv /\ ChannelInv /\ WaitingInv /\ VerdictInv

-----------------------------------------------------------------------------
\* Cardinality facts the counting needs.
LEMMA RemotesFinite ==
    /\ N \in Nat
    /\ \A S \in SUBSET Remotes :
          IsFiniteSet(S) /\ Cardinality(S) \in Nat /\ Cardinality(S) <= N
  BY RemotesAssumption, FS_CardinalityType, FS_Subset DEF N

LEMMA AddOne ==
    ASSUME NEW S \in SUBSET Remotes, NEW r \in Remotes, r \notin S
    PROVE  Cardinality(S \cup {r}) = Cardinality(S) + 1
  BY RemotesFinite, FS_AddElement

LEMMA AllCounted ==
    ASSUME NEW S \in SUBSET Remotes, Cardinality(S) = N
    PROVE  S = Remotes
  BY RemotesAssumption, FS_Subset DEF N

\* Hearing one more answer keeps the shown status the best in the ranking: this
\* is what the condition on bestStatus in Exists is for.
LEMMA PreferKeepsRanked ==
    ASSUME NEW best \in Statuses \cup {0}, NEW heard \in SUBSET L!Answers,
           NEW a \in Statuses \cup {Opaque},
           Shown(best) \in Ranked(heard)
    PROVE  Shown(IF a = Opaque THEN best ELSE Prefer(best, a))
              \in Ranked(heard \cup {a})
  <1> USE DEF Shown, Prefer, Ranked, NotFound,
              L!NotFound, Opaque, L!Opaque
  <1>0. a \in Int /\ best \in Int /\ 0 \notin Statuses
    BY StatusesAssumption
  <1>1. CASE a = Opaque
    BY <1>0, <1>1
  <1>2. CASE a = NotFound
    BY <1>0, <1>2
  <1>3. CASE a \notin {Opaque, NotFound} /\ a < 499
    BY <1>0, <1>3, StatusesAssumption
  <1>4. CASE a \notin {Opaque, NotFound} /\ ~(a < 499)
    <2>1. CASE best \in {0, NotFound}
      BY <1>0, <1>4, <2>1, StatusesAssumption
    <2>2. CASE best \notin {0, NotFound}
      BY <1>0, <1>4, <2>2, StatusesAssumption
    <2> QED  BY <2>1, <2>2
  <1> QED  BY <1>1, <1>2, <1>3, <1>4

-----------------------------------------------------------------------------
LEMMA InitInv == Init => IInv
  <1> SUFFICES ASSUME Init PROVE IInv
    OBVIOUS
  <1> USE DEF Init
  <1>1. Received = {}
    BY DEF Received
  <1>2. TypeOK
    <2>1. answer \in [Remotes -> L!Answers \cup {Pending}]
      OBVIOUS
    <2>2. probe \in [Remotes -> {"unborn", "probing", "sending", "done"}]
      OBVIOUS
    <2>3. count \in 0..N
      BY RemotesFinite
    <2>4. verdict \in L!Verdicts
      BY DEF L!Verdicts
    <2> QED  BY <2>1, <2>2, <2>3, <2>4 DEF TypeOK
  <1>3. AnswerInv /\ ChannelInv
    BY DEF AnswerInv, ChannelInv
  <1>4. WaitingInv
    <2>1. {answer[r] : r \in Received} = {}
      BY <1>1
    <2>2. Shown(0) \in Ranked({})
      BY DEF Shown, Ranked, NotFound, L!NotFound
    <2>3. Cardinality(Received) = 0
      BY <1>1, FS_EmptySet
    <2> QED  BY <1>1, <2>1, <2>2, <2>3 DEF WaitingInv
  <1>5. VerdictInv
    BY DEF VerdictInv, NoFalseNotFound, ReportsRanked, L!Undecided
  <1> QED  BY <1>2, <1>3, <1>4, <1>5 DEF IInv

\* A step that leaves the received messages, the count and the verdict alone
\* keeps what is known while waiting.
LEMMA FrameWaiting ==
    ASSUME WaitingInv, UNCHANGED <<count, bestStatus, verdict>>,
           Received' = Received, \A r \in Received : answer'[r] = answer[r],
           pc \in {"spawning", "receiving"} => pc' \in {"spawning", "receiving"}
    PROVE  WaitingInv'
  <1>1. {answer'[r] : r \in Received'} = {answer[r] : r \in Received}
    OBVIOUS
  <1> QED  BY <1>1 DEF WaitingInv

\* A step that changes neither the answers nor the verdict of a call that has
\* ended keeps what is known of the verdict.
LEMMA FrameVerdict ==
    ASSUME VerdictInv, UNCHANGED <<answer, verdict>>,
           pc \in {"downloading", "returned"} => pc' \in {"downloading", "returned"}
    PROVE  VerdictInv'
  BY DEF VerdictInv, NoFalseNotFound, ReportsRanked

LEMMA SpawnInv ==
    ASSUME IInv, NEW r \in Remotes, Spawn(r)
    PROVE  IInv'
  <1> USE DEF IInv
  <1>1. TypeOK'
    BY DEF TypeOK, Spawn
  <1>2. AnswerInv' /\ ChannelInv' /\ Received' = Received
    BY DEF TypeOK, Spawn, AnswerInv, ChannelInv, Received
  <1>3. WaitingInv'
    BY <1>2, FrameWaiting DEF Spawn
  <1>4. VerdictInv'
    BY FrameVerdict DEF Spawn
  <1> QED  BY <1>1, <1>2, <1>3, <1>4

LEMMA AnswerStepInv ==
    ASSUME IInv, NEW r \in Remotes, Answer(r)
    PROVE  IInv'
  <1> USE DEF IInv
  <1>1. PICK a \in L!Answers : answer' = [answer EXCEPT ![r] = a]
    BY DEF Answer
  <1>2. a # Pending
    BY StatusesAssumption DEF L!Answers, Pending, L!Pending, L!Hit, L!Opaque
  <1>3. TypeOK'
    BY <1>1 DEF TypeOK, Answer
  <1>4. AnswerInv' /\ ChannelInv'
    BY <1>1, <1>2 DEF TypeOK, Answer, AnswerInv, ChannelInv
  <1>5. Received' = Received /\ \A q \in Received : answer'[q] = answer[q]
    BY <1>1 DEF TypeOK, Answer, Received
  <1>6. WaitingInv'
    BY <1>5, FrameWaiting DEF Answer
  <1>7. VerdictInv'
    <2>1. verdict.kind # "error"
      BY DEF VerdictInv, NoFalseNotFound, AnswerInv, Answer
    <2> QED  BY <2>1 DEF Answer, VerdictInv, NoFalseNotFound,
                         ReportsRanked
  <1> QED  BY <1>3, <1>4, <1>6, <1>7

LEMMA SendInv ==
    ASSUME IInv, NEW r \in Remotes, Send(r)
    PROVE  IInv'
  <1> USE DEF IInv
  <1>1. TypeOK'
    BY DEF TypeOK, Send, CanSend
  <1>2. AnswerInv' /\ ChannelInv'
    BY DEF TypeOK, Send, CanSend, AnswerInv, ChannelInv
  <1>3. Received' = Received
    BY DEF TypeOK, Send, CanSend, Received
  <1>4. WaitingInv'
    BY <1>3, FrameWaiting DEF Send
  <1>5. VerdictInv'
    BY FrameVerdict DEF Send
  <1> QED  BY <1>1, <1>2, <1>4, <1>5

\* The message taken out joins the received ones.
LEMMA TakeMessage ==
    ASSUME TypeOK, AnswerInv, ChannelInv, NEW r \in ch, ch' = ch \ {r},
           UNCHANGED <<probe, answer>>
    PROVE  /\ AnswerInv' /\ ChannelInv'
           /\ r \notin Received /\ Received' = Received \cup {r}
           /\ answer[r] \in L!Answers
  <1>1. AnswerInv' /\ ChannelInv'
    BY DEF AnswerInv, ChannelInv
  <1>2. r \in Remotes /\ probe[r] = "done"
    BY DEF ChannelInv
  <1>3. answer[r] \in L!Answers
    BY <1>2 DEF TypeOK, AnswerInv
  <1> QED  BY <1>1, <1>2, <1>3 DEF Received, ChannelInv

LEMMA ReceiveHitInv ==
    ASSUME IInv, NEW r \in Remotes, ReceiveHit(r)
    PROVE  IInv'
  <1> USE DEF IInv
  <1>1. AnswerInv' /\ ChannelInv'
    BY TakeMessage DEF ReceiveHit
  <1>2. verdict' = L!FoundAt(r) /\ verdict'.kind = "found"
        /\ pc' \in {"downloading", "returned"} /\ reqDone' = TRUE
    BY DEF ReceiveHit, Return, L!FoundAt
  <1>3. TypeOK'
    BY <1>2 DEF TypeOK, ReceiveHit, L!Verdicts
  <1>4. WaitingInv'
    BY <1>2 DEF WaitingInv, L!Undecided
  <1>5. VerdictInv'
    BY <1>2 DEF VerdictInv, NoFalseNotFound, ReportsRanked
  <1> QED  BY <1>1, <1>3, <1>4, <1>5

LEMMA ReceiveErrorInv ==
    ASSUME IInv, NEW r \in Remotes, ReceiveError(r)
    PROVE  IInv'
  <1> USE DEF IInv
  <1>1. /\ AnswerInv' /\ ChannelInv'
        /\ r \notin Received /\ Received' = Received \cup {r}
        /\ answer[r] \in Statuses \cup {Opaque}
    BY TakeMessage DEF ReceiveError, L!Answers, Hit, Opaque
  <1>2. bestStatus' \in Statuses \cup {0}
    BY <1>1 DEF TypeOK, ReceiveError, Prefer
  <1>3. TypeOK'
    BY <1>2, RemotesFinite DEF TypeOK, ReceiveError, Counted, Waiting
  <1>4. WaitingInv'
    <2> SUFFICES ASSUME verdict = L!Undecided PROVE WaitingInv'
      BY DEF WaitingInv, ReceiveError
    <2>1. \A q \in Received' : answer'[q] # Hit
      BY <1>1 DEF WaitingInv, ReceiveError
    <2>2. count' = Cardinality(Received')
      <3>1. Received \in SUBSET Remotes
        BY DEF Received
      <3> QED  BY <1>1, <3>1, AddOne DEF WaitingInv, ReceiveError, Counted
    <2>3. {answer'[q] : q \in Received'}
             = {answer[q] : q \in Received} \cup {answer[r]}
      BY <1>1 DEF ReceiveError
    <2>4. {answer[q] : q \in Received} \in SUBSET L!Answers
      BY DEF TypeOK, AnswerInv, Received
    <2>5. Shown(bestStatus') \in Ranked({answer'[q] : q \in Received'})
      BY <1>1, <2>3, <2>4, PreferKeepsRanked
      DEF WaitingInv, ReceiveError, TypeOK
    <2> QED  BY <2>1, <2>2, <2>5 DEF WaitingInv, ReceiveError
  <1>5. VerdictInv'
    BY FrameVerdict DEF ReceiveError
  <1> QED  BY <1>1, <1>3, <1>4, <1>5

LEMMA GiveUpInv ==
    ASSUME IInv, GiveUp
    PROVE  IInv'
  <1> USE DEF IInv
  <1>1. verdict' = L!Cancelled /\ pc' = "returned" /\ reqDone' = TRUE
    BY DEF GiveUp, Return, L!Cancelled
  <1>2. TypeOK'
    BY <1>1 DEF TypeOK, GiveUp, L!Verdicts
  <1>3. AnswerInv' /\ ChannelInv'
    BY DEF AnswerInv, ChannelInv, GiveUp
  <1>4. WaitingInv'
    BY <1>1 DEF WaitingInv, L!Undecided, L!Cancelled
  <1>5. VerdictInv'
    BY <1>1 DEF VerdictInv, NoFalseNotFound, ReportsRanked, L!Cancelled
  <1> QED  BY <1>2, <1>3, <1>4, <1>5

\* The loop ends with every message received: N of them, all different.
LEMMA ConcludeFacts ==
    ASSUME IInv, Conclude
    PROVE  /\ verdict = L!Undecided
           /\ verdict' = L!Failed(Shown(bestStatus))
           /\ Shown(bestStatus) \in Statuses \cup {NotFound}
           /\ \A r \in Remotes : answer[r] \notin {Pending, Hit}
           /\ Shown(bestStatus) \in Ranked({answer[r] : r \in Remotes})
  <1> USE DEF IInv
  <1>1. verdict = L!Undecided
    BY DEF VerdictInv, Conclude
  <1>2. Received = Remotes
    <2>1. Received \in SUBSET Remotes
      BY DEF Received
    <2>2. count = N
      BY RemotesFinite DEF Conclude, Waiting, TypeOK
    <2> QED  BY <1>1, <2>1, <2>2, AllCounted DEF WaitingInv
  <1>3. \A r \in Remotes : answer[r] \notin {Pending, Hit}
    BY <1>1, <1>2 DEF WaitingInv, AnswerInv, Received
  <1>4. Shown(bestStatus) \in Statuses \cup {NotFound}
    BY DEF TypeOK, Shown
  <1>5. verdict' = L!Failed(Shown(bestStatus))
    BY DEF Conclude, Return, Shown
  <1>6. Shown(bestStatus) \in Ranked({answer[r] : r \in Remotes})
    BY <1>1, <1>2 DEF WaitingInv
  <1> QED  BY <1>1, <1>3, <1>4, <1>5, <1>6

LEMMA ConcludeInv ==
    ASSUME IInv, Conclude
    PROVE  IInv'
  <1> USE DEF IInv
  <1>1. /\ verdict' = L!Failed(Shown(bestStatus))
        /\ verdict'.kind = "error" /\ verdict'.status = Shown(bestStatus)
        /\ pc' = "returned" /\ reqDone' = TRUE
    BY ConcludeFacts DEF Conclude, Return, L!Failed
  <1>2. TypeOK'
    BY <1>1, ConcludeFacts DEF TypeOK, Conclude, L!Verdicts, NotFound
  <1>3. AnswerInv' /\ ChannelInv'
    BY DEF AnswerInv, ChannelInv, Conclude
  <1>4. WaitingInv'
    BY <1>1 DEF WaitingInv, L!Undecided
  <1>5. VerdictInv'
    BY <1>1, ConcludeFacts
    DEF VerdictInv, NoFalseNotFound, ReportsRanked, Conclude
  <1> QED  BY <1>2, <1>3, <1>4, <1>5

\* The remaining steps touch neither the messages nor the verdict.
LEMMA QuietStepInv ==
    ASSUME IInv, EnterLoop \/ Download \/ Deadline \/ ClientLeaves \/ UNCHANGED vars
    PROVE  IInv'
  <1> USE DEF IInv, EnterLoop, Download, Deadline, ClientLeaves, vars
  <1>1. /\ UNCHANGED <<probe, answer, ch, count, bestStatus, verdict>>
        /\ Received' = Received
        /\ pc \in {"spawning", "receiving"} => pc' \in {"spawning", "receiving"}
        /\ pc \in {"downloading", "returned"} => pc' \in {"downloading", "returned"}
    BY DEF Received
  <1>2. TypeOK'
    BY DEF TypeOK
  <1>3. AnswerInv' /\ ChannelInv'
    BY <1>1 DEF AnswerInv, ChannelInv
  <1>4. WaitingInv'
    BY <1>1, FrameWaiting
  <1>5. VerdictInv'
    BY <1>1, FrameVerdict
  <1> QED  BY <1>2, <1>3, <1>4, <1>5

LEMMA NextInv == IInv /\ [Next]_vars => IInv'
  <1> SUFFICES ASSUME IInv, [Next]_vars PROVE IInv'
    OBVIOUS
  <1>1. ASSUME NEW r \in Remotes, Spawn(r) \/ Answer(r) \/ Send(r)
        PROVE  IInv'
    BY <1>1, SpawnInv, AnswerStepInv, SendInv
  <1>2. CASE Receive
    BY <1>2, ReceiveHitInv, ReceiveErrorInv DEF Receive
  <1>3. CASE GiveUp
    BY <1>3, GiveUpInv
  <1>4. CASE Conclude
    BY <1>4, ConcludeInv
  <1>5. CASE EnterLoop \/ Download \/ Deadline \/ ClientLeaves \/ UNCHANGED vars
    BY <1>5, QuietStepInv
  <1> QED  BY <1>1, <1>2, <1>3, <1>4, <1>5 DEF Next

\* The invariant of every call, whatever the remotes answer.
THEOREM Invariance == Spec => []IInv
  BY InitInv, NextInv, PTL DEF Spec

-----------------------------------------------------------------------------
(* The messages are accounted for: on top of the invariant, as after the   *)
(* verdict the count is only what it was.                                  *)

Hits == {r \in Received : answer[r] = Hit}
Misses == {r \in Received : answer[r] # Hit}

LEMMA AtMostOne ==
    ASSUME NEW S, \A r, s \in S : r = s
    PROVE  Cardinality(S) <= 1
  <1>1. CASE S = {}
    <2>1. Cardinality(S) = 0
      BY <1>1, FS_EmptySet
    <2> QED  BY <2>1
  <1>2. ASSUME NEW r \in S PROVE Cardinality(S) <= 1
    <2>1. S = {r}
      OBVIOUS
    <2>2. Cardinality({r}) = 1
      BY FS_Singleton
    <2> QED  BY <2>1, <2>2
  <1> QED  BY <1>1, <1>2

\* While the caller waits the invariant says it all.
LEMMA AccountingWhileWaiting == IInv /\ verdict = L!Undecided => Accounting
  <1> SUFFICES ASSUME IInv, verdict = L!Undecided PROVE Accounting
    OBVIOUS
  <1>1. Misses = Received /\ Hits = {} /\ count = Cardinality(Received)
    BY DEF IInv, WaitingInv, Misses, Hits
  <1>2. verdict.kind # "found"
    BY DEF L!Undecided
  <1> QED  BY <1>1, <1>2, AtMostOne, FS_EmptySet
           DEF Accounting, IInv, ChannelInv, Misses, Hits

\* The one message with an object is the last that is received.
LEMMA AccountingWhenFound ==
    ASSUME IInv, IInv', NEW r \in Remotes, ReceiveHit(r)
    PROVE  Accounting'
  <1>1. /\ r \notin Received /\ Received' = Received \cup {r}
        /\ answer[r] = Hit /\ UNCHANGED <<answer, count>>
    BY TakeMessage DEF IInv, ReceiveHit
  <1>2. verdict = L!Undecided
    BY DEF IInv, VerdictInv, ReceiveHit
  <1>3. \A q \in Received : answer[q] # Hit
    BY <1>2 DEF IInv, WaitingInv
  <1>4. Misses' = Received /\ Hits' = {r} /\ count' = Cardinality(Received)
    BY <1>1, <1>2, <1>3 DEF Misses, Hits, IInv, WaitingInv
  <1>5. verdict'.kind = "found"
    BY DEF ReceiveHit, Return, L!FoundAt
  <1>6. (Cardinality(ch) <= 1)'
    BY AtMostOne DEF IInv, ChannelInv
  <1> QED  BY <1>4, <1>5, <1>6, FS_Singleton DEF Accounting, Misses, Hits

\* No other verdict takes a message, and nothing is received after a verdict.
LEMMA AccountingKept ==
    ASSUME IInv, IInv', Accounting, UNCHANGED <<Received, count>>,
           \A r \in Received : answer'[r] = answer[r],
           (verdict'.kind = "found") <=> (verdict.kind = "found")
    PROVE  Accounting'
  <1>1. Misses' = Misses /\ Hits' = Hits
    BY DEF Misses, Hits
  <1>2. (Cardinality(ch) <= 1)'
    BY AtMostOne DEF IInv, ChannelInv
  <1> QED  BY <1>1, <1>2 DEF Accounting, Misses, Hits

LEMMA AccountingStep == IInv /\ IInv' /\ Accounting /\ [Next]_vars => Accounting'
  <1> SUFFICES ASSUME IInv, IInv', Accounting, [Next]_vars PROVE Accounting'
    OBVIOUS
  <1>1. ASSUME NEW r \in Remotes, ReceiveHit(r) PROVE Accounting'
    BY <1>1, AccountingWhenFound
  <1>2. ASSUME NEW r \in Remotes, ReceiveError(r) PROVE Accounting'
    <2>1. (verdict = L!Undecided)'
      BY <1>2 DEF IInv, VerdictInv, ReceiveError
    <2> QED  BY <2>1, AccountingWhileWaiting, PTL
  <1>3. ASSUME Conclude \/ GiveUp PROVE Accounting'
    <2>1. verdict = L!Undecided /\ verdict.kind # "found"
      BY <1>3 DEF Conclude, GiveUp, IInv, VerdictInv, L!Undecided
    <2>2. verdict'.kind # "found"
      BY <1>3 DEF Conclude, GiveUp, Return, L!Failed, L!Cancelled
    <2>3. UNCHANGED <<Received, count, answer>>
      BY <1>3 DEF Conclude, GiveUp, Received
    <2> QED  BY <2>1, <2>2, <2>3, AccountingKept
  <1>4. ASSUME NEW r \in Remotes, Spawn(r) \/ Answer(r) \/ Send(r) PROVE Accounting'
    <2>1. /\ Received' = Received /\ \A q \in Received : answer'[q] = answer[q]
          /\ UNCHANGED <<count, verdict>>
      BY <1>4 DEF IInv, TypeOK, Spawn, Answer, Send, CanSend, Received
    <2> QED  BY <2>1, AccountingKept
  <1>5. CASE EnterLoop \/ Download \/ Deadline \/ ClientLeaves \/ UNCHANGED vars
    <2>1. UNCHANGED <<Received, answer, count, verdict>>
      BY <1>5 DEF EnterLoop, Download, Deadline, ClientLeaves, vars, Received
    <2> QED  BY <2>1, AccountingKept
  <1> QED  BY <1>1, <1>2, <1>3, <1>4, <1>5 DEF Next, Receive

\* Every answer is received once, buffered or still owed, and the count is the
\* number of those that were received without an object.
THEOREM AnswersAccountedFor == Spec => []Accounting
  <1>1. Init => Accounting
    BY InitInv, AccountingWhileWaiting DEF Init
  <1> QED  BY <1>1, AccountingStep, Invariance, PTL DEF Spec

-----------------------------------------------------------------------------
\* Every variable keeps its type; in particular the count never passes the
\* number of remotes and only statuses that were heard are kept.
THEOREM TypeCorrect == Spec => []TypeOK
  BY Invariance, PTL DEF IInv

\* Exists says "nobody has it" only when every remote has said so.
THEOREM FailureIsHonest == Spec => []NoFalseNotFound
  BY Invariance, PTL DEF IInv, VerdictInv

\* Without 499, the statuses the guard ranks first are the client errors.
LEMMA RankedIsInformative ==
    ASSUME 499 \notin Statuses, NEW heard
    PROVE  Ranked(heard) = L!MostInformative(heard)
  <1> DEFINE errors == {s \in heard : s \in Statuses /\ s # NotFound}
  <1>1. ASSUME NEW s \in errors PROVE s < 499 <=> L!IsClientError(s)
    <2>1. s \in 400..599 /\ s # 499 /\ s # L!NotFound
      BY StatusesAssumption DEF NotFound
    <2> HIDE DEF errors
    <2> QED  BY <2>1 DEF L!IsClientError
  <1>2. {s \in errors : s < 499} = {s \in errors : L!IsClientError(s)}
    BY <1>1
  <1> QED  BY <1>2 DEF Ranked, L!MostInformative, NotFound

\* The status Exists reports is the most informative of all that were heard,
\* a client error if there was one, as long as no remote answers 499.
THEOREM FailureIsInformative ==
    ASSUME 499 \notin Statuses
    PROVE  Spec => []ReportsMostInformative
  <1>1. IInv => ReportsMostInformative
    BY RankedIsInformative
    DEF IInv, VerdictInv, ReportsRanked, ReportsMostInformative
  <1> QED  BY <1>1, Invariance, PTL

\* A status once heard is only ever traded for one at least as informative.
THEOREM StatusOnlyImproves == Spec => NeverLessInformative
  <1> DEFINE Kept == /\ L!IsClientError(bestStatus) => L!IsClientError(bestStatus')
                     /\ bestStatus \notin {0, NotFound}
                           => bestStatus' \notin {0, NotFound}
  <1>1. ASSUME IInv, [Next]_vars PROVE [Kept]_vars
    <2>1. ASSUME NEW r \in Remotes, ReceiveError(r) PROVE Kept
      <3>1. answer[r] \in Statuses \cup {Opaque} /\ bestStatus \in Int
        BY <1>1, <2>1, TakeMessage, StatusesAssumption
        DEF IInv, TypeOK, ReceiveError, L!Answers, Hit, Opaque
      <3> QED
        BY <2>1, <3>1, StatusesAssumption
        DEF ReceiveError, Prefer, L!IsClientError, NotFound, L!NotFound, Opaque
    <2>2. ASSUME UNCHANGED bestStatus PROVE Kept
      BY <2>2
    <2> QED
      BY <1>1, <2>1, <2>2
      DEF Next, Spawn, Answer, Send, EnterLoop, Receive, ReceiveHit, GiveUp,
          Conclude, Download, Deadline, ClientLeaves, vars
  <1> QED  BY <1>1, Invariance, PTL DEF Spec, NeverLessInformative

-----------------------------------------------------------------------------
\* Every step of a call is a step of Lookup or leaves its variables alone.
LEMMA StepRefines ==
    ASSUME 499 \notin Statuses
    PROVE  IInv /\ [Next]_vars => [L!Next]_(L!vars)
  <1> SUFFICES ASSUME IInv, [Next]_vars PROVE [L!Next]_(L!vars)
    OBVIOUS
  <1> USE DEF L!Next, L!vars, IInv
  <1>1. ASSUME NEW r \in Remotes, Answer(r) PROVE L!Answer(r)
    BY <1>1 DEF Answer, L!Answer, AnswerInv, Pending
  <1>2. ASSUME NEW r \in Remotes, ReceiveHit(r) PROVE L!Find(r)
    BY <1>2 DEF ReceiveHit, Return, L!Find, Hit, VerdictInv
  <1>3. CASE Conclude
    <2>1. L!Fail
      BY <1>3, ConcludeFacts, RankedIsInformative
      DEF Conclude, L!Fail, Pending, Hit
    <2> QED  BY <2>1 DEF L!Decide
  <1>4. CASE GiveUp
    <2>1. L!Cancel
      BY <1>4 DEF GiveUp, Return, L!Cancel, VerdictInv
    <2> QED  BY <2>1 DEF L!Decide
  <1>5. CASE ClientLeaves
    <2>1. L!Leave
      BY <1>5 DEF ClientLeaves, L!Leave
    <2> QED  BY <2>1
  <1>6. ASSUME \/ \E r \in Remotes : Spawn(r) \/ Send(r) \/ ReceiveError(r)
               \/ EnterLoop \/ Download \/ Deadline \/ UNCHANGED vars
        PROVE  UNCHANGED L!vars
    BY <1>6 DEF Spawn, Send, ReceiveError, EnterLoop, Download, Deadline, vars
  <1> QED
    BY <1>1, <1>2, <1>3, <1>4, <1>5, <1>6 DEF Next, Receive, L!Decide

\* Safety half of the refinement: every call is a Lookup, as long as no remote
\* answers 499.
THEOREM RefinesLookup ==
    ASSUME 499 \notin Statuses
    PROVE  Spec => L!Spec
  <1>1. Init => L!Init
    BY DEF Init, L!Init, Pending
  <1> QED  BY <1>1, Invariance, StepRefines, PTL DEF Spec, L!Spec
=============================================================================
