------------------------------- MODULE Lookup -------------------------------
(***************************************************************************)
(* What Refraction.Exists (core/internal/refract/refract.go) promises its  *)
(* caller, without goroutines, channel or counters: every remote of the    *)
(* refraction answers at most once, in any order, and one verdict is       *)
(* reached.  The verdict names a remote that has the object, or, once      *)
(* every remote has said no, the most informative status that was heard,   *)
(* or the caller's own cancellation.                                       *)
(*                                                                         *)
(* An answer is a number: Hit for a URI, the HTTP status of a              *)
(* problem.HTTPError, Opaque for any other error (a policy block, a        *)
(* cancelled or failed request), Pending until the remote has answered.    *)
(***************************************************************************)
EXTENDS Integers

CONSTANTS
    Remotes,    \* the remotes of the refraction
    Statuses    \* the HTTP error statuses remotes answer with

VARIABLES answers, gone, verdict

vars == <<answers, gone, verdict>>

Hit      == 200
Opaque   == 0
Pending  == -1
NotFound == 404

Answers == Statuses \cup {Hit, Opaque}

\* A client error that says more than "not here".
IsClientError(s) == s # NotFound /\ s \in 400..499

Undecided == [kind |-> "undecided"]
Cancelled == [kind |-> "cancelled"]
FoundAt(r) == [kind |-> "found", remote |-> r]
Failed(s)  == [kind |-> "error", status |-> s]

Verdicts == {Undecided, Cancelled} \cup {FoundAt(r) : r \in Remotes}
              \cup {Failed(s) : s \in Statuses \cup {NotFound}}

\* The statuses that tell the caller most about a set of answers: the client
\* errors if there are any, else the other errors, else a plain 404.
MostInformative(heard) ==
    LET errors == {s \in heard : s \in Statuses /\ s # NotFound}
        client == {s \in errors : IsClientError(s)}
    IN  IF client # {} THEN client
        ELSE IF errors # {} THEN errors ELSE {NotFound}

-----------------------------------------------------------------------------
Init ==
    /\ answers = [r \in Remotes |-> Pending]
    /\ gone = FALSE
    /\ verdict = Undecided

\* A remote answers; it may do so after the verdict, when nobody listens.
Answer(r) ==
    /\ answers[r] = Pending
    /\ \E a \in Answers : answers' = [answers EXCEPT ![r] = a]
    /\ UNCHANGED <<gone, verdict>>

\* The client goes away.
Leave ==
    /\ ~gone
    /\ gone' = TRUE
    /\ UNCHANGED <<answers, verdict>>

Find(r) ==
    /\ verdict = Undecided
    /\ answers[r] = Hit
    /\ verdict' = FoundAt(r)
    /\ UNCHANGED <<answers, gone>>

Fail ==
    /\ verdict = Undecided
    /\ \A r \in Remotes : answers[r] \notin {Pending, Hit}
    /\ \E s \in MostInformative({answers[r] : r \in Remotes}) :
          verdict' = Failed(s)
    /\ UNCHANGED <<answers, gone>>

Cancel ==
    /\ verdict = Undecided
    /\ gone
    /\ verdict' = Cancelled
    /\ UNCHANGED <<answers, gone>>

Decide == Fail \/ Cancel \/ \E r \in Remotes : Find(r)

Next == Leave \/ Decide \/ \E r \in Remotes : Answer(r)

Spec == Init /\ [][Next]_vars

\* The caller is not left waiting: every remote answers and a verdict follows.
Fairness == WF_vars(Decide) /\ \A r \in Remotes : WF_vars(Answer(r))

FairSpec == Spec /\ Fairness
=============================================================================
