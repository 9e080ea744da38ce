------------------------------ MODULE Notifier ------------------------------
(***************************************************************************)
(* Live updates of the current user: a row changes, its trigger sends a    *)
(* notification, the listener (core/pkg/db/notify/listen.go) hands it to   *)
(* the notifier's one broadcasting goroutine (notify.go), which sends it   *)
(* to the channel of every stream (Resolver.stream in                      *)
(* core/internal/graph/resolver.go), and a stream whose user it concerns   *)
(* reads the row and sends it to its client.  Every channel but the        *)
(* client's, which holds one event, is unbuffered.                         *)
(*                                                                         *)
(* There is one stream per user; a row is the number of times it changed.  *)
(***************************************************************************)
EXTENDS Naturals, Sequences, FiniteSets

CONSTANTS
    Streams,        \* subscriptions, each of a user of its own
    Leavers,        \* those whose client may disconnect
    MaxChanges,     \* bound: how often the row of each changes
    Lossy,          \* the connection to the database may break
    ReadsFail,      \* a query of the database may fail
    RaceAborts      \* the Go runtime detects the unsynchronised map accesses

NoStream == "none"

ASSUME NotifierAssumption ==
    /\ IsFiniteSet(Streams) /\ NoStream \notin Streams /\ Leavers \subseteq Streams
    /\ MaxChanges \in [Streams -> Nat]
    /\ {Lossy, ReadsFail, RaceAborts} \subseteq BOOLEAN

VARIABLES
    row,        \* row[s]: the changes made to the row of s, 0 before it exists
    queue,      \* notifications the listener has not handed over, oldest first
    lis,        \* n.lis: the registered streams
    msg,        \* the notification being broadcast
    left,       \* the streams the range over n.lis has yet to reach
    target,     \* the stream the broadcaster is sending to
    stream,     \* stream[s]: where the subscription is
    read,       \* read[s]: the row as f has just read it, or Blank
    events,     \* events[s]: the client's channel, of capacity one
    seen,       \* seen[s]: the row as the client last saw one
    connected,  \* connected[s]: the context of the subscription is not done
    crashed,    \* the runtime has aborted the process
    missed      \* history: streams to which a fault has denied an update, until they
                \* next read their row

vars == <<row, queue, lis, msg, left, target, stream, read, events, seen,
          connected, crashed, missed>>

\* A notification names the row it is about and, for the record, its change.
Notification(s, n) == [user |-> s, change |-> n]
NoMessage == Notification(NoStream, 0)

Broadcasting == msg # NoMessage
Subscribed(s) == stream[s] \notin {"off", "stopped"}

-----------------------------------------------------------------------------
Init ==
    /\ row \in [Streams -> {0, 1}]
    /\ queue = <<>>
    /\ lis = {}
    /\ msg = NoMessage
    /\ left = {}
    /\ target = NoStream
    /\ stream = [s \in Streams |-> "off"]
    /\ read = [s \in Streams |-> 0]
    /\ events = [s \in Streams |-> <<>>]
    /\ seen = [s \in Streams |-> 0]
    /\ connected = [s \in Streams |-> TRUE]
    /\ crashed = FALSE
    /\ missed = {}

\* The trigger fires on a row's insertion and when its preferences change.
Touch(s) ==
    /\ row' = [row EXCEPT ![s] = @ + 1]
    /\ queue' = Append(queue, Notification(s, row[s] + 1))

\* Somebody changes the preferences of a user.
Change(s) ==
    /\ row[s] \in 1..MaxChanges[s]
    /\ Touch(s)
    /\ UNCHANGED <<lis, msg, left, target, stream, read, events, seen,
                   connected, crashed, missed>>

\* The listener's connection breaks; what was sent meanwhile is lost, and the
\* nil that follows the reconnection is skipped.
Reconnect ==
    /\ Lossy
    /\ queue # <<>>
    /\ queue' = Tail(queue)
    /\ missed' = missed \cup {Head(queue).user}
    /\ UNCHANGED <<row, lis, msg, left, target, stream, read, events, seen,
                   connected, crashed>>

-----------------------------------------------------------------------------
(* The broadcasting goroutine.                                             *)

\* The streams a notification is for, of which none is passed over because it
\* is busy.
Listening_Idle == {s \in lis : stream[s] = "select"}
Listening == lis

\* n.handler <- msg meets msg := <-n.listener.
Take ==
    /\ ~Broadcasting
    /\ queue # <<>>
    /\ msg' = Head(queue)
    /\ queue' = Tail(queue)
    /\ left' = Listening
    /\ UNCHANGED <<row, lis, target, stream, read, events, seen, connected,
                   crashed, missed>>

\* The range reaches one more stream; k <- msg begins.
Reach(s) ==
    /\ Broadcasting /\ target = NoStream
    /\ s \in left
    /\ left' = left \ {s}
    /\ target' = s
    /\ UNCHANGED <<row, queue, lis, msg, stream, read, events, seen, connected,
                   crashed, missed>>

\* The range is over.
EndBroadcast ==
    /\ Broadcasting /\ target = NoStream
    /\ left = {}
    /\ msg' = NoMessage
    /\ UNCHANGED <<row, queue, lis, left, target, stream, read, events, seen,
                   connected, crashed, missed>>

-----------------------------------------------------------------------------
(* A stream.                                                               *)

\* AddListener.  A range in progress may or may not reach the new entry.
Subscribe(s) ==
    /\ stream[s] = "off"
    /\ stream' = [stream EXCEPT ![s] = "first"]
    /\ lis' = lis \cup {s}
    /\ left' \in IF Broadcasting THEN {left, left \cup {s}} ELSE {left}
    /\ UNCHANGED <<row, queue, msg, target, read, events, seen, connected,
                   crashed, missed>>

\* What f sends if it cannot read the row: the user's identity and no more.
Blank == 0

QueryFails(s) ==
    /\ ReadsFail \/ ~connected[s]
    /\ read' = [read EXCEPT ![s] = Blank]
    /\ missed' = missed \cup {s}
    /\ UNCHANGED <<row, queue>>

\* f(nil) reads the row, creating it if need be, before the goroutine starts.
First(s) ==
    /\ stream[s] = "first"
    /\ stream' = [stream EXCEPT ![s] = "sending"]
    /\ \/ /\ IF row[s] = 0 THEN Touch(s) ELSE UNCHANGED <<row, queue>>
          /\ read' = [read EXCEPT ![s] = row'[s]]
          /\ missed' = missed \ {s}
       \/ QueryFails(s)
    /\ UNCHANGED <<lis, msg, left, target, events, seen, connected, crashed>>

\* The filters of stream and of f: the table, and the user.
Concerns_Others(m, s) == m.user # s
Concerns(m, s) == m.user = s

\* msg := <-l meets k <- msg.
Receive(s) ==
    /\ target = s
    /\ stream[s] = "select"
    /\ target' = NoStream
    /\ stream' = [stream EXCEPT ![s] = IF Concerns(msg, s) THEN "reading" ELSE @]
    /\ read' = [read EXCEPT ![s] = IF Concerns(msg, s) THEN msg.change ELSE @]
    /\ UNCHANGED <<row, queue, lis, msg, left, events, seen, connected, crashed, missed>>

\* f(msg) reads the row as it is now, not as it was when msg was sent.
RowRead_AsNotified(s) == read[s]
RowRead(s) == row[s]

Read(s) ==
    /\ stream[s] = "reading"
    /\ stream' = [stream EXCEPT ![s] = "sending"]
    /\ \/ /\ read' = [read EXCEPT ![s] = RowRead(s)]
          /\ missed' = missed \ {s}
          /\ UNCHANGED <<row, queue>>
       \/ QueryFails(s)
    /\ UNCHANGED <<lis, msg, left, target, events, seen, connected, crashed>>

\* events <- u waits while the client has not taken the last event.
Room_Unlimited(s) == TRUE
Room(s) == Len(events[s]) < 1

Send(s) ==
    /\ stream[s] = "sending"
    /\ Room(s)
    /\ events' = [events EXCEPT ![s] = Append(@, read[s])]
    /\ stream' = [stream EXCEPT ![s] = "select"]
    /\ UNCHANGED <<row, queue, lis, msg, left, target, read, seen, connected,
                   crashed, missed>>

\* case <-ctx.Done(): RemoveListener, and the goroutine returns.
Stop(s) ==
    /\ stream[s] = "select"
    /\ ~connected[s]
    /\ stream' = [stream EXCEPT ![s] = "stopped"]
    /\ lis' = lis \ {s}
    /\ left' = left \ {s}
    /\ UNCHANGED <<row, queue, msg, target, read, events, seen, connected,
                   crashed, missed>>

\* The client takes an event, as long as it is there.
Consume(s) ==
    /\ connected[s]
    /\ events[s] # <<>>
    /\ seen' = [seen EXCEPT ![s] = IF Head(events[s]) = Blank THEN @
                                   ELSE Head(events[s])]
    /\ events' = [events EXCEPT ![s] = Tail(@)]
    /\ UNCHANGED <<row, queue, lis, msg, left, target, stream, read, connected,
                   crashed, missed>>

Disconnect(s) ==
    /\ s \in Leavers
    /\ Subscribed(s) /\ connected[s]
    /\ connected' = [connected EXCEPT ![s] = FALSE]
    /\ UNCHANGED <<row, queue, lis, msg, left, target, stream, read, events,
                   seen, crashed, missed>>

\* n.lis is written while the range reads it: a fatal error of the runtime.
Abort(s) ==
    /\ RaceAborts
    /\ Broadcasting /\ target = NoStream
    /\ stream[s] = "off" \/ (stream[s] = "select" /\ ~connected[s])
    /\ crashed' = TRUE
    /\ UNCHANGED <<row, queue, lis, msg, left, target, stream, read, events,
                   seen, connected, missed>>

Broadcast == Take \/ EndBroadcast \/ \E s \in Streams : Reach(s)

Stream(s) == First(s) \/ Receive(s) \/ Read(s) \/ Send(s) \/ Stop(s)

Step(s) ==
    \/ Change(s) \/ Subscribe(s) \/ Stream(s)
    \/ Consume(s) \/ Disconnect(s) \/ Abort(s)

Next ==
    \/ ~crashed /\ Reconnect
    \/ ~crashed /\ Broadcast
    \/ \E s \in Streams : ~crashed /\ Step(s)

Spec == Init /\ [][Next]_vars

\* Goroutines run when they can, and a connected client reads its events.
\* Nobody is obliged to change a row, to subscribe or to leave.
Fairness ==
    /\ WF_vars(~crashed /\ Broadcast)
    /\ \A s \in Streams :
          /\ WF_vars(~crashed /\ Stream(s))
          /\ WF_vars(~crashed /\ Consume(s))

FairSpec == Spec /\ Fairness

-----------------------------------------------------------------------------
TypeOK ==
    /\ \A s \in Streams : {row[s], read[s], seen[s]} \subseteq 0..MaxChanges[s] + 1
    /\ \A i \in 1..Len(queue) : queue[i].user \in Streams
    /\ lis \subseteq Streams
    /\ left \subseteq lis
    /\ target \in Streams \cup {NoStream}
    /\ stream \in [Streams -> {"off", "first", "select", "reading", "sending",
                               "stopped"}]
    /\ \A s \in Streams : Len(events[s]) <= 1
    /\ connected \in [Streams -> BOOLEAN]
    /\ crashed \in BOOLEAN
    /\ missed \subseteq Streams

\* A client never sees its row go back in time, although the snapshot sent at
\* subscription and the broadcasts overlap, notifications are lost and queries
\* fail.
NeverOlder == [][\A s \in Streams : seen'[s] >= seen[s]]_vars

\* Of a stream's row, as it is: the client has seen it, or a notification, a
\* reading or an event that will show it is under way.
UnderWay(s) ==
    \/ seen[s] = row[s]
    \/ events[s] # <<>> /\ Head(events[s]) = row[s]
    \/ stream[s] = "sending" /\ read[s] = row[s]
    \/ stream[s] \in {"first", "reading"}
    \/ msg.user = s /\ s \in left \cup {target}
    \/ \E i \in 1..Len(queue) : queue[i].user = s

\* No update falls between the snapshot at subscription and the broadcasts.  One
\* that is lost with the connection, or with a query that fails, is made good by
\* the next reading of the row.
NoneMissed ==
    \A s \in Streams \ missed : Subscribed(s) /\ connected[s] => UnderWay(s)

\* The broadcaster is sending to a stream whose client left; it may do so for ever.
Held == target # NoStream /\ ~connected[target]

\* Whenever it subscribed, a client that stays ends up seeing its row as it is,
\* although others leave, unless a fault denies it the last update or a stream
\* that others left holds up the broadcaster.
EndsUpCurrent ==
    \A s \in Streams :
        <>[](Subscribed(s) /\ connected[s] =>
                 seen[s] = row[s] \/ s \in missed \/ Held \/ crashed)

\* "Listen creates a goroutine with an infinite loop and waits for messages"
\* (notify.go:66-67): the broadcaster always gets back to waiting.
KeepsListening == []<>~Broadcasting
=============================================================================
