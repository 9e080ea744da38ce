--------------------------- MODULE NotifierProofs ---------------------------
(***************************************************************************)
(* Theorems about Notifier, for any streams, with and without faults.      *)
(* That a client never sees its row go back is about the whole way of an   *)
(* update: what the client saw is no newer than the event it has yet to    *)
(* take, that no newer than the row the stream is about to send, and that  *)
(* no newer than the row itself (InOrder).  That no update is missed needs *)
(* that a stream is registered from before its first reading until its end *)
(* (Registered).                                                           *)
(***************************************************************************)
EXTENDS Notifier, SequenceTheorems, TLAPS

Rows == Nat
Notifications == [user : Streams, change : Rows]
Phases == {"off", "first", "select", "reading", "sending", "stopped"}

Typed ==
    /\ row \in [Streams -> Rows] /\ \A s \in Streams : row[s] <= MaxChanges[s] + 1
    /\ queue \in Seq(Notifications)
    /\ lis \subseteq Streams
    /\ msg \in Notifications \cup {NoMessage}
    /\ left \subseteq lis
    /\ target \in Streams \cup {NoStream}
    /\ stream \in [Streams -> Phases]
    /\ read \in [Streams -> Rows]
    /\ events \in [Streams -> Seq(Rows)] /\ \A s \in Streams : Len(events[s]) <= 1
    /\ seen \in [Streams -> Rows]
    /\ connected \in [Streams -> BOOLEAN]
    /\ crashed \in BOOLEAN
    /\ missed \subseteq Streams

\* A notification is sent after the change it is about.
AfterChange ==
    /\ \A i \in 1..Len(queue) : queue[i].change <= row[queue[i].user]
    /\ msg # NoMessage => msg.change <= row[msg.user]

\* The order of what the client saw, e, an event on its way, and r, the row
\* that was read and is to be sent; a blank tells nothing of the row.
Older(e, r) == r = Blank \/ e <= r

Order(s) ==
    /\ seen[s] <= row[s] /\ read[s] <= row[s]
    /\ events[s] # <<>> => /\ Older(seen[s], Head(events[s]))
                           /\ Head(events[s]) <= row[s]
    /\ stream[s] = "sending" =>
          /\ Older(seen[s], read[s])
          /\ events[s] # <<>> => Older(Head(events[s]), read[s])

InOrder == \A s \in Streams : Order(s)

Registered == \A s \in Streams : Subscribed(s) => s \in lis

\* Unless a fault has denied it one, a subscribed client is not left with an old row.
Unmissed(s) == s \notin missed /\ Subscribed(s) /\ connected[s] => UnderWay(s)

IInv == Typed /\ AfterChange /\ InOrder /\ Registered /\ NoneMissed

-----------------------------------------------------------------------------
(* Sequences.                                                              *)

LEMMA TheEvent ==
    ASSUME NEW q \in Seq(Rows), Len(q) <= 1
    PROVE  /\ q # <<>> => Head(q) \in Rows /\ Tail(q) = <<>>
           /\ Len(q) < 1 => q = <<>>
  <1>1. q # <<>> => Head(q) \in Rows /\ Tail(q) \in Seq(Rows) /\ Len(Tail(q)) = Len(q) - 1
    BY HeadTailProperties
  <1> QED  BY <1>1, EmptySeq

LEMMA OneEvent ==
    ASSUME NEW n \in Rows
    PROVE  /\ Append(<<>>, n) \in Seq(Rows) /\ Len(Append(<<>>, n)) = 1
           /\ Append(<<>>, n) # <<>> /\ Head(Append(<<>>, n)) = n
  BY AppendProperties, HeadTailAppend, EmptySeq

LEMMA Enqueued ==
    ASSUME NEW q \in Seq(Notifications), NEW n \in Notifications
    PROVE  /\ Append(q, n) \in Seq(Notifications)
           /\ Len(Append(q, n)) = Len(q) + 1
           /\ Append(q, n)[Len(q) + 1] = n
           /\ \A i \in 1..Len(q) : Append(q, n)[i] = q[i]
  BY AppendProperties

LEMMA Dequeued ==
    ASSUME NEW q \in Seq(Notifications), q # <<>>
    PROVE  /\ Head(q) \in Notifications /\ Head(q) = q[1] /\ 1 \in 1..Len(q)
           /\ Tail(q) \in Seq(Notifications)
           /\ Len(Tail(q)) = Len(q) - 1
           /\ \A i \in 1..Len(Tail(q)) : i + 1 \in 1..Len(q) /\ Tail(q)[i] = q[i + 1]
  BY HeadTailProperties
-----------------------------------------------------------------------------
(* What a step leaves alone of a stream.                                   *)

\* A row may change without anything getting out of order.
LEMMA OrderKept ==
    ASSUME IInv, Typed', NEW s \in Streams, row'[s] >= row[s],
           seen'[s] = seen[s], events'[s] = events[s], read'[s] = read[s],
           stream'[s] = "sending" => stream[s] = "sending"
    PROVE  Order(s)'
  <1>1. row[s] \in Nat /\ row'[s] \in Nat /\ seen[s] \in Nat /\ read[s] \in Nat
    BY NotifierAssumption DEF IInv, Typed, Rows
  <1>2. events[s] # <<>> => Head(events[s]) \in Nat
    <2>1. events[s] \in Seq(Rows) /\ Len(events[s]) <= 1
      BY DEF IInv, Typed
    <2>2. events[s] # <<>> => Head(events[s]) \in Rows
      BY <2>1, TheEvent
    <2> QED  BY <2>2, NotifierAssumption DEF Rows
  <1>3. Order(s)
    BY DEF IInv, InOrder
  <1> QED  BY <1>1, <1>2, <1>3 DEF Order, Older

\* A stream that its step leaves alone, or whose row changed.
LEMMA WayKept ==
    ASSUME NEW s \in Streams, Unmissed(s), s \in missed => s \in missed',
           row'[s] = row[s] \/ \E i \in 1..Len(queue') : queue'[i].user = s,
           seen'[s] = seen[s], events'[s] = events[s], read'[s] = read[s],
           stream'[s] = stream[s], connected'[s] => connected[s],
           msg.user = s /\ s \in left \cup {target} =>
               msg'.user = s /\ s \in left' \cup {target'},
           (\E i \in 1..Len(queue) : queue[i].user = s) =>
               \/ \E i \in 1..Len(queue') : queue'[i].user = s
               \/ Subscribed(s) => msg'.user = s /\ s \in left' \cup {target'}
    PROVE  Unmissed(s)'
  BY DEF Unmissed, UnderWay, Subscribed

\* The trigger: the row is newer, and a notification of it is on its way.
LEMMA Touched ==
    ASSUME IInv, NEW s \in Streams, Touch(s), row[s] <= MaxChanges[s], msg' = msg
    PROVE  /\ row' \in [Streams -> Rows] /\ queue' \in Seq(Notifications)
           /\ \A u \in Streams : row'[u] <= MaxChanges[u] + 1
           /\ \A u \in Streams : row'[u] >= row[u] /\ (u # s => row'[u] = row[u])
           /\ \A u \in Streams : (\E i \in 1..Len(queue) : queue[i].user = u) =>
                                      \E i \in 1..Len(queue') : queue'[i].user = u
           /\ \E i \in 1..Len(queue') : queue'[i].user = s
           /\ AfterChange'
  <1> DEFINE n == Notification(s, row[s] + 1)
  <1>1. row' = [row EXCEPT ![s] = @ + 1] /\ queue' = Append(queue, n)
    BY DEF Touch
  <1>2. row \in [Streams -> Rows] /\ queue \in Seq(Notifications)
        /\ msg \in Notifications \cup {NoMessage}
    BY DEF IInv, Typed
  <1>3. row[s] + 1 \in Rows
    BY <1>2, NotifierAssumption DEF Rows
  <1>4. n \in Notifications /\ n.user = s /\ n.change = row[s] + 1
    BY <1>3 DEF Notification, Notifications
  <1> HIDE DEF n
  <1>5. /\ queue' \in Seq(Notifications) /\ Len(queue') = Len(queue) + 1
        /\ queue'[Len(queue) + 1] = n
        /\ \A i \in 1..Len(queue) : queue'[i] = queue[i]
        /\ Len(queue) \in Nat
    BY <1>1, <1>2, <1>4, Enqueued
  <1>6. /\ row' \in [Streams -> Rows] /\ row'[s] = row[s] + 1
        /\ \A u \in Streams : row'[u] >= row[u] /\ (u # s => row'[u] = row[u])
    BY <1>1, <1>2, <1>3, NotifierAssumption DEF Rows
  <1>7. /\ \A i \in 1..Len(queue) : i \in 1..Len(queue')
        /\ Len(queue) + 1 \in 1..Len(queue')
        /\ \A i \in 1..Len(queue') : i \in 1..Len(queue) \/ i = Len(queue) + 1
    BY <1>5
  <1>8. AfterChange'
    <2>1. ASSUME NEW i \in 1..Len(queue) PROVE queue[i].change <= row'[queue[i].user]
      <3>1. queue[i] \in Notifications
        BY <1>2
      <3>2. queue[i].user \in Streams /\ queue[i].change \in Nat
        BY <3>1 DEF Notifications, Rows
      <3>3. queue[i].change <= row[queue[i].user]
        BY DEF IInv, AfterChange
      <3> QED  BY <1>2, <1>6, <3>2, <3>3 DEF Rows
    <2>2. \A i \in 1..Len(queue') : queue'[i].change <= row'[queue'[i].user]
      BY <1>2, <1>4, <1>5, <1>6, <1>7, <2>1 DEF Rows
    <2>3. ASSUME msg # NoMessage PROVE msg.change <= row'[msg.user]
      <3>1. msg.user \in Streams /\ msg.change \in Nat
        BY <1>2, <2>3 DEF Notifications, Rows
      <3>2. msg.change <= row[msg.user]
        BY <2>3 DEF IInv, AfterChange
      <3> QED  BY <1>2, <1>6, <3>1, <3>2 DEF Rows
    <2> QED  BY <2>2, <2>3 DEF AfterChange
  <1>9. \A u \in Streams : row'[u] <= MaxChanges[u] + 1
    <2> TAKE u \in Streams
    <2>1. /\ row[u] \in Nat /\ row[s] \in Nat /\ MaxChanges[u] \in Nat
          /\ row[u] <= MaxChanges[u] + 1
      BY NotifierAssumption DEF IInv, Typed, Rows
    <2>2. row'[u] = row[u] \/ (u = s /\ row'[u] = row[s] + 1)
      BY <1>6
    <2> QED  BY <2>1, <2>2
  <1> QED  BY <1>4, <1>5, <1>6, <1>7, <1>8, <1>9

-----------------------------------------------------------------------------
LEMMA InitInvariant == Init => IInv
  <1> SUFFICES ASSUME Init PROVE IInv
    OBVIOUS
  <1> USE DEF Init
  <1>1. Typed
    <2>1. row \in [Streams -> Rows] /\ read \in [Streams -> Rows] /\ seen \in [Streams -> Rows]
      BY NotifierAssumption DEF Rows
    <2>2. events \in [Streams -> Seq(Rows)] /\ \A s \in Streams : Len(events[s]) <= 1
      BY EmptySeq
    <2>3. queue \in Seq(Notifications)
      BY EmptySeq
    <2>4. \A s \in Streams : row[s] <= MaxChanges[s] + 1
      <3> TAKE s \in Streams
      <3>1. row[s] \in {0, 1} /\ MaxChanges[s] \in Nat
        BY NotifierAssumption
      <3> QED  BY <3>1
    <2> QED  BY <2>1, <2>2, <2>3, <2>4 DEF Typed, Phases
  <1>2. AfterChange /\ InOrder
    BY DEF AfterChange, InOrder, Order, Older
  <1>3. Registered /\ NoneMissed
    BY DEF Registered, NoneMissed, Subscribed
  <1> QED  BY <1>1, <1>2, <1>3 DEF IInv

LEMMA ChangeInvariant ==
    ASSUME IInv, NEW s \in Streams, Change(s)
    PROVE  IInv'
  <1>1. /\ Touch(s) /\ row[s] \in 1..MaxChanges[s]
        /\ UNCHANGED <<lis, msg, left, target, stream, read, events, seen,
                       connected, crashed, missed>>
    BY DEF Change
  <1>2. /\ row' \in [Streams -> Rows] /\ queue' \in Seq(Notifications)
        /\ \A u \in Streams : row'[u] <= MaxChanges[u] + 1
        /\ \A u \in Streams : row'[u] >= row[u] /\ (u # s => row'[u] = row[u])
        /\ \A u \in Streams : (\E i \in 1..Len(queue) : queue[i].user = u) =>
                                   \E i \in 1..Len(queue') : queue'[i].user = u
        /\ \E i \in 1..Len(queue') : queue'[i].user = s
        /\ AfterChange'
    BY <1>1, NotifierAssumption, Touched
  <1>3. Typed'
    BY <1>1, <1>2 DEF IInv, Typed
  <1>4. InOrder'
    BY <1>1, <1>2, <1>3, OrderKept DEF InOrder
  <1>5. Registered'
    BY <1>1 DEF IInv, Registered, Subscribed
  <1>6. NoneMissed'
    BY <1>1, <1>2, WayKept DEF IInv, NoneMissed, Unmissed
  <1> QED  BY <1>2, <1>3, <1>4, <1>5, <1>6 DEF IInv
\* What was sent to a lost connection is lost.
LEMMA ReconnectInvariant ==
    ASSUME IInv, Reconnect
    PROVE  IInv'
  <1>1. /\ queue # <<>> /\ queue' = Tail(queue)
        /\ missed' = missed \cup {Head(queue).user}
        /\ UNCHANGED <<row, lis, msg, left, target, stream, read, events, seen,
                       connected, crashed>>
    BY DEF Reconnect
  <1>2. queue \in Seq(Notifications)
    BY DEF IInv, Typed
  <1>3. /\ queue' \in Seq(Notifications) /\ Len(queue') = Len(queue) - 1
        /\ queue[1] = Head(queue) /\ queue[1].user \in Streams
        /\ \A i \in 1..Len(queue') : i + 1 \in 1..Len(queue) /\ queue'[i] = queue[i + 1]
    <2>1. Head(queue) \in Notifications
      BY <1>1, <1>2, Dequeued
    <2>2. Head(queue).user \in Streams
      BY <2>1 DEF Notifications
    <2> QED  BY <1>1, <1>2, <2>2, Dequeued
  <1>4. Typed'
    BY <1>1, <1>3 DEF IInv, Typed
  <1>5. AfterChange'
    BY <1>1, <1>3 DEF IInv, AfterChange
  <1>6. InOrder'
    BY <1>1 DEF IInv, InOrder, Order
  <1>7. Registered'
    BY <1>1 DEF IInv, Registered, Subscribed
  <1>8. NoneMissed'
    <2> SUFFICES ASSUME NEW s \in Streams PROVE Unmissed(s)'
      BY DEF NoneMissed, Unmissed
    <2>1. CASE s \in missed'
      BY <2>1 DEF Unmissed
    <2>2. CASE s \notin missed'
      <3>1. Unmissed(s) /\ queue[1].user # s
        BY <1>1, <1>3, <2>2 DEF IInv, NoneMissed, Unmissed
      <3>2. ASSUME NEW i \in 1..Len(queue), queue[i].user = s
            PROVE  \E j \in 1..Len(queue') : queue'[j].user = s
        <4>1. i - 1 \in 1..Len(queue')
          BY <1>2, <1>3, <3>1, <3>2
        <4>2. queue'[i - 1] = queue[i]
          BY <1>3, <4>1
        <4> QED  BY <3>2, <4>1, <4>2
      <3> QED  BY <1>1, <3>1, <3>2, WayKept
    <2> QED  BY <2>1, <2>2
  <1> QED  BY <1>4, <1>5, <1>6, <1>7, <1>8 DEF IInv

-----------------------------------------------------------------------------
(* The broadcasting goroutine.                                             *)

\* The notification is for every stream that is registered.
LEMMA TakeInvariant ==
    ASSUME IInv, Take
    PROVE  IInv'
  <1>1. /\ msg = NoMessage /\ queue # <<>> /\ msg' = Head(queue) /\ queue' = Tail(queue)
        /\ left' = lis
        /\ UNCHANGED <<row, lis, target, stream, read, events, seen, connected, crashed, missed>>
    BY DEF Take, Broadcasting, Listening
  <1>2. queue \in Seq(Notifications)
    BY DEF IInv, Typed
  <1>3. /\ queue' \in Seq(Notifications) /\ Len(queue') = Len(queue) - 1
        /\ msg' \in Notifications /\ msg' = queue[1] /\ 1 \in 1..Len(queue)
        /\ \A i \in 1..Len(queue') : i + 1 \in 1..Len(queue) /\ queue'[i] = queue[i + 1]
    BY <1>1, <1>2, Dequeued
  <1>4. Typed'
    BY <1>1, <1>3 DEF IInv, Typed
  <1>5. AfterChange'
    BY <1>1, <1>3 DEF IInv, AfterChange
  <1>6. InOrder' /\ Registered'
    BY <1>1 DEF IInv, InOrder, Order, Registered, Subscribed
  <1>7. NoneMissed'
    <2> SUFFICES ASSUME NEW s \in Streams PROVE Unmissed(s)'
      BY DEF NoneMissed, Unmissed
    <2>1. Unmissed(s) /\ (Subscribed(s) => s \in lis)
      BY DEF IInv, NoneMissed, Unmissed, Registered
    <2>2. msg.user # s
      BY <1>1, NotifierAssumption DEF NoMessage, Notification
    <2>3. ASSUME NEW i \in 1..Len(queue), queue[i].user = s
          PROVE  msg'.user = s \/ \E j \in 1..Len(queue') : queue'[j].user = s
      <3>1. CASE i = 1
        BY <1>3, <2>3, <3>1
      <3>2. CASE i # 1
        <4>1. i - 1 \in 1..Len(queue')
          BY <1>2, <1>3, <3>2
        <4>2. queue'[i - 1] = queue[i]
          BY <1>3, <4>1
        <4> QED  BY <2>3, <4>1, <4>2
      <3> QED  BY <3>1, <3>2
    <2> QED  BY <1>1, <2>1, <2>2, <2>3, WayKept
  <1> QED  BY <1>4, <1>5, <1>6, <1>7 DEF IInv

LEMMA ReachInvariant ==
    ASSUME IInv, NEW s \in Streams, Reach(s)
    PROVE  IInv'
  <1>1. /\ target = NoStream /\ s \in left /\ left' = left \ {s} /\ target' = s
        /\ UNCHANGED <<row, queue, lis, msg, stream, read, events, seen, connected, crashed, missed>>
    BY DEF Reach
  <1>2. Typed' /\ AfterChange'
    BY <1>1 DEF IInv, Typed, AfterChange
  <1>3. InOrder' /\ Registered'
    BY <1>1 DEF IInv, InOrder, Order, Registered, Subscribed
  <1>4. NoneMissed'
    BY <1>1, NotifierAssumption DEF IInv, NoneMissed, Unmissed, Subscribed, UnderWay
  <1> QED  BY <1>2, <1>3, <1>4 DEF IInv

\* Nobody is left to be reached.
LEMMA EndBroadcastInvariant ==
    ASSUME IInv, EndBroadcast
    PROVE  IInv'
  <1>1. /\ target = NoStream /\ left = {} /\ msg' = NoMessage
        /\ UNCHANGED <<row, queue, lis, left, target, stream, read, events, seen,
                       connected, crashed, missed>>
    BY DEF EndBroadcast
  <1>2. Typed' /\ AfterChange'
    BY <1>1 DEF IInv, Typed, AfterChange
  <1>3. InOrder' /\ Registered'
    BY <1>1 DEF IInv, InOrder, Order, Registered, Subscribed
  <1>4. NoneMissed'
    BY <1>1, NotifierAssumption DEF IInv, NoneMissed, Unmissed, Subscribed, UnderWay
  <1> QED  BY <1>2, <1>3, <1>4 DEF IInv
-----------------------------------------------------------------------------
(* A stream.                                                               *)

\* A stream is registered from its start, and its first reading is to come.
LEMMA SubscribeInvariant ==
    ASSUME IInv, NEW s \in Streams, Subscribe(s)
    PROVE  IInv'
  <1>1. /\ stream' = [stream EXCEPT ![s] = "first"] /\ lis' = lis \cup {s}
        /\ left \subseteq left' /\ left' \subseteq left \cup {s}
        /\ UNCHANGED <<row, queue, msg, target, read, events, seen, connected, crashed, missed>>
    BY DEF Subscribe
  <1>2. /\ stream' \in [Streams -> Phases] /\ stream'[s] = "first"
        /\ \A u \in Streams : u # s => stream'[u] = stream[u]
    BY <1>1 DEF IInv, Typed, Phases
  <1>3. Typed' /\ AfterChange'
    BY <1>1, <1>2 DEF IInv, Typed, AfterChange
  <1>4. InOrder' /\ Registered'
    BY <1>1, <1>2 DEF IInv, InOrder, Order, Registered, Subscribed
  <1>5. NoneMissed'
    BY <1>1, <1>2 DEF IInv, NoneMissed, Unmissed, Subscribed, UnderWay
  <1> QED  BY <1>3, <1>4, <1>5 DEF IInv

\* A stream that is about to send what it read: the row as it is, or no row.
LEMMA Sending ==
    ASSUME IInv, Typed', AfterChange', NEW s \in Streams,
           stream[s] \in {"first", "reading"},
           stream' = [stream EXCEPT ![s] = "sending"],
           \/ read' = [read EXCEPT ![s] = row'[s]] /\ missed' = missed \ {s}
           \/ read' = [read EXCEPT ![s] = Blank] /\ missed' = missed \cup {s},
           \A u \in Streams : row'[u] >= row[u]
                              /\ (u # s => row'[u] = row[u]),
           \A u \in Streams : (\E i \in 1..Len(queue) : queue[i].user = u) =>
                                  \E i \in 1..Len(queue') : queue'[i].user = u,
           UNCHANGED <<lis, msg, left, target, events, seen, connected, crashed>>
    PROVE  IInv'
  <1>1. /\ stream'[s] = "sending" /\ (read'[s] = row'[s] \/ read'[s] = Blank)
        /\ \A u \in Streams : u # s => stream'[u] = stream[u] /\ read'[u] = read[u]
                                     /\ (u \in missed => u \in missed')
    BY DEF IInv, Typed
  <1>2. InOrder'
    <2> SUFFICES ASSUME NEW u \in Streams PROVE Order(u)'
      BY DEF InOrder
    <2>1. CASE u # s
      BY <1>1, <2>1, OrderKept
    <2>2. CASE u = s
      <3>1. /\ row[s] \in Nat /\ row'[s] \in Nat /\ seen[s] \in Nat /\ row'[s] >= row[s]
        BY NotifierAssumption DEF IInv, Typed, Rows
      <3>2. events[s] # <<>> => Head(events[s]) \in Nat
        <4>1. events[s] \in Seq(Rows) /\ Len(events[s]) <= 1
          BY DEF IInv, Typed
        <4>2. events[s] # <<>> => Head(events[s]) \in Rows
          BY <4>1, TheEvent
        <4> QED  BY <4>2, NotifierAssumption DEF Rows
      <3>3. Order(s)
        BY DEF IInv, InOrder
      <3>4. /\ seen[s] <= row'[s] /\ read'[s] <= row'[s]
            /\ events[s] # <<>> => Head(events[s]) <= row'[s]
        BY <1>1, <3>1, <3>2, <3>3 DEF Order, Blank
      <3> QED  BY <1>1, <2>2, <3>3, <3>4 DEF Order, Older
    <2> QED  BY <2>1, <2>2
  <1>3. Registered'
    BY <1>1 DEF IInv, Registered, Subscribed
  <1>4. NoneMissed'
    <2> SUFFICES ASSUME NEW u \in Streams PROVE Unmissed(u)'
      BY DEF NoneMissed, Unmissed
    <2>1. CASE u # s
      BY <1>1, <2>1, WayKept DEF IInv, NoneMissed, Unmissed
    <2>2. CASE u = s
      <3>1. s \notin missed' => read'[s] = row'[s]
        BY DEF IInv, Typed
      <3> QED  BY <1>1, <2>2, <3>1 DEF Unmissed, UnderWay
    <2> QED  BY <2>1, <2>2
  <1> QED  BY <1>2, <1>3, <1>4 DEF IInv

LEMMA FirstInvariant ==
    ASSUME IInv, NEW s \in Streams, First(s)
    PROVE  IInv'
  <1>1. /\ stream[s] = "first" /\ stream' = [stream EXCEPT ![s] = "sending"]
        /\ UNCHANGED <<lis, msg, left, target, events, seen, connected, crashed>>
    BY DEF First
  <1>2. stream' \in [Streams -> Phases] /\ row[s] \in Rows
    BY <1>1 DEF IInv, Typed, Phases
  <1>3. CASE /\ IF row[s] = 0 THEN Touch(s) ELSE UNCHANGED <<row, queue>>
             /\ read' = [read EXCEPT ![s] = row'[s]]
             /\ missed' = missed \ {s}
    <2>1. /\ row' \in [Streams -> Rows] /\ queue' \in Seq(Notifications)
          /\ \A u \in Streams : row'[u] <= MaxChanges[u] + 1
          /\ \A u \in Streams : row'[u] >= row[u] /\ (u # s => row'[u] = row[u])
          /\ \A u \in Streams : (\E i \in 1..Len(queue) : queue[i].user = u) =>
                                     \E i \in 1..Len(queue') : queue'[i].user = u
          /\ AfterChange'
      <3>1. CASE row[s] = 0
        <4>1. row[s] <= MaxChanges[s] /\ msg' = msg
          BY <1>1, <3>1, NotifierAssumption
        <4> QED  BY <1>3, <3>1, <4>1, Touched
      <3>2. CASE row[s] # 0
        <4>1. UNCHANGED <<row, queue>>
          BY <1>3, <3>2
        <4>2. row \in [Streams -> Rows] /\ queue \in Seq(Notifications)
          BY DEF IInv, Typed
        <4>3. AfterChange'
          BY <1>1, <4>1 DEF IInv, AfterChange
        <4>4. \A u \in Streams : row'[u] >= row[u] /\ row'[u] <= MaxChanges[u] + 1
          BY <4>1, <4>2 DEF IInv, Typed, Rows
        <4> QED  BY <4>1, <4>2, <4>3, <4>4
      <3> QED  BY <3>1, <3>2
    <2>2. read' \in [Streams -> Rows]
      BY <1>3, <2>1 DEF IInv, Typed
    <2>3. Typed'
      BY <1>1, <1>2, <1>3, <2>1, <2>2 DEF IInv, Typed
    <2> QED  BY <1>1, <1>3, <2>1, <2>3, Sending
  <1>4. CASE QueryFails(s)
    <2>1. /\ read' = [read EXCEPT ![s] = Blank] /\ missed' = missed \cup {s}
          /\ UNCHANGED <<row, queue>>
      BY <1>4 DEF QueryFails
    <2>2. read' \in [Streams -> Rows] /\ \A u \in Streams : row[u] >= row[u]
      BY <2>1, NotifierAssumption DEF IInv, Typed, Rows, Blank
    <2>3. Typed' /\ AfterChange'
      BY <1>1, <1>2, <2>1, <2>2 DEF IInv, Typed, AfterChange
    <2> QED  BY <1>1, <2>1, <2>2, <2>3, Sending
  <1> QED  BY <1>3, <1>4 DEF First

LEMMA ReadInvariant ==
    ASSUME IInv, NEW s \in Streams, Read(s)
    PROVE  IInv'
  <1>1. /\ stream[s] = "reading" /\ stream' = [stream EXCEPT ![s] = "sending"]
        /\ UNCHANGED <<row, queue, lis, msg, left, target, events, seen, connected, crashed>>
        /\ \/ read' = [read EXCEPT ![s] = row'[s]] /\ missed' = missed \ {s}
           \/ read' = [read EXCEPT ![s] = Blank] /\ missed' = missed \cup {s}
    BY DEF Read, RowRead, QueryFails
  <1>2. /\ stream' \in [Streams -> Phases] /\ read' \in [Streams -> Rows]
        /\ \A u \in Streams : row[u] >= row[u]
    <2>1. /\ row \in [Streams -> Nat] /\ read \in [Streams -> Nat]
          /\ stream \in [Streams -> Phases] /\ 0 \in Nat
      BY DEF IInv, Typed, Rows
    <2>2. stream' \in [Streams -> Phases]
      BY <1>1, <2>1 DEF Phases
    <2>3. read' \in [Streams -> Rows]
      BY <1>1, <2>1 DEF Rows, Blank
    <2>4. \A u \in Streams : row[u] >= row[u]
      BY <2>1
    <2> QED  BY <2>2, <2>3, <2>4
  <1>3. Typed' /\ AfterChange'
    BY <1>1, <1>2 DEF IInv, Typed, AfterChange
  <1> QED  BY <1>1, <1>2, <1>3, Sending
\* A notification of another user is dropped, one of the stream's is followed
\* by a reading.
LEMMA ReceiveInvariant ==
    ASSUME IInv, NEW s \in Streams, Receive(s)
    PROVE  IInv'
  <1>1. /\ target = s /\ stream[s] = "select" /\ target' = NoStream
        /\ stream' = [stream EXCEPT ![s] = IF msg.user = s THEN "reading" ELSE @]
        /\ read' = [read EXCEPT ![s] = IF msg.user = s THEN msg.change ELSE @]
        /\ UNCHANGED <<row, queue, lis, msg, left, events, seen, connected, crashed, missed>>
    BY DEF Receive, Concerns
  <1>2. msg.user = s => msg.change \in Rows /\ msg.change <= row[s]
    BY NotifierAssumption
       DEF IInv, Typed, AfterChange, NoMessage, Notification, Notifications
  <1>3. /\ stream' \in [Streams -> Phases] /\ read' \in [Streams -> Rows]
        /\ stream'[s] \in {"select", "reading"} /\ (msg.user = s => stream'[s] = "reading")
        /\ (msg.user # s => stream'[s] = "select")
        /\ read'[s] <= row[s]
        /\ \A u \in Streams : u # s => stream'[u] = stream[u] /\ read'[u] = read[u]
    BY <1>1, <1>2 DEF IInv, Typed, Phases, InOrder, Order
  <1>4. Typed' /\ AfterChange'
    BY <1>1, <1>3 DEF IInv, Typed, AfterChange
  <1>5. InOrder'
    BY <1>1, <1>3 DEF IInv, InOrder, Order
  <1>6. Registered'
    BY <1>1, <1>3 DEF IInv, Registered, Subscribed
  <1>7. NoneMissed'
    BY <1>1, <1>3 DEF IInv, NoneMissed, Unmissed, Subscribed, UnderWay
  <1> QED  BY <1>4, <1>5, <1>6, <1>7 DEF IInv

\* What the stream read becomes the event the client has yet to take.
LEMMA SendInvariant ==
    ASSUME IInv, NEW s \in Streams, Send(s)
    PROVE  IInv'
  <1>1. /\ stream[s] = "sending" /\ Len(events[s]) < 1
        /\ events' = [events EXCEPT ![s] = Append(@, read[s])]
        /\ stream' = [stream EXCEPT ![s] = "select"]
        /\ UNCHANGED <<row, queue, lis, msg, left, target, read, seen, connected, crashed, missed>>
    BY DEF Send, Room
  <1>2. /\ events \in [Streams -> Seq(Rows)] /\ \A u \in Streams : Len(events[u]) <= 1
        /\ read[s] \in Rows /\ stream \in [Streams -> Phases]
    BY DEF IInv, Typed
  <1>3. events[s] = <<>>
    BY <1>1, <1>2, TheEvent
  <1>4. /\ Append(events[s], read[s]) \in Seq(Rows) /\ Len(Append(events[s], read[s])) = 1
        /\ Append(events[s], read[s]) # <<>> /\ Head(Append(events[s], read[s])) = read[s]
    BY <1>2, <1>3, OneEvent
  <1>5. /\ events' \in [Streams -> Seq(Rows)] /\ Len(events'[s]) = 1
        /\ events'[s] # <<>> /\ Head(events'[s]) = read[s]
        /\ \A u \in Streams : u # s => events'[u] = events[u]
    BY <1>1, <1>2, <1>4
  <1>6. /\ stream' \in [Streams -> Phases] /\ stream'[s] = "select"
        /\ \A u \in Streams : u # s => stream'[u] = stream[u]
    BY <1>1, <1>2 DEF Phases
  <1>7. Typed' /\ AfterChange'
    BY <1>1, <1>2, <1>5, <1>6 DEF IInv, Typed, AfterChange
  <1>8. InOrder'
    BY <1>1, <1>5, <1>6 DEF IInv, InOrder, Order
  <1>9. Registered'
    BY <1>1, <1>6 DEF IInv, Registered, Subscribed
  <1>10. NoneMissed'
    BY <1>1, <1>3, <1>5, <1>6 DEF IInv, NoneMissed, Unmissed, Subscribed, UnderWay
  <1> QED  BY <1>7, <1>8, <1>9, <1>10 DEF IInv

LEMMA StopInvariant ==
    ASSUME IInv, NEW s \in Streams, Stop(s)
    PROVE  IInv'
  <1>1. /\ ~connected[s] /\ stream' = [stream EXCEPT ![s] = "stopped"]
        /\ lis' = lis \ {s} /\ left' = left \ {s}
        /\ UNCHANGED <<row, queue, msg, target, read, events, seen, connected, crashed, missed>>
    BY DEF Stop
  <1>2. /\ stream' \in [Streams -> Phases] /\ stream'[s] = "stopped"
        /\ \A u \in Streams : u # s => stream'[u] = stream[u]
    BY <1>1 DEF IInv, Typed, Phases
  <1>3. Typed' /\ AfterChange'
    BY <1>1, <1>2 DEF IInv, Typed, AfterChange
  <1>4. InOrder' /\ Registered'
    BY <1>1, <1>2 DEF IInv, InOrder, Order, Registered, Subscribed
  <1>5. NoneMissed'
    BY <1>1, <1>2 DEF IInv, NoneMissed, Unmissed, Subscribed, UnderWay
  <1> QED  BY <1>3, <1>4, <1>5 DEF IInv

-----------------------------------------------------------------------------
(* The client.                                                             *)

LEMMA ConsumeStep ==
    ASSUME IInv, NEW s \in Streams, Consume(s)
    PROVE  LET e == Head(events[s])
           IN  /\ events[s] # <<>> /\ e \in Rows
               /\ seen' \in [Streams -> Rows]
               /\ seen'[s] = IF e = Blank THEN seen[s] ELSE e
               /\ events' \in [Streams -> Seq(Rows)]
               /\ events'[s] = <<>> /\ Len(events'[s]) <= 1
               /\ \A u \in Streams : u # s => seen'[u] = seen[u] /\ events'[u] = events[u]
               /\ UNCHANGED <<row, queue, lis, msg, left, target, stream, read,
                              connected, crashed, missed>>
  <1> DEFINE e == Head(events[s])
  <1>1. /\ events[s] # <<>>
        /\ seen' = [seen EXCEPT ![s] = IF e = Blank THEN @ ELSE e]
        /\ events' = [events EXCEPT ![s] = Tail(@)]
        /\ UNCHANGED <<row, queue, lis, msg, left, target, stream, read, connected, crashed, missed>>
    BY DEF Consume
  <1>2. /\ events \in [Streams -> Seq(Rows)] /\ Len(events[s]) <= 1
        /\ seen \in [Streams -> Rows]
    BY DEF IInv, Typed
  <1>3. e \in Rows /\ Tail(events[s]) = <<>>
    BY <1>1, <1>2, TheEvent
  <1> HIDE DEF e
  <1>4. /\ events' = [events EXCEPT ![s] = <<>>] /\ <<>> \in Seq(Rows) /\ Len(<<>>) = 0
    BY <1>1, <1>3, EmptySeq
  <1>5. /\ events' \in [Streams -> Seq(Rows)] /\ events'[s] = <<>>
        /\ \A u \in Streams : u # s => events'[u] = events[u]
    BY <1>2, <1>4
  <1>6. Len(events'[s]) <= 1
    BY <1>4, <1>5
  <1>7. /\ seen' \in [Streams -> Rows] /\ seen'[s] = IF e = Blank THEN seen[s] ELSE e
        /\ \A u \in Streams : u # s => seen'[u] = seen[u]
    BY <1>1, <1>2, <1>3
  <1> QED  BY <1>1, <1>3, <1>5, <1>6, <1>7 DEF e

\* The event is no older than what was seen, and no newer than what is to come.
LEMMA ConsumeInvariant ==
    ASSUME IInv, NEW s \in Streams, Consume(s)
    PROVE  IInv' /\ \A u \in Streams : seen'[u] >= seen[u]
  <1> DEFINE e == Head(events[s])
  <1>1. /\ events[s] # <<>> /\ e \in Rows
        /\ seen' \in [Streams -> Rows] /\ seen'[s] = IF e = Blank THEN seen[s] ELSE e
        /\ events' \in [Streams -> Seq(Rows)] /\ events'[s] = <<>> /\ Len(events'[s]) <= 1
        /\ \A u \in Streams : u # s => seen'[u] = seen[u] /\ events'[u] = events[u]
        /\ UNCHANGED <<row, queue, lis, msg, left, target, stream, read, connected, crashed, missed>>
    BY ConsumeStep
  <1>2. Order(s) /\ \A u \in Streams : Order(u)
    BY DEF IInv, InOrder
  <1>3. /\ Older(seen[s], e) /\ e <= row[s]
        /\ stream[s] = "sending" => Older(seen[s], read[s]) /\ Older(e, read[s])
    BY <1>1, <1>2 DEF Order
  <1>4. Rows \subseteq Nat /\ \A u \in Streams : seen[u] \in Nat /\ row[u] \in Nat
    BY NotifierAssumption DEF IInv, Typed, Rows
  <1>5. e \in Nat /\ seen'[s] \in Nat
    BY <1>1, <1>4
  <1> HIDE DEF e
  <1>6. /\ seen'[s] >= seen[s] /\ seen'[s] <= row[s]
        /\ stream[s] = "sending" => Older(seen'[s], read[s])
    BY <1>1, <1>2, <1>3, <1>4, <1>5 DEF Older, Order, Blank
  <1>7. \A u \in Streams : seen'[u] >= seen[u]
    <2> TAKE u \in Streams
    <2>1. u # s => seen'[u] = seen[u] /\ seen[u] \in Nat
      BY <1>1, <1>4
    <2> QED  BY <1>6, <2>1
  <1>8. Typed' /\ AfterChange'
    BY <1>1 DEF IInv, Typed, AfterChange
  <1>9. InOrder'
    BY <1>1, <1>2, <1>6 DEF InOrder, Order
  <1>10. Registered'
    BY <1>1 DEF IInv, Registered, Subscribed
  <1>11. NoneMissed'
    <2> SUFFICES ASSUME NEW u \in Streams PROVE Unmissed(u)'
      BY DEF NoneMissed, Unmissed
    <2>1. Unmissed(u)
      BY DEF IInv, NoneMissed, Unmissed
    <2>2. CASE u # s
      BY <1>1, <2>1, <2>2 DEF Unmissed, Subscribed, UnderWay
    <2>3. CASE u = s
      <3>1. seen[s] = row[s] => seen'[s] = row[s]
        BY <1>4, <1>6, <1>5
      <3>2. e = row[s] => seen'[s] = row[s]
        BY <1>1, <1>2, <1>4, <1>5 DEF Order, Blank
      <3> QED  BY <1>1, <2>1, <2>3, <3>1, <3>2 DEF Unmissed, Subscribed, UnderWay, e
    <2> QED  BY <2>2, <2>3
  <1> QED  BY <1>7, <1>8, <1>9, <1>10, <1>11 DEF IInv

LEMMA DisconnectInvariant ==
    ASSUME IInv, NEW s \in Streams, Disconnect(s)
    PROVE  IInv'
  <1>1. /\ connected' = [connected EXCEPT ![s] = FALSE]
        /\ UNCHANGED <<row, queue, lis, msg, left, target, stream, read, events, seen, crashed, missed>>
    BY DEF Disconnect
  <1>2. /\ connected' \in [Streams -> BOOLEAN]
        /\ \A u \in Streams : connected'[u] => connected[u]
    BY <1>1 DEF IInv, Typed
  <1>3. Typed' /\ AfterChange'
    BY <1>1, <1>2 DEF IInv, Typed, AfterChange
  <1>4. InOrder' /\ Registered'
    BY <1>1 DEF IInv, InOrder, Order, Registered, Subscribed
  <1>5. NoneMissed'
    BY <1>1, <1>2 DEF IInv, NoneMissed, Unmissed, Subscribed, UnderWay
  <1> QED  BY <1>3, <1>4, <1>5 DEF IInv

LEMMA UnchangedInvariant ==
    ASSUME IInv, crashed' \in BOOLEAN,
           UNCHANGED <<row, queue, lis, msg, left, target, stream, read, events, seen,
                       connected, missed>>
    PROVE  IInv'
  <1>1. Typed' /\ AfterChange'
    BY DEF IInv, Typed, AfterChange
  <1>2. InOrder' /\ Registered'
    BY DEF IInv, InOrder, Order, Registered, Subscribed
  <1>3. NoneMissed'
    BY DEF IInv, NoneMissed, Unmissed, Subscribed, UnderWay
  <1> QED  BY <1>1, <1>2, <1>3 DEF IInv

-----------------------------------------------------------------------------
LEMMA NextInvariant == IInv /\ [Next]_vars => IInv'
  <1> SUFFICES ASSUME IInv, [Next]_vars PROVE IInv'
    OBVIOUS
  <1>1. CASE Reconnect
    BY <1>1, ReconnectInvariant
  <1>2. CASE Broadcast
    BY <1>2, TakeInvariant, ReachInvariant, EndBroadcastInvariant DEF Broadcast
  <1>3. ASSUME NEW s \in Streams, Step(s) PROVE IInv'
    <2>1. CASE Change(s)
      BY <2>1, ChangeInvariant
    <2>2. CASE Subscribe(s)
      BY <2>2, SubscribeInvariant
    <2>3. CASE Stream(s)
      BY <2>3, FirstInvariant, ReceiveInvariant, ReadInvariant, SendInvariant,
         StopInvariant DEF Stream
    <2>4. CASE Consume(s)
      BY <2>4, ConsumeInvariant
    <2>5. CASE Disconnect(s)
      BY <2>5, DisconnectInvariant
    <2>6. CASE Abort(s)
      BY <2>6, UnchangedInvariant DEF Abort
    <2> QED  BY <1>3, <2>1, <2>2, <2>3, <2>4, <2>5, <2>6 DEF Step
  <1>4. CASE UNCHANGED vars
    <2>1. crashed' \in BOOLEAN
      BY <1>4 DEF vars, IInv, Typed
    <2> QED  BY <1>4, <2>1, UnchangedInvariant DEF vars
  <1> QED  BY <1>1, <1>2, <1>3, <1>4 DEF Next

\* The inductive invariant holds in every state that can be reached.
THEOREM Invariant == Spec => []IInv
  BY InitInvariant, NextInvariant, PTL DEF Spec

-----------------------------------------------------------------------------
\* Every variable has the values meant, and no client's channel holds more than
\* its one event.
THEOREM TypeCorrect == Spec => []TypeOK
  <1>1. IInv => TypeOK
    <2> SUFFICES ASSUME IInv PROVE TypeOK
      OBVIOUS
    <2>1. ASSUME NEW i \in 1..Len(queue) PROVE queue[i].user \in Streams
      <3>1. queue[i] \in Notifications
        BY DEF IInv, Typed
      <3> QED  BY <3>1 DEF Notifications
    <2>2. ASSUME NEW s \in Streams
          PROVE  {row[s], read[s], seen[s]} \subseteq 0..MaxChanges[s] + 1
      <3>1. /\ row[s] \in Nat /\ read[s] \in Nat /\ seen[s] \in Nat /\ MaxChanges[s] \in Nat
            /\ row[s] <= MaxChanges[s] + 1
        BY NotifierAssumption DEF IInv, Typed, Rows
      <3>2. read[s] <= row[s] /\ seen[s] <= row[s]
        BY DEF IInv, InOrder, Order
      <3> QED  BY <3>1, <3>2
    <2> QED  BY <2>1, <2>2 DEF IInv, Typed, Phases, TypeOK
  <1> QED  BY <1>1, Invariant, PTL

\* The snapshot at subscription and the broadcasts overlap, f reads the row after
\* it was told of it, notifications are lost and queries fail; still a client
\* never sees its row go back in time.
THEOREM ClientsMoveForward == Spec => NeverOlder
  <1> DEFINE Forward == \A s \in Streams : seen'[s] >= seen[s]
  <1>1. IInv /\ [Next]_vars => [Forward]_vars
    <2> SUFFICES ASSUME IInv, [Next]_vars, ~UNCHANGED vars PROVE Forward
      BY DEF vars
    <2>1. UNCHANGED seen => Forward
      BY NotifierAssumption DEF IInv, Typed, Rows
    <2>2. CASE UNCHANGED seen
      BY <2>1, <2>2
    <2>3. ASSUME NEW s \in Streams, Consume(s) PROVE Forward
      BY <2>3, ConsumeInvariant
    <2> HIDE DEF Forward
    <2> QED
      BY <2>2, <2>3
         DEF Next, Reconnect, Broadcast, Take, Reach, EndBroadcast, Step, Change, Subscribe,
             Stream, First, Receive, Read, Send, Stop, Disconnect, Abort
  <1> QED  BY <1>1, Invariant, PTL DEF Spec, NeverOlder

\* No update falls between the reading at subscription and the broadcasts: a
\* client that is subscribed has seen its row as it is, or an event, a reading or
\* a notification of it is under way, unless a notification was lost or a query
\* failed since the row was last read.
THEOREM UpdatesAreUnderWay == Spec => []NoneMissed
  <1>1. IInv => NoneMissed
    BY DEF IInv
  <1> QED  BY <1>1, Invariant, PTL
=============================================================================
