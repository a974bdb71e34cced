----------------------- MODULE ClientConnectionProofs -----------------------
(***************************************************************************)
(* Theorems about ClientConnection: its types, that what the client        *)
(* receives is a prefix of what send() accepted but for one direct line,   *)
(* and that the writer is told to stop at most once.                       *)
(***************************************************************************)
EXTENDS ClientConnection, FiniteSetTheorems, TLAPS

\* A thread inside send() has a message, and the writer is created by the handler's
\* registry.add(), once.
ThreadInv ==
    /\ \A t \in Thread : pc[t] \in {"lookup", "enqueue"} => msg[t] \in Message
    /\ pc[Handler] = "add" => wpc = "none" /\ ~registered
    /\ \A t \in Others : pc[t] # "add"

\* A thread that has taken the client out and will stop the writer.
Stopping(t) == pc[t] \in {"stop", "unstop"}

\* The right to put the sentinel is with the registry's entry, then with one thread,
\* then it is spent.
StopInv ==
    /\ registered \/ pc[Handler] = "add" =>
          /\ \A t \in Thread : ~Stopping(t)
          /\ \A i \in 1..Len(queue) : queue[i] # STOP
    /\ \A t, u \in Thread : Stopping(t) /\ Stopping(u) => t = u
    /\ \A t \in Thread : Stopping(t) => \A i \in 1..Len(queue) : queue[i] # STOP
    /\ \A i, j \in 1..Len(queue) : queue[i] = STOP /\ queue[j] = STOP => i = j

\* The handler refuses a client that was taken out, and ends after it: no second
\* direct line follows.
DirectInv ==
    /\ pc[Handler] = "refuse" => ~registered
    /\ DirectWithin(wire, Len(wire)) => ~registered /\ pc[Handler] \in {"remove", "close", "done"}

\* The number of messages the writer has taken off the queue and not yet sent.
Held == IF wpc \in {"send", "blocked"} THEN 1 ELSE 0

\* There is no sentinel among the first n entries of the queue.
NoStop(n) == \A j \in 1..n : queue[j] # STOP

\* The number of messages that reached the client through the queue.
Written == QueuedWithin(wire, Len(wire))

\* The client has received the first messages accepted.  While the writer lives, it
\* holds the next one or none, and the queue up to the sentinel has those that
\* follow; without a sentinel it has all of them.
OrderInv ==
    /\ Written <= Len(accepted)
    /\ \A i \in 1..Len(wire) : InTurn(wire, accepted, i)
    /\ wpc \in {"send", "blocked"} => Written < Len(accepted) /\ item = accepted[Written + 1]
    /\ wpc \notin {"shutdown", "done"} =>
          /\ \A i \in 1..Len(queue) : NoStop(i) =>
                /\ Written + Held + i <= Len(accepted)
                /\ queue[i] = accepted[Written + Held + i]
          /\ NoStop(Len(queue)) => Len(accepted) = Written + Held + Len(queue)

ConnectionInv == ConnectionTypeOK /\ ThreadInv /\ StopInv /\ DirectInv /\ OrderInv
-----------------------------------------------------------------------------
USE ConnectionAssumption

LEMMA MessageFacts == /\ STOP \notin Message /\ NoItem \notin Message /\ OK \in Message
                      /\ KICK \in Message /\ (Message \cup {STOP, NoItem}) \subseteq Int
                      /\ NOT_AUTHENTICATED \notin Message
BY DEF STOP, NoItem, NOT_AUTHENTICATED, OK, KICK, Message

\* The client receives one more line: the earlier lines keep their turn.
LEMMA LineAdded ==
    ASSUME wire \in Seq(Message \cup {NOT_AUTHENTICATED}),
           NEW m \in Message \cup {NOT_AUTHENTICATED}, wire' = Append(wire, m)
    PROVE  /\ Len(wire') = Len(wire) + 1 /\ Len(wire) \in Nat /\ wire'[Len(wire) + 1] = m
           /\ \A i \in 1..Len(wire) : wire'[i] = wire[i]
           /\ \A n \in 0..Len(wire) : DirectWithin(wire', n) <=> DirectWithin(wire, n)
           /\ \A n \in 0..Len(wire) : QueuedWithin(wire', n) = QueuedWithin(wire, n)
           /\ DirectWithin(wire', Len(wire')) <=>
                 DirectWithin(wire, Len(wire)) \/ m = NOT_AUTHENTICATED
<1>1. /\ Len(wire') = Len(wire) + 1 /\ Len(wire) \in Nat /\ wire'[Len(wire) + 1] = m
      /\ \A i \in 1..Len(wire) : wire'[i] = wire[i]
    OBVIOUS
<1>2. \A n \in 0..Len(wire) : DirectWithin(wire', n) <=> DirectWithin(wire, n)
    BY <1>1 DEF DirectWithin
<1>3. DirectWithin(wire', Len(wire')) <=> DirectWithin(wire, Len(wire)) \/ m = NOT_AUTHENTICATED
    BY <1>1 DEF DirectWithin
<1>4. \A n \in 0..Len(wire) : QueuedWithin(wire', n) = QueuedWithin(wire, n)
    BY <1>2 DEF QueuedWithin
<1>5. QED
    BY <1>1, <1>2, <1>3, <1>4

\* The messages a client received through its queue are at most the lines it received.
LEMMA QueuedIsNat ==
    ASSUME NEW w, NEW n \in Nat
    PROVE  QueuedWithin(w, n) \in Nat /\ (~DirectWithin(w, n) => QueuedWithin(w, n) = n)
BY DEF QueuedWithin, DirectWithin

LEMMA QueuedGrows ==
    ASSUME NEW w, NEW n \in Nat, NEW i \in 1..n, w[i] # NOT_AUTHENTICATED
    PROVE  QueuedWithin(w, i) \in 1..QueuedWithin(w, n)
<1>1. CASE DirectWithin(w, i)
    <2>1. DirectWithin(w, n)
        BY <1>1 DEF DirectWithin
    <2>2. i # 1
        BY <1>1 DEF DirectWithin
    <2>3. QED
        BY <1>1, <2>1, <2>2 DEF QueuedWithin
<1>2. CASE ~DirectWithin(w, i)
    <2>1. DirectWithin(w, n) => i < n
        BY <1>2 DEF DirectWithin
    <2>2. QED
        BY <1>2, <2>1 DEF QueuedWithin
<1>3. QED
    BY <1>1, <1>2

LEMMA InitInv == Init => ConnectionInv
<1> SUFFICES ASSUME Init PROVE ConnectionInv
    OBVIOUS
<1>1. ConnectionTypeOK
    <2>1. /\ pc \in [Thread -> ThreadPC] /\ msg \in [Thread -> Message \cup {NoItem}]
          /\ sent \in 0..MaxChat
        BY DEF Init, Thread, ThreadPC
    <2>2. /\ queue \in Seq(Message \cup {STOP}) /\ Len(queue) <= QueueSize
          /\ wire \in Seq(Message \cup {NOT_AUTHENTICATED}) /\ accepted \in Seq(Message)
        BY DEF Init
    <2>3. QED
        BY <2>1, <2>2 DEF Init, ConnectionTypeOK, WriterPC
<1>2. ThreadInv
    BY DEF Init, ThreadInv, Thread
<1>3. StopInv
    BY DEF Init, StopInv, Thread, Stopping
<1>4. ~DirectWithin(wire, Len(wire)) /\ Written = 0
    BY DEF Init, DirectWithin, Written, QueuedWithin
<1>5. OrderInv
    BY <1>4 DEF Init, OrderInv, Held, NoStop
<1>6. DirectInv
    BY <1>4 DEF Init, DirectInv, Thread
<1>7. QED
    BY <1>1, <1>2, <1>3, <1>5, <1>6 DEF ConnectionInv

LEMMA WrittenIsNat == ConnectionInv => Written \in Nat /\ Len(wire) \in Nat
BY QueuedIsNat DEF ConnectionInv, ConnectionTypeOK, Written

LEMMA HeldIsMessage == ConnectionInv /\ wpc \in {"send", "blocked"} => item \in Message
<1> SUFFICES ASSUME ConnectionInv, wpc \in {"send", "blocked"} PROVE item \in Message
    OBVIOUS
<1>1. Written \in Nat /\ Written < Len(accepted) /\ item = accepted[Written + 1]
    BY WrittenIsNat DEF ConnectionInv, OrderInv
<1>2. QED
    BY <1>1 DEF ConnectionInv, ConnectionTypeOK

\* The steps of the peer and the writer.
LEMMA WriterKeepsTypes ==
    ASSUME ConnectionInv, PeerStall \/ PeerResume \/ PeerLeave \/ WriterStep
    PROVE  ConnectionTypeOK'
<1> USE DEF ConnectionInv, ConnectionTypeOK, WriterPC
<1>1. CASE PeerStall \/ PeerResume \/ PeerLeave
    BY <1>1 DEF PeerStall, PeerResume, PeerLeave, writerVars, sockVars, threadVars
<1>2. CASE WriterGet
    BY <1>2, MessageFacts DEF WriterGet, sockVars, threadVars
<1>3. CASE WriterSend
    <2>1. item \in Message
        BY <1>3, HeldIsMessage DEF WriterSend
    <2>2. Append(wire, item) \in Seq(Message \cup {NOT_AUTHENTICATED})
        BY <2>1
    <2>3. wire' \in Seq(Message \cup {NOT_AUTHENTICATED})
        BY <1>3, <2>2 DEF WriterSend
    <2>4. wpc' \in WriterPC /\ item' \in Message \cup {NoItem}
        BY <1>3, <2>1 DEF WriterSend
    <2>5. QED
        BY <1>3, <2>3, <2>4 DEF WriterSend, sockVars, threadVars
<1>4. CASE WriterUnblock
    <2>1. item \in Message
        BY <1>4, HeldIsMessage DEF WriterUnblock
    <2>2. Append(wire, item) \in Seq(Message \cup {NOT_AUTHENTICATED})
        BY <2>1
    <2>3. wire' \in Seq(Message \cup {NOT_AUTHENTICATED})
        BY <1>4, <2>2 DEF WriterUnblock
    <2>4. QED
        BY <1>4, <2>3 DEF WriterUnblock, sockVars, threadVars
<1>5. CASE WriterShutdown
    BY <1>5 DEF WriterShutdown, threadVars
<1>6. QED
    BY <1>1, <1>2, <1>3, <1>4, <1>5 DEF WriterStep

\* The steps of the other threads.
LEMMA ThreadKeepsTypes ==
    ASSUME ConnectionInv, NEW t \in Thread,
           \/ ThreadStep(t)
           \/ t \in Others /\ (StartBroadcast(t) \/ StartKick(t))
           \/ t = Handler /\ (HandlerStep \/ LineArrives \/ LongLineArrives)
    PROVE  ConnectionTypeOK'
<1> USE DEF ConnectionInv, ConnectionTypeOK, ThreadPC, Goto
<1>1. CASE Lookup(t)
    BY <1>1 DEF Lookup, Refused, writerVars, sockVars
<1>2. CASE Enqueue(t)
    <2>1. msg[t] \in Message
        BY <1>2 DEF Enqueue, ThreadInv
    <2>2. /\ Append(queue, msg[t]) \in Seq(Message \cup {STOP})
          /\ Len(queue) < QueueSize => Len(Append(queue, msg[t])) <= QueueSize
          /\ Append(accepted, msg[t]) \in Seq(Message)
        BY <2>1
    <2>3. /\ queue' \in Seq(Message \cup {STOP}) /\ Len(queue') <= QueueSize
          /\ accepted' \in Seq(Message)
        BY <1>2, <2>2 DEF Enqueue
    <2>4. pc' \in [Thread -> ThreadPC]
        BY <1>2 DEF Enqueue, Sent, Refused
    <2>5. QED
        BY <1>2, <2>3, <2>4 DEF Enqueue, sockVars
<1>3. CASE CleanUpRemove(t) \/ Unregister(t) \/ Close(t)
    BY <1>3 DEF CleanUpRemove, Unregister, Close, End, writerVars, sockVars
<1>4. CASE Stop(t)
    <2>1. /\ Append(queue, STOP) \in Seq(Message \cup {STOP})
          /\ Len(queue) < QueueSize => Len(Append(queue, STOP)) <= QueueSize
        OBVIOUS
    <2>2. queue' \in Seq(Message \cup {STOP}) /\ Len(queue') <= QueueSize
        BY <1>4, <2>1 DEF Stop
    <2>3. pc' \in [Thread -> ThreadPC] /\ shut' \in BOOLEAN
        BY <1>4 DEF Stop, End
    <2>4. QED
        BY <1>4, <2>2, <2>3 DEF Stop
<1>5. CASE StartBroadcast(t) \/ StartKick(t)
    <2>1. sent < MaxChat => sent + 1 \in Message /\ sent + 1 \in 0..MaxChat
        BY DEF Message
    <2>2. sent' \in 0..MaxChat /\ msg' \in [Thread -> Message \cup {NoItem}]
        BY <1>5, <2>1, MessageFacts DEF StartBroadcast, StartKick
    <2>3. pc' \in [Thread -> ThreadPC]
        BY <1>5 DEF StartBroadcast, StartKick
    <2>4. QED
        BY <1>5, <2>2, <2>3 DEF StartBroadcast, StartKick, writerVars, sockVars
<1>6. CASE t = Handler /\ AddClient
    BY <1>6, MessageFacts DEF AddClient, sockVars, WriterPC
<1>7. CASE t = Handler /\ (HandleLine \/ LongLineArrives)
    <2>1. sent < MaxChat => sent + 1 \in Message /\ sent + 1 \in 0..MaxChat
        BY DEF Message
    <2>2. sent' \in 0..MaxChat /\ msg' \in [Thread -> Message \cup {NoItem}]
        BY <1>7, <2>1 DEF HandleLine, LongLineArrives
    <2>3. pc' \in [Thread -> ThreadPC]
        BY <1>7 DEF HandleLine, LongLineArrives
    <2>4. QED
        BY <1>7, <2>2, <2>3 DEF HandleLine, LongLineArrives, writerVars, sockVars
<1>8. CASE t = Handler /\ (ReadLine \/ ReadEnd \/ LineArrives \/ LineOfRemovedClient)
    BY <1>8 DEF ReadLine, ReadEnd, LineArrives, LineOfRemovedClient, writerVars, sockVars
<1>9. CASE t = Handler /\ RefuseLine
    <2>1. Append(wire, NOT_AUTHENTICATED) \in Seq(Message \cup {NOT_AUTHENTICATED})
        OBVIOUS
    <2>2. wire' \in Seq(Message \cup {NOT_AUTHENTICATED})
        BY <1>9, <2>1 DEF RefuseLine
    <2>3. QED
        BY <1>9, <2>2 DEF RefuseLine, sockVars
<1>10. QED
    BY <1>1, <1>2, <1>3, <1>4, <1>5, <1>6, <1>7, <1>8, <1>9 DEF ThreadStep, HandlerStep

\* What the steps do to the queue, index by index.
LEMMA QueueTail ==
    ASSUME ConnectionTypeOK, queue # <<>>, queue' = Tail(queue)
    PROVE  /\ Head(queue) = queue[1] /\ Len(queue') = Len(queue) - 1 /\ Len(queue) \in Nat \ {0}
           /\ \A i \in 1..Len(queue') : queue'[i] = queue[i + 1]
BY DEF ConnectionTypeOK

LEMMA QueueAppend ==
    ASSUME ConnectionTypeOK, NEW m \in Message \cup {STOP}, queue' = Append(queue, m)
    PROVE  /\ Len(queue) \in Nat /\ Len(queue') = Len(queue) + 1
           /\ \A i \in 1..Len(queue) : queue'[i] = queue[i]
           /\ queue'[Len(queue) + 1] = m
BY DEF ConnectionTypeOK

\* What send() and the handler say of the message and the writer stays true.
LEMMA ThreadInvKept ==
    ASSUME ConnectionInv, Next
    PROVE  ThreadInv'
<1> USE DEF ConnectionInv, ConnectionTypeOK, ThreadInv, Thread, Goto
<1>1. CASE PeerStall \/ PeerResume \/ PeerLeave
    BY <1>1 DEF PeerStall, PeerResume, PeerLeave, writerVars, threadVars
<1>2. CASE WriterStep
    BY <1>2 DEF WriterStep, WriterGet, WriterSend, WriterUnblock, WriterShutdown, threadVars
<1>3. ASSUME NEW t \in Thread, ThreadStep(t) PROVE ThreadInv'
    <2>1. CASE Lookup(t)
        BY <2>1 DEF Lookup, Refused, writerVars
    <2>2. CASE Enqueue(t)
        BY <2>2 DEF Enqueue, Sent, Refused
    <2>3. CASE CleanUpRemove(t) \/ Unregister(t) \/ Close(t)
        BY <2>3 DEF CleanUpRemove, Unregister, Close, End, writerVars
    <2>4. CASE Stop(t)
        BY <2>4 DEF Stop, End
    <2>5. QED
        BY <1>3, <2>1, <2>2, <2>3, <2>4 DEF ThreadStep
<1>4. ASSUME NEW t \in Others, StartBroadcast(t) \/ StartKick(t) PROVE ThreadInv'
    <2>1. sent < MaxChat => sent + 1 \in Message
        BY DEF Message
    <2>2. QED
        BY <1>4, <2>1, MessageFacts DEF StartBroadcast, StartKick, writerVars
<1>5. CASE HandleLine \/ LongLineArrives
    <2>1. sent < MaxChat => sent + 1 \in Message
        BY DEF Message
    <2>2. QED
        BY <1>5, <2>1 DEF HandleLine, LongLineArrives, writerVars
<1>6. CASE AddClient
    BY <1>6, MessageFacts DEF AddClient
<1>7. CASE ReadLine \/ ReadEnd \/ LineArrives \/ LineOfRemovedClient \/ RefuseLine
    BY <1>7 DEF ReadLine, ReadEnd, LineArrives, LineOfRemovedClient, RefuseLine, writerVars
<1>8. QED
    BY <1>1, <1>2, <1>3, <1>4, <1>5, <1>6, <1>7 DEF Next, HandlerStep

\* The right to stop the writer is handed on and never doubled.
LEMMA StopInvKept ==
    ASSUME ConnectionInv, Next
    PROVE  StopInv'
<1> USE DEF ConnectionInv, StopInv, Stopping, Thread, Goto
<1> pc \in [Thread -> ThreadPC]
    BY DEF ConnectionTypeOK
<1>1. CASE PeerStall \/ PeerResume \/ PeerLeave
    BY <1>1 DEF PeerStall, PeerResume, PeerLeave, writerVars, threadVars
<1>2. CASE WriterGet
    <2>1. /\ Len(queue') = Len(queue) - 1 /\ Len(queue) \in Nat \ {0}
          /\ \A i \in 1..Len(queue') : queue'[i] = queue[i + 1]
        BY <1>2, QueueTail DEF WriterGet
    <2>2. UNCHANGED <<registered, pc>>
        BY <1>2 DEF WriterGet, threadVars
    <2>3. \A i \in 1..Len(queue') : i + 1 \in 1..Len(queue)
        BY <2>1
    <2>4. \A i, j \in 1..Len(queue') : queue'[i] = STOP /\ queue'[j] = STOP => i = j
        BY <2>1, <2>3
    <2>5. (\A i \in 1..Len(queue) : queue[i] # STOP) => \A i \in 1..Len(queue') : queue'[i] # STOP
        BY <2>1, <2>3
    <2>6. QED
        BY <2>2, <2>4, <2>5
<1>3. CASE WriterSend \/ WriterUnblock \/ WriterShutdown
    BY <1>3 DEF WriterSend, WriterUnblock, WriterShutdown, threadVars
<1>4. ASSUME NEW t \in Thread, ThreadStep(t) PROVE StopInv'
    <2>1. CASE Lookup(t)
        BY <2>1 DEF Lookup, Refused, writerVars
    <2>2. CASE Enqueue(t)
        <3>1. UNCHANGED registered /\ pc' = [pc EXCEPT ![t] = pc'[t]] /\ ~Stopping(t)'
              /\ (pc[Handler] = "add" <=> pc'[Handler] = "add")
            BY <2>2 DEF Enqueue, Sent, Refused
        <3>2. CASE UNCHANGED queue
            BY <3>1, <3>2
        <3>3. CASE queue' = Append(queue, msg[t])
            <4>1. msg[t] \in Message /\ msg[t] # STOP
                BY <2>2, MessageFacts DEF Enqueue, ThreadInv
            <4>2. /\ Len(queue) \in Nat /\ Len(queue') = Len(queue) + 1
                  /\ \A i \in 1..Len(queue) : queue'[i] = queue[i]
                  /\ queue'[Len(queue) + 1] # STOP
                BY <3>3, <4>1, QueueAppend
            <4>3. \A i \in 1..Len(queue') : queue'[i] = STOP =>
                      i \in 1..Len(queue) /\ queue[i] = STOP
                BY <4>2
            <4>4. QED
                BY <3>1, <4>3
        <3>4. QED
            BY <2>2, <3>2, <3>3 DEF Enqueue
    <2>3. CASE CleanUpRemove(t) \/ Unregister(t)
        BY <2>3 DEF CleanUpRemove, Unregister, writerVars, ThreadInv
    <2>4. CASE Close(t)
        BY <2>4 DEF Close, End, writerVars
    <2>5. CASE Stop(t)
        <3>1. /\ Stopping(t) /\ ~Stopping(t)' /\ UNCHANGED registered /\ ~registered
              /\ pc[Handler] # "add" /\ pc'[Handler] # "add"
              /\ \A u \in Thread \ {t} : ~Stopping(u) /\ ~Stopping(u)'
              /\ \A i \in 1..Len(queue) : queue[i] # STOP
            BY <2>5 DEF Stop, End
        <3>2. CASE UNCHANGED queue
            BY <3>1, <3>2
        <3>3. CASE queue' = Append(queue, STOP)
            <4>1. /\ Len(queue) \in Nat /\ Len(queue') = Len(queue) + 1
                  /\ \A i \in 1..Len(queue) : queue'[i] = queue[i]
                BY <3>3, QueueAppend
            <4>2. \A i \in 1..Len(queue') : queue'[i] = STOP => i = Len(queue) + 1
                BY <3>1, <4>1
            <4>3. QED
                BY <3>1, <4>2
        <3>4. QED
            BY <2>5, <3>2, <3>3 DEF Stop
    <2>6. QED
        BY <1>4, <2>1, <2>2, <2>3, <2>4, <2>5 DEF ThreadStep
<1>5. ASSUME NEW t \in Others, StartBroadcast(t) \/ StartKick(t) PROVE StopInv'
    BY <1>5 DEF StartBroadcast, StartKick, writerVars
<1>6. CASE AddClient
    BY <1>6 DEF AddClient
<1>7. CASE \/ HandleLine \/ ReadLine \/ ReadEnd \/ LineArrives \/ LongLineArrives
           \/ LineOfRemovedClient \/ RefuseLine
    BY <1>7 DEF HandleLine, ReadLine, ReadEnd, LineArrives, LongLineArrives,
                LineOfRemovedClient, RefuseLine, writerVars
<1>8. QED
    BY <1>1, <1>2, <1>3, <1>4, <1>5, <1>6, <1>7 DEF Next, HandlerStep, WriterStep

\* The handler sends its direct line once, after the client was taken out.
LEMMA DirectInvKept ==
    ASSUME ConnectionInv, Next
    PROVE  DirectInv'
<1> USE DEF ConnectionInv, DirectInv, Thread, Goto
<1> pc \in [Thread -> ThreadPC]
    BY DEF ConnectionTypeOK
<1>1. CASE PeerStall \/ PeerResume \/ PeerLeave
    BY <1>1 DEF PeerStall, PeerResume, PeerLeave, writerVars, threadVars
<1>2. CASE WriterStep
    <2>1. UNCHANGED <<registered, pc>>
        BY <1>2 DEF WriterStep, WriterGet, WriterSend, WriterUnblock, WriterShutdown, threadVars
    <2>2. CASE UNCHANGED wire
        BY <2>1, <2>2
    <2>3. CASE wpc \in {"send", "blocked"} /\ wire' = Append(wire, item)
        <3>1. item \in Message /\ item # NOT_AUTHENTICATED
            BY <2>3, HeldIsMessage, MessageFacts
        <3>2. wire \in Seq(Message \cup {NOT_AUTHENTICATED})
            BY DEF ConnectionTypeOK
        <3>3. DirectWithin(wire', Len(wire')) <=> DirectWithin(wire, Len(wire))
            BY <2>3, <3>1, <3>2, LineAdded
        <3>4. QED
            BY <2>1, <3>3
    <2>4. QED
        BY <1>2, <2>2, <2>3 DEF WriterStep, WriterGet, WriterSend, WriterUnblock, WriterShutdown
<1>3. ASSUME NEW t \in Thread, ThreadStep(t) PROVE DirectInv'
    <2>1. CASE Lookup(t)
        BY <2>1 DEF Lookup, Refused, writerVars
    <2>2. CASE Enqueue(t)
        BY <2>2 DEF Enqueue, Sent, Refused
    <2>3. CASE CleanUpRemove(t) \/ Unregister(t) \/ Close(t)
        BY <2>3 DEF CleanUpRemove, Unregister, Close, End, writerVars
    <2>4. CASE Stop(t)
        BY <2>4 DEF Stop, End
    <2>5. QED
        BY <1>3, <2>1, <2>2, <2>3, <2>4 DEF ThreadStep
<1>4. ASSUME NEW t \in Others, StartBroadcast(t) \/ StartKick(t) PROVE DirectInv'
    BY <1>4 DEF StartBroadcast, StartKick, writerVars
<1>5. CASE AddClient
    BY <1>5 DEF AddClient
<1>6. CASE \/ HandleLine \/ ReadLine \/ ReadEnd \/ LineArrives \/ LongLineArrives
           \/ LineOfRemovedClient \/ RefuseLine
    BY <1>6 DEF HandleLine, ReadLine, ReadEnd, LineArrives, LongLineArrives,
                LineOfRemovedClient, RefuseLine, writerVars
<1>7. QED
    BY <1>1, <1>2, <1>3, <1>4, <1>5, <1>6 DEF Next, HandlerStep

\* A step that leaves the queue, what was received and what was accepted alone.
LEMMA OrderStutter ==
    ASSUME OrderInv, UNCHANGED <<queue, wire, accepted, item>>,
           wpc' = wpc \/ (wpc = "none" /\ wpc' = "get")
    PROVE  OrderInv'
BY DEF OrderInv, Held, NoStop, Written, QueuedWithin, DirectWithin, InTurn

\* Taking the next message off the queue.
LEMMA GetKeepsOrder ==
    ASSUME ConnectionInv, WriterGet
    PROVE  OrderInv'
<1> USE DEF ConnectionInv, OrderInv
<1>1. /\ Head(queue) = queue[1] /\ Len(queue') = Len(queue) - 1 /\ Len(queue) \in Nat \ {0}
      /\ \A i \in 1..Len(queue') : queue'[i] = queue[i + 1]
    BY QueueTail DEF WriterGet
<1>2. /\ UNCHANGED <<wire, accepted>> /\ wpc = "get" /\ Len(accepted) \in Nat
      /\ Written \in Nat /\ Written' = Written
      /\ \A i \in 1..Len(wire') : InTurn(wire', accepted', i)
    BY WrittenIsNat DEF WriterGet, ConnectionTypeOK, Written
<1>3. CASE queue[1] = STOP
    BY <1>1, <1>2, <1>3 DEF WriterGet
<1>4. CASE queue[1] # STOP
    <2>1. wpc' = "send" /\ item' = queue[1] /\ Held = 0 /\ Held' = 1
        BY <1>1, <1>2, <1>4 DEF WriterGet, Held
    <2>2. \A i \in 0..Len(queue') : NoStop(i)' => NoStop(i + 1)
        <3> SUFFICES ASSUME NEW i \in 0..Len(queue'), NoStop(i)', NEW j \in 1..(i + 1)
                     PROVE  queue[j] # STOP
            BY DEF NoStop
        <3>1. CASE j = 1
            BY <1>4, <3>1
        <3>2. CASE j # 1
            <4>1. j - 1 \in 1..i /\ j - 1 \in 1..Len(queue') /\ (j - 1) + 1 = j
                BY <1>1, <3>2
            <4>2. queue'[j - 1] # STOP /\ queue'[j - 1] = queue[(j - 1) + 1]
                BY <1>1, <4>1 DEF NoStop
            <4>3. QED
                BY <4>1, <4>2
        <3>3. QED
            BY <3>1, <3>2
    <2>3. Written + 1 <= Len(accepted) /\ queue[1] = accepted[Written + 1]
        <3>1. NoStop(1)
            BY <1>4 DEF NoStop
        <3>2. QED
            BY <1>1, <1>2, <2>1, <3>1
    <2>4. ASSUME NEW i \in 1..Len(queue'), NoStop(i)'
          PROVE  /\ Written + 1 + i <= Len(accepted)
                 /\ queue'[i] = accepted[Written + 1 + i]
        <3>1. NoStop(i + 1) /\ i + 1 \in 1..Len(queue) /\ queue'[i] = queue[i + 1]
            BY <1>1, <2>2, <2>4
        <3>2. /\ Written + Held + (i + 1) <= Len(accepted)
              /\ queue[i + 1] = accepted[Written + Held + (i + 1)]
            BY <1>2, <3>1
        <3>3. Written + Held + (i + 1) = Written + 1 + i
            BY <1>2, <2>1
        <3>4. QED
            BY <3>1, <3>2, <3>3
    <2>5. ASSUME NoStop(Len(queue))' PROVE Len(accepted) = Written + 1 + Len(queue')
        <3>1. NoStop(Len(queue))
            BY <1>1, <2>2, <2>5 DEF NoStop
        <3>2. Len(accepted) = Written + Held + Len(queue)
            BY <1>2, <3>1
        <3>3. QED
            BY <1>1, <1>2, <2>1, <3>2
    <2>6. QED
        BY <1>2, <2>1, <2>3, <2>4, <2>5 DEF NoStop
<1>5. QED
    BY <1>3, <1>4

\* The end of sendall(): the message has arrived, or the writer is about to end.
LEMMA SendKeepsOrder ==
    ASSUME ConnectionInv, WriterSend \/ WriterUnblock
    PROVE  OrderInv'
<1> USE DEF ConnectionInv, OrderInv
<1>1. /\ UNCHANGED <<queue, accepted>> /\ wpc \in {"send", "blocked"} /\ Held = 1
      /\ Written \in Nat /\ Len(accepted) \in Nat /\ Len(queue) \in Nat
    BY WrittenIsNat DEF WriterSend, WriterUnblock, ConnectionTypeOK, Held
<1>2. UNCHANGED wire => Written' = Written
    BY DEF Written
<1>3. CASE wpc' = "shutdown" /\ UNCHANGED wire
    BY <1>1, <1>2, <1>3
<1>4. CASE wpc' = "blocked" /\ UNCHANGED <<wire, item>>
    BY <1>1, <1>2, <1>4 DEF Held, NoStop
<1>5. CASE wpc' = "get" /\ wire' = Append(wire, item)
    <2>1. /\ item \in Message /\ item # NOT_AUTHENTICATED
          /\ item = accepted[Written + 1] /\ Written < Len(accepted)
        BY <1>1, HeldIsMessage, MessageFacts
    <2>2. wire \in Seq(Message \cup {NOT_AUTHENTICATED})
        BY DEF ConnectionTypeOK
    <2>3. /\ Len(wire') = Len(wire) + 1 /\ Len(wire) \in Nat /\ wire'[Len(wire) + 1] = item
          /\ \A i \in 1..Len(wire) : wire'[i] = wire[i]
          /\ \A n \in 0..Len(wire) : DirectWithin(wire', n) <=> DirectWithin(wire, n)
          /\ \A n \in 0..Len(wire) : QueuedWithin(wire', n) = QueuedWithin(wire, n)
          /\ DirectWithin(wire', Len(wire')) <=> DirectWithin(wire, Len(wire))
        <3> HIDE DEF ConnectionInv, OrderInv
        <3>1. QED
            BY <1>5, <2>1, <2>2, LineAdded
    <2>4. Written' = Written + 1 /\ QueuedWithin(wire', Len(wire) + 1) = Written + 1
        BY <2>3 DEF Written, QueuedWithin
    <2>5. ASSUME NEW i \in 1..Len(wire') PROVE InTurn(wire', accepted, i)
        <3>1. CASE i = Len(wire) + 1
            BY <2>1, <2>3, <2>4, <3>1 DEF InTurn
        <3>2. CASE i \in 1..Len(wire)
            <4>1. InTurn(wire, accepted, i) /\ i - 1 \in 0..Len(wire) /\ i \in 0..Len(wire)
                BY <2>3, <3>2
            <4>2. QED
                BY <2>3, <3>2, <4>1 DEF InTurn
        <3>3. QED
            BY <2>3, <3>1, <3>2
    <2>6. Held' = 0 /\ Written' + Held' = Written + Held /\ Written' <= Len(accepted)
        BY <1>1, <1>5, <2>1, <2>4 DEF Held
    <2>7. \A i \in 0..Len(queue) : NoStop(i)' <=> NoStop(i)
        BY <1>1 DEF NoStop
    <2>8. /\ \A i \in 1..Len(queue) : NoStop(i) =>
                /\ Written' + Held' + i <= Len(accepted)
                /\ queue[i] = accepted[Written' + Held' + i]
          /\ NoStop(Len(queue)) => Len(accepted) = Written' + Held' + Len(queue)
        BY <1>1, <2>6
    <2>9. QED
        BY <1>1, <1>5, <2>5, <2>6, <2>7, <2>8
<1>6. QED
    BY <1>3, <1>4, <1>5 DEF WriterSend, WriterUnblock

\* The direct line takes no message's turn.
LEMMA RefuseKeepsOrder ==
    ASSUME ConnectionInv, RefuseLine
    PROVE  OrderInv'
<1> USE DEF ConnectionInv, OrderInv
<1>1. UNCHANGED <<queue, accepted, wpc, item>> /\ ~DirectWithin(wire, Len(wire))
    BY DEF RefuseLine, DirectInv
<1>2. CASE UNCHANGED wire
    BY <1>1, <1>2, OrderStutter
<1>3. CASE wire' = Append(wire, NOT_AUTHENTICATED)
    <2>1. wire \in Seq(Message \cup {NOT_AUTHENTICATED})
        BY DEF ConnectionTypeOK
    <2>2. /\ Len(wire') = Len(wire) + 1 /\ Len(wire) \in Nat
          /\ wire'[Len(wire) + 1] = NOT_AUTHENTICATED
          /\ \A i \in 1..Len(wire) : wire'[i] = wire[i]
          /\ \A n \in 0..Len(wire) : DirectWithin(wire', n) <=> DirectWithin(wire, n)
          /\ \A n \in 0..Len(wire) : QueuedWithin(wire', n) = QueuedWithin(wire, n)
          /\ DirectWithin(wire', Len(wire'))
        <3> HIDE DEF ConnectionInv, OrderInv
        <3>1. QED
            BY <1>3, <2>1, LineAdded
    <2>3. Written' = Written
        BY <1>1, <2>2 DEF Written, QueuedWithin
    <2>4. ASSUME NEW i \in 1..Len(wire') PROVE InTurn(wire', accepted, i)
        <3>1. CASE i = Len(wire) + 1
            BY <1>1, <2>2, <3>1 DEF InTurn
        <3>2. CASE i \in 1..Len(wire)
            <4>1. InTurn(wire, accepted, i) /\ i - 1 \in 0..Len(wire) /\ i \in 0..Len(wire)
                BY <2>2, <3>2
            <4>2. QED
                BY <2>2, <3>2, <4>1 DEF InTurn
        <3>3. QED
            BY <2>2, <3>1, <3>2
    <2>5. QED
        BY <1>1, <2>3, <2>4 DEF Held, NoStop
<1>4. QED
    BY <1>2, <1>3 DEF RefuseLine

\* Accepting a message, and putting the sentinel.
LEMMA PutKeepsOrder ==
    ASSUME ConnectionInv, NEW t \in Thread, Enqueue(t) \/ Stop(t)
    PROVE  OrderInv'
<1> USE DEF ConnectionInv, OrderInv
<1>1. /\ UNCHANGED <<wpc, item, wire>> /\ Held' = Held /\ Held \in {0, 1}
      /\ Written' = Written /\ Written \in Nat /\ Len(wire) \in Nat
      /\ Len(accepted) \in Nat /\ Len(queue) \in Nat
    <2>1. UNCHANGED <<wpc, item, wire>> /\ Len(accepted) \in Nat /\ Len(queue) \in Nat
        BY DEF Enqueue, Stop, ConnectionTypeOK
    <2>2. Held' = Held /\ Held \in {0, 1} /\ Written' = Written
        BY <2>1 DEF Held, Written
    <2>3. QED
        BY <2>1, <2>2, WrittenIsNat
<1>2. CASE UNCHANGED <<queue, accepted>>
    BY <1>1, <1>2, OrderStutter
<1>3. CASE queue' = Append(queue, STOP) /\ UNCHANGED accepted
    <2>1. /\ Len(queue') = Len(queue) + 1 /\ queue'[Len(queue) + 1] = STOP
          /\ \A i \in 1..Len(queue) : queue'[i] = queue[i]
        BY <1>3, QueueAppend
    <2>2. ~NoStop(Len(queue))'
        BY <1>1, <2>1 DEF NoStop
    <2>3. ASSUME NEW i \in 1..Len(queue'), NoStop(i)'
          PROVE  i \in 1..Len(queue) /\ NoStop(i)
        BY <1>1, <2>1, <2>2, <2>3 DEF NoStop
    <2>4. QED
        BY <1>1, <1>3, <2>1, <2>2, <2>3
<1>4. CASE msg[t] \in Message /\ queue' = Append(queue, msg[t]) /\ accepted' = Append(accepted, msg[t])
    <2>1. /\ Len(queue') = Len(queue) + 1 /\ queue'[Len(queue) + 1] = msg[t]
          /\ \A i \in 1..Len(queue) : queue'[i] = queue[i]
        BY <1>4, QueueAppend
    <2>2. /\ Len(accepted') = Len(accepted) + 1 /\ accepted'[Len(accepted) + 1] = msg[t]
          /\ \A i \in 1..Len(accepted) : accepted'[i] = accepted[i]
        BY <1>4 DEF ConnectionTypeOK
    <2>3. \A i \in 1..Len(queue) : NoStop(i)' => NoStop(i)
        BY <1>1, <2>1 DEF NoStop
    <2>4. /\ Written <= Len(accepted')
          /\ wpc \in {"send", "blocked"} =>
                Written < Len(accepted') /\ item = accepted'[Written + 1]
        BY <1>1, <2>2
    <2>5. ASSUME wpc \notin {"shutdown", "done"}, NEW i \in 1..Len(queue'), NoStop(i)'
          PROVE  /\ Written + Held + i <= Len(accepted')
                 /\ queue'[i] = accepted'[Written + Held + i]
        <3>1. CASE i \in 1..Len(queue)
            <4>1. /\ Written + Held + i <= Len(accepted)
                  /\ queue[i] = accepted[Written + Held + i]
                BY <2>1, <2>3, <2>5, <3>1
            <4>2. Written + Held + i \in 1..Len(accepted)
                BY <1>1, <3>1, <4>1
            <4>3. QED
                BY <1>1, <2>1, <2>2, <3>1, <4>1, <4>2
        <3>2. CASE i = Len(queue')
            <4>1. Len(accepted) = Written + Held + Len(queue)
                <5>1. NoStop(Len(queue))
                    BY <1>1, <2>1, <2>5, <3>2 DEF NoStop
                <5>2. QED
                    BY <2>5, <5>1
            <4>2. Written + Held + i = Len(accepted) + 1
                BY <1>1, <2>1, <3>2, <4>1
            <4>3. QED
                BY <1>1, <2>1, <2>2, <3>2, <4>2
        <3>3. QED
            BY <1>1, <2>1, <3>1, <3>2
    <2>6. ASSUME wpc \notin {"shutdown", "done"}, NoStop(Len(queue))'
          PROVE  Len(accepted') = Written + Held + Len(queue')
        <3>1. NoStop(Len(queue))
            BY <1>1, <2>1, <2>6 DEF NoStop
        <3>2. QED
            BY <1>1, <2>1, <2>2, <2>6, <3>1
    <2>7. ASSUME NEW i \in 1..Len(wire) PROVE InTurn(wire, accepted', i)
        <3>1. CASE wire[i] = NOT_AUTHENTICATED
            BY <3>1 DEF InTurn
        <3>2. CASE wire[i] # NOT_AUTHENTICATED
            <4>1. QueuedWithin(wire, i) \in 1..Written
                BY <1>1, <3>2, QueuedGrows DEF Written
            <4>2. QueuedWithin(wire, i) \in 1..Len(accepted)
                BY <1>1, <4>1
            <4>3. QED
                BY <2>2, <3>2, <4>2 DEF InTurn
        <3>3. QED
            BY <3>1, <3>2
    <2>8. QED
        BY <1>1, <2>4, <2>5, <2>6, <2>7 DEF NoStop
<1>5. QED
    BY <1>2, <1>3, <1>4 DEF Enqueue, Stop, ThreadInv

LEMMA OrderInvKept ==
    ASSUME ConnectionInv, Next
    PROVE  OrderInv'
<1>1. CASE PeerStall \/ PeerResume \/ PeerLeave \/ LineArrives \/ LongLineArrives
    BY <1>1, OrderStutter
    DEF ConnectionInv, PeerStall, PeerResume, PeerLeave, LineArrives, LongLineArrives, writerVars
<1>2. CASE WriterStep
    <2>1. CASE WriterShutdown
        BY <2>1 DEF ConnectionInv, OrderInv, WriterShutdown, Written
    <2>2. QED
        BY <1>2, <2>1, GetKeepsOrder, SendKeepsOrder DEF WriterStep
<1>3. ASSUME NEW t \in Thread, ThreadStep(t) PROVE OrderInv'
    <2>1. CASE Lookup(t) \/ CleanUpRemove(t) \/ Unregister(t) \/ Close(t)
        BY <2>1, OrderStutter
        DEF ConnectionInv, Lookup, CleanUpRemove, Unregister, Close, writerVars
    <2>2. QED
        BY <1>3, <2>1, PutKeepsOrder DEF ThreadStep
<1>4. ASSUME NEW t \in Others, StartBroadcast(t) \/ StartKick(t) PROVE OrderInv'
    BY <1>4, OrderStutter DEF ConnectionInv, StartBroadcast, StartKick, writerVars
<1>5. CASE HandlerStep
    <2>1. CASE AddClient
        BY <2>1, OrderStutter DEF ConnectionInv, ThreadInv, AddClient
    <2>2. CASE ReadLine \/ ReadEnd \/ HandleLine \/ LineOfRemovedClient
        BY <2>2, OrderStutter
        DEF ConnectionInv, ReadLine, ReadEnd, HandleLine, LineOfRemovedClient, writerVars
    <2>3. QED
        BY <1>5, <2>1, <2>2, RefuseKeepsOrder DEF HandlerStep
<1>6. QED
    BY <1>1, <1>2, <1>3, <1>4, <1>5 DEF Next
-----------------------------------------------------------------------------
\* The inductive invariant: types, who sends what, who may stop the writer, and where
\* every accepted message is, in every state of every interleaving of the threads.
THEOREM ConnectionInvariant == Spec => []ConnectionInv
<1>1. ConnectionInv /\ [Next]_vars => ConnectionInv'
    <2> SUFFICES ASSUME ConnectionInv, [Next]_vars PROVE ConnectionInv'
        OBVIOUS
    <2>1. CASE Next
        <3>1. ConnectionTypeOK'
            BY <2>1, WriterKeepsTypes, ThreadKeepsTypes DEF Next, Thread
        <3>2. QED
            BY <2>1, <3>1, ThreadInvKept, StopInvKept, DirectInvKept, OrderInvKept DEF ConnectionInv
    <2>2. CASE UNCHANGED vars
        BY <2>2 DEF vars, writerVars, sockVars, threadVars, ConnectionInv, ConnectionTypeOK,
                    ThreadInv, StopInv, Stopping, DirectInv, OrderInv, Held, NoStop, Written
    <2>3. QED
        BY <2>1, <2>2
<1>2. QED
    BY <1>1, InitInv, PTL DEF Spec

\* The types of the connection's state hold; in particular the send queue never
\* exceeds SEND_QUEUE_MAXSIZE.
THEOREM ConnectionTypeCorrect == Spec => []ConnectionTypeOK
BY ConnectionInvariant, PTL DEF ConnectionInv

\* Whatever the number of threads that broadcast and kick, the size of the queue and
\* the moment at which the peer stalls or leaves, the client receives a prefix of
\* what _ClientWriter.enqueue() accepted, and among it at most one line of
\* handle_messages' own client.send(), never before the client was taken out.
THEOREM DeliveryInOrder == Spec => []DeliveredInOrder
<1>1. ConnectionInv => DeliveredInOrder
    BY DEF ConnectionInv, DirectInv, OrderInv, Written, DeliveredInOrder
<1>2. QED
    BY <1>1, ConnectionInvariant, PTL

\* However many threads take the client out at once, registry.remove() lets one of
\* them stop the writer: there is never a second sentinel in the queue.
THEOREM WriterStoppedOnce == Spec => []StopOnce
<1>1. ConnectionInv => StopOnce
    <2> SUFFICES ASSUME ConnectionInv PROVE StopOnce
        OBVIOUS
    <2> DEFINE S == {i \in DOMAIN queue : queue[i] = STOP}
    <2>1. DOMAIN queue = 1..Len(queue)
        BY DEF ConnectionInv, ConnectionTypeOK
    <2>2. S = {} \/ \E i \in S : S = {i}
        BY <2>1 DEF ConnectionInv, StopInv
    <2>3. Cardinality(S) = 0 \/ Cardinality(S) = 1
        BY <2>2, FS_EmptySet, FS_Singleton
    <2>4. QED
        BY <2>3 DEF StopOnce
<1>2. QED
    BY <1>1, ConnectionInvariant, PTL
=============================================================================
