-------------------------- MODULE ClientConnection --------------------------
(***************************************************************************)
(* One logged-in client from registry.add() on: its socket, its send queue *)
(* and every thread that touches them.                                     *)
(*                                                                         *)
(*   - the writer thread, client_registry._ClientWriter._run;              *)
(*   - the handler thread, which adds the client, queues the OK line, reads*)
(*     lines in handle_messages and ends in clean_up_client;               *)
(*   - other threads, which broadcast to the client or kick it.            *)
(*                                                                         *)
(* registry.send() looks the writer up under the registry's lock and puts  *)
(* the message after releasing it; registry.remove() stops the writer after*)
(* releasing it: each is two steps.  The operating system is modelled from *)
(* how the code uses it: sendall() blocks while the peer does not read and *)
(* fails on a socket that is shut down, closed or whose peer is gone;      *)
(* shutdown() wakes blocked calls of other threads, close() does not.  A   *)
(* definition marked "Mutant" is a plausible mistake in the action after   *)
(* it, kept to show that the properties notice it.                         *)
(***************************************************************************)
EXTENDS Integers, Sequences, FiniteSets

CONSTANTS
    Handler,       \* the client's own thread
    Others,        \* threads that broadcast or kick
    Broadcasters,  \* those of Others that broadcast
    Kickers,       \* those of Others that kick or ban the client
    QueueSize,     \* SEND_QUEUE_MAXSIZE
    MaxChat,       \* bound on the chat lines and replies sent to the client
    PeerStalls,    \* may the peer stop reading?
    PeerTalks      \* may the peer send lines?

Thread == Others \cup {Handler}

ASSUME ConnectionAssumption ==
    /\ Handler \notin Others
    /\ Broadcasters \subseteq Others /\ Kickers \subseteq Others
    /\ QueueSize \in Nat \ {0}
    /\ MaxChat \in Nat
    /\ PeerStalls \in BOOLEAN /\ PeerTalks \in BOOLEAN

VARIABLES
    registered,  \* the client has a session, and its writer is in _writers
    queue,       \* the writer's queue.Queue
    wpc, item,   \* the writer thread and the message it holds
    shut,        \* shutdown(SHUT_RDWR) was called on the socket
    closed,      \* close() was called on it
    peer,        \* what the other end of the connection does
    wire,        \* the messages it received
    pc, msg,     \* the other threads, and the message each is sending
    sent,        \* number of chat lines and replies so far
    accepted     \* every message enqueue() returned True for, in order

writerVars == <<queue, wpc, item, wire>>
sockVars   == <<shut, closed>>
threadVars == <<pc, msg, sent>>
vars == <<registered, writerVars, sockVars, peer, threadVars, accepted>>

\* Messages are numbers: chat lines and replies count from 1.
OK     == 0
KICK   == -1         \* "You were kicked!"
STOP   == -2         \* the sentinel None of stop()
NoItem == -3
NOT_AUTHENTICATED == -4   \* the handler's direct line, which no queue ever holds
Message == {OK, KICK} \cup 1..MaxChat

Init ==
    /\ registered = FALSE
    /\ queue = <<>> /\ wpc = "none" /\ item = NoItem
    /\ shut = FALSE /\ closed = FALSE
    /\ peer = "reading" /\ wire = <<>>
    /\ pc = [t \in Thread |-> IF t = Handler THEN "add" ELSE "idle"]
    /\ msg = [t \in Thread |-> NoItem]
    /\ sent = 0
    /\ accepted = <<>>

Goto(t, p) == pc' = [pc EXCEPT ![t] = p]

\* A call on the socket fails at once.
Broken == shut \/ closed \/ peer = "gone"
-----------------------------------------------------------------------------
(* The peer.                                                               *)

PeerStall ==
    /\ PeerStalls
    /\ peer = "reading"
    /\ peer' = "stalled"
    /\ UNCHANGED <<registered, writerVars, sockVars, threadVars, accepted>>

PeerResume ==
    /\ peer = "stalled"
    /\ peer' = "reading"
    /\ UNCHANGED <<registered, writerVars, sockVars, threadVars, accepted>>

PeerLeave ==
    /\ peer # "gone"
    /\ peer' = "gone"
    /\ UNCHANGED <<registered, writerVars, sockVars, threadVars, accepted>>
-----------------------------------------------------------------------------
(* _ClientWriter._run                                                      *)

\* Mutant: the sentinel is not the end but skipped.
WriterGetSkipsStop ==
    /\ wpc = "get"
    /\ queue # <<>>
    /\ queue' = Tail(queue)
    /\ IF Head(queue) = STOP
       THEN wpc' = "get" /\ item' = NoItem
       ELSE wpc' = "send" /\ item' = Head(queue)
    /\ UNCHANGED <<registered, wire, sockVars, peer, threadVars, accepted>>

WriterGet ==
    /\ wpc = "get"
    /\ queue # <<>>
    /\ queue' = Tail(queue)
    /\ IF Head(queue) = STOP
       THEN wpc' = "shutdown" /\ item' = NoItem
       ELSE wpc' = "send" /\ item' = Head(queue)
    /\ UNCHANGED <<registered, wire, sockVars, peer, threadVars, accepted>>

\* sendall(): error, delivery, or the thread blocks in the call.
WriterSend ==
    /\ wpc = "send"
    /\ \/ Broken /\ wpc' = "shutdown" /\ UNCHANGED wire
       \/ ~Broken /\ peer = "reading" /\ wpc' = "get" /\ wire' = Append(wire, item)
       \/ ~Broken /\ peer = "stalled" /\ wpc' = "blocked" /\ UNCHANGED wire
    /\ item' = IF wpc' = "blocked" THEN item ELSE NoItem
    /\ UNCHANGED <<registered, queue, sockVars, peer, threadVars, accepted>>

\* A call that is blocked notices shutdown() and the end of the peer, not close().
WriterUnblock ==
    /\ wpc = "blocked"
    /\ \/ (shut \/ peer = "gone") /\ wpc' = "shutdown" /\ UNCHANGED wire
       \/ ~shut /\ peer = "reading" /\ wpc' = "get" /\ wire' = Append(wire, item)
    /\ item' = NoItem
    /\ UNCHANGED <<registered, queue, sockVars, peer, threadVars, accepted>>

\* The finally clause; shutdown() of a closed socket raises and is ignored.
WriterShutdown ==
    /\ wpc = "shutdown"
    /\ wpc' = "done"
    /\ shut' = (shut \/ ~closed)
    /\ UNCHANGED <<registered, queue, item, wire, closed, peer, threadVars, accepted>>
-----------------------------------------------------------------------------
(* registry.send(): the handler's OK line and replies, broadcasts, kicks.  *)

\* Where a thread goes when send() has returned True, and False.
Sent(t) ==
    CASE t = Handler   -> "read"
      [] msg[t] = KICK -> "remove"
      [] OTHER         -> "idle"

Refused(t) ==
    CASE t = Handler -> IF msg[t] = OK THEN "unregister" ELSE "read"
      [] OTHER       -> "remove"

Lookup(t) ==
    /\ pc[t] = "lookup"
    /\ Goto(t, IF registered THEN "enqueue" ELSE Refused(t))
    /\ UNCHANGED <<registered, writerVars, sockVars, peer, msg, sent, accepted>>

\* Mutant: the queue takes one message too many.
EnqueueOneMore(t) ==
    /\ pc[t] = "enqueue"
    /\ IF Len(queue) <= QueueSize
       THEN /\ queue' = Append(queue, msg[t])
            /\ accepted' = Append(accepted, msg[t])
            /\ Goto(t, Sent(t))
       ELSE Goto(t, Refused(t)) /\ UNCHANGED <<queue, accepted>>
    /\ UNCHANGED <<registered, wpc, item, wire, sockVars, peer, msg, sent>>

\* Mutant: a full queue drops its oldest message to make room.
EnqueueDropsOldest(t) ==
    /\ pc[t] = "enqueue"
    /\ queue' = Append(IF Len(queue) < QueueSize THEN queue ELSE Tail(queue), msg[t])
    /\ accepted' = Append(accepted, msg[t])
    /\ Goto(t, Sent(t))
    /\ UNCHANGED <<registered, wpc, item, wire, sockVars, peer, msg, sent>>

Enqueue(t) ==
    /\ pc[t] = "enqueue"
    /\ IF Len(queue) < QueueSize
       THEN /\ queue' = Append(queue, msg[t])
            /\ accepted' = Append(accepted, msg[t])
            /\ Goto(t, Sent(t))
       ELSE Goto(t, Refused(t)) /\ UNCHANGED <<queue, accepted>>
    /\ UNCHANGED <<registered, wpc, item, wire, sockVars, peer, msg, sent>>

\* The client is in the snapshot of a broadcast.
StartBroadcast(t) ==
    /\ t \in Broadcasters
    /\ pc[t] = "idle"
    /\ registered
    /\ sent < MaxChat
    /\ sent' = sent + 1
    /\ msg' = [msg EXCEPT ![t] = sent + 1]
    /\ Goto(t, "lookup")
    /\ UNCHANGED <<registered, writerVars, sockVars, peer, accepted>>

\* by_name() has found the client: kick_user or ban_user.
StartKick(t) ==
    /\ t \in Kickers
    /\ pc[t] = "idle"
    /\ registered
    /\ msg' = [msg EXCEPT ![t] = KICK]
    /\ Goto(t, "lookup")
    /\ UNCHANGED <<registered, writerVars, sockVars, peer, sent, accepted>>
-----------------------------------------------------------------------------
(* clean_up_client and registry.remove()                                   *)

End(t) == IF t = Handler THEN "done" ELSE "idle"

\* Mutant: remove() leaves the writer in _writers, for the next caller to stop.
CleanUpAlwaysStops(t) ==
    /\ pc[t] = "remove"
    /\ Goto(t, IF wpc # "none" THEN "stop" ELSE "close")
    /\ registered' = FALSE
    /\ UNCHANGED <<writerVars, sockVars, peer, msg, sent, accepted>>

\* Only the thread that takes the session out stops the writer; any other one
\* closes the socket.
CleanUpRemove(t) ==
    /\ pc[t] = "remove"
    /\ Goto(t, IF registered THEN "stop" ELSE "close")
    /\ registered' = FALSE
    /\ UNCHANGED <<writerVars, sockVars, peer, msg, sent, accepted>>

\* registry.remove() on the way to "raise OSError" in handle_new_connection,
\* which leads to clean_up_client.
Unregister(t) ==
    /\ pc[t] = "unregister"
    /\ Goto(t, IF registered THEN "unstop" ELSE "remove")
    /\ registered' = FALSE
    /\ UNCHANGED <<writerVars, sockVars, peer, msg, sent, accepted>>

\* _ClientWriter.stop(): the sentinel, or shutdown() when the queue is full.
Stop(t) ==
    /\ pc[t] \in {"stop", "unstop"}
    /\ IF Len(queue) < QueueSize
       THEN queue' = Append(queue, STOP) /\ UNCHANGED shut
       ELSE shut' = (shut \/ ~closed) /\ UNCHANGED queue
    /\ Goto(t, IF pc[t] = "stop" THEN End(t) ELSE "remove")
    /\ UNCHANGED <<registered, wpc, item, wire, closed, peer, msg, sent, accepted>>

Close(t) ==
    /\ pc[t] = "close"
    /\ closed' = TRUE
    /\ Goto(t, End(t))
    /\ UNCHANGED <<registered, writerVars, shut, peer, msg, sent, accepted>>
-----------------------------------------------------------------------------
(* The handler: registry.add(), the OK line, then handle_messages.         *)

AddClient ==
    /\ pc[Handler] = "add"
    /\ registered' = TRUE
    /\ wpc' = "get"
    /\ msg' = [msg EXCEPT ![Handler] = OK]
    /\ Goto(Handler, "lookup")
    /\ UNCHANGED <<queue, item, wire, sockVars, peer, sent, accepted>>

\* recv() of a broken socket returns at once, otherwise the thread blocks.
ReadLine ==
    /\ pc[Handler] = "read"
    /\ Goto(Handler, IF Broken THEN "remove" ELSE "blocked")
    /\ UNCHANGED <<registered, writerVars, sockVars, peer, msg, sent, accepted>>

\* End of stream, for a blocked recv().
ReadEnd ==
    /\ pc[Handler] = "blocked"
    /\ shut \/ peer = "gone"
    /\ Goto(Handler, "remove")
    /\ UNCHANGED <<registered, writerVars, sockVars, peer, msg, sent, accepted>>

LineArrives ==
    /\ PeerTalks
    /\ pc[Handler] = "blocked"
    /\ ~shut /\ peer # "gone"
    /\ Goto(Handler, "session")
    /\ UNCHANGED <<registered, writerVars, sockVars, peer, msg, sent, accepted>>

\* A line over 2000 characters is answered before the session is looked up, also for
\* a client that somebody has taken out.
LongLineArrives ==
    /\ PeerTalks
    /\ pc[Handler] = "blocked"
    /\ ~shut /\ peer # "gone"
    /\ sent < MaxChat
    /\ sent' = sent + 1
    /\ msg' = [msg EXCEPT ![Handler] = sent + 1]
    /\ Goto(Handler, "lookup")
    /\ UNCHANGED <<registered, writerVars, sockVars, peer, accepted>>

\* get_session(): a line is processed, with or without a reply to the client ...
HandleLine ==
    /\ pc[Handler] = "session"
    /\ registered
    /\ \/ Goto(Handler, "read") /\ UNCHANGED <<msg, sent>>
       \/ /\ sent < MaxChat
          /\ sent' = sent + 1
          /\ msg' = [msg EXCEPT ![Handler] = sent + 1]
          /\ Goto(Handler, "lookup")
    /\ UNCHANGED <<registered, writerVars, sockVars, peer, accepted>>

LineOfRemovedClient ==
    /\ pc[Handler] = "session"
    /\ ~registered
    /\ Goto(Handler, "refuse")
    /\ UNCHANGED <<registered, writerVars, sockVars, peer, msg, sent, accepted>>

\* ... or refused by a direct client.send(), past the queue and its writer.  The
\* call raises, delivers the line or blocks.
RefuseLine ==
    /\ pc[Handler] = "refuse"
    /\ \/ Broken /\ UNCHANGED wire
       \/ ~Broken /\ peer = "reading" /\ wire' = Append(wire, NOT_AUTHENTICATED)
    /\ Goto(Handler, "remove")
    /\ UNCHANGED <<registered, queue, wpc, item, sockVars, peer, msg, sent, accepted>>
-----------------------------------------------------------------------------
WriterStep == WriterGet \/ WriterSend \/ WriterUnblock \/ WriterShutdown

ThreadStep(t) ==
    Lookup(t) \/ Enqueue(t) \/ CleanUpRemove(t) \/ Unregister(t) \/ Stop(t) \/ Close(t)

HandlerStep ==
    \/ AddClient \/ ReadLine \/ ReadEnd \/ HandleLine \/ LineOfRemovedClient \/ RefuseLine

Next ==
    \/ PeerStall \/ PeerResume \/ PeerLeave \/ LineArrives \/ LongLineArrives
    \/ WriterStep \/ HandlerStep
    \/ \E t \in Thread : ThreadStep(t)
    \/ \E t \in Others : StartBroadcast(t) \/ StartKick(t)

\* The threads run; nothing is assumed of the peer or of who broadcasts.
Fairness ==
    /\ WF_vars(WriterStep)
    /\ WF_vars(HandlerStep)
    /\ \A t \in Thread : WF_vars(ThreadStep(t))

Spec == Init /\ [][Next]_vars /\ Fairness
-----------------------------------------------------------------------------
WriterPC == {"none", "get", "send", "blocked", "shutdown", "done"}
ThreadPC == {"add", "idle", "lookup", "enqueue", "unregister", "unstop", "remove", "stop",
             "close", "read", "blocked", "session", "refuse", "done"}

ConnectionTypeOK ==
    /\ registered \in BOOLEAN
    /\ queue \in Seq(Message \cup {STOP}) /\ Len(queue) <= QueueSize
    /\ wpc \in WriterPC
    /\ item \in Message \cup {NoItem}
    /\ shut \in BOOLEAN /\ closed \in BOOLEAN
    /\ peer \in {"reading", "stalled", "gone"}
    /\ wire \in Seq(Message \cup {NOT_AUTHENTICATED}) /\ accepted \in Seq(Message)
    /\ pc \in [Thread -> ThreadPC]
    /\ msg \in [Thread -> Message \cup {NoItem}]
    /\ sent \in 0..MaxChat

\* The direct line is among the first n lines of w.
DirectWithin(w, n) == \E j \in 1..n : w[j] = NOT_AUTHENTICATED

\* The number of lines among the first n of w that came through the queue.
QueuedWithin(w, n) == IF DirectWithin(w, n) THEN n - 1 ELSE n

\* Line i of w is the direct one, which comes once, or the one of a whose turn it is.
InTurn(w, a, i) ==
    IF w[i] = NOT_AUTHENTICATED
    THEN ~DirectWithin(w, i - 1)
    ELSE w[i] = a[QueuedWithin(w, i)]

\* However the threads that send to the client interleave, what it receives is, in
\* order and without a gap or a repetition, what send() accepted for it.  The one
\* line that goes round the queue, NOT_AUTHENTICATED, comes at most once, at any place
\* among the queued ones, and only after the client was taken out of the registry.
DeliveredInOrder ==
    /\ DirectWithin(wire, Len(wire)) => ~registered
    /\ QueuedWithin(wire, Len(wire)) <= Len(accepted)
    /\ \A i \in 1..Len(wire) : InTurn(wire, accepted, i)

\* Every line that a client receives after its login was queued for it: nothing but
\* the writer thread touches the socket.  (The documents say so; the handler's direct
\* client.send() contradicts it.)
OnlyQueuedLines ==
    /\ Len(wire) <= Len(accepted)
    /\ wire = SubSeq(accepted, 1, Len(wire))

\* However many threads clean the client up at once, the writer is told to stop
\* at most once, so that no second sentinel takes the place of a message.
StopOnce == Cardinality({i \in DOMAIN queue : queue[i] = STOP}) <= 1

Removed == ~registered /\ wpc # "none"

\* After the client was added and taken out again, by whoever and however many at
\* once, its writer ends, provided that the peer does not stall for ever: a stop
\* signal that found the queue full, a failed send and a close() by another thread
\* do not leave it waiting.
WriterEnds == <>[](peer # "stalled") => (Removed ~> wpc = "done")

\* The handler thread ends too, blocked in recv() when somebody else took the client
\* out: the client really is disconnected and the thread is not leaked.
HandlerEnds == Removed ~> pc[Handler] = "done"
=============================================================================
