------------------------ MODULE SlidingWindowLimiter ------------------------
(***************************************************************************)
(* security/rate_limiter.py, class SlidingWindowLimiter, with its two uses:*)
(* register_limiter, whose keys are addresses that several handler threads *)
(* share and that are never forgotten, and message_limiter, whose keys are *)
(* connections: one thread each, but forgotten by every thread that cleans *)
(* the client up.                                                          *)
(*                                                                         *)
(* allow() reads the clock before it takes the lock, so threads may come to*)
(* the lock in another order than their time stamps; MaxDelay is the       *)
(* longest a thread takes from the one to the other.                       *)
(*                                                                         *)
(* The code keeps a list of time stamps and uses how many there are, never *)
(* their order: here it is a set of events, each with its time stamp and a *)
(* number that tells apart two of the same tick.  allow() never leaves an  *)
(* empty list behind, so the empty set is a key without an entry.          *)
(***************************************************************************)
EXTENDS Integers, FiniteSets

CONSTANTS
    Handler,        \* the threads that call allow()
    Cleaner,        \* other threads that call clean_up_client()
    Address,        \* the keys of register_limiter
    Connection,     \* the keys of message_limiter
    KeyOf,          \* Handler -> its key
    MaxEvents,      \* max_events
    Window,         \* window_seconds, in ticks
    MaxDelay,       \* ticks between time.monotonic() and the lock
    MaxTime,        \* bound on the clock
    None

Key == Address \cup Connection

ASSUME LimiterAssumption ==
    /\ KeyOf \in [Handler -> Key]
    /\ \A h, g \in Handler : h # g /\ KeyOf[h] = KeyOf[g] => KeyOf[h] \in Address
    /\ Address \cap Connection = {}
    /\ MaxEvents \in Nat \ {0}
    /\ Window \in Nat /\ MaxDelay \in Nat /\ MaxTime \in Nat /\ MaxDelay <= Window
    /\ None \notin [key : Connection, removed : BOOLEAN]

VARIABLES
    now,        \* time.monotonic()
    history,    \* _history: key -> the events it is charged with
    online,     \* the connections that are registered
    pc,         \* the next step of each handler
    stamp,      \* the time its call of allow() has read
    cleaning,   \* the call of clean_up_client() each cleaner is in, or None
    accepted,   \* auxiliary: key -> all the events allowed
    forgotten   \* auxiliary: the keys forget() was called for

limiter == <<history, accepted, forgotten>>
vars    == <<now, limiter, online, pc, stamp, cleaning>>

Init ==
    /\ now = 0
    /\ history = [k \in Key |-> {}]
    /\ online = Connection
    /\ pc = [h \in Handler |-> "read"]
    /\ stamp = [h \in Handler |-> 0]
    /\ cleaning = [c \in Cleaner |-> None]
    /\ accepted = [k \in Key |-> {}]
    /\ forgotten = {}
-----------------------------------------------------------------------------
Goto(h, p) == pc' = [pc EXCEPT ![h] = p]

\* A line that is subject to the limit: REGISTER, or MSG of a client that still
\* has a session.  A client without one is cleaned up, and so is one that left.
ReadLine(h) ==
    /\ pc[h] = "read"
    /\ IF KeyOf[h] \in Address \cup online THEN Goto(h, "clock") ELSE Goto(h, "clean")
    /\ UNCHANGED <<now, limiter, online, stamp, cleaning>>

Disconnect(h) ==
    /\ pc[h] = "read"
    /\ Goto(h, "clean")
    /\ UNCHANGED <<now, limiter, online, stamp, cleaning>>

ReadClock(h) ==
    /\ pc[h] = "clock"
    /\ stamp' = [stamp EXCEPT ![h] = now]
    /\ Goto(h, "allow")
    /\ UNCHANGED <<now, limiter, online, cleaning>>

\* The event that a call of allow() adds for key k with time stamp t.
NewEvent(k, t) == [time |-> t, number |-> Cardinality(accepted[k]) + 1]

\* Mutant: an event exactly as old as the window no longer counts.
RecentStrict(k, t) == {e \in history[k] : e.time > t - Window}

\* Mutant: old events are never dropped.
RecentAll(k, t) == history[k]

Recent(k, t) == {e \in history[k] : e.time >= t - Window}

\* Mutant: one event more than the limit.
RefusedLate(h) == Cardinality(Recent(KeyOf[h], stamp[h])) > MaxEvents

Refused(h) == Cardinality(Recent(KeyOf[h], stamp[h])) >= MaxEvents

\* The part of allow() under the lock.
Allow(h) ==
    /\ pc[h] = "allow"
    /\ LET k == KeyOf[h]
           recent == Recent(k, stamp[h])
           event == NewEvent(k, stamp[h])
       IN  IF Refused(h)
           THEN history' = [history EXCEPT ![k] = recent] /\ UNCHANGED accepted
           ELSE /\ history' = [history EXCEPT ![k] = recent \cup {event}]
                /\ accepted' = [accepted EXCEPT ![k] = @ \cup {event}]
    /\ Goto(h, "read")
    /\ UNCHANGED <<now, forgotten, online, stamp, cleaning>>

Forget(k) ==
    /\ history' = [history EXCEPT ![k] = {}]
    /\ forgotten' = forgotten \cup {k}
    /\ UNCHANGED accepted

\* Mutant: the handler's own clean-up leaves the limiter to whoever removed the
\* session.
CleanUpSelfIfOnline(h) ==
    /\ pc[h] = "clean"
    /\ IF KeyOf[h] \in online THEN Forget(KeyOf[h]) ELSE UNCHANGED limiter
    /\ online' = online \ {KeyOf[h]}
    /\ Goto(h, "done")
    /\ UNCHANGED <<now, stamp, cleaning>>

\* clean_up_client() in the finally clause of handle_messages().  The key of a
\* handler that is still registering is its address: it has no entry to forget.
CleanUpSelf(h) ==
    /\ pc[h] = "clean"
    /\ IF KeyOf[h] \in Connection THEN Forget(KeyOf[h]) ELSE UNCHANGED limiter
    /\ online' = online \ {KeyOf[h]}
    /\ Goto(h, "done")
    /\ UNCHANGED <<now, stamp, cleaning>>

\* A kick finds a client by its name, a broadcast by its snapshot; by the time it
\* calls clean_up_client() the client may be gone.
FindClient(c) ==
    /\ cleaning[c] = None
    /\ \E k \in online : cleaning' = [cleaning EXCEPT ![c] = [key |-> k, removed |-> FALSE]]
    /\ UNCHANGED <<now, limiter, online, pc, stamp>>

\* clean_up_client(): registry.remove(), then message_limiter.forget(), whoever
\* removed the session.
CleanUpRemove(c) ==
    /\ cleaning[c] # None /\ ~cleaning[c].removed
    /\ online' = online \ {cleaning[c].key}
    /\ cleaning' = [cleaning EXCEPT ![c].removed = TRUE]
    /\ UNCHANGED <<now, limiter, pc, stamp>>

CleanUpForget(c) ==
    /\ cleaning[c] # None /\ cleaning[c].removed
    /\ Forget(cleaning[c].key)
    /\ cleaning' = [cleaning EXCEPT ![c] = None]
    /\ UNCHANGED <<now, online, pc, stamp>>

\* Nobody waits longer than MaxDelay for the lock.
Tick ==
    /\ now < MaxTime
    /\ \A h \in Handler : pc[h] = "allow" => now < stamp[h] + MaxDelay
    /\ now' = now + 1
    /\ UNCHANGED <<limiter, online, pc, stamp, cleaning>>
-----------------------------------------------------------------------------
Next ==
    \/ \E h \in Handler :
          ReadLine(h) \/ Disconnect(h) \/ ReadClock(h) \/ Allow(h) \/ CleanUpSelf(h)
    \/ \E c \in Cleaner : FindClient(c) \/ CleanUpRemove(c) \/ CleanUpForget(c)
    \/ Tick

Spec == Init /\ [][Next]_vars
-----------------------------------------------------------------------------
Event == [time : 0..MaxTime, number : Nat \ {0}]

LimiterTypeOK ==
    /\ now \in 0..MaxTime
    /\ history \in [Key -> SUBSET Event] /\ accepted \in [Key -> SUBSET Event]
    /\ \A k \in Key : Cardinality(history[k]) <= MaxEvents
    /\ \A k \in Key : \A e \in accepted[k] : e.time <= now
    /\ online \subseteq Connection
    /\ pc \in [Handler -> {"read", "clock", "allow", "clean", "done"}]
    /\ stamp \in [Handler -> 0..now]
    /\ cleaning \in [Cleaner -> {None} \cup [key : Connection, removed : BOOLEAN]]
    /\ forgotten \subseteq Connection

\* The events of key k that allow() accepted with a time stamp in from..to.
AcceptedIn(k, from, to) == {e \in accepted[k] : e.time \in from..to}

\* However the threads that share an address overtake each other on their way to
\* the lock, no more than MaxEvents of its events fall into the window, less the
\* time a thread may take from the clock to the lock.  A client that somebody
\* cleans up gets one message more at most: the one it was already sending.
RateBound ==
    \A k \in Key, from \in 0..MaxTime :
        Cardinality(AcceptedIn(k, from, from + Window - MaxDelay))
            <= MaxEvents + IF k \in forgotten THEN 1 ELSE 0

\* Nobody is refused for events that are older than the window when it asks, or
\* for those of another key: every refusal follows MaxEvents accepted events.
RefusalsJustified ==
    \A h \in Handler : pc[h] = "allow" /\ Refused(h) =>
        Cardinality(AcceptedIn(KeyOf[h], stamp[h] - Window, now)) >= MaxEvents

\* When the thread of a connection is done, the limiter holds nothing of it, even
\* if another thread forgot it first and a last message brought it back.
NothingKept ==
    \A h \in Handler : pc[h] = "done" /\ KeyOf[h] \in Connection => history[KeyOf[h]] = {}
=============================================================================
