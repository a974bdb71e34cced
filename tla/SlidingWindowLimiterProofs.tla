--------------------- MODULE SlidingWindowLimiterProofs ---------------------
(***************************************************************************)
(* Theorems about SlidingWindowLimiter: its types, the bound on the events *)
(* that pass, that refusals are due, and that nothing is kept of a         *)
(* connection that has ended.                                              *)
(***************************************************************************)
EXTENDS SlidingWindowLimiter, FiniteSetTheorems, TLAPS

\* What a key is charged with are events it was allowed, and no two of them have
\* the same number: the set of events counts like the list of time stamps.
EventsInv ==
    \A k \in Key :
        /\ IsFiniteSet(accepted[k]) /\ history[k] \subseteq accepted[k]
        /\ \A e \in accepted[k] : e.number <= Cardinality(accepted[k])

\* A thread that has read the clock comes to the lock within MaxDelay.
DelayInv == \A h \in Handler : pc[h] = "allow" => now <= stamp[h] + MaxDelay

\* Unless its key was forgotten, an event is dropped only when it is older than the
\* window, by the clock and so by every time stamp that is still to come.
DroppedInv ==
    \A k \in Key \ forgotten : \A e \in accepted[k] \ history[k] : e.time + Window < now

\* A key is forgotten only after its session was taken out.
ForgetInv ==
    /\ \A c \in Cleaner : cleaning[c] # None =>
          (cleaning[c].removed => cleaning[c].key \notin online)
    /\ forgotten \cap online = {}

\* A handler between the check of the session and the end of allow().
Asking(k) == \E h \in Handler : KeyOf[h] = k /\ pc[h] \in {"clock", "allow"}

Surplus(k) == IF k \in forgotten /\ ~Asking(k) THEN 1 ELSE 0

\* The bound, with the last message of a forgotten client charged only once it is
\* accepted.
BoundInv ==
    \A k \in Key, from \in 0..MaxTime :
        Cardinality(AcceptedIn(k, from, from + Window - MaxDelay)) <= MaxEvents + Surplus(k)

LimiterInv ==
    /\ LimiterTypeOK /\ EventsInv /\ DelayInv /\ DroppedInv
    /\ ForgetInv /\ BoundInv /\ NothingKept
-----------------------------------------------------------------------------
USE LimiterAssumption

LEMMA InitInv == Init => LimiterInv
<1> SUFFICES ASSUME Init PROVE LimiterInv
    OBVIOUS
<1>1. Cardinality({}) = 0 /\ IsFiniteSet({})
    BY FS_EmptySet
<1>2. LimiterTypeOK
    BY <1>1 DEF Init, LimiterTypeOK, Key
<1>3. EventsInv /\ DelayInv /\ DroppedInv /\ ForgetInv /\ NothingKept
    BY <1>1 DEF Init, EventsInv, DelayInv, DroppedInv, ForgetInv, NothingKept, Key
<1>4. BoundInv
    <2> SUFFICES ASSUME NEW k \in Key, NEW from \in 0..MaxTime
                 PROVE  Cardinality(AcceptedIn(k, from, from + Window - MaxDelay)) <= MaxEvents + Surplus(k)
        BY DEF BoundInv
    <2>1. AcceptedIn(k, from, from + Window - MaxDelay) = {}
        BY DEF Init, AcceptedIn
    <2>2. QED
        BY <1>1, <2>1 DEF Surplus
<1>5. QED
    BY <1>2, <1>3, <1>4 DEF LimiterInv

\* What a key is charged with, and what it was allowed, are finite sets; a new event
\* is new.
LEMMA EventFacts ==
    ASSUME LimiterInv, NEW k \in Key, NEW t \in 0..now
    PROVE  /\ IsFiniteSet(accepted[k]) /\ Cardinality(accepted[k]) \in Nat
           /\ IsFiniteSet(history[k]) /\ Cardinality(history[k]) \in Nat
           /\ IsFiniteSet(Recent(k, t)) /\ Cardinality(Recent(k, t)) \in Nat
           /\ Cardinality(Recent(k, t)) <= Cardinality(history[k])
           /\ NewEvent(k, t) \in Event /\ NewEvent(k, t) \notin accepted[k]
           /\ NewEvent(k, t).time = t /\ NewEvent(k, t).number = Cardinality(accepted[k]) + 1
<1>1. IsFiniteSet(accepted[k]) /\ history[k] \subseteq accepted[k]
    BY DEF LimiterInv, EventsInv
<1>2. Recent(k, t) \subseteq history[k]
    BY DEF Recent
<1>3. Cardinality(accepted[k]) \in Nat /\ IsFiniteSet(history[k]) /\ Cardinality(history[k]) \in Nat
    BY <1>1, FS_Subset, FS_CardinalityType
<1>4. /\ IsFiniteSet(Recent(k, t)) /\ Cardinality(Recent(k, t)) \in Nat
      /\ Cardinality(Recent(k, t)) <= Cardinality(history[k])
    BY <1>2, <1>3, FS_Subset, FS_CardinalityType
<1>5. NewEvent(k, t) \in Event /\ NewEvent(k, t) \notin accepted[k]
    <2>1. \A e \in accepted[k] : e.number <= Cardinality(accepted[k])
        BY DEF LimiterInv, EventsInv
    <2>2. NewEvent(k, t).number = Cardinality(accepted[k]) + 1
        BY DEF NewEvent
    <2>3. NewEvent(k, t) \notin accepted[k]
        BY <1>3, <2>1, <2>2
    <2>4. NewEvent(k, t) \in Event
        BY <1>3 DEF NewEvent, Event, LimiterInv, LimiterTypeOK
    <2>5. QED
        BY <2>3, <2>4
<1>6. QED
    BY <1>1, <1>3, <1>4, <1>5 DEF NewEvent

\* What allow() does, under the lock: refuse, or accept and charge one event.
LEMMA AllowCases ==
    ASSUME LimiterInv, NEW h \in Handler, Allow(h)
    PROVE  LET k == KeyOf[h]  recent == Recent(k, stamp[h])  event == NewEvent(k, stamp[h]) IN
           /\ k \in Key /\ stamp[h] \in 0..now /\ pc[h] = "allow"
           /\ pc' = [pc EXCEPT ![h] = "read"] /\ UNCHANGED <<now, forgotten, online, stamp, cleaning>>
           /\ \/ /\ Refused(h) /\ history' = [history EXCEPT ![k] = recent] /\ UNCHANGED accepted
              \/ /\ Cardinality(recent) < MaxEvents
                 /\ history' = [history EXCEPT ![k] = recent \cup {event}]
                 /\ accepted' = [accepted EXCEPT ![k] = accepted[k] \cup {event}]
<1>1. KeyOf[h] \in Key /\ stamp[h] \in 0..now
    BY DEF LimiterInv, LimiterTypeOK
<1>2. Cardinality(Recent(KeyOf[h], stamp[h])) \in Nat
    BY <1>1, EventFacts
<1>3. ~Refused(h) => Cardinality(Recent(KeyOf[h], stamp[h])) < MaxEvents
    BY <1>2 DEF Refused
<1>4. QED
    BY <1>1, <1>3 DEF Allow, Goto

\* The steps that leave the limiter, the clock and the time stamps alone.
QuietStep ==
    \/ \E h \in Handler : ReadLine(h) \/ Disconnect(h)
    \/ \E c \in Cleaner : FindClient(c) \/ CleanUpRemove(c)

\* The steps that forget a key.
ForgetStep == (\E h \in Handler : CleanUpSelf(h)) \/ (\E c \in Cleaner : CleanUpForget(c))

LEMMA QuietFrame ==
    ASSUME QuietStep
    PROVE  UNCHANGED <<now, history, accepted, forgotten, stamp>>
BY DEF QuietStep, ReadLine, Disconnect, FindClient, CleanUpRemove, limiter

\* Forgetting empties one entry, of a connection that is no longer registered.
LEMMA ForgetCases ==
    ASSUME LimiterInv, ForgetStep
    PROVE  /\ UNCHANGED <<now, accepted, stamp>>
           /\ \/ UNCHANGED <<history, forgotten>>
              \/ \E k \in Connection : /\ history' = [history EXCEPT ![k] = {}]
                                       /\ forgotten' = forgotten \cup {k}
                                       /\ k \notin online'
<1>1. ASSUME NEW h \in Handler, CleanUpSelf(h)
      PROVE  /\ UNCHANGED <<now, accepted, stamp>>
             /\ \/ UNCHANGED <<history, forgotten>>
                \/ \E k \in Connection : /\ history' = [history EXCEPT ![k] = {}]
                                         /\ forgotten' = forgotten \cup {k}
                                         /\ k \notin online'
    BY <1>1 DEF CleanUpSelf, Forget, limiter
<1>2. ASSUME NEW c \in Cleaner, CleanUpForget(c)
      PROVE  /\ UNCHANGED <<now, accepted, stamp>>
             /\ \E k \in Connection : /\ history' = [history EXCEPT ![k] = {}]
                                      /\ forgotten' = forgotten \cup {k}
                                      /\ k \notin online'
    BY <1>2 DEF CleanUpForget, Forget, LimiterInv, LimiterTypeOK, ForgetInv
<1>3. QED
    BY <1>1, <1>2 DEF ForgetStep

LEMMA TypesKept ==
    ASSUME LimiterInv, Next
    PROVE  LimiterTypeOK'
<1> USE DEF LimiterInv, LimiterTypeOK, Key
<1>1. CASE QuietStep
    <2>1. /\ UNCHANGED <<now, history, accepted, forgotten, stamp>>
        BY <1>1, QuietFrame
    <2>2. /\ online' \subseteq Connection
          /\ pc' \in [Handler -> {"read", "clock", "allow", "clean", "done"}]
        BY <1>1 DEF QuietStep, ReadLine, Disconnect, FindClient, CleanUpRemove, Goto
    <2>3. cleaning' \in [Cleaner -> {None} \cup [key : Connection, removed : BOOLEAN]]
        <3>1. ASSUME NEW c \in Cleaner, FindClient(c)
              PROVE  cleaning' \in [Cleaner -> {None} \cup [key : Connection, removed : BOOLEAN]]
            BY <3>1 DEF FindClient
        <3>2. ASSUME NEW c \in Cleaner, CleanUpRemove(c)
              PROVE  cleaning' \in [Cleaner -> {None} \cup [key : Connection, removed : BOOLEAN]]
            <4>1. cleaning[c] \in [key : Connection, removed : BOOLEAN]
                BY <3>2 DEF CleanUpRemove
            <4>2. [cleaning[c] EXCEPT !.removed = TRUE] \in [key : Connection, removed : BOOLEAN]
                BY <4>1
            <4>3. QED
                BY <3>2, <4>2 DEF CleanUpRemove
        <3>3. QED
            BY <1>1, <3>1, <3>2 DEF QuietStep, ReadLine, Disconnect
    <2>4. QED
        BY <2>1, <2>2, <2>3
<1>2. ASSUME NEW h \in Handler, ReadClock(h) PROVE LimiterTypeOK'
    BY <1>2 DEF ReadClock, Goto, limiter
<1>3. ASSUME NEW h \in Handler, Allow(h) PROVE LimiterTypeOK'
    <2> DEFINE k == KeyOf[h]
               recent == Recent(k, stamp[h])
               event == NewEvent(k, stamp[h])
    <2>1. /\ k \in Key /\ stamp[h] \in 0..now
          /\ pc' = [pc EXCEPT ![h] = "read"] /\ UNCHANGED <<now, forgotten, online, stamp, cleaning>>
        BY <1>3, AllowCases
    <2>2. /\ recent \subseteq history[k] /\ event \in Event /\ event.time <= now
          /\ IsFiniteSet(recent) /\ Cardinality(recent) <= MaxEvents
          /\ Cardinality(recent) \in Nat
        <3>1. /\ event \in Event /\ event.time = stamp[h] /\ IsFiniteSet(recent)
              /\ Cardinality(recent) \in Nat /\ Cardinality(recent) <= Cardinality(history[k])
              /\ Cardinality(history[k]) \in Nat
            BY <2>1, EventFacts
        <3>2. Cardinality(history[k]) <= MaxEvents
            BY <2>1
        <3>3. recent \subseteq history[k]
            BY DEF Recent
        <3>4. QED
            BY <2>1, <3>1, <3>2, <3>3
    <2>3. Cardinality(recent) < MaxEvents => Cardinality(recent \cup {event}) <= MaxEvents
        <3>1. Cardinality(recent \cup {event}) \in {Cardinality(recent), Cardinality(recent) + 1}
            BY <2>2, FS_AddElement
        <3>2. QED
            BY <2>2, <3>1
    <2>4. \/ history' = [history EXCEPT ![k] = recent] /\ UNCHANGED accepted
          \/ /\ Cardinality(recent) < MaxEvents
             /\ history' = [history EXCEPT ![k] = recent \cup {event}]
             /\ accepted' = [accepted EXCEPT ![k] = accepted[k] \cup {event}]
        BY <1>3, AllowCases
    <2>5. history' \in [Key -> SUBSET Event] /\ accepted' \in [Key -> SUBSET Event]
        BY <2>1, <2>2, <2>4
    <2>6. \A j \in Key : Cardinality(history'[j]) <= MaxEvents
        BY <2>1, <2>2, <2>3, <2>4
    <2>7. \A j \in Key : \A e \in accepted'[j] : e.time <= now
        BY <2>1, <2>2, <2>4
    <2>8. QED
        BY <2>1, <2>5, <2>6, <2>7
<1>4. CASE ForgetStep
    <2>1. /\ pc' \in [Handler -> {"read", "clock", "allow", "clean", "done"}]
          /\ online' \subseteq Connection
          /\ cleaning' \in [Cleaner -> {None} \cup [key : Connection, removed : BOOLEAN]]
        BY <1>4 DEF ForgetStep, CleanUpSelf, CleanUpForget, Goto
    <2>2. Cardinality({}) = 0
        BY FS_EmptySet
    <2>3. UNCHANGED <<now, accepted, stamp>>
        BY <1>4, ForgetCases
    <2>4. /\ history' \in [Key -> SUBSET Event] /\ forgotten' \subseteq Connection
          /\ \A k \in Key : history'[k] = history[k] \/ history'[k] = {}
        BY <1>4, ForgetCases
    <2>5. \A k \in Key : Cardinality(history'[k]) <= MaxEvents
        <3> SUFFICES ASSUME NEW k \in Key PROVE Cardinality(history'[k]) <= MaxEvents
            OBVIOUS
        <3>1. CASE history'[k] = history[k]
            BY <3>1
        <3>2. CASE history'[k] = {}
            BY <2>2, <3>2
        <3>3. QED
            BY <2>4, <3>1, <3>2
    <2>6. QED
        BY <2>1, <2>3, <2>4, <2>5
<1>5. CASE Tick
    <2>1. now \in Nat /\ now' \in 0..MaxTime /\ now' = now + 1
        BY <1>5 DEF Tick
    <2>2. \A k \in Key : \A e \in accepted[k] : e.time <= now'
        <3> SUFFICES ASSUME NEW k \in Key, NEW e \in accepted[k] PROVE e.time <= now'
            OBVIOUS
        <3>1. e.time \in Nat /\ e.time <= now
            BY DEF Event
        <3>2. QED
            BY <2>1, <3>1
    <2>3. stamp \in [Handler -> 0..now']
        BY <2>1
    <2>4. QED
        BY <1>5, <2>1, <2>2, <2>3 DEF Tick, limiter
<1>6. QED
    BY <1>1, <1>2, <1>3, <1>4, <1>5 DEF Next, QuietStep, ForgetStep

LEMMA EventsKept ==
    ASSUME LimiterInv, Next
    PROVE  EventsInv'
<1> USE DEF LimiterInv, EventsInv
<1>1. CASE QuietStep
    BY <1>1, QuietFrame
<1>2. ASSUME NEW h \in Handler, ReadClock(h) PROVE EventsInv'
    BY <1>2 DEF ReadClock, limiter
<1>3. ASSUME NEW h \in Handler, Allow(h) PROVE EventsInv'
    <2> DEFINE k == KeyOf[h]
               recent == Recent(k, stamp[h])
               event == NewEvent(k, stamp[h])
    <2>1. /\ k \in Key /\ stamp[h] \in 0..now
          /\ \/ history' = [history EXCEPT ![k] = recent] /\ UNCHANGED accepted
             \/ /\ history' = [history EXCEPT ![k] = recent \cup {event}]
                /\ accepted' = [accepted EXCEPT ![k] = accepted[k] \cup {event}]
        BY <1>3, AllowCases
    <2>2. recent \subseteq history[k]
        BY DEF Recent
    <2>3. /\ event \notin accepted[k] /\ event.number = Cardinality(accepted[k]) + 1
          /\ Cardinality(accepted[k]) \in Nat /\ IsFiniteSet(accepted[k])
        BY <2>1, EventFacts
    <2>4. /\ IsFiniteSet(accepted[k] \cup {event})
          /\ Cardinality(accepted[k] \cup {event}) = Cardinality(accepted[k]) + 1
        BY <2>3, FS_AddElement
    <2>5. \A e \in accepted[k] \cup {event} : e.number <= Cardinality(accepted[k] \cup {event})
        BY <2>1, <2>3, <2>4 DEF LimiterTypeOK, Event
    <2>6. history \in [Key -> SUBSET Event] /\ accepted \in [Key -> SUBSET Event]
        BY DEF LimiterTypeOK
    <2>7. \A j \in Key \ {k} : history'[j] = history[j] /\ accepted'[j] = accepted[j]
        BY <2>1, <2>6
    <2>8. \/ history'[k] = recent /\ accepted'[k] = accepted[k]
          \/ history'[k] = recent \cup {event} /\ accepted'[k] = accepted[k] \cup {event}
        BY <2>1, <2>6
    <2>9. /\ IsFiniteSet(accepted'[k]) /\ history'[k] \subseteq accepted'[k]
          /\ \A e \in accepted'[k] : e.number <= Cardinality(accepted'[k])
        BY <2>1, <2>2, <2>4, <2>5, <2>8
    <2>10. QED
        BY <2>7, <2>9
<1>4. CASE ForgetStep
    BY <1>4, ForgetCases DEF LimiterTypeOK
<1>5. CASE Tick
    BY <1>5 DEF Tick, limiter
<1>6. QED
    BY <1>1, <1>2, <1>3, <1>4, <1>5 DEF Next, QuietStep, ForgetStep

LEMMA DelayKept ==
    ASSUME LimiterInv, Next
    PROVE  DelayInv'
<1> USE DEF LimiterInv, LimiterTypeOK, DelayInv
<1>1. CASE QuietStep
    BY <1>1, QuietFrame DEF QuietStep, ReadLine, Disconnect, FindClient, CleanUpRemove, Goto
<1>2. ASSUME NEW h \in Handler, ReadClock(h) PROVE DelayInv'
    BY <1>2 DEF ReadClock, Goto
<1>3. ASSUME NEW h \in Handler, Allow(h) PROVE DelayInv'
    BY <1>3 DEF Allow, Goto
<1>4. CASE ForgetStep
    BY <1>4 DEF ForgetStep, CleanUpSelf, CleanUpForget, Goto
<1>5. CASE Tick
    BY <1>5 DEF Tick
<1>6. QED
    BY <1>1, <1>2, <1>3, <1>4, <1>5 DEF Next, QuietStep, ForgetStep

LEMMA DroppedKept ==
    ASSUME LimiterInv, Next
    PROVE  DroppedInv'
<1> USE DEF LimiterInv, DroppedInv
<1>1. CASE QuietStep
    BY <1>1, QuietFrame
<1>2. ASSUME NEW h \in Handler, ReadClock(h) PROVE DroppedInv'
    BY <1>2 DEF ReadClock, limiter
<1>3. ASSUME NEW h \in Handler, Allow(h) PROVE DroppedInv'
    <2> DEFINE k == KeyOf[h]
               recent == Recent(k, stamp[h])
               event == NewEvent(k, stamp[h])
    <2>1. /\ k \in Key /\ stamp[h] \in 0..now /\ UNCHANGED <<now, forgotten>>
          /\ \/ history' = [history EXCEPT ![k] = recent] /\ UNCHANGED accepted
             \/ /\ history' = [history EXCEPT ![k] = recent \cup {event}]
                /\ accepted' = [accepted EXCEPT ![k] = accepted[k] \cup {event}]
        BY <1>3, AllowCases
    <2>2. \A e \in history[k] \ recent : e.time + Window < now
        <3> SUFFICES ASSUME NEW e \in history[k], e \notin recent PROVE e.time + Window < now
            OBVIOUS
        <3>1. e \in Event /\ e.time \in Nat /\ now \in Nat
            BY <2>1 DEF LimiterTypeOK, Event
        <3>2. ~(e.time >= stamp[h] - Window)
            BY DEF Recent
        <3>3. QED
            BY <2>1, <3>1, <3>2
    <2>3. history \in [Key -> SUBSET Event] /\ accepted \in [Key -> SUBSET Event]
        BY DEF LimiterTypeOK
    <2>4. \A e \in accepted'[k] \ history'[k] : e \in accepted[k] \ history[k] \/ e \in history[k] \ recent
        BY <2>1, <2>3
    <2>5. \A j \in Key \ {k} : accepted'[j] = accepted[j] /\ history'[j] = history[j]
        BY <2>1, <2>3
    <2>6. QED
        BY <2>1, <2>2, <2>4, <2>5
<1>4. CASE ForgetStep
    BY <1>4, ForgetCases DEF LimiterTypeOK
<1>5. CASE Tick
    <2>1. \A k \in Key : \A e \in accepted[k] : e.time \in Nat
        BY DEF LimiterTypeOK, Event
    <2>2. now \in Nat /\ now' = now + 1 /\ UNCHANGED <<history, accepted, forgotten>>
        BY <1>5 DEF Tick, limiter, LimiterTypeOK
    <2>3. QED
        BY <2>1, <2>2
<1>6. QED
    BY <1>1, <1>2, <1>3, <1>4, <1>5 DEF Next, QuietStep, ForgetStep

LEMMA ForgetInvKept ==
    ASSUME LimiterInv, Next
    PROVE  ForgetInv'
<1> USE DEF LimiterInv, LimiterTypeOK, ForgetInv
<1>1. ASSUME NEW h \in Handler, ReadLine(h) \/ Disconnect(h) \/ ReadClock(h) \/ Allow(h) PROVE ForgetInv'
    BY <1>1 DEF ReadLine, Disconnect, ReadClock, Allow, limiter
<1>2. ASSUME NEW h \in Handler, CleanUpSelf(h) PROVE ForgetInv'
    BY <1>2 DEF CleanUpSelf, Forget, limiter
<1>3. ASSUME NEW c \in Cleaner, FindClient(c) PROVE ForgetInv'
    BY <1>3 DEF FindClient, limiter
<1>4. ASSUME NEW c \in Cleaner, CleanUpRemove(c) PROVE ForgetInv'
    BY <1>4 DEF CleanUpRemove, limiter
<1>5. ASSUME NEW c \in Cleaner, CleanUpForget(c) PROVE ForgetInv'
    BY <1>5 DEF CleanUpForget, Forget
<1>6. CASE Tick
    BY <1>6 DEF Tick, limiter
<1>7. QED
    BY <1>1, <1>2, <1>3, <1>4, <1>5, <1>6 DEF Next

\* allow() accepts an event: every window that contains it had room for it.
LEMMA AcceptWithinBound ==
    ASSUME LimiterInv, NEW h \in Handler, pc[h] = "allow", KeyOf[h] \notin forgotten,
           Cardinality(Recent(KeyOf[h], stamp[h])) < MaxEvents,
           NEW from \in 0..MaxTime, stamp[h] \in from..(from + Window - MaxDelay)
    PROVE  Cardinality(AcceptedIn(KeyOf[h], from, from + Window - MaxDelay)) < MaxEvents
<1> DEFINE k == KeyOf[h]
           window == AcceptedIn(k, from, from + Window - MaxDelay)
<1>1. k \in Key /\ stamp[h] \in 0..now /\ now \in Nat /\ now <= stamp[h] + MaxDelay
    BY DEF LimiterInv, LimiterTypeOK, DelayInv
<1>2. window \subseteq Recent(k, stamp[h])
    <2> SUFFICES ASSUME NEW e \in accepted[k], e.time \in from..(from + Window - MaxDelay)
                 PROVE  e \in Recent(k, stamp[h])
        BY DEF AcceptedIn
    <2>1. e.time \in Nat
        BY <1>1 DEF LimiterInv, LimiterTypeOK, Event
    <2>2. e.time + Window >= now /\ e.time >= stamp[h] - Window
        BY <1>1, <2>1
    <2>3. e \in history[k]
        BY <1>1, <2>1, <2>2 DEF LimiterInv, DroppedInv
    <2>4. QED
        BY <2>2, <2>3 DEF Recent
<1>3. IsFiniteSet(Recent(k, stamp[h])) /\ Cardinality(Recent(k, stamp[h])) \in Nat
    BY <1>1, EventFacts
<1>4. Cardinality(window) <= Cardinality(Recent(k, stamp[h])) /\ Cardinality(window) \in Nat
    BY <1>2, <1>3, FS_Subset, FS_CardinalityType
<1>5. QED
    BY <1>3, <1>4

\* The window with and without the new event.
LEMMA WindowGrows ==
    ASSUME LimiterInv, NEW k \in Key, NEW t \in 0..now, NEW from \in 0..MaxTime, NEW to,
           accepted' = [accepted EXCEPT ![k] = accepted[k] \cup {NewEvent(k, t)}]
    PROVE  /\ Cardinality(AcceptedIn(k, from, to)) \in Nat
           /\ t \notin from..to => AcceptedIn(k, from, to)' = AcceptedIn(k, from, to)
           /\ Cardinality(AcceptedIn(k, from, to)') <= Cardinality(AcceptedIn(k, from, to)) + 1
<1> DEFINE event == NewEvent(k, t)
           before == AcceptedIn(k, from, to)
           after == {e \in accepted[k] \cup {event} : e.time \in from..to}
<1>1. event.time = t /\ IsFiniteSet(accepted[k])
    BY EventFacts
<1>2. AcceptedIn(k, from, to)' = after
    BY DEF AcceptedIn, LimiterInv, LimiterTypeOK
<1>3. before \subseteq accepted[k]
    BY DEF AcceptedIn
<1>4. IsFiniteSet(before) /\ Cardinality(before) \in Nat
    BY <1>1, <1>3, FS_Subset, FS_CardinalityType
<1>5. CASE t \in from..to
    <2>1. after = before \cup {event}
        BY <1>1, <1>5 DEF AcceptedIn
    <2>2. Cardinality(after) \in {Cardinality(before), Cardinality(before) + 1}
        BY <1>4, <2>1, FS_AddElement
    <2>3. QED
        BY <1>2, <1>4, <1>5, <2>2
<1>6. CASE t \notin from..to
    <2>1. after = before
        BY <1>1, <1>6 DEF AcceptedIn
    <2>2. AcceptedIn(k, from, to)' = before
        BY <1>2, <2>1
    <2>3. Cardinality(before) <= Cardinality(before) + 1
        BY <1>4
    <2>4. QED
        BY <1>4, <2>2, <2>3
<1>7. QED
    BY <1>5, <1>6

LEMMA BoundKept ==
    ASSUME LimiterInv, Next
    PROVE  BoundInv'
<1> SUFFICES ASSUME NEW k \in Key, NEW from \in 0..MaxTime
             PROVE  Cardinality(AcceptedIn(k, from, from + Window - MaxDelay)') <= MaxEvents + Surplus(k)'
    BY DEF BoundInv
<1> DEFINE to == from + Window - MaxDelay
<1>1. /\ Cardinality(AcceptedIn(k, from, to)) <= MaxEvents + Surplus(k)
      /\ Cardinality(AcceptedIn(k, from, to)) \in Nat
    <2>1. IsFiniteSet(accepted[k]) /\ AcceptedIn(k, from, to) \subseteq accepted[k]
        BY DEF LimiterInv, EventsInv, AcceptedIn
    <2>2. QED
        BY <2>1, FS_Subset, FS_CardinalityType DEF LimiterInv, BoundInv
<1>2. Surplus(k) \in {0, 1} /\ Surplus(k)' \in {0, 1}
    BY DEF Surplus
\* It is enough that nothing was accepted and that nobody started to ask.
<1>3. ASSUME UNCHANGED accepted, forgotten \subseteq forgotten',
             k \in forgotten => (Asking(k)' => Asking(k))
      PROVE  Cardinality(AcceptedIn(k, from, to)') <= MaxEvents + Surplus(k)'
    <2>1. AcceptedIn(k, from, to)' = AcceptedIn(k, from, to)
        BY <1>3 DEF AcceptedIn
    <2>2. Surplus(k) <= Surplus(k)'
        BY <1>3 DEF Surplus
    <2>3. QED
        BY <1>1, <1>2, <2>1, <2>2
<1>4. ASSUME NEW h \in Handler, ReadLine(h)
      PROVE  Cardinality(AcceptedIn(k, from, to)') <= MaxEvents + Surplus(k)'
    <2>1. UNCHANGED <<accepted, forgotten>>
        BY <1>4 DEF ReadLine, limiter
    <2>2. k \in forgotten => (Asking(k)' => Asking(k))
        BY <1>4 DEF ReadLine, Goto, Asking, LimiterInv, LimiterTypeOK, ForgetInv
    <2>3. QED
        BY <1>3, <2>1, <2>2
<1>5. ASSUME NEW h \in Handler, Disconnect(h) \/ ReadClock(h) \/ CleanUpSelf(h)
      PROVE  Cardinality(AcceptedIn(k, from, to)') <= MaxEvents + Surplus(k)'
    <2>1. UNCHANGED accepted /\ forgotten \subseteq forgotten'
        BY <1>5 DEF Disconnect, ReadClock, CleanUpSelf, Forget, limiter
    <2>2. Asking(k)' => Asking(k)
        BY <1>5 DEF Disconnect, ReadClock, CleanUpSelf, Goto, Asking, LimiterInv, LimiterTypeOK
    <2>3. QED
        BY <1>3, <2>1, <2>2
<1>6. ASSUME NEW c \in Cleaner, FindClient(c) \/ CleanUpRemove(c) \/ CleanUpForget(c)
      PROVE  Cardinality(AcceptedIn(k, from, to)') <= MaxEvents + Surplus(k)'
    <2>1. UNCHANGED <<accepted, pc>> /\ forgotten \subseteq forgotten'
        BY <1>6 DEF FindClient, CleanUpRemove, CleanUpForget, Forget, limiter
    <2>2. QED
        BY <1>3, <2>1 DEF Asking
<1>7. CASE Tick
    <2>1. UNCHANGED <<accepted, forgotten, pc>>
        BY <1>7 DEF Tick, limiter
    <2>2. QED
        BY <1>3, <2>1 DEF Asking
<1>8. ASSUME NEW h \in Handler, Allow(h)
      PROVE  Cardinality(AcceptedIn(k, from, to)') <= MaxEvents + Surplus(k)'
    <2> DEFINE t == stamp[h]
    <2>1. /\ KeyOf[h] \in Key /\ t \in 0..now /\ pc[h] = "allow"
          /\ pc' = [pc EXCEPT ![h] = "read"] /\ UNCHANGED forgotten
          /\ \/ UNCHANGED accepted
             \/ /\ Cardinality(Recent(KeyOf[h], t)) < MaxEvents
                /\ accepted' = [accepted EXCEPT ![KeyOf[h]] = accepted[KeyOf[h]] \cup {NewEvent(KeyOf[h], t)}]
        BY <1>8, AllowCases
    <2>2. pc \in [Handler -> {"read", "clock", "allow", "clean", "done"}] /\ accepted \in [Key -> SUBSET Event]
        BY DEF LimiterInv, LimiterTypeOK
    <2>3. Asking(k)' => Asking(k)
        BY <2>1, <2>2 DEF Asking
    <2>4. CASE UNCHANGED accepted \/ KeyOf[h] # k
        <3>1. AcceptedIn(k, from, to)' = AcceptedIn(k, from, to)
            BY <2>1, <2>2, <2>4 DEF AcceptedIn
        <3>2. Surplus(k) <= Surplus(k)'
            BY <2>1, <2>3 DEF Surplus
        <3>3. QED
            BY <1>1, <1>2, <3>1, <3>2
    <2>5. CASE /\ Cardinality(Recent(k, t)) < MaxEvents /\ KeyOf[h] = k
               /\ accepted' = [accepted EXCEPT ![k] = accepted[k] \cup {NewEvent(k, t)}]
        <3>1. /\ t \notin from..to => AcceptedIn(k, from, to)' = AcceptedIn(k, from, to)
              /\ Cardinality(AcceptedIn(k, from, to)') <= Cardinality(AcceptedIn(k, from, to)) + 1
            <4>1. t \in 0..now /\ accepted' = [accepted EXCEPT ![k] = accepted[k] \cup {NewEvent(k, t)}]
                BY <2>1, <2>5
            <4> HIDE DEF t, to
            <4>2. QED
                BY <4>1, WindowGrows
        <3>2. Asking(k) /\ Surplus(k) = 0
            BY <2>1, <2>5 DEF Asking, Surplus
        <3>3. Cardinality(AcceptedIn(k, from, to)') \in Nat
            <4>1. IsFiniteSet(accepted[k] \cup {NewEvent(k, t)})
                BY FS_AddElement DEF LimiterInv, EventsInv
            <4>2. AcceptedIn(k, from, to)' \subseteq accepted[k] \cup {NewEvent(k, t)}
                BY <2>2, <2>5 DEF AcceptedIn
            <4>3. QED
                BY <4>1, <4>2, FS_Subset, FS_CardinalityType
        <3>4. CASE t \notin from..to
            BY <1>1, <1>2, <3>1, <3>2, <3>4
        <3>5. CASE k \notin forgotten /\ t \in from..to
            <4>1. Cardinality(AcceptedIn(k, from, to)) < MaxEvents
                BY <2>1, <2>5, <3>5, AcceptWithinBound
            <4>2. QED
                BY <1>1, <1>2, <3>1, <3>3, <4>1
        <3>6. CASE k \in forgotten
            <4>1. \A g \in Handler : KeyOf[g] = k => g = h
                BY <2>5, <3>6 DEF LimiterInv, LimiterTypeOK
            <4>2. ~Asking(k)' /\ Surplus(k)' = 1
                BY <2>1, <2>2, <3>6, <4>1 DEF Asking, Surplus
            <4>3. Cardinality(AcceptedIn(k, from, to)) <= MaxEvents
                BY <1>1, <3>2
            <4>4. Cardinality(AcceptedIn(k, from, to)') \in Nat
                BY <3>3
            <4>5. QED
                BY <1>1, <3>1, <4>2, <4>3, <4>4
        <3>7. QED
            BY <3>4, <3>5, <3>6
    <2>6. QED
        BY <2>1, <2>4, <2>5
<1>9. QED
    BY <1>4, <1>5, <1>6, <1>7, <1>8 DEF Next

LEMMA KeptKept ==
    ASSUME LimiterInv, Next
    PROVE  NothingKept'
<1> SUFFICES ASSUME NEW g \in Handler, pc'[g] = "done", KeyOf[g] \in Connection
             PROVE  history'[KeyOf[g]] = {}
    BY DEF NothingKept
<1> USE DEF LimiterInv, LimiterTypeOK, NothingKept
<1>1. KeyOf[g] \in Key /\ \A h \in Handler : KeyOf[h] = KeyOf[g] => h = g
    BY DEF Key
<1>2. ASSUME NEW h \in Handler, ReadLine(h) \/ Disconnect(h) \/ ReadClock(h)
      PROVE  history'[KeyOf[g]] = {}
    BY <1>2 DEF ReadLine, Disconnect, ReadClock, Goto, limiter
<1>3. ASSUME NEW h \in Handler, Allow(h) PROVE history'[KeyOf[g]] = {}
    <2>1. /\ pc' = [pc EXCEPT ![h] = "read"]
          /\ \E s : history' = [history EXCEPT ![KeyOf[h]] = s]
        BY <1>3 DEF Allow, Goto
    <2>2. g # h /\ pc[g] = "done" /\ KeyOf[h] # KeyOf[g]
        BY <1>1, <2>1
    <2>3. QED
        BY <1>1, <2>1, <2>2
<1>4. ASSUME NEW h \in Handler, CleanUpSelf(h) PROVE history'[KeyOf[g]] = {}
    BY <1>1, <1>4 DEF CleanUpSelf, Forget, Goto, limiter
<1>5. ASSUME NEW c \in Cleaner, FindClient(c) \/ CleanUpRemove(c) \/ CleanUpForget(c)
      PROVE  history'[KeyOf[g]] = {}
    BY <1>1, <1>5 DEF FindClient, CleanUpRemove, CleanUpForget, Forget, limiter
<1>6. CASE Tick
    BY <1>6 DEF Tick, limiter
<1>7. QED
    BY <1>2, <1>3, <1>4, <1>5, <1>6 DEF Next
-----------------------------------------------------------------------------
\* The inductive invariant, for any number of threads, keys and clean-ups.
THEOREM LimiterInvariant == Spec => []LimiterInv
<1>1. LimiterInv /\ [Next]_vars => LimiterInv'
    <2> SUFFICES ASSUME LimiterInv, [Next]_vars PROVE LimiterInv'
        OBVIOUS
    <2>1. CASE Next
        BY <2>1, TypesKept, EventsKept, DelayKept, DroppedKept, ForgetInvKept, BoundKept, KeptKept
        DEF LimiterInv
    <2>2. CASE UNCHANGED vars
        <3> USE <2>2 DEF vars, limiter, LimiterInv
        <3>1. LimiterTypeOK' /\ EventsInv' /\ DelayInv' /\ DroppedInv' /\ ForgetInv' /\ NothingKept'
            BY DEF LimiterTypeOK, EventsInv, DelayInv, DroppedInv, ForgetInv, NothingKept
        <3>2. BoundInv'
            BY DEF BoundInv, AcceptedIn, Surplus, Asking
        <3>3. QED
            BY <3>1, <3>2
    <2>3. QED
        BY <2>1, <2>2
<1>2. QED
    BY <1>1, InitInv, PTL DEF Spec

\* The types of the limiter's state hold; in particular no list of time stamps grows
\* beyond max_events.
THEOREM LimiterTypeCorrect == Spec => []LimiterTypeOK
BY LimiterInvariant, PTL DEF LimiterInv

\* allow() keeps its promise for any max_events and window_seconds, any number of
\* threads that share a key and any delay between the clock and the lock that is not
\* longer than the window, and a forgotten client gains one message at most.
THEOREM RateIsBounded == Spec => []RateBound
<1>1. LimiterInv => RateBound
    <2> SUFFICES ASSUME LimiterInv, NEW k \in Key, NEW from \in 0..MaxTime
                 PROVE  Cardinality(AcceptedIn(k, from, from + Window - MaxDelay))
                            <= MaxEvents + IF k \in forgotten THEN 1 ELSE 0
        BY DEF RateBound
    <2> DEFINE window == AcceptedIn(k, from, from + Window - MaxDelay)
    <2>1. Cardinality(window) <= MaxEvents + Surplus(k)
        BY DEF LimiterInv, BoundInv
    <2>2. Cardinality(window) \in Nat
        <3>1. IsFiniteSet(accepted[k]) /\ window \subseteq accepted[k]
            BY DEF LimiterInv, EventsInv, AcceptedIn
        <3>2. QED
            BY <3>1, FS_Subset, FS_CardinalityType
    <2>3. QED
        BY <2>1, <2>2 DEF Surplus
<1>2. QED
    BY <1>1, LimiterInvariant, PTL

\* allow() refuses only a key that was allowed max_events within the window before
\* the time stamp of the call.
THEOREM RefusalsAreJustified == Spec => []RefusalsJustified
<1>1. LimiterInv => RefusalsJustified
    <2> SUFFICES ASSUME LimiterInv, NEW h \in Handler, pc[h] = "allow", Refused(h)
                 PROVE  Cardinality(AcceptedIn(KeyOf[h], stamp[h] - Window, now)) >= MaxEvents
        BY DEF RefusalsJustified
    <2> DEFINE k == KeyOf[h]
               window == AcceptedIn(k, stamp[h] - Window, now)
    <2>1. k \in Key /\ stamp[h] \in 0..now /\ now \in Nat
        BY DEF LimiterInv, LimiterTypeOK
    <2>2. Recent(k, stamp[h]) \subseteq window
        <3> SUFFICES ASSUME NEW e \in history[k], e.time >= stamp[h] - Window
                     PROVE  e \in accepted[k] /\ e.time \in (stamp[h] - Window)..now
            BY DEF Recent, AcceptedIn
        <3>1. e \in accepted[k]
            BY <2>1 DEF LimiterInv, EventsInv
        <3>2. e.time \in Nat /\ e.time <= now
            BY <2>1, <3>1 DEF LimiterInv, LimiterTypeOK, Event
        <3>3. QED
            BY <2>1, <3>1, <3>2
    <2>3. IsFiniteSet(accepted[k]) /\ window \subseteq accepted[k]
        BY <2>1 DEF LimiterInv, EventsInv, AcceptedIn
    <2>4. IsFiniteSet(window) /\ Cardinality(window) \in Nat
        BY <2>3, FS_Subset, FS_CardinalityType
    <2>5. Cardinality(Recent(k, stamp[h])) <= Cardinality(window)
        BY <2>2, <2>4, FS_Subset
    <2>6. Cardinality(Recent(k, stamp[h])) \in Nat /\ Cardinality(Recent(k, stamp[h])) >= MaxEvents
        BY <2>1, EventFacts DEF Refused
    <2>7. QED
        BY <2>4, <2>5, <2>6
<1>2. QED
    BY <1>1, LimiterInvariant, PTL

\* When the thread of a connection has ended, the limiter holds nothing of it, however
\* many others cleaned the client up before.
THEOREM NothingIsKept == Spec => []NothingKept
BY LimiterInvariant, PTL DEF LimiterInv
=============================================================================
