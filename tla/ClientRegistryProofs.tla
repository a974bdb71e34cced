----------------------- MODULE ClientRegistryProofs -----------------------
(***************************************************************************)
(* RegistryInv is an inductive invariant of RegistrySpec, for every finite *)
(* set of sockets, every set of names and addresses and every limit.       *)
(* The proof has one lemma per method, and looks separately at the part of *)
(* the state that counts IP slots and the part that names sessions.        *)
(***************************************************************************)
EXTENDS ClientRegistry, FiniteSetTheorems, TLAPS

SlotTypeOK ==
    /\ client_ips \in [Socket -> IP \cup {None}]
    /\ ip_counts \in [IP -> Nat]

SlotInv == SlotTypeOK /\ IpCountsExact /\ CountsBounded

NameTypeOK ==
    /\ sessions \in [Socket -> Session \cup {None}]
    /\ by_name \in [Username -> Socket \cup {None}]
    /\ pending_logins \subseteq Username
    /\ writers \subseteq Socket

NameInv == NameTypeOK /\ NameIndexSound /\ OnlineNotPending /\ WriterPerSession

LEMMA SplitInv == RegistryInv <=> SlotInv /\ NameInv /\ SessionHoldsSlot
BY DEF RegistryInv, SlotInv, NameInv, RegistryTypeOK, SlotTypeOK, NameTypeOK

\* The sockets that hold a slot of an address form a finite set.
LEMMA HoldersFinite == ASSUME NEW ip PROVE IsFiniteSet(Holders(ip))
BY RegistryAssumption, FS_Subset DEF RegistryAssumption, Holders
-----------------------------------------------------------------------------
(* The slot counters.                                                      *)

\* try_reserve_ip_slot keeps the counters exact and within the limit.
LEMMA ReserveSlotInv ==
    ASSUME SlotInv, NEW c \in Socket, NEW ip \in IP, NEW granted \in BOOLEAN,
           client_ips[c] = None, TryReserveIpSlot(c, ip, granted)
    PROVE  SlotInv'
<1>1. CASE ~granted
    BY <1>1 DEF SlotInv, SlotTypeOK, IpCountsExact, CountsBounded, Holders,
                TryReserveIpSlot, slotVars
<1>2. CASE granted
    <2>1. /\ ip_counts' = [ip_counts EXCEPT ![ip] = @ + 1]
          /\ client_ips' = [client_ips EXCEPT ![c] = ip]
          /\ ip_counts[ip] < MaxConnectionsPerIp
        BY <1>2 DEF TryReserveIpSlot
    <2>2. SlotTypeOK'
        BY <2>1 DEF SlotInv, SlotTypeOK
    <2>3. CountsBounded'
        BY <2>1, RegistryAssumption DEF SlotInv, SlotTypeOK, CountsBounded, RegistryAssumption
    <2>4. IpCountsExact'
        <3> SUFFICES ASSUME NEW i \in IP
                     PROVE  ip_counts'[i] = Cardinality(Holders(i)')
            BY DEF IpCountsExact
        <3>1. i = ip => Holders(i)' = Holders(i) \cup {c} /\ c \notin Holders(i)
            BY <2>1, RegistryAssumption DEF Holders, SlotInv, SlotTypeOK, RegistryAssumption
        <3>2. i # ip => Holders(i)' = Holders(i)
            BY <2>1, RegistryAssumption DEF Holders, SlotInv, SlotTypeOK, RegistryAssumption
        <3>3. /\ ip_counts[i] = Cardinality(Holders(i))
              /\ ip_counts'[i] = IF i = ip THEN ip_counts[i] + 1 ELSE ip_counts[i]
            BY <2>1 DEF SlotInv, SlotTypeOK, IpCountsExact
        <3>4. c \notin Holders(i) => Cardinality(Holders(i) \cup {c}) = Cardinality(Holders(i)) + 1
            BY HoldersFinite, FS_AddElement
        <3> QED BY <3>1, <3>2, <3>3, <3>4
    <2> QED BY <2>2, <2>3, <2>4 DEF SlotInv
<1> QED BY <1>1, <1>2

\* release_ip_slot keeps the counters exact, whether or not c holds a slot.
LEMMA ReleaseSlotInv ==
    ASSUME SlotInv, NEW c \in Socket, ReleaseIpSlot(c)
    PROVE  SlotInv'
<1>1. /\ client_ips' = [client_ips EXCEPT ![c] = None]
      /\ ip_counts' = [ip \in IP |-> IF client_ips[c] = ip /\ ip_counts[ip] > 0
                                     THEN ip_counts[ip] - 1
                                     ELSE ip_counts[ip]]
    BY DEF ReleaseIpSlot
<1>2. SlotTypeOK'
    BY <1>1 DEF SlotInv, SlotTypeOK
<1>3. CountsBounded'
    BY <1>1, RegistryAssumption DEF SlotInv, SlotTypeOK, CountsBounded, RegistryAssumption
<1>4. IpCountsExact'
    <2> SUFFICES ASSUME NEW i \in IP
                 PROVE  ip_counts'[i] = Cardinality(Holders(i)')
        BY DEF IpCountsExact
    <2>1. Holders(i)' = Holders(i) \ {c}
        BY <1>1, RegistryAssumption DEF Holders, SlotInv, SlotTypeOK, RegistryAssumption
    <2>2. c \in Holders(i) <=> client_ips[c] = i
        BY DEF Holders
    <2>3. Cardinality(Holders(i) \ {c}) =
            IF c \in Holders(i) THEN Cardinality(Holders(i)) - 1 ELSE Cardinality(Holders(i))
        BY HoldersFinite, FS_RemoveElement
    <2>4. ip_counts[i] = Cardinality(Holders(i)) /\ ip_counts[i] \in Nat
        BY DEF SlotInv, SlotTypeOK, IpCountsExact
    <2>5. c \in Holders(i) => Cardinality(Holders(i)) # 0
        BY HoldersFinite, FS_EmptySet
    <2> QED BY <1>1, <2>1, <2>2, <2>3, <2>4, <2>5
<1> QED BY <1>2, <1>3, <1>4 DEF SlotInv

\* Nothing is held at the start.
LEMMA EmptySlots ==
    ASSUME client_ips = [c \in Socket |-> None], ip_counts = [ip \in IP |-> 0]
    PROVE  SlotInv
<1>1. \A ip \in IP : Holders(ip) = {}
    BY RegistryAssumption DEF Holders, RegistryAssumption
<1> QED BY <1>1, FS_EmptySet, RegistryAssumption
        DEF SlotInv, SlotTypeOK, IpCountsExact, CountsBounded, RegistryAssumption

LEMMA SlotsUnchanged == ASSUME SlotInv, UNCHANGED slotVars PROVE SlotInv'
BY DEF SlotInv, SlotTypeOK, IpCountsExact, CountsBounded, Holders, slotVars
-----------------------------------------------------------------------------
(* Sessions, names and reservations.                                       *)

LEMMA AddInv ==
    ASSUME NameInv, NEW c \in Socket, NEW n \in Username, NEW r \in Role,
           ~Registered(c), Add(c, n, r)
    PROVE  NameInv'
<1> DEFINE s == [username |-> n, role |-> r]
<1>1. /\ sessions' = [sessions EXCEPT ![c] = s]
      /\ by_name' = [by_name EXCEPT ![n] = c]
      /\ pending_logins' = pending_logins \ {n}
      /\ writers' = writers \cup {c}
    BY DEF Add
<1>2. s \in Session /\ s # None /\ s.username = n /\ c # None
    BY RegistryAssumption DEF Session, RegistryAssumption
<1> HIDE DEF s
<1>3. NameTypeOK'
    BY <1>1, <1>2 DEF NameInv, NameTypeOK
<1>4. NameIndexSound'
    BY <1>1, <1>2 DEF NameInv, NameTypeOK, NameIndexSound, Registered
<1>5. OnlineNotPending'
    BY <1>1 DEF NameInv, NameTypeOK, OnlineNotPending
<1>6. WriterPerSession'
    BY <1>1, <1>2 DEF NameInv, NameTypeOK, WriterPerSession, Online, Registered
<1> QED BY <1>3, <1>4, <1>5, <1>6 DEF NameInv

LEMMA RemoveInv ==
    ASSUME NameInv, NEW c \in Socket, Remove(c)
    PROVE  NameInv'
<1>1. /\ sessions' = [sessions EXCEPT ![c] = None]
      /\ by_name' = [n \in Username |->
                       IF Registered(c) /\ sessions[c].username = n /\ by_name[n] = c
                       THEN None ELSE by_name[n]]
      /\ pending_logins' = pending_logins
      /\ writers' = writers \ {c}
    BY DEF Remove
<1>2. NameTypeOK'
    BY <1>1 DEF NameInv, NameTypeOK
<1>3. NameIndexSound'
    BY <1>1 DEF NameInv, NameTypeOK, NameIndexSound, Registered
<1>4. OnlineNotPending'
    BY <1>1 DEF NameInv, NameTypeOK, OnlineNotPending
<1>5. WriterPerSession'
    BY <1>1 DEF NameInv, NameTypeOK, WriterPerSession, Online, Registered
<1> QED BY <1>2, <1>3, <1>4, <1>5 DEF NameInv

LEMMA SetRoleInv ==
    ASSUME NameInv, NEW n \in Username, NEW r \in Role, SetRole(n, r)
    PROVE  NameInv' /\ Online' = Online
<1>1. by_name' = by_name /\ writers' = writers /\ pending_logins' = pending_logins
    BY DEF SetRole
<1>2. CASE by_name[n] = None
    BY <1>1, <1>2 DEF SetRole, NameInv, NameTypeOK, NameIndexSound, OnlineNotPending,
                      WriterPerSession, Online, Registered
<1>3. CASE by_name[n] # None
    <2> DEFINE c == by_name[n]
               s == [sessions[c] EXCEPT !.role = r]
    <2>1. c \in Socket /\ sessions[c] \in Session /\ Registered(c)
        BY <1>3 DEF NameInv, NameTypeOK, NameIndexSound, Registered
    <2>2. sessions' = [sessions EXCEPT ![c] = s]
        BY <1>3, <2>1 DEF SetRole
    <2>3. s \in Session /\ s # None /\ s.username = sessions[c].username
        BY <2>1, RegistryAssumption DEF Session, RegistryAssumption
    <2> HIDE DEF c, s
    <2>4. NameTypeOK'
        BY <1>1, <2>2, <2>3 DEF NameInv, NameTypeOK
    <2>5. \A d \in Socket : /\ Registered(d)' <=> Registered(d)
                            /\ sessions'[d].username = sessions[d].username
        BY <2>1, <2>2, <2>3 DEF NameInv, NameTypeOK, Registered
    <2>6. NameIndexSound' /\ OnlineNotPending'
        BY <1>1, <2>5 DEF NameInv, NameTypeOK, NameIndexSound, OnlineNotPending
    <2>7. Online' = Online
        BY <2>5 DEF Online
    <2> QED BY <1>1, <2>4, <2>6, <2>7 DEF NameInv, WriterPerSession
<1> QED BY <1>2, <1>3

LEMMA ReserveNameInv ==
    ASSUME NameInv, NEW n \in Username, NEW reserved \in BOOLEAN, ReserveUsername(n, reserved)
    PROVE  NameInv'
BY DEF ReserveUsername, nameVars, NameInv, NameTypeOK, NameIndexSound, OnlineNotPending,
       WriterPerSession, Online, Registered

LEMMA ReleaseNameInv ==
    ASSUME NameInv, NEW n \in Username, ReleaseReservation(n)
    PROVE  NameInv'
BY DEF ReleaseReservation, nameVars, NameInv, NameTypeOK, NameIndexSound, OnlineNotPending,
       WriterPerSession, Online, Registered

LEMMA EmptyNames ==
    ASSUME sessions = [c \in Socket |-> None], by_name = [n \in Username |-> None],
           pending_logins = {}, writers = {}
    PROVE  NameInv /\ SessionHoldsSlot
BY DEF NameInv, NameTypeOK, NameIndexSound, OnlineNotPending, WriterPerSession,
       SessionHoldsSlot, Online, Registered

LEMMA NamesUnchanged ==
    ASSUME NameInv, UNCHANGED <<nameVars, pending_logins>>
    PROVE  NameInv'
BY DEF nameVars, NameInv, NameTypeOK, NameIndexSound, OnlineNotPending, WriterPerSession,
       Online, Registered
-----------------------------------------------------------------------------
\* Every call the discipline allows, and every step that leaves the registry
\* alone, keeps RegistryInv.
LEMMA StepInv == RegistryInv /\ [RegistryNext]_registryVars => RegistryInv'
<1> SUFFICES ASSUME RegistryInv, [RegistryNext]_registryVars PROVE RegistryInv'
    OBVIOUS
<1> USE SplitInv
<1>1. SlotInv /\ NameInv /\ SessionHoldsSlot
    OBVIOUS
<1> SUFFICES SlotInv' /\ NameInv' /\ SessionHoldsSlot'
    BY DEF RegistryInv, SlotInv, NameInv, RegistryTypeOK, SlotTypeOK, NameTypeOK
<1>2. ASSUME NEW c \in Socket, NEW ip \in IP, NEW granted \in BOOLEAN,
             client_ips[c] = None, TryReserveIpSlot(c, ip, granted)
      PROVE  SlotInv' /\ NameInv' /\ SessionHoldsSlot'
    <2>1. SlotInv' /\ NameInv'
        BY <1>1, <1>2, ReserveSlotInv, NamesUnchanged DEF TryReserveIpSlot
    <2>2. SessionHoldsSlot'
        BY <1>1, <1>2, RegistryAssumption DEF TryReserveIpSlot, slotVars, nameVars,
           SessionHoldsSlot, Online, Registered, SlotInv, SlotTypeOK, RegistryAssumption
    <2> QED BY <2>1, <2>2
<1>3. ASSUME NEW c \in Socket, ~Registered(c), ReleaseIpSlot(c)
      PROVE  SlotInv' /\ NameInv' /\ SessionHoldsSlot'
    <2>1. SlotInv' /\ NameInv'
        BY <1>1, <1>3, ReleaseSlotInv, NamesUnchanged DEF ReleaseIpSlot
    <2>2. SessionHoldsSlot'
        BY <1>1, <1>3 DEF ReleaseIpSlot, nameVars, SessionHoldsSlot, Online, Registered,
           SlotInv, SlotTypeOK
    <2> QED BY <2>1, <2>2
<1>4. ASSUME NEW n \in Username, NEW reserved \in BOOLEAN, ReserveUsername(n, reserved)
      PROVE  SlotInv' /\ NameInv' /\ SessionHoldsSlot'
    BY <1>1, <1>4, ReserveNameInv, SlotsUnchanged
       DEF ReserveUsername, nameVars, slotVars, SessionHoldsSlot, Online, Registered
<1>5. ASSUME NEW n \in Username, ReleaseReservation(n)
      PROVE  SlotInv' /\ NameInv' /\ SessionHoldsSlot'
    BY <1>1, <1>5, ReleaseNameInv, SlotsUnchanged
       DEF ReleaseReservation, nameVars, slotVars, SessionHoldsSlot, Online, Registered
<1>6. ASSUME NEW c \in Socket, NEW n \in Username, NEW r \in Role,
             ~Registered(c), client_ips[c] # None, Add(c, n, r)
      PROVE  SlotInv' /\ NameInv' /\ SessionHoldsSlot'
    <2>1. SlotInv' /\ NameInv'
        BY <1>1, <1>6, AddInv, SlotsUnchanged DEF Add
    <2>2. SessionHoldsSlot'
        BY <1>1, <1>6 DEF Add, slotVars, SessionHoldsSlot, Online, Registered,
           NameInv, NameTypeOK
    <2> QED BY <2>1, <2>2
<1>7. ASSUME NEW c \in Socket, Remove(c)
      PROVE  SlotInv' /\ NameInv' /\ SessionHoldsSlot'
    <2>1. SlotInv' /\ NameInv'
        BY <1>1, <1>7, RemoveInv, SlotsUnchanged DEF Remove
    <2>2. SessionHoldsSlot'
        BY <1>1, <1>7 DEF Remove, slotVars, SessionHoldsSlot, Online, Registered,
           NameInv, NameTypeOK
    <2> QED BY <2>1, <2>2
<1>8. ASSUME NEW n \in Username, NEW r \in Role, SetRole(n, r)
      PROVE  SlotInv' /\ NameInv' /\ SessionHoldsSlot'
    <2>1. SlotInv' /\ NameInv' /\ Online' = Online
        BY <1>1, <1>8, SetRoleInv, SlotsUnchanged DEF SetRole
    <2>2. SessionHoldsSlot'
        BY <1>1, <1>8, <2>1 DEF SetRole, slotVars, SessionHoldsSlot
    <2> QED BY <2>1, <2>2
<1>9. CASE Reset
    <2>1. \A ip \in IP : Holders(ip)' = {}
        BY <1>9, RegistryAssumption DEF Reset, Holders, RegistryAssumption
    <2>2. SlotTypeOK' /\ CountsBounded'
        BY <1>9, RegistryAssumption DEF Reset, SlotTypeOK, CountsBounded, RegistryAssumption
    <2>3. IpCountsExact'
        <3> SUFFICES ASSUME NEW ip \in IP
                     PROVE  ip_counts'[ip] = Cardinality(Holders(ip)')
            BY DEF IpCountsExact
        <3> QED BY <1>9, <2>1, FS_EmptySet DEF Reset
    <2>4. NameInv' /\ SessionHoldsSlot'
        BY <1>9 DEF Reset, NameInv, NameTypeOK, NameIndexSound, OnlineNotPending,
           WriterPerSession, SessionHoldsSlot, Online, Registered
    <2> QED BY <2>2, <2>3, <2>4 DEF SlotInv
<1>10. CASE UNCHANGED registryVars
    BY <1>1, <1>10, NamesUnchanged, SlotsUnchanged
       DEF registryVars, nameVars, slotVars, SessionHoldsSlot, Online, Registered
<1> QED BY <1>2, <1>3, <1>4, <1>5, <1>6, <1>7, <1>8, <1>9, <1>10 DEF RegistryNext

\* RegistryInv holds whatever the threads do with the registry.
THEOREM RegistryInvariant == RegistrySpec => []RegistryInv
<1>1. RegistryInit => RegistryInv
    BY EmptySlots, EmptyNames, SplitInv DEF RegistryInit
<1> QED BY <1>1, StepInv, PTL DEF RegistrySpec

\* Every value of the registry has its type; in particular the counters never
\* become negative.
THEOREM RegistryTypeCorrect == RegistrySpec => []RegistryTypeOK
<1>1. RegistryInv => RegistryTypeOK
    BY DEF RegistryInv
<1> QED BY <1>1, RegistryInvariant, PTL

\* The per-IP counters are exact: no sequence of reservations, releases (of the
\* same socket twice, of a socket without a slot) and resets makes them drift.
THEOREM CountersExact == RegistrySpec => []IpCountsExact
<1>1. RegistryInv => IpCountsExact
    BY DEF RegistryInv
<1> QED BY <1>1, RegistryInvariant, PTL

\* No address ever holds more than MAX_CONNECTIONS_PER_IP slots.
THEOREM ConnectionCap == RegistrySpec => []IpCapRespected
<1>1. RegistryInv => IpCapRespected
    BY DEF RegistryInv, IpCountsExact, CountsBounded, IpCapRespected
<1> QED BY <1>1, RegistryInvariant, PTL

\* by_name() never leads to a missing session or to a session of another name,
\* and an online name is never reserved.
THEOREM NamesConsistent == RegistrySpec => [](NameIndexSound /\ OnlineNotPending)
<1>1. RegistryInv => NameIndexSound /\ OnlineNotPending
    BY DEF RegistryInv
<1> QED BY <1>1, RegistryInvariant, PTL

\* A registered session always counts against its address and always has a
\* writer thread, and nobody else has one.
THEOREM SessionsBacked == RegistrySpec => [](SessionHoldsSlot /\ WriterPerSession)
<1>1. RegistryInv => SessionHoldsSlot /\ WriterPerSession
    BY DEF RegistryInv
<1> QED BY <1>1, RegistryInvariant, PTL
============================================================================
