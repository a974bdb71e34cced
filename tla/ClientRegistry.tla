--------------------------- MODULE ClientRegistry ---------------------------
(***************************************************************************)
(* server_side/client_registry.py, class ClientRegistry: who is connected, *)
(* under which name, from which address.  Every method body runs under     *)
(* self._lock, so every method is one atomic action.  A Python dict is a   *)
(* total function whose value None says that the key is absent; a socket   *)
(* object is used for one connection and never again.                      *)
(*                                                                         *)
(* RegistryNext is the discipline the callers must keep: it allows every   *)
(* method in every order, except that a socket reserves an IP slot at most *)
(* once at a time, is added only while it holds a slot and is not already  *)
(* added, and gives its slot back only when it is no longer registered.    *)
(* That the server's threads keep this discipline is a property of module  *)
(* ChatServer.                                                             *)
(***************************************************************************)
EXTENDS Rbac, FiniteSets

CONSTANTS
    Socket,               \* the ssl.SSLSocket objects, one per connection
    Username,             \* account names, already stripped and lower-cased
    IP,                   \* client addresses
    MaxConnectionsPerIp,  \* MAX_CONNECTIONS_PER_IP of config.py
    None                  \* Python's None: an absent key

Session == [username : Username, role : Role]

ASSUME RegistryAssumption ==
    /\ IsFiniteSet(Socket)
    /\ MaxConnectionsPerIp \in Nat
    /\ None \notin Socket
    /\ None \notin Username
    /\ None \notin IP
    /\ None \notin Session

VARIABLES
    sessions,        \* _sessions: socket -> Session
    by_name,         \* _by_name: username -> socket
    client_ips,      \* _client_ips: socket -> IP of the slot it holds
    ip_counts,       \* _ip_counts: IP -> slots taken (0 stands for no entry)
    pending_logins,  \* _pending_logins: names reserved by a login under way
    writers          \* _writers: the sockets that have a _ClientWriter

slotVars     == <<client_ips, ip_counts>>
nameVars     == <<sessions, by_name, writers>>
registryVars == <<nameVars, slotVars, pending_logins>>

RegistryInit ==
    /\ sessions = [c \in Socket |-> None]
    /\ by_name = [n \in Username |-> None]
    /\ client_ips = [c \in Socket |-> None]
    /\ ip_counts = [ip \in IP |-> 0]
    /\ pending_logins = {}
    /\ writers = {}

Registered(c) == sessions[c] # None
Online == {c \in Socket : Registered(c)}
Holders(ip) == {c \in Socket : client_ips[c] = ip}
-----------------------------------------------------------------------------
(* The methods.  Those that return a bool have it as their last parameter. *)
(* A definition marked "Mutant" is a plausible mistake in the method that  *)
(* follows it, kept to show that the properties notice it.                 *)

\* Mutant: one connection too many.
TryReserveIpSlotOneMore(c, ip, granted) ==
    /\ granted = (ip_counts[ip] <= MaxConnectionsPerIp)
    /\ IF granted
       THEN /\ ip_counts' = [ip_counts EXCEPT ![ip] = @ + 1]
            /\ client_ips' = [client_ips EXCEPT ![c] = ip]
       ELSE UNCHANGED slotVars
    /\ UNCHANGED <<nameVars, pending_logins>>

TryReserveIpSlot(c, ip, granted) ==
    /\ granted = (ip_counts[ip] < MaxConnectionsPerIp)
    /\ IF granted
       THEN /\ ip_counts' = [ip_counts EXCEPT ![ip] = @ + 1]
            /\ client_ips' = [client_ips EXCEPT ![c] = ip]
       ELSE UNCHANGED slotVars
    /\ UNCHANGED <<nameVars, pending_logins>>

\* Mutant: the "fallback IP" of an earlier release, which decremented the counter
\* for a connection that never had a slot.
ReleaseIpSlotFallback(c) ==
    /\ client_ips' = [client_ips EXCEPT ![c] = None]
    /\ ip_counts' = [ip \in IP |-> IF client_ips[c] \in {ip, None}
                                   THEN ip_counts[ip] - 1
                                   ELSE ip_counts[ip]]
    /\ UNCHANGED <<nameVars, pending_logins>>

ReleaseIpSlot(c) ==
    /\ client_ips' = [client_ips EXCEPT ![c] = None]
    /\ ip_counts' = [ip \in IP |-> IF client_ips[c] = ip /\ ip_counts[ip] > 0
                                   THEN ip_counts[ip] - 1
                                   ELSE ip_counts[ip]]
    /\ UNCHANGED <<nameVars, pending_logins>>

\* Mutants: each of the two tests of reserve_username alone.
ReserveUsernameIfNotPending(n, reserved) ==
    /\ reserved = (n \notin pending_logins)
    /\ pending_logins' = IF reserved THEN pending_logins \cup {n} ELSE pending_logins
    /\ UNCHANGED <<nameVars, slotVars>>

ReserveUsernameIfOffline(n, reserved) ==
    /\ reserved = (by_name[n] = None)
    /\ pending_logins' = IF reserved THEN pending_logins \cup {n} ELSE pending_logins
    /\ UNCHANGED <<nameVars, slotVars>>

ReserveUsername(n, reserved) ==
    /\ reserved = (by_name[n] = None /\ n \notin pending_logins)
    /\ pending_logins' = IF reserved THEN pending_logins \cup {n} ELSE pending_logins
    /\ UNCHANGED <<nameVars, slotVars>>

ReleaseReservation(n) ==
    /\ pending_logins' = pending_logins \ {n}
    /\ UNCHANGED <<nameVars, slotVars>>

Add(c, n, r) ==
    /\ sessions' = [sessions EXCEPT ![c] = [username |-> n, role |-> r]]
    /\ by_name' = [by_name EXCEPT ![n] = c]
    /\ pending_logins' = pending_logins \ {n}
    /\ writers' = writers \cup {c}
    /\ UNCHANGED slotVars

\* Mutant: the name index is forgotten.
RemoveKeepsName(c) ==
    /\ sessions' = [sessions EXCEPT ![c] = None]
    /\ writers' = writers \ {c}
    /\ UNCHANGED <<by_name, slotVars, pending_logins>>

\* The name goes only if it still points to this socket.
Remove(c) ==
    /\ sessions' = [sessions EXCEPT ![c] = None]
    /\ writers' = writers \ {c}
    /\ by_name' = [n \in Username |->
                     IF Registered(c) /\ sessions[c].username = n /\ by_name[n] = c
                     THEN None
                     ELSE by_name[n]]
    /\ UNCHANGED <<slotVars, pending_logins>>

\* self._sessions[sock] raises KeyError unless NameIndexSound holds.
SetRole(n, r) ==
    /\ sessions' = IF by_name[n] = None
                   THEN sessions
                   ELSE [sessions EXCEPT ![by_name[n]].role = r]
    /\ UNCHANGED <<by_name, writers, slotVars, pending_logins>>

\* The shutdown path of server.main().
Reset ==
    /\ sessions' = [c \in Socket |-> None]
    /\ by_name' = [n \in Username |-> None]
    /\ client_ips' = [c \in Socket |-> None]
    /\ ip_counts' = [ip \in IP |-> 0]
    /\ pending_logins' = {}
    /\ writers' = {}
-----------------------------------------------------------------------------
RegistryNext ==
    \/ \E c \in Socket, ip \in IP, granted \in BOOLEAN :
          client_ips[c] = None /\ TryReserveIpSlot(c, ip, granted)
    \/ \E c \in Socket : ~Registered(c) /\ ReleaseIpSlot(c)
    \/ \E n \in Username, reserved \in BOOLEAN : ReserveUsername(n, reserved)
    \/ \E n \in Username : ReleaseReservation(n)
    \/ \E c \in Socket, n \in Username, r \in Role :
          ~Registered(c) /\ client_ips[c] # None /\ Add(c, n, r)
    \/ \E c \in Socket : Remove(c)
    \/ \E n \in Username, r \in Role : SetRole(n, r)
    \/ Reset

RegistrySpec == RegistryInit /\ [][RegistryNext]_registryVars
-----------------------------------------------------------------------------
RegistryTypeOK ==
    /\ sessions \in [Socket -> Session \cup {None}]
    /\ by_name \in [Username -> Socket \cup {None}]
    /\ client_ips \in [Socket -> IP \cup {None}]
    /\ ip_counts \in [IP -> Nat]
    /\ pending_logins \subseteq Username
    /\ writers \subseteq Socket

\* The counter try_reserve_ip_slot compares with the limit is exactly the
\* number of sockets that hold a slot: no path of release_ip_slot (a second
\* clean-up of the same client, a socket whose handshake failed and that never
\* had a slot) makes the two drift apart.
IpCountsExact == \A ip \in IP : ip_counts[ip] = Cardinality(Holders(ip))

\* No address holds more than MAX_CONNECTIONS_PER_IP slots.
IpCapRespected == \A ip \in IP : Cardinality(Holders(ip)) <= MaxConnectionsPerIp

\* A name that by_name() resolves leads to a registered session of that very
\* name, whatever mixture of logins and removals went before, so set_role()
\* cannot raise KeyError and kick_user() cannot hit somebody else.
NameIndexSound ==
    \A n \in Username : by_name[n] # None =>
        /\ Registered(by_name[n])
        /\ sessions[by_name[n]].username = n

\* An online name carries no reservation: add() turns the one into the other in
\* one step, and reserve_username() refuses a name that is online.
OnlineNotPending == \A n \in pending_logins : by_name[n] = None

\* Every registered session counts against its address: clean-up unregisters
\* first and gives the slot back afterwards.
SessionHoldsSlot == \A c \in Online : client_ips[c] # None

\* A session has a writer, and a writer a session, so registry.send() fails with
\* "no writer" exactly for the clients that are no longer registered.
WriterPerSession == writers = Online

\* The strengthening that makes the above inductive: the bound of IpCapRespected
\* is a bound on the counters, which try_reserve_ip_slot keeps; the two are the
\* same because IpCountsExact holds.
CountsBounded == \A ip \in IP : ip_counts[ip] <= MaxConnectionsPerIp

RegistryInv ==
    /\ RegistryTypeOK
    /\ IpCountsExact
    /\ CountsBounded
    /\ NameIndexSound
    /\ OnlineNotPending
    /\ SessionHoldsSlot
    /\ WriterPerSession
=============================================================================
