----------------------------- MODULE ChatServer -----------------------------
(***************************************************************************)
(* The server's threads over the shared ClientRegistry:                    *)
(*                                                                         *)
(*   - one thread per connection, server.handle_new_connection followed by *)
(*     client_handler.handle_messages (the second thread starts as the last*)
(*     act of the first, so the two are one sequential process);           *)
(*   - the console thread, server.server_console_input.                    *)
(*                                                                         *)
(* A step is what happens under one acquisition of a lock (the registry's, *)
(* _users_lock, _ban_lock) or one read of a file; between two steps every  *)
(* other thread may run.  The text of the messages is left out, and so are *)
(* the send queues: whether registry.send() finds a full queue is a choice *)
(* of the environment, limited to the connections in Stalling (module      *)
(* ClientConnection has the queue itself).  The rate limiters and the      *)
(* brute-force detector only make a handler skip a line or leave the       *)
(* authentication loop, which the environment may make it do anyway.  A    *)
(* definition marked "Mutant" is a plausible mistake in the action after   *)
(* it, kept to show that the properties notice it.                         *)
(***************************************************************************)
EXTENDS ClientRegistry

CONSTANTS
    Console,      \* the thread of server_console_input
    InitialRole,  \* users.json at start: Username -> Role, or None (no account)
    ConsoleOps,   \* the commands the operator types
    ClientOps,    \* the commands the clients type
    NewRoles,     \* the roles they name in SET
    Stalling      \* the connections whose send queue may be full

Thread == Socket \cup {Console}

\* actor is the role the session had when the line was read, None for the
\* console; sock is what _target_role found under the name.
Command == [op : {"KICK", "BAN", "UNBAN", "SET"}, name : Username,
            role : NewRoles \cup {None}, actor : Role \cup {None},
            sock : Socket \cup {None}]

\* A clean_up_client call that has done registry.remove(); found says whether
\* that returned a session.
CleanUp == [sock : Socket, found : BOOLEAN, step : {"release", "left"}]

ASSUME ServerAssumption ==
    /\ Console \notin Socket \cup {None}
    /\ InitialRole \in [Username -> Role \cup {None}]
    /\ None \notin Role
    /\ None \notin CleanUp
    /\ None \notin Command
    /\ ConsoleOps \subseteq {"KICK", "BAN", "UNBAN", "SET"}
    /\ ClientOps \subseteq {"KICK", "BAN", "UNBAN", "SET", "MSG"}
    /\ NewRoles \subseteq Role
    /\ Stalling \subseteq Socket

VARIABLES
    users,       \* users.json: the role of each account
    banned,      \* the ban file
    pc,          \* where each thread is
    reserved,    \* handle_new_connection: reserved_username
    login_role,  \* its session["role"], read by login(); None when no longer used
    cmd,         \* the command a thread is executing
    failed,      \* the sockets it still has to pass to clean_up_client
    cleanup      \* the clean_up_client call it is in

fileVars   == <<users, banned>>
loginVars  == <<reserved, login_role>>
cleanVars  == <<failed, cleanup>>
serverVars == <<fileVars, pc, loginVars, cmd, cleanVars>>
vars       == <<registryVars, serverVars>>

LoginPC   == {"verify", "banlist", "role", "bancheck", "reject", "add"}
CommandPC == {"target", "rank", "ban", "unban", "kick", "announce",
              "set", "set_announce", "set_session"}
HandlerPC == {"new", "handshake", "auth", "greet", "ungreet", "joined", "chat",
              "closing", "finally", "done"} \cup LoginPC \cup CommandPC
ConsolePC == {"console", "dead"} \cup CommandPC

Init ==
    /\ RegistryInit
    /\ users = InitialRole
    /\ banned = {}
    /\ pc = [t \in Thread |-> IF t = Console THEN "console" ELSE "new"]
    /\ reserved = [c \in Socket |-> None]
    /\ login_role = [c \in Socket |-> None]
    /\ cmd = [t \in Thread |-> None]
    /\ failed = [t \in Thread |-> {}]
    /\ cleanup = [t \in Thread |-> None]

\* Thread t is at p and not inside a clean-up, which it finishes first.
At(t, p) == pc[t] = p /\ failed[t] = {} /\ cleanup[t] = None

Goto(t, p) == pc' = [pc EXCEPT ![t] = p]

Home(t) == IF t = Console THEN "console" ELSE "chat"

\* The end of a command: back to reading lines.
EndCommand(t) == Goto(t, Home(t)) /\ cmd' = [cmd EXCEPT ![t] = None]

\* broadcast(): every client whose queue refuses the message is cleaned up by
\* the broadcasting thread.  A client that another thread unregisters between
\* the snapshot and the send also ends up in the list; it is cleaned up twice,
\* as it is when it is in the list because its queue is full.
Broadcast(t, sender) ==
    /\ \E full \in SUBSET ((Online \ {sender}) \cap Stalling) :
          failed' = [failed EXCEPT ![t] = @ \cup full]
    /\ UNCHANGED cleanup
-----------------------------------------------------------------------------
(* clean_up_client, called by any thread on any socket.                    *)

\* Mutant: the slot is given back while the session is still registered.
CleanUpSlotFirst(t) ==
    /\ cleanup[t] = None
    /\ \E c \in failed[t] :
          /\ ReleaseIpSlot(c)
          /\ failed' = [failed EXCEPT ![t] = @ \ {c}]
          /\ cleanup' = [cleanup EXCEPT ![t] =
                           [sock |-> c, found |-> Registered(c), step |-> "release"]]
    /\ UNCHANGED <<fileVars, pc, loginVars, cmd>>

CleanUpRemove(t) ==
    /\ cleanup[t] = None
    /\ \E c \in failed[t] :
          /\ Remove(c)
          /\ failed' = [failed EXCEPT ![t] = @ \ {c}]
          /\ cleanup' = [cleanup EXCEPT ![t] =
                           [sock |-> c, found |-> Registered(c), step |-> "release"]]
    /\ UNCHANGED <<fileVars, pc, loginVars, cmd>>

\* Mutant: clean_up_client returns early for a client that has no session.
CleanUpReleaseMembers(t) ==
    /\ cleanup[t] # None
    /\ cleanup[t].step = "release"
    /\ IF cleanup[t].found THEN ReleaseIpSlot(cleanup[t].sock) ELSE UNCHANGED registryVars
    /\ cleanup' = [cleanup EXCEPT ![t] = IF @.found THEN [@ EXCEPT !.step = "left"] ELSE None]
    /\ UNCHANGED <<fileVars, pc, loginVars, cmd, failed>>

CleanUpRelease(t) ==
    /\ cleanup[t] # None
    /\ cleanup[t].step = "release"
    /\ ReleaseIpSlot(cleanup[t].sock)
    /\ cleanup' = [cleanup EXCEPT ![t] = IF @.found THEN [@ EXCEPT !.step = "left"] ELSE None]
    /\ UNCHANGED <<fileVars, pc, loginVars, cmd, failed>>

\* "... left the chat!", which may find further full queues.
CleanUpAnnounce(t) ==
    /\ cleanup[t] # None
    /\ cleanup[t].step = "left"
    /\ \E full \in SUBSET ((Online \ {cleanup[t].sock}) \cap Stalling) :
          failed' = [failed EXCEPT ![t] = @ \cup full]
    /\ cleanup' = [cleanup EXCEPT ![t] = None]
    /\ UNCHANGED <<registryVars, fileVars, pc, loginVars, cmd>>

CleanUpStep(t) == CleanUpRemove(t) \/ CleanUpRelease(t) \/ CleanUpAnnounce(t)
-----------------------------------------------------------------------------
(* handle_new_connection up to the LOGIN line.                             *)

Accept(c) ==
    /\ At(c, "new")
    /\ Goto(c, "handshake")
    /\ UNCHANGED <<registryVars, fileVars, loginVars, cmd, cleanVars>>

\* SSLError, OSError or the handshake timeout.
HandshakeFails(c) ==
    /\ At(c, "handshake")
    /\ Goto(c, "closing")
    /\ UNCHANGED <<registryVars, fileVars, loginVars, cmd, cleanVars>>

\* accept_new_client; a refused connection is closed without a clean-up.
Admit(c) ==
    /\ At(c, "handshake")
    /\ \E ip \in IP, granted \in BOOLEAN :
          /\ TryReserveIpSlot(c, ip, granted)
          /\ Goto(c, IF granted THEN "auth" ELSE "done")
    /\ UNCHANGED <<fileVars, loginVars, cmd, cleanVars>>

\* End of stream, the authentication timeout, an empty or over-long line, a
\* blocked address, or a failed sendall in answer to a line.
AuthEnds(c) ==
    /\ At(c, "auth")
    /\ Goto(c, "closing")
    /\ UNCHANGED <<registryVars, fileVars, loginVars, cmd, cleanVars>>

\* A REGISTER line that register() accepts; the others change nothing.
Register(c) ==
    /\ At(c, "auth")
    /\ \E n \in Username :
          /\ users[n] = None
          /\ users' = [users EXCEPT ![n] = "user"]
    /\ UNCHANGED <<registryVars, banned, pc, loginVars, cmd, cleanVars>>

\* A LOGIN line; ALREADY_LOGGED_IN sends the client back to the loop.
LoginLine(c) ==
    /\ At(c, "auth")
    /\ \E n \in Username, granted \in BOOLEAN :
          /\ ReserveUsername(n, granted)
          /\ reserved' = [reserved EXCEPT ![c] = IF granted THEN n ELSE None]
          /\ Goto(c, IF granted THEN "verify" ELSE "auth")
    /\ UNCHANGED <<fileVars, login_role, cmd, cleanVars>>
-----------------------------------------------------------------------------
(* login() and the ban check that follows it.                              *)

\* The re-hash of an old password keeps the role, so it changes nothing here.
VerifyPassword(c) ==
    /\ At(c, "verify")
    /\ \/ Goto(c, "reject")
       \/ users[reserved[c]] # None /\ Goto(c, "banlist")
    /\ UNCHANGED <<registryVars, fileVars, loginVars, cmd, cleanVars>>

\* _load_banned_users() takes a file that it cannot read for an empty list, and then
\* login() lets a banned name pass.
LoginBanCheck(c) ==
    /\ At(c, "banlist")
    /\ \/ reserved[c] \in banned /\ Goto(c, "reject")
       \/ Goto(c, "role")
    /\ UNCHANGED <<registryVars, fileVars, loginVars, cmd, cleanVars>>

ReadRole(c) ==
    /\ At(c, "role")
    /\ login_role' = [login_role EXCEPT ![c] = users[reserved[c]]]
    /\ Goto(c, "bancheck")
    /\ UNCHANGED <<registryVars, fileVars, reserved, cmd, cleanVars>>

\* Mutant: only login() looks at the ban file.
SecondBanCheckSkipped(c) ==
    /\ At(c, "bancheck")
    /\ Goto(c, "add")
    /\ UNCHANGED <<registryVars, fileVars, loginVars, cmd, cleanVars>>

SecondBanCheck(c) ==
    /\ At(c, "bancheck")
    /\ Goto(c, IF reserved[c] \in banned THEN "reject" ELSE "add")
    /\ UNCHANGED <<registryVars, fileVars, loginVars, cmd, cleanVars>>

\* Mutant: the rejected name stays reserved.
RejectLoginKeepsName(c) ==
    /\ At(c, "reject")
    /\ reserved' = [reserved EXCEPT ![c] = None]
    /\ login_role' = [login_role EXCEPT ![c] = None]
    /\ Goto(c, "auth")
    /\ UNCHANGED <<registryVars, fileVars, cmd, cleanVars>>

\* WRONG_AUTH or BANNED: release_reservation, answer, next line.
RejectLogin(c) ==
    /\ At(c, "reject")
    /\ ReleaseReservation(reserved[c])
    /\ reserved' = [reserved EXCEPT ![c] = None]
    /\ login_role' = [login_role EXCEPT ![c] = None]
    /\ Goto(c, "auth")
    /\ UNCHANGED <<fileVars, cmd, cleanVars>>

\* users.json or the ban file cannot be read: the reservation is still held.
LoginRaises(c) ==
    /\ \E p \in {"verify", "role", "bancheck"} : At(c, p)
    /\ Goto(c, "closing")
    /\ UNCHANGED <<registryVars, fileVars, loginVars, cmd, cleanVars>>
-----------------------------------------------------------------------------
(* From registry.add() to the message loop.                                *)

AddSession(c) ==
    /\ At(c, "add")
    /\ Add(c, reserved[c], login_role[c])
    /\ login_role' = [login_role EXCEPT ![c] = None]
    /\ Goto(c, "greet")
    /\ UNCHANGED <<fileVars, reserved, cmd, cleanVars>>

\* registry.send() of the OK line; it fails when another thread has already
\* unregistered the client, or when its queue is full.
Greet(c) ==
    /\ At(c, "greet")
    /\ \/ /\ c \in writers
          /\ reserved' = [reserved EXCEPT ![c] = None]
          /\ Goto(c, "joined")
       \/ /\ c \notin writers \/ c \in Stalling
          /\ Goto(c, "ungreet")
          /\ UNCHANGED reserved
    /\ UNCHANGED <<registryVars, fileVars, login_role, cmd, cleanVars>>

\* registry.remove(client); raise OSError
Ungreet(c) ==
    /\ At(c, "ungreet")
    /\ Remove(c)
    /\ Goto(c, "closing")
    /\ UNCHANGED <<fileVars, loginVars, cmd, cleanVars>>

BroadcastJoined(c) ==
    /\ At(c, "joined")
    /\ Broadcast(c, c)
    /\ Goto(c, "chat")
    /\ UNCHANGED <<registryVars, fileVars, loginVars, cmd>>

\* handle_messages leaves its loop: the peer is gone, the socket was shut down,
\* the line is too long, or the session is no longer registered.
Disconnect(c) ==
    /\ At(c, "chat")
    /\ Goto(c, "closing")
    /\ UNCHANGED <<registryVars, fileVars, loginVars, cmd, cleanVars>>

\* Mutant: a thread whose client is already unregistered does not clean up.
CleanUpSelfIfRegistered(c) ==
    /\ At(c, "closing")
    /\ failed' = [failed EXCEPT ![c] = IF Registered(c) THEN {c} ELSE {}]
    /\ Goto(c, "finally")
    /\ UNCHANGED <<registryVars, fileVars, loginVars, cmd, cleanup>>

\* The clean_up_client call every way out goes through ...
CleanUpSelf(c) ==
    /\ At(c, "closing")
    /\ failed' = [failed EXCEPT ![c] = {c}]
    /\ Goto(c, "finally")
    /\ UNCHANGED <<registryVars, fileVars, loginVars, cmd, cleanup>>

\* Mutant: no finally clause.
FinallyKeepsName(c) ==
    /\ At(c, "finally")
    /\ reserved' = [reserved EXCEPT ![c] = None]
    /\ login_role' = [login_role EXCEPT ![c] = None]
    /\ Goto(c, "done")
    /\ UNCHANGED <<registryVars, fileVars, cmd, cleanVars>>

\* ... and the finally clause of handle_new_connection.
Finally(c) ==
    /\ At(c, "finally")
    /\ IF reserved[c] # None THEN ReleaseReservation(reserved[c]) ELSE UNCHANGED registryVars
    /\ reserved' = [reserved EXCEPT ![c] = None]
    /\ login_role' = [login_role EXCEPT ![c] = None]
    /\ Goto(c, "done")
    /\ UNCHANGED <<fileVars, cmd, cleanVars>>
-----------------------------------------------------------------------------
(* The commands, of clients and of the console.                            *)

ReadMessage(c) ==
    /\ At(c, "chat")
    /\ "MSG" \in ClientOps
    /\ Registered(c)
    /\ Broadcast(c, c)
    /\ UNCHANGED <<registryVars, fileVars, pc, loginVars, cmd>>

FirstStep(op, byConsole) ==
    IF byConsole \/ op = "SET"
    THEN [KICK |-> "kick", BAN |-> "ban", UNBAN |-> "unban", SET |-> "set"][op]
    ELSE "target"

\* A command line whose sender holds the permission; another one is answered
\* and forgotten.
ReadCommand(t) ==
    /\ At(t, Home(t))
    /\ t # Console => Registered(t)
    /\ \E op \in (IF t = Console THEN ConsoleOps ELSE ClientOps \ {"MSG"}), n \in Username :
       \E r \in (IF op = "SET" THEN NewRoles ELSE {None}) :
          /\ t # Console => has_permission(sessions[t].role, op)
          /\ Goto(t, FirstStep(op, t = Console))
          /\ cmd' = [cmd EXCEPT ![t] =
                       [op |-> op, name |-> n, role |-> r, sock |-> None,
                        actor |-> IF t = Console THEN None ELSE sessions[t].role]]
    /\ UNCHANGED <<registryVars, fileVars, loginVars, cleanVars>>

\* _target_role: by_name(), then ...
FindTarget(t) ==
    /\ At(t, "target")
    /\ cmd' = [cmd EXCEPT ![t].sock = by_name[cmd[t].name]]
    /\ Goto(t, "rank")
    /\ UNCHANGED <<registryVars, fileVars, loginVars, cleanVars>>

\* ... the role of the session found, or else the stored one.
TargetOnline(t) == cmd[t].sock # None /\ Registered(cmd[t].sock)

TargetRole(t) ==
    IF TargetOnline(t)
    THEN sessions[cmd[t].sock].role
    ELSE users[cmd[t].name]

RankCheck(t) ==
    /\ At(t, "rank")
    /\ IF TargetRole(t) # None /\ ~can_act_on(cmd[t].actor, TargetRole(t))
       THEN EndCommand(t)
       ELSE Goto(t, FirstStep(cmd[t].op, TRUE)) /\ UNCHANGED cmd
    /\ UNCHANGED <<registryVars, fileVars, loginVars, cleanVars>>

AddBan(t) ==
    /\ At(t, "ban")
    /\ banned' = banned \cup {cmd[t].name}
    /\ Goto(t, "kick")
    /\ UNCHANGED <<registryVars, users, loginVars, cmd, cleanVars>>

\* Mutant: the result of by_name() is not tested.
KickUntested(t) ==
    /\ At(t, "kick")
    /\ failed' = [failed EXCEPT ![t] = {by_name[cmd[t].name]}]
    /\ Goto(t, "announce")
    /\ UNCHANGED <<registryVars, fileVars, loginVars, cmd, cleanup>>

\* kick_user and ban_user: whoever by_name() finds is cleaned up.  A KICK that
\* finds nobody is over; a BAN is announced in any case.
Kick(t) ==
    /\ At(t, "kick")
    /\ LET c == by_name[cmd[t].name]
       IN  IF c # None
           THEN /\ failed' = [failed EXCEPT ![t] = {c}]
                /\ Goto(t, "announce")
                /\ UNCHANGED cmd
           ELSE /\ IF cmd[t].op = "BAN" THEN Goto(t, "announce") /\ UNCHANGED cmd
                                        ELSE EndCommand(t)
                /\ UNCHANGED failed
    /\ UNCHANGED <<registryVars, fileVars, loginVars, cleanup>>

RemoveBan(t) ==
    /\ At(t, "unban")
    /\ banned' = banned \ {cmd[t].name}
    /\ Goto(t, "announce")
    /\ UNCHANGED <<registryVars, users, loginVars, cmd, cleanVars>>

Announce(t) ==
    /\ At(t, "announce")
    /\ Broadcast(t, None)
    /\ EndCommand(t)
    /\ UNCHANGED <<registryVars, fileVars, loginVars>>

\* set_user_role refuses an unknown account.
SetUserRole(t) ==
    /\ At(t, "set")
    /\ IF users[cmd[t].name] # None
       THEN /\ users' = [users EXCEPT ![cmd[t].name] = cmd[t].role]
            /\ Goto(t, "set_announce")
            /\ UNCHANGED cmd
       ELSE EndCommand(t) /\ UNCHANGED users
    /\ UNCHANGED <<registryVars, banned, loginVars, cleanVars>>

SetAnnounce(t) ==
    /\ At(t, "set_announce")
    /\ Broadcast(t, None)
    /\ Goto(t, "set_session")
    /\ UNCHANGED <<registryVars, fileVars, loginVars, cmd>>

SetSession(t) ==
    /\ At(t, "set_session")
    /\ SetRole(cmd[t].name, cmd[t].role)
    /\ EndCommand(t)
    /\ UNCHANGED <<fileVars, loginVars, cleanVars>>

\* A file operation raises: handle_messages cleans up and ends, while the loop
\* of server_console_input catches only EOFError and KeyboardInterrupt.
CommandRaises(t) ==
    /\ \/ \E p \in {"ban", "unban", "set"} : At(t, p)
       \/ At(t, "rank") /\ ~TargetOnline(t)
    /\ Goto(t, IF t = Console THEN "dead" ELSE "closing")
    /\ cmd' = [cmd EXCEPT ![t] = None]
    /\ UNCHANGED <<registryVars, fileVars, loginVars, cleanVars>>
-----------------------------------------------------------------------------
\* What a thread does without waiting for a client, an operator or a disk error.
HandlerStep(c) ==
    \/ VerifyPassword(c) \/ LoginBanCheck(c) \/ ReadRole(c) \/ SecondBanCheck(c)
    \/ RejectLogin(c) \/ AddSession(c) \/ Greet(c) \/ Ungreet(c)
    \/ BroadcastJoined(c) \/ CleanUpSelf(c) \/ Finally(c)

CommandStep(t) ==
    \/ FindTarget(t) \/ RankCheck(t) \/ AddBan(t) \/ Kick(t) \/ RemoveBan(t)
    \/ Announce(t) \/ SetUserRole(t) \/ SetAnnounce(t) \/ SetSession(t)

Environment(c) ==
    \/ Accept(c) \/ HandshakeFails(c) \/ Admit(c) \/ AuthEnds(c) \/ Register(c)
    \/ LoginLine(c) \/ LoginRaises(c) \/ Disconnect(c) \/ ReadMessage(c)

Next ==
    \/ \E c \in Socket : Environment(c) \/ HandlerStep(c)
    \/ \E t \in Thread : CleanUpStep(t) \/ CommandStep(t)
    \/ \E t \in Thread : ReadCommand(t) \/ CommandRaises(t)

Fairness ==
    /\ \A c \in Socket : WF_vars(HandlerStep(c))
    /\ \A t \in Thread : WF_vars(CleanUpStep(t)) /\ WF_vars(CommandStep(t))

Spec == Init /\ [][Next]_vars

FairSpec == Spec /\ Fairness
-----------------------------------------------------------------------------
ServerTypeOK ==
    /\ RegistryTypeOK
    /\ users \in [Username -> Role \cup {None}]
    /\ banned \subseteq Username
    /\ pc \in [Thread -> HandlerPC \cup ConsolePC]
    /\ \A c \in Socket : pc[c] \in HandlerPC
    /\ pc[Console] \in ConsolePC
    /\ reserved \in [Socket -> Username \cup {None}]
    /\ login_role \in [Socket -> Role \cup {None}]
    /\ cmd \in [Thread -> Command \cup {None}]
    /\ failed \in [Thread -> SUBSET Socket]
    /\ cleanup \in [Thread -> CleanUp \cup {None}]

\* Whatever way a connection ends, and whoever else (a kick, a broadcast that
\* found its queue full) cleans it up at the same time, once its thread is done
\* the registry holds nothing of it: no session, no name, no IP slot.
FinishedLeavesNothing ==
    \A c \in Socket : pc[c] = "done" =>
        /\ ~Registered(c)
        /\ client_ips[c] = None
        /\ \A n \in Username : by_name[n] # c

\* A reserved name always has a login under way that will release it or turn it
\* into a session: no failed, rejected or crashed login leaves its name locked.
PendingOwned ==
    \A n \in pending_logins : \E c \in Socket :
        reserved[c] = n /\ pc[c] \in LoginPC \cup {"greet", "ungreet", "closing", "finally"}

\* Name n is in: it has a session, or a login that has passed every ban check.
Inside(n) ==
    \/ \E c \in Online : sessions[c].username = n
    \/ \E c \in Socket : pc[c] = "add" /\ reserved[c] = n

\* A banned account that is not in stays out until it is unbanned, whenever the
\* ban file was written relative to the steps of a login.
BanHolds ==
    [][\A n \in Username : n \in banned /\ n \in banned' /\ ~Inside(n) => ~Inside(n)']_vars

\* A moderator or admin who kicks or bans removes only somebody of lower rank,
\* although the rank check and the removal look the target up separately and the
\* target may log out, register or log in again in between.  (A SET between the
\* two look-ups is another matter: the bounds of the run leave SET out.)
RankHolds ==
    [][\A t \in Socket : At(t, "kick") /\ failed'[t] # {} =>
          \A c \in failed'[t] : ROLE_RANK[sessions[c].role] < ROLE_RANK[cmd[t].actor]]_vars

\* Without an administrator nobody's role ever rises: however kicks, bans, logins
\* and registrations interleave, no client gets a SET past the permission table.
NoEscalation ==
    /\ \A n \in Username : users[n] \in {InitialRole[n], "user"}
    /\ \A c \in Online : sessions[c].role = users[sessions[c].username]

\* At most one connection is logged in under a name, and by_name() finds it.
UniqueSession == \A c \in Online : by_name[sessions[c].username] = c

\* Every login under way still has the reservation that it made, and no two of them
\* have one name.
LoginsHoldNames ==
    /\ \A c \in Socket : pc[c] \in LoginPC => reserved[c] \in pending_logins
    /\ \A c, d \in Socket :
          pc[c] \in LoginPC /\ pc[d] \in LoginPC /\ reserved[c] = reserved[d] => c = d

\* The finally clause of handle_new_connection releases no name that another login holds.
ReleasesOwn ==
    \A c, d \in Socket :
        pc[d] = "finally" /\ pc'[d] = "done" /\ reserved[d] # None /\ pc[c] \in LoginPC =>
            reserved[c] # reserved[d]

\* Sessions are unique and logins hold their names until a finally clause releases the
\* reservation of another login: no other step, of whatever thread, leads to a second
\* session under a name, however logins, removals and clean-ups interleave.
UniqueUntilForeignRelease ==
    [][UniqueSession /\ LoginsHoldNames /\ ReleasesOwn => (UniqueSession /\ LoginsHoldNames)']_vars

\* Thread t is executing command op on name n.
Executing(t, op, n) == cmd[t] # None /\ cmd[t].op = op /\ cmd[t].name = n

\* Once /ban is done, the account is not online (until it is unbanned).
BannedOffline ==
    \A c \in Online : sessions[c].username \in banned =>
        \E t \in Thread : Executing(t, "BAN", sessions[c].username)

\* Every reservation is eventually given up or turned into a session.
PendingSettles == \A n \in Username : n \in pending_logins ~> n \notin pending_logins

\* A client that was kicked, banned or dropped gives its IP slot back even when
\* its own thread stays blocked in recv(), and a thread on its way out always
\* gets there.
SlotComesBack ==
    \A c \in Socket :
        (pc[c] \in {"closing", "joined", "chat"} /\ ~Registered(c)) ~> client_ips[c] = None
=============================================================================
