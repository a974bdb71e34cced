------------------------- MODULE ChatServerProofs -------------------------
(***************************************************************************)
(* The threads of ChatServer, for any number of connections, accounts and  *)
(* addresses, keep the discipline of RegistryNext, so everything proved of *)
(* RegistrySpec holds of the server; and whatever way a connection ends,   *)
(* nothing of it is left in the registry.  The last two sections give the  *)
(* conditions under which a name has one session and a banned one none.    *)
(*                                                                         *)
(* The argument is one inductive invariant, RegistryInv /\ ServerInv.  Its *)
(* parts say what a thread may rely on between two acquisitions of a lock, *)
(* when every other thread may have run.                                   *)
(***************************************************************************)
EXTENDS ChatServer, ClientRegistryProofs

SetPC == {"set", "set_announce", "set_session"}

NotYetIn == {"new", "handshake", "auth"} \cup LoginPC

\* No thread cleans c up, or is about to.
Untouched(c) ==
    \A t \in Thread : c \notin failed[t] /\ (cleanup[t] # None => cleanup[t].sock # c)

\* Before registry.add() a connection is invisible to the others: it has no
\* session, nobody cleans it up, and its slot is its own thread's affair.
EntryInv ==
    \A c \in Socket : pc[c] \in NotYetIn =>
        /\ ~Registered(c)
        /\ Untouched(c)
        /\ client_ips[c] = None <=> pc[c] \in {"new", "handshake"}

\* What a login under way has established: accounts are never deleted, so the
\* role it reads exists.
LoginInv ==
    \A c \in Socket :
        /\ pc[c] \in LoginPC => reserved[c] \in Username
        /\ pc[c] \in {"banlist", "role"} => users[reserved[c]] # None
        /\ pc[c] \in {"bancheck", "add"} => login_role[c] \in Role

\* The command a thread is executing is the one its steps belong to.
CommandInv ==
    \A t \in Thread : pc[t] \in CommandPC =>
        /\ cmd[t] \in Command
        /\ pc[t] \in SetPC <=> cmd[t].op = "SET"
        /\ cmd[t].op = "SET" => cmd[t].role \in NewRoles

\* clean_up_client unregistered its client, and nobody registers it again.
CleanUpInv == \A t \in Thread : cleanup[t] # None => ~Registered(cleanup[t].sock)

\* A thread past its last clean_up_client has given its slot back, or still has
\* the part of that call before it that does.
ExitInv ==
    \A c \in Socket :
        /\ pc[c] = "finally" =>
             \/ c \in failed[c]
             \/ cleanup[c] # None /\ cleanup[c].sock = c /\ cleanup[c].step = "release"
             \/ client_ips[c] = None
        /\ pc[c] = "done" => client_ips[c] = None

\* A reservation belongs to a login that has not come to registry.add(), or that
\* raised before it.  (PendingOwned itself is not inductive: a connection at
\* "greet" drops its name without releasing a reservation.)
PendingInv ==
    \A n \in pending_logins : \E c \in Socket :
        reserved[c] = n /\ pc[c] \in LoginPC \cup {"closing", "finally"}

ServerInv ==
    /\ ServerTypeOK
    /\ EntryInv
    /\ LoginInv
    /\ CommandInv
    /\ CleanUpInv
    /\ ExitInv
    /\ PendingInv

Inv == RegistryInv /\ ServerInv

USE DEF At, Goto, registryVars, nameVars, slotVars, fileVars, loginVars, cleanVars,
        Inv, ServerInv, ServerTypeOK, RegistryTypeOK, Thread
-----------------------------------------------------------------------------
(* The steps of the thread of one connection.                              *)

\* Steps that change nothing but where the thread is.
LEMMA WaitingStep ==
    ASSUME Inv, RegistryInv', NEW c \in Socket,
           Accept(c) \/ HandshakeFails(c) \/ AuthEnds(c) \/ Disconnect(c) \/
           LoginRaises(c)
    PROVE  ServerInv'
<1> USE DEF Accept, HandshakeFails, AuthEnds, Disconnect, LoginRaises
<1>1. ServerTypeOK'
    BY ServerAssumption DEF RegistryInv, HandlerPC, ConsolePC, LoginPC, CommandPC,
       ServerAssumption
<1>2. EntryInv'
    BY DEF EntryInv, Untouched, Registered, NotYetIn, LoginPC
<1>3. LoginInv'
    BY DEF LoginInv, LoginPC
<1>4. CommandInv'
    BY DEF CommandInv, CommandPC, SetPC
<1>5. CleanUpInv'
    BY DEF CleanUpInv, Registered, CleanUp
<1>6. ExitInv'
    BY DEF ExitInv
<1>7. PendingInv'
    BY DEF PendingInv, LoginPC
<1> QED BY <1>1, <1>2, <1>3, <1>4, <1>5, <1>6, <1>7 DEF ServerInv

\* The steps of login() and register(), which read and write the files.
LEMMA AccountStep ==
    ASSUME Inv, RegistryInv', NEW c \in Socket,
           VerifyPassword(c) \/ LoginBanCheck(c) \/ ReadRole(c) \/
           SecondBanCheck(c) \/ Register(c)
    PROVE  ServerInv'
<1>1. ServerTypeOK'
    <2>1. CASE VerifyPassword(c) \/ LoginBanCheck(c) \/ SecondBanCheck(c)
        BY <2>1, ServerAssumption DEF VerifyPassword, LoginBanCheck, SecondBanCheck,
           RegistryInv, HandlerPC, ConsolePC, LoginPC, CommandPC, ServerAssumption
    <2>2. CASE ReadRole(c)
        BY <2>2, ServerAssumption DEF ReadRole, RegistryInv, HandlerPC, ConsolePC, LoginPC,
           CommandPC, ServerAssumption, LoginInv, Role
    <2>3. CASE Register(c)
        BY <2>3, ServerAssumption DEF Register, RegistryInv, HandlerPC, ConsolePC, LoginPC,
           CommandPC, ServerAssumption, Role
    <2> QED BY <2>1, <2>2, <2>3
<1> USE DEF VerifyPassword, LoginBanCheck, ReadRole, SecondBanCheck, Register
<1>2. EntryInv'
    BY DEF EntryInv, Untouched, Registered, NotYetIn, LoginPC
<1>3. LoginInv'
    BY ServerAssumption DEF LoginInv, LoginPC, ServerAssumption, Role
<1>4. CommandInv'
    BY DEF CommandInv, CommandPC, SetPC
<1>5. CleanUpInv'
    BY DEF CleanUpInv, Registered, CleanUp
<1>6. ExitInv'
    BY DEF ExitInv
<1>7. PendingInv'
    BY DEF PendingInv, LoginPC
<1> QED BY <1>1, <1>2, <1>3, <1>4, <1>5, <1>6, <1>7 DEF ServerInv

\* The steps that take a reservation and give it back.
LEMMA ReservationStep ==
    ASSUME Inv, RegistryInv', NEW c \in Socket,
           LoginLine(c) \/ RejectLogin(c) \/ Greet(c) \/ Finally(c)
    PROVE  ServerInv'
<1>1. ServerTypeOK'
    <2> USE DEF RegistryInv, HandlerPC, ConsolePC, LoginPC, CommandPC, ServerAssumption,
       ReserveUsername, ReleaseReservation
    <2>1. CASE LoginLine(c)
        BY <2>1, ServerAssumption DEF LoginLine
    <2>2. CASE RejectLogin(c)
        BY <2>2, ServerAssumption DEF RejectLogin
    <2>3. CASE Greet(c)
        BY <2>3, ServerAssumption DEF Greet
    <2>4. CASE Finally(c)
        BY <2>4, ServerAssumption DEF Finally
    <2> QED BY <2>1, <2>2, <2>3, <2>4
<1> USE DEF LoginLine, RejectLogin, Greet, Finally, ReserveUsername,
       ReleaseReservation
<1>2. EntryInv'
    BY DEF EntryInv, Untouched, Registered, NotYetIn, LoginPC
<1>3. LoginInv'
    BY DEF LoginInv, LoginPC
<1>4. CommandInv'
    BY DEF CommandInv, CommandPC, SetPC
<1>5. CleanUpInv'
    BY DEF CleanUpInv, Registered, CleanUp
<1>6. ExitInv'
    BY DEF ExitInv
<1>7. PendingInv'
    BY RegistryAssumption DEF PendingInv, LoginPC, RegistryAssumption
<1> QED BY <1>1, <1>2, <1>3, <1>4, <1>5, <1>6, <1>7 DEF ServerInv

\* The step that takes the slot; a refused connection is over at once.
LEMMA AdmitStep ==
    ASSUME Inv, RegistryInv', NEW c \in Socket, Admit(c)
    PROVE  ServerInv'
<1> USE DEF Admit, TryReserveIpSlot
<1>1. ServerTypeOK'
    BY ServerAssumption DEF RegistryInv, HandlerPC, ConsolePC, LoginPC, CommandPC,
       ServerAssumption
<1>2. EntryInv'
    BY RegistryAssumption DEF EntryInv, Untouched, Registered, NotYetIn, LoginPC,
       RegistryAssumption
<1>3. LoginInv'
    BY DEF LoginInv, LoginPC
<1>4. CommandInv'
    BY DEF CommandInv, CommandPC, SetPC
<1>5. CleanUpInv'
    BY DEF CleanUpInv, Registered, CleanUp
<1>6. ExitInv'
    BY DEF ExitInv, EntryInv, NotYetIn
<1>7. PendingInv'
    BY DEF PendingInv, LoginPC
<1> QED BY <1>1, <1>2, <1>3, <1>4, <1>5, <1>6, <1>7 DEF ServerInv

\* registry.add(): the connection becomes visible; nobody was cleaning it up.
LEMMA AddStep ==
    ASSUME Inv, RegistryInv', NEW c \in Socket, AddSession(c)
    PROVE  ServerInv'
<1> USE DEF AddSession, Add
<1>1. ServerTypeOK'
    BY ServerAssumption DEF RegistryInv, HandlerPC, ConsolePC, LoginPC, CommandPC,
       ServerAssumption
<1>2. EntryInv'
    BY RegistryAssumption DEF EntryInv, Untouched, Registered, NotYetIn, LoginPC
<1>3. LoginInv'
    BY DEF LoginInv, LoginPC
<1>4. CommandInv'
    BY DEF CommandInv, CommandPC, SetPC
<1>5. CleanUpInv'
    BY DEF CleanUpInv, Registered, CleanUp, EntryInv, Untouched, NotYetIn, LoginPC
<1>6. ExitInv'
    BY DEF ExitInv
<1>7. PendingInv'
    BY DEF PendingInv, LoginPC
<1> QED BY <1>1, <1>2, <1>3, <1>4, <1>5, <1>6, <1>7 DEF ServerInv

\* The OK line could not be queued.
LEMMA UngreetStep ==
    ASSUME Inv, RegistryInv', NEW c \in Socket, Ungreet(c)
    PROVE  ServerInv'
<1> USE DEF Ungreet, Remove
<1>1. ServerTypeOK'
    BY ServerAssumption DEF RegistryInv, HandlerPC, ConsolePC, LoginPC, CommandPC,
       ServerAssumption
<1>2. EntryInv'
    BY DEF EntryInv, Untouched, Registered, NotYetIn, LoginPC
<1>3. LoginInv'
    BY DEF LoginInv, LoginPC
<1>4. CommandInv'
    BY DEF CommandInv, CommandPC, SetPC
<1>5. CleanUpInv'
    BY DEF CleanUpInv, Registered, CleanUp
<1>6. ExitInv'
    BY DEF ExitInv
<1>7. PendingInv'
    BY DEF PendingInv, LoginPC
<1> QED BY <1>1, <1>2, <1>3, <1>4, <1>5, <1>6, <1>7 DEF ServerInv

\* A thread's own broadcasts, and the clean-up it owes itself.
LEMMA OwnStep ==
    ASSUME Inv, RegistryInv', NEW c \in Socket,
           BroadcastJoined(c) \/ ReadMessage(c) \/ CleanUpSelf(c)
    PROVE  ServerInv'
<1> USE DEF BroadcastJoined, ReadMessage, CleanUpSelf, Broadcast
<1>1. ServerTypeOK'
    BY SMTT(30), ServerAssumption DEF RegistryInv, HandlerPC, ConsolePC, LoginPC, CommandPC,
       ServerAssumption
<1>2. EntryInv'
    BY DEF EntryInv, Untouched, Registered, NotYetIn, LoginPC, Online
<1>3. LoginInv'
    BY DEF LoginInv, LoginPC
<1>4. CommandInv'
    BY DEF CommandInv, CommandPC, SetPC
<1>5. CleanUpInv'
    BY DEF CleanUpInv, Registered, CleanUp
<1>6. ExitInv'
    BY DEF ExitInv
<1>7. PendingInv'
    BY DEF PendingInv, LoginPC
<1> QED BY <1>1, <1>2, <1>3, <1>4, <1>5, <1>6, <1>7 DEF ServerInv
-----------------------------------------------------------------------------
(* Commands, of clients and of the console.                                *)

\* The announcement of a command.
LEMMA AnnounceStep ==
    ASSUME Inv, RegistryInv', NEW t \in Thread,
           Announce(t) \/ SetAnnounce(t)
    PROVE  ServerInv'
<1> USE DEF Announce, SetAnnounce, Broadcast, EndCommand, Home
<1>1. ServerTypeOK'
    BY ServerAssumption DEF RegistryInv, HandlerPC, ConsolePC, LoginPC, CommandPC,
       ServerAssumption
<1>2. EntryInv'
    BY DEF EntryInv, Untouched, Registered, NotYetIn, LoginPC, Online
<1>3. LoginInv'
    BY DEF LoginInv, LoginPC
<1>4. CommandInv'
    BY DEF CommandInv, CommandPC, SetPC
<1>5. CleanUpInv'
    BY DEF CleanUpInv, Registered, CleanUp
<1>6. ExitInv'
    BY DEF ExitInv
<1>7. PendingInv'
    BY DEF PendingInv, LoginPC
<1> QED BY <1>1, <1>2, <1>3, <1>4, <1>5, <1>6, <1>7 DEF ServerInv

\* The steps that write the ban file, and the file errors.
LEMMA FileStep ==
    ASSUME Inv, RegistryInv', NEW t \in Thread,
           AddBan(t) \/ RemoveBan(t) \/ CommandRaises(t)
    PROVE  ServerInv'
<1> USE DEF AddBan, RemoveBan, CommandRaises
<1>1. ServerTypeOK'
    BY ServerAssumption DEF RegistryInv, HandlerPC, ConsolePC, LoginPC, CommandPC,
       ServerAssumption, CommandInv, Command
<1>2. EntryInv'
    BY DEF EntryInv, Untouched, Registered, NotYetIn, LoginPC
<1>3. LoginInv'
    BY DEF LoginInv, LoginPC
<1>4. CommandInv'
    BY ServerAssumption DEF CommandInv, CommandPC, SetPC, ServerAssumption, Command
<1>5. CleanUpInv'
    BY DEF CleanUpInv, Registered, CleanUp
<1>6. ExitInv'
    BY DEF ExitInv
<1>7. PendingInv'
    BY DEF PendingInv, LoginPC
<1> QED BY <1>1, <1>2, <1>3, <1>4, <1>5, <1>6, <1>7 DEF ServerInv

\* kick_user: whoever by_name() finds is registered, so it is none of the
\* connections EntryInv is about.
LEMMA KickStep ==
    ASSUME Inv, RegistryInv', NEW t \in Thread, Kick(t)
    PROVE  ServerInv'
<1> USE DEF Kick, EndCommand, Home
<1>1. ServerTypeOK'
    BY SMTT(30), ServerAssumption DEF RegistryInv, HandlerPC, ConsolePC, LoginPC, CommandPC,
       ServerAssumption, CommandInv, Command
<1>2. EntryInv'
    <2>1. by_name[cmd[t].name] # None => /\ by_name[cmd[t].name] \in Socket
                                         /\ Registered(by_name[cmd[t].name])
        BY DEF RegistryInv, NameIndexSound, CommandInv, Command, CommandPC
    <2>2. \A d \in Thread : \A c \in failed'[d] : c \in failed[d] \/ Registered(c)
        BY <2>1
    <2>3. \A c \in Socket : pc'[c] \in NotYetIn => pc[c] \in NotYetIn /\ pc'[c] = pc[c]
        BY DEF NotYetIn, LoginPC
    <2> QED BY <2>2, <2>3 DEF EntryInv, Untouched, Registered
<1>3. LoginInv'
    BY DEF LoginInv, LoginPC
<1>4. CommandInv'
    BY DEF CommandInv, CommandPC, SetPC, Command
<1>5. CleanUpInv'
    BY DEF CleanUpInv, Registered, CleanUp
<1>6. ExitInv'
    BY DEF ExitInv
<1>7. PendingInv'
    BY DEF PendingInv, LoginPC
<1> QED BY <1>1, <1>2, <1>3, <1>4, <1>5, <1>6, <1>7 DEF ServerInv

\* SET: the account exists, and the session keeps its registration.
LEMMA SetStep ==
    ASSUME Inv, RegistryInv', NEW t \in Thread,
           SetUserRole(t) \/ SetSession(t)
    PROVE  ServerInv'
<1> USE DEF SetUserRole, SetSession, EndCommand, Home
<1>a. /\ \A c \in Socket : Registered(c)' <=> Registered(c)
      /\ UNCHANGED <<client_ips, pending_logins, cleanup, failed, loginVars>>
    <2>1. CASE SetUserRole(t)
        BY <2>1 DEF Registered
    <2>2. CASE SetSession(t)
        <3>1. cmd[t].name \in Username /\ cmd[t].role \in Role
            BY <2>2, ServerAssumption DEF CommandInv, CommandPC, SetPC, Command, ServerAssumption
        <3>2. Online' = Online
            BY <2>2, <3>1, SetRoleInv, SplitInv
        <3> QED BY <2>2, <3>2 DEF Online, SetRole
    <2> QED BY <2>1, <2>2
<1>b. \A n \in Username : users[n] # None => users'[n] # None
    <2>1. CASE SetUserRole(t)
        <3>1. cmd[t].role # None
            BY <2>1, ServerAssumption DEF CommandInv, CommandPC, SetPC, ServerAssumption
        <3> QED BY <2>1, <3>1
    <2>2. CASE SetSession(t)
        BY <2>2
    <2> QED BY <2>1, <2>2
<1>1. ServerTypeOK'
    <2>1. cmd[t] \in Command /\ cmd[t].role \in NewRoles
        BY DEF CommandInv, CommandPC, SetPC
    <2>2. users' \in [Username -> Role \cup {None}]
        BY <2>1, ServerAssumption DEF Command, ServerAssumption
    <2>3. /\ pc' \in [Thread -> HandlerPC \cup ConsolePC]
          /\ \A c \in Socket : pc'[c] \in HandlerPC
          /\ pc'[Console] \in ConsolePC
        BY ServerAssumption DEF HandlerPC, ConsolePC, CommandPC, ServerAssumption
    <2>4. cmd' \in [Thread -> Command \cup {None}] /\ banned' = banned
        OBVIOUS
    <2> QED BY <1>a, <2>2, <2>3, <2>4 DEF RegistryInv
<1>2. EntryInv'
    BY <1>a DEF EntryInv, Untouched, Registered, NotYetIn, LoginPC
<1>3. LoginInv'
    BY <1>a, <1>b DEF LoginInv, LoginPC
<1>4. CommandInv'
    BY DEF CommandInv, CommandPC, SetPC, Command
<1>5. CleanUpInv'
    BY <1>a DEF CleanUpInv, Registered, CleanUp
<1>6. ExitInv'
    BY <1>a DEF ExitInv
<1>7. PendingInv'
    BY <1>a DEF PendingInv, LoginPC
<1> QED BY <1>1, <1>2, <1>3, <1>4, <1>5, <1>6, <1>7 DEF ServerInv

\* _target_role: the command now knows the socket found under its name.
LEMMA FindStep ==
    ASSUME Inv, RegistryInv', NEW t \in Thread, FindTarget(t)
    PROVE  ServerInv'
<1> USE DEF FindTarget
<1> DEFINE new == [cmd[t] EXCEPT !.sock = by_name[cmd[t].name]]
<1>a. /\ cmd' = [cmd EXCEPT ![t] = new]
      /\ pc' = [pc EXCEPT ![t] = "rank"]
      /\ UNCHANGED <<registryVars, fileVars, loginVars, cleanVars>>
      /\ new \in Command
      /\ new.op # "SET"
      /\ pc[t] = "target"
    BY DEF CommandInv, CommandPC, SetPC, Command
<1> HIDE DEF new, FindTarget
<1>1. ServerTypeOK'
    BY ServerAssumption, <1>a DEF RegistryInv, HandlerPC, ConsolePC, LoginPC, CommandPC,
       ServerAssumption
<1>2. EntryInv'
    BY <1>a DEF EntryInv, Untouched, Registered, NotYetIn, LoginPC
<1>3. LoginInv'
    BY <1>a DEF LoginInv, LoginPC
<1>4. CommandInv'
    BY <1>a DEF CommandInv, CommandPC, SetPC
<1>5. CleanUpInv'
    BY <1>a DEF CleanUpInv, Registered, CleanUp
<1>6. ExitInv'
    BY <1>a DEF ExitInv
<1>7. PendingInv'
    BY <1>a DEF PendingInv, LoginPC
<1> QED BY <1>1, <1>2, <1>3, <1>4, <1>5, <1>6, <1>7 DEF ServerInv

\* The rank check: the command goes on, or is over.
LEMMA RankStep ==
    ASSUME Inv, RegistryInv', NEW t \in Thread, RankCheck(t)
    PROVE  ServerInv'
<1> USE DEF RankCheck, EndCommand, Home
<1>a. /\ \/ /\ pc' = [pc EXCEPT ![t] = Home(t)]
            /\ cmd' = [cmd EXCEPT ![t] = None]
         \/ /\ \E p \in {"kick", "ban", "unban"} : pc' = [pc EXCEPT ![t] = p]
            /\ cmd' = cmd
            /\ cmd[t] \in Command /\ cmd[t].op # "SET"
      /\ UNCHANGED <<registryVars, fileVars, loginVars, cleanVars>>
      /\ pc[t] = "rank"
    BY DEF CommandInv, CommandPC, SetPC, Command, FirstStep
<1> HIDE DEF RankCheck
<1>1. ServerTypeOK'
    BY <1>a, ServerAssumption DEF RegistryInv, HandlerPC, ConsolePC, LoginPC, CommandPC,
       ServerAssumption
<1>2. EntryInv'
    BY <1>a DEF EntryInv, Untouched, Registered, NotYetIn, LoginPC
<1>3. LoginInv'
    BY <1>a DEF LoginInv, LoginPC
<1>4. CommandInv'
    BY <1>a DEF CommandInv, CommandPC, SetPC
<1>5. CleanUpInv'
    BY <1>a DEF CleanUpInv, Registered, CleanUp
<1>6. ExitInv'
    BY <1>a DEF ExitInv
<1>7. PendingInv'
    BY <1>a DEF PendingInv, LoginPC
<1> QED BY <1>1, <1>2, <1>3, <1>4, <1>5, <1>6, <1>7 DEF ServerInv

\* A command other than SET never starts with a step of SET.
LEMMA FirstStepCases ==
    ASSUME NEW op \in {"KICK", "BAN", "UNBAN", "SET"}, NEW byConsole \in BOOLEAN
    PROVE  /\ op = "SET" => FirstStep(op, byConsole) = "set"
           /\ op # "SET" => FirstStep(op, byConsole) \in {"target", "kick", "ban", "unban"}
<1>1. CASE byConsole = TRUE
    BY <1>1 DEF FirstStep
<1>2. CASE byConsole = FALSE
    BY <1>2 DEF FirstStep
<1> QED BY <1>1, <1>2

\* A new command, with the role its sender has now.
LEMMA ReadStep ==
    ASSUME Inv, RegistryInv', NEW t \in Thread, ReadCommand(t)
    PROVE  ServerInv'
<1> USE DEF ReadCommand, Home
<1>a. PICK op \in (IF t = Console THEN ConsoleOps ELSE ClientOps \ {"MSG"}), n \in Username,
           r \in NewRoles \cup {None} :
             /\ op = "SET" => r \in NewRoles
             /\ Goto(t, FirstStep(op, t = Console))
             /\ cmd' = [cmd EXCEPT ![t] =
                          [op |-> op, name |-> n, role |-> r, sock |-> None,
                           actor |-> IF t = Console THEN None ELSE sessions[t].role]]
    BY ZenonT(40)
<1>b. \E p \in CommandPC, new \in Command :
         /\ cmd' = [cmd EXCEPT ![t] = new]
         /\ pc' = [pc EXCEPT ![t] = p]
         /\ p \in SetPC <=> new.op = "SET"
         /\ new.op = "SET" => new.role \in NewRoles
         /\ UNCHANGED <<registryVars, fileVars, loginVars, cleanVars>>
         /\ pc[t] = Home(t)
    <2> DEFINE new == [op |-> op, name |-> n, role |-> r, sock |-> None,
                       actor |-> IF t = Console THEN None ELSE sessions[t].role]
    <2>1. op \in {"KICK", "BAN", "UNBAN", "SET"}
        BY ServerAssumption DEF ServerAssumption
    <2>2. t # Console => sessions[t].role \in Role
        BY DEF RegistryInv, Registered, Session
    <2>3. new \in Command /\ new.op = op /\ new.role = r
        BY <2>1, <2>2 DEF Command
    <2>4. /\ FirstStep(op, t = Console) \in CommandPC
          /\ FirstStep(op, t = Console) \in SetPC <=> op = "SET"
        BY <2>1, FirstStepCases DEF CommandPC, SetPC
    <2> HIDE DEF new
    <2>5. cmd' = [cmd EXCEPT ![t] = new]
        BY <1>a DEF new
    <2> QED BY <1>a, <2>3, <2>4, <2>5
<1> HIDE DEF ReadCommand
<1>1. ServerTypeOK'
    BY <1>b, ServerAssumption DEF RegistryInv, HandlerPC, ConsolePC, LoginPC, CommandPC,
       ServerAssumption
<1>2. EntryInv'
    BY <1>b DEF EntryInv, Untouched, Registered, NotYetIn, LoginPC, CommandPC
<1>3. LoginInv'
    BY <1>b DEF LoginInv, LoginPC, CommandPC
<1>4. CommandInv'
    BY <1>b DEF CommandInv, CommandPC, SetPC, Command
<1>5. CleanUpInv'
    BY <1>b DEF CleanUpInv, Registered, CleanUp
<1>6. ExitInv'
    BY <1>b DEF ExitInv, CommandPC
<1>7. PendingInv'
    BY <1>b DEF PendingInv, LoginPC, CommandPC
<1> QED BY <1>1, <1>2, <1>3, <1>4, <1>5, <1>6, <1>7 DEF ServerInv
-----------------------------------------------------------------------------
(* clean_up_client, by any thread.                                         *)

\* registry.remove(): a client named in failed is one that got in.
LEMMA RemoveStep ==
    ASSUME Inv, RegistryInv', NEW t \in Thread, CleanUpRemove(t)
    PROVE  ServerInv'
<1> USE DEF CleanUpRemove
<1>a. PICK c \in failed[t] :
         /\ Remove(c)
         /\ failed' = [failed EXCEPT ![t] = @ \ {c}]
         /\ cleanup' = [cleanup EXCEPT ![t] =
                          [sock |-> c, found |-> Registered(c), step |-> "release"]]
    OBVIOUS
<1> DEFINE new == [sock |-> c, found |-> Registered(c), step |-> "release"]
<1>b. /\ cleanup[t] = None
      /\ cleanup' = [cleanup EXCEPT ![t] = new]
      /\ c \in Socket
      /\ new \in CleanUp /\ new.sock = c /\ new.step = "release"
      /\ sessions' = [sessions EXCEPT ![c] = None]
      /\ UNCHANGED <<fileVars, pc, loginVars, cmd, slotVars, pending_logins>>
    BY <1>a DEF Remove, CleanUp, Registered
<1> HIDE DEF new, CleanUpRemove
<1>1. ServerTypeOK'
    BY <1>a, <1>b, ServerAssumption DEF RegistryInv, HandlerPC, ConsolePC, LoginPC,
       CommandPC, ServerAssumption
<1>2. EntryInv'
    BY <1>a, <1>b DEF EntryInv, Untouched, Registered, NotYetIn, LoginPC
<1>3. LoginInv'
    BY <1>a, <1>b DEF LoginInv, LoginPC
<1>4. CommandInv'
    BY <1>a, <1>b DEF CommandInv, CommandPC, SetPC
<1>5. CleanUpInv'
    BY <1>a, <1>b DEF CleanUpInv, Registered, CleanUp
<1>6. ExitInv'
    <2> SUFFICES ASSUME NEW d \in Socket, pc[d] = "finally", client_ips[d] # None
                 PROVE  \/ d \in failed'[d]
                        \/ /\ cleanup'[d] # None
                           /\ cleanup'[d].sock = d /\ cleanup'[d].step = "release"
        BY <1>b DEF ExitInv
    <2>1. \/ d \in failed[d]
          \/ cleanup[d] # None /\ cleanup[d].sock = d /\ cleanup[d].step = "release"
        BY DEF ExitInv
    <2>2. CASE d = t /\ c = t
        BY <1>b, <2>2, ServerAssumption DEF ServerAssumption
    <2>3. CASE d = t /\ c # t
        BY <1>a, <1>b, <2>1, <2>3
    <2>4. CASE d # t
        BY <1>a, <1>b, <2>1, <2>4
    <2> QED BY <2>2, <2>3, <2>4
<1>7. PendingInv'
    BY <1>a, <1>b DEF PendingInv, LoginPC
<1> QED BY <1>1, <1>2, <1>3, <1>4, <1>5, <1>6, <1>7 DEF ServerInv

\* registry.release_ip_slot().
LEMMA ReleaseStep ==
    ASSUME Inv, RegistryInv', NEW t \in Thread, CleanUpRelease(t)
    PROVE  ServerInv'
<1> USE DEF CleanUpRelease, ReleaseIpSlot
<1>1. ServerTypeOK'
    BY SMTT(30), ServerAssumption DEF RegistryInv, HandlerPC, ConsolePC, LoginPC, CommandPC,
       ServerAssumption, CleanUp
<1>2. EntryInv'
    BY DEF EntryInv, Untouched, Registered, NotYetIn, LoginPC, CleanUp
<1>3. LoginInv'
    BY DEF LoginInv, LoginPC
<1>4. CommandInv'
    BY DEF CommandInv, CommandPC, SetPC
<1>5. CleanUpInv'
    BY DEF CleanUpInv, Registered, CleanUp
<1>6. ExitInv'
    BY DEF ExitInv, CleanUp
<1>7. PendingInv'
    BY DEF PendingInv, LoginPC
<1> QED BY <1>1, <1>2, <1>3, <1>4, <1>5, <1>6, <1>7 DEF ServerInv

\* The announcement, which only names clients that are online.
LEMMA LeftStep ==
    ASSUME Inv, RegistryInv', NEW t \in Thread, CleanUpAnnounce(t)
    PROVE  ServerInv'
<1> USE DEF CleanUpAnnounce
<1>1. ServerTypeOK'
    BY ServerAssumption DEF RegistryInv, HandlerPC, ConsolePC, LoginPC, CommandPC,
       ServerAssumption, CleanUp
<1>2. EntryInv'
    BY DEF EntryInv, Untouched, Registered, NotYetIn, LoginPC, CleanUp, Online
<1>3. LoginInv'
    BY DEF LoginInv, LoginPC
<1>4. CommandInv'
    BY DEF CommandInv, CommandPC, SetPC
<1>5. CleanUpInv'
    BY DEF CleanUpInv, Registered, CleanUp
<1>6. ExitInv'
    BY DEF ExitInv
<1>7. PendingInv'
    BY DEF PendingInv, LoginPC
<1> QED BY <1>1, <1>2, <1>3, <1>4, <1>5, <1>6, <1>7 DEF ServerInv
-----------------------------------------------------------------------------
\* Every step of every thread is a registry call the discipline allows, or
\* leaves the registry alone.
LEMMA CallsDisciplined ==
    ASSUME Inv, Next
    PROVE  [RegistryNext]_registryVars
<1>1. ASSUME NEW c \in Socket, Environment(c)
      PROVE  [RegistryNext]_registryVars
    <2>1. CASE Admit(c)
        <3>1. client_ips[c] = None
            BY <2>1 DEF Admit, EntryInv, NotYetIn
        <3> QED BY <2>1, <3>1 DEF Admit, RegistryNext
    <2>2. CASE LoginLine(c)
        BY <2>2 DEF LoginLine, RegistryNext
    <2>3. CASE ~Admit(c) /\ ~LoginLine(c)
        BY <1>1, <2>3 DEF Environment, Accept, HandshakeFails, AuthEnds, Register,
           LoginRaises, Disconnect, ReadMessage
    <2> QED BY <2>1, <2>2, <2>3
<1>2. ASSUME NEW c \in Socket, HandlerStep(c)
      PROVE  [RegistryNext]_registryVars
    <2>1. CASE RejectLogin(c)
        <3>1. reserved[c] \in Username
            BY <2>1 DEF RejectLogin, LoginInv, LoginPC
        <3> QED BY <2>1, <3>1 DEF RejectLogin, RegistryNext
    <2>2. CASE AddSession(c)
        <3>1. reserved[c] \in Username /\ login_role[c] \in Role
            BY <2>2 DEF AddSession, LoginInv, LoginPC
        <3>2. ~Registered(c) /\ client_ips[c] # None
            BY <2>2 DEF AddSession, EntryInv, NotYetIn, LoginPC
        <3> QED BY <2>2, <3>1, <3>2 DEF AddSession, RegistryNext
    <2>3. CASE Ungreet(c)
        BY <2>3 DEF Ungreet, RegistryNext
    <2>4. CASE Finally(c)
        BY <2>4 DEF Finally, RegistryNext
    <2>5. CASE ~RejectLogin(c) /\ ~AddSession(c) /\ ~Ungreet(c) /\ ~Finally(c)
        BY <1>2, <2>5 DEF HandlerStep, VerifyPassword, LoginBanCheck, ReadRole,
           SecondBanCheck, Greet, BroadcastJoined, CleanUpSelf
    <2> QED BY <2>1, <2>2, <2>3, <2>4, <2>5
<1>3. ASSUME NEW t \in Thread, CleanUpStep(t)
      PROVE  [RegistryNext]_registryVars
    <2>1. CASE CleanUpRemove(t)
        BY <2>1 DEF CleanUpRemove, RegistryNext
    <2>2. CASE CleanUpRelease(t)
        <3>1. cleanup[t].sock \in Socket /\ ~Registered(cleanup[t].sock)
            BY <2>2 DEF CleanUpRelease, CleanUpInv, CleanUp
        <3> QED BY <2>2, <3>1 DEF CleanUpRelease, RegistryNext
    <2>3. CASE CleanUpAnnounce(t)
        BY <2>3 DEF CleanUpAnnounce
    <2> QED BY <1>3, <2>1, <2>2, <2>3 DEF CleanUpStep
<1>4. ASSUME NEW t \in Thread, CommandStep(t) \/ ReadCommand(t) \/ CommandRaises(t)
      PROVE  [RegistryNext]_registryVars
    <2>1. CASE SetSession(t)
        <3>1. cmd[t].name \in Username /\ cmd[t].role \in Role
            BY <2>1, ServerAssumption DEF SetSession, CommandInv, CommandPC, SetPC, Command,
               ServerAssumption
        <3> QED BY <2>1, <3>1 DEF SetSession, RegistryNext
    <2>2. CASE ~SetSession(t)
        BY <1>4, <2>2 DEF CommandStep, FindTarget, RankCheck, AddBan, Kick, RemoveBan,
           Announce, SetUserRole, SetAnnounce, ReadCommand, CommandRaises
    <2> QED BY <2>1, <2>2
<1> QED BY <1>1, <1>2, <1>3, <1>4 DEF Next

\* RegistryInv /\ ServerInv is inductive.
LEMMA ServerStep == Inv /\ [Next]_vars => Inv'
<1> SUFFICES ASSUME Inv, [Next]_vars PROVE Inv'
    OBVIOUS
<1>1. CASE Next
    <2>1. RegistryInv'
        BY <1>1, CallsDisciplined, StepInv
    <2>2. ASSUME NEW c \in Socket, Environment(c) \/ HandlerStep(c)
          PROVE  ServerInv'
        BY <2>1, <2>2, WaitingStep, AccountStep, ReservationStep, AdmitStep, AddStep,
           UngreetStep, OwnStep DEF Environment, HandlerStep
    <2>3. ASSUME NEW t \in Thread, CleanUpStep(t)
          PROVE  ServerInv'
        BY <2>1, <2>3, RemoveStep, ReleaseStep, LeftStep DEF CleanUpStep
    <2>4. ASSUME NEW t \in Thread, CommandStep(t) \/ ReadCommand(t) \/ CommandRaises(t)
          PROVE  ServerInv'
        BY <2>1, <2>4, FindStep, RankStep, FileStep, KickStep, AnnounceStep, SetStep, ReadStep
           DEF CommandStep
    <2> QED BY <1>1, <2>1, <2>2, <2>3, <2>4 DEF Next
<1>2. CASE UNCHANGED vars
    <2>1. RegistryInv'
        BY <1>2, StepInv DEF vars
    <2>2. ServerInv'
        BY <1>2, <2>1 DEF vars, serverVars, RegistryInv, EntryInv, Untouched, Registered,
           LoginInv, CommandInv, CleanUpInv, ExitInv, PendingInv
    <2> QED BY <2>1, <2>2
<1> QED BY <1>1, <1>2

LEMMA ServerStart == Init => Inv
<1> SUFFICES ASSUME Init PROVE Inv
    OBVIOUS
<1>1. RegistryInv
    BY EmptySlots, EmptyNames, SplitInv DEF Init, RegistryInit
<1>2. ServerTypeOK
    BY <1>1, ServerAssumption DEF Init, RegistryInv, ServerAssumption, HandlerPC, ConsolePC
<1>3. EntryInv /\ LoginInv /\ CommandInv /\ CleanUpInv /\ ExitInv /\ PendingInv
    BY ServerAssumption DEF Init, RegistryInit, EntryInv, Untouched, Registered, LoginInv,
       CommandInv, CleanUpInv, ExitInv, PendingInv, NotYetIn, LoginPC, CommandPC,
       ServerAssumption
<1> QED BY <1>1, <1>2, <1>3

\* Inv holds at every moment of every execution of the server.
THEOREM ServerInvariant == Spec => []Inv
BY ServerStart, ServerStep, PTL DEF Spec
-----------------------------------------------------------------------------
\* The server implements the registry's specification: whatever its handler
\* threads and its console do concurrently, each of them calls the registry only
\* as the discipline allows.  With the theorems of ClientRegistryProofs the
\* counters are then exact, the cap respected and the names consistent.
THEOREM ServerKeepsDiscipline == Spec => RegistrySpec
<1>1. Init => RegistryInit
    BY DEF Init
<1>2. Inv /\ [Next]_vars => [RegistryNext]_registryVars
    BY CallsDisciplined DEF vars
<1> QED BY <1>1, <1>2, ServerInvariant, PTL DEF Spec, RegistrySpec

\* Every variable of the server keeps its type.
THEOREM ServerTypeCorrect == Spec => []ServerTypeOK
<1>1. Inv => ServerTypeOK
    OBVIOUS
<1> QED BY <1>1, ServerInvariant, PTL

\* No address has more than MAX_CONNECTIONS_PER_IP connections to this server.
THEOREM ServerConnectionCap == Spec => []IpCapRespected
BY ServerKeepsDiscipline, ConnectionCap, PTL

\* Once a connection's thread is done, no session, no name and no slot of it is
\* left, whoever else was cleaning it up.
THEOREM NothingLeftBehind == Spec => []FinishedLeavesNothing
<1>1. Inv => FinishedLeavesNothing
    <2> SUFFICES ASSUME Inv, NEW c \in Socket, pc[c] = "done"
                 PROVE  /\ ~Registered(c)
                        /\ client_ips[c] = None
                        /\ \A n \in Username : by_name[n] # c
        BY DEF FinishedLeavesNothing
    <2>1. client_ips[c] = None
        BY DEF ExitInv
    <2>2. ~Registered(c)
        BY <2>1 DEF RegistryInv, SessionHoldsSlot, Online
    <2>3. ASSUME NEW n \in Username, by_name[n] = c
          PROVE  FALSE
        BY <2>2, <2>3, RegistryAssumption DEF RegistryInv, NameIndexSound, RegistryAssumption
    <2> QED BY <2>1, <2>2, <2>3
<1> QED BY <1>1, ServerInvariant, PTL

\* A reserved name always has a login under way that will settle it.
THEOREM ReservationsOwned == Spec => []PendingOwned
<1>1. Inv => PendingOwned
    BY DEF PendingInv, PendingOwned
<1> QED BY <1>1, ServerInvariant, PTL

\* set_role() leaves every name where it was.
LEMMA SetRoleNames ==
    ASSUME Inv, NEW n \in Username, NEW r \in Role, SetRole(n, r)
    PROVE  \A d \in Socket : /\ Registered(d)' <=> Registered(d)
                             /\ sessions'[d].username = sessions[d].username
<1>1. CASE by_name[n] = None
    BY <1>1 DEF SetRole, Registered
<1>2. CASE by_name[n] # None
    <2> DEFINE c == by_name[n]
               s == [sessions[c] EXCEPT !.role = r]
    <2>1. c \in Socket /\ sessions[c] \in Session
        BY <1>2 DEF RegistryInv, NameIndexSound, Registered
    <2>2. sessions' = [sessions EXCEPT ![c] = s]
        BY <1>2, <2>1 DEF SetRole
    <2>3. s \in Session /\ s # None /\ s.username = sessions[c].username
        BY <2>1, RegistryAssumption DEF Session, RegistryAssumption
    <2> HIDE DEF c, s
    <2> QED BY <2>1, <2>2, <2>3, RegistryAssumption DEF Registered, RegistryAssumption
<1> QED BY <1>1, <1>2

\* A banned account that is not in gets in by no step of any thread: a session
\* comes from a login at "add", and a login comes to "add" only through the
\* second ban check.
LEMMA BanStep ==
    ASSUME Inv, Next, NEW n \in Username, n \in banned, ~Inside(n)
    PROVE  ~Inside(n)'
<1>1. \A c \in Socket : ~(Registered(c) /\ sessions[c].username = n)
    BY DEF Inside, Online
<1>2. \A c \in Socket : ~(pc[c] = "add" /\ reserved[c] = n)
    BY DEF Inside
<1>3. SUFFICES \A c \in Socket : /\ ~(Registered(c) /\ sessions[c].username = n)'
                                 /\ ~(pc[c] = "add" /\ reserved[c] = n)'
    BY DEF Inside, Online
<1>4. ASSUME UNCHANGED sessions
      PROVE  \A c \in Socket : ~(Registered(c) /\ sessions[c].username = n)'
    BY <1>1, <1>4 DEF Registered
<1>5. ASSUME NEW t \in Thread, UNCHANGED reserved, NEW p, p # "add", pc' = [pc EXCEPT ![t] = p]
      PROVE  \A c \in Socket : ~(pc[c] = "add" /\ reserved[c] = n)'
    BY <1>2, <1>5
<1>6. ASSUME NEW c \in Socket, Environment(c)
      PROVE  \A d \in Socket : /\ ~(Registered(d) /\ sessions[d].username = n)'
                               /\ ~(pc[d] = "add" /\ reserved[d] = n)'
    <2>1. UNCHANGED sessions
        BY <1>6 DEF Environment, Accept, HandshakeFails, Admit, AuthEnds, Register, LoginLine,
           LoginRaises, Disconnect, ReadMessage, TryReserveIpSlot, ReserveUsername
    <2>2. \A d \in Socket : ~(pc[d] = "add" /\ reserved[d] = n)'
        BY <1>2, <1>6 DEF Environment, Accept, HandshakeFails, Admit, AuthEnds, Register,
           LoginLine, LoginRaises, Disconnect, ReadMessage
    <2> QED BY <1>4, <2>1, <2>2
<1>7. ASSUME NEW c \in Socket, HandlerStep(c)
      PROVE  \A d \in Socket : /\ ~(Registered(d) /\ sessions[d].username = n)'
                               /\ ~(pc[d] = "add" /\ reserved[d] = n)'
    <2>1. CASE AddSession(c)
        <3>1. reserved[c] # n /\ UNCHANGED reserved /\ pc' = [pc EXCEPT ![c] = "greet"]
            BY <1>2, <2>1 DEF AddSession
        <3>2. sessions' = [sessions EXCEPT ![c] = [username |-> reserved[c], role |-> login_role[c]]]
            BY <2>1 DEF AddSession, Add
        <3>3. \A d \in Socket : ~(Registered(d) /\ sessions[d].username = n)'
            BY <1>1, <3>1, <3>2 DEF Registered
        <3> QED BY <1>5, <3>1, <3>3
    <2>2. CASE Ungreet(c)
        <3>1. \A d \in Socket : ~(Registered(d) /\ sessions[d].username = n)'
            BY <1>1, <2>2 DEF Ungreet, Remove, Registered
        <3> QED BY <1>5, <2>2, <3>1 DEF Ungreet
    <2>3. CASE ~AddSession(c) /\ ~Ungreet(c)
        <3>1. UNCHANGED sessions
            BY <1>7, <2>3 DEF HandlerStep, VerifyPassword, LoginBanCheck, ReadRole,
               SecondBanCheck, RejectLogin, Greet, BroadcastJoined, CleanUpSelf, Finally,
               ReleaseReservation
        <3>2. \A d \in Socket : ~(pc[d] = "add" /\ reserved[d] = n)'
            BY <1>2, <1>7, <2>3 DEF HandlerStep, VerifyPassword, LoginBanCheck, ReadRole,
               SecondBanCheck, RejectLogin, Greet, BroadcastJoined, CleanUpSelf, Finally
        <3> QED BY <1>4, <3>1, <3>2
    <2> QED BY <2>1, <2>2, <2>3
<1>8. ASSUME NEW t \in Thread, CleanUpStep(t)
      PROVE  \A d \in Socket : /\ ~(Registered(d) /\ sessions[d].username = n)'
                               /\ ~(pc[d] = "add" /\ reserved[d] = n)'
    <2>1. UNCHANGED <<pc, reserved>>
        BY <1>8 DEF CleanUpStep, CleanUpRemove, CleanUpRelease, CleanUpAnnounce
    <2>2. \A d \in Socket : ~(Registered(d) /\ sessions[d].username = n)'
        BY <1>1, <1>8 DEF CleanUpStep, CleanUpRemove, CleanUpRelease, CleanUpAnnounce, Remove,
           ReleaseIpSlot, Registered
    <2> QED BY <1>2, <2>1, <2>2
<1>9. ASSUME NEW t \in Thread, CommandStep(t) \/ ReadCommand(t) \/ CommandRaises(t)
      PROVE  \A d \in Socket : /\ ~(Registered(d) /\ sessions[d].username = n)'
                               /\ ~(pc[d] = "add" /\ reserved[d] = n)'
    <2>1. UNCHANGED reserved
        BY <1>9 DEF CommandStep, FindTarget, RankCheck, AddBan, Kick, RemoveBan, Announce,
           SetUserRole, SetAnnounce, SetSession, ReadCommand, CommandRaises
    <2>2. \E p : p # "add" /\ pc' = [pc EXCEPT ![t] = p]
        BY <1>9, ServerAssumption
           DEF CommandStep, FindTarget, RankCheck, AddBan, Kick, RemoveBan, Announce, FirstStep,
               SetUserRole, SetAnnounce, SetSession, ReadCommand, CommandRaises, EndCommand, Home,
               CommandInv, CommandPC, SetPC, Command, ServerAssumption
    <2>3. CASE SetSession(t)
        <3>1. cmd[t].name \in Username /\ cmd[t].role \in Role
            BY <2>3, ServerAssumption DEF SetSession, CommandInv, CommandPC, SetPC, Command,
               ServerAssumption
        <3>2. \A d \in Socket : /\ Registered(d)' <=> Registered(d)
                                /\ Registered(d) => sessions'[d].username = sessions[d].username
            BY <2>3, <3>1, SetRoleNames DEF SetSession
        <3> QED BY <1>1, <1>5, <2>1, <2>2, <3>2
    <2>4. CASE ~SetSession(t)
        <3>1. UNCHANGED sessions
            BY <1>9, <2>4 DEF CommandStep, FindTarget, RankCheck, AddBan, Kick, RemoveBan,
               Announce, SetUserRole, SetAnnounce, ReadCommand, CommandRaises
        <3> QED BY <1>4, <1>5, <2>1, <2>2, <3>1
    <2> QED BY <2>3, <2>4
<1> QED BY <1>6, <1>7, <1>8, <1>9 DEF Next

\* A ban holds against every login that has not passed its second ban check,
\* whatever the other threads do.
THEOREM BansHold == Spec => BanHolds
<1>1. Inv /\ [Next]_vars =>
        [\A n \in Username : n \in banned /\ n \in banned' /\ ~Inside(n) => ~Inside(n)']_vars
    BY BanStep
<1> QED BY <1>1, ServerInvariant, PTL DEF Spec, BanHolds

\* A name that is reserved by a login is not online on this server.
THEOREM ReservedIsOffline == Spec => []OnlineNotPending
<1>1. Inv => OnlineNotPending
    BY DEF RegistryInv
<1> QED BY <1>1, ServerInvariant, PTL
-----------------------------------------------------------------------------
(* Roles and ranks, on a server that has no administrator to change them.  *)

\* Nobody starts as an administrator, and the operator has no /set to make one.
NoAdministrator == "SET" \notin ConsoleOps /\ \A n \in Username : InitialRole[n] # "admin"

\* Nobody is at a step of SET, and a login carries the role its account still has.
RoleInv ==
    /\ NoAdministrator
    /\ NoEscalation
    /\ \A t \in Thread : pc[t] \notin SetPC
    /\ \A c \in Socket : pc[c] \in {"bancheck", "add"} => login_role[c] = users[reserved[c]]

\* The steps of a command until it has removed its target.
Deciding == {"target", "rank", "ban", "kick"}

\* What a client's command has established between its look-ups: its sender is not an
\* ordinary user; the socket that by_name() found had that name and will not be used
\* for another login; and past the check, the account named is free or of lower rank.
RankInv ==
    \A t \in Socket :
        /\ pc[t] \in Deciding => cmd[t].actor \in {"moderator", "admin"}
        /\ pc[t] = "rank" /\ cmd[t].sock # None =>
              /\ pc[cmd[t].sock] \notin NotYetIn
              /\ Registered(cmd[t].sock) => sessions[cmd[t].sock].username = cmd[t].name
        /\ pc[t] \in {"ban", "kick"} /\ users[cmd[t].name] # None =>
              ROLE_RANK[users[cmd[t].name]] < ROLE_RANK[cmd[t].actor]

\* No account and no session is an administrator's.
LEMMA NobodyIsAdmin ==
    ASSUME Inv, RoleInv
    PROVE  /\ \A n \in Username : users[n] # "admin"
           /\ \A c \in Socket : Registered(c) => sessions[c] \in Session /\ sessions[c].role \in {"user", "moderator"}
<1>1. \A n \in Username : users[n] # "admin"
    BY DEF RoleInv, NoEscalation, NoAdministrator
<1>2. ASSUME NEW c \in Socket, Registered(c)
      PROVE  sessions[c] \in Session /\ sessions[c].role \in {"user", "moderator"}
    <2>1. sessions[c] \in Session
        BY <1>2 DEF RegistryInv, Registered
    <2>2. sessions[c].role = users[sessions[c].username] /\ sessions[c].username \in Username
          /\ sessions[c].role \in Role
        BY <1>2, <2>1 DEF RoleInv, NoEscalation, Online, Session
    <2> QED BY <1>1, <2>1, <2>2 DEF Role
<1> QED BY <1>1, <1>2

\* So the permission table gives nobody a SET, and the others only to moderators.
LEMMA WhoCommands ==
    ASSUME Inv, RoleInv, NEW c \in Socket, Registered(c),
           NEW op \in {"KICK", "BAN", "UNBAN", "SET"}, has_permission(sessions[c].role, op)
    PROVE  op # "SET" /\ sessions[c].role = "moderator"
BY NobodyIsAdmin DEF has_permission, ROLES_PERMISSIONS, Permission

\* A command line read now is no SET, and a client's is a moderator's.
LEMMA ReadCases ==
    ASSUME Inv, RoleInv, NEW t \in Thread, ReadCommand(t)
    PROVE  \E op \in {"KICK", "BAN", "UNBAN"}, new \in Command :
              /\ pc' = [pc EXCEPT ![t] = FirstStep(op, t = Console)]
              /\ cmd' = [cmd EXCEPT ![t] = new] /\ new.op = op
              /\ t # Console => new.actor = "moderator"
              /\ UNCHANGED <<registryVars, fileVars, loginVars, cleanVars>>
<1>1. PICK op \in (IF t = Console THEN ConsoleOps ELSE ClientOps \ {"MSG"}), n \in Username,
           r \in NewRoles \cup {None} :
             /\ t # Console => has_permission(sessions[t].role, op)
             /\ Goto(t, FirstStep(op, t = Console))
             /\ cmd' = [cmd EXCEPT ![t] =
                          [op |-> op, name |-> n, role |-> r, sock |-> None,
                           actor |-> IF t = Console THEN None ELSE sessions[t].role]]
    BY ZenonT(40) DEF ReadCommand
<1>2. (t # Console => Registered(t)) /\ UNCHANGED <<registryVars, fileVars, loginVars, cleanVars>>
    BY ZenonT(40) DEF ReadCommand
<1>3. op \in {"KICK", "BAN", "UNBAN", "SET"}
    BY ServerAssumption DEF ServerAssumption
<1>4. op # "SET" /\ (t # Console => sessions[t].role = "moderator")
    <2>1. CASE t = Console
        BY <2>1 DEF RoleInv, NoAdministrator
    <2>2. CASE t # Console
        BY <1>1, <1>2, <1>3, <2>2, WhoCommands
    <2> QED BY <2>1, <2>2
<1> DEFINE new == [op |-> op, name |-> n, role |-> r, sock |-> None,
                   actor |-> IF t = Console THEN None ELSE sessions[t].role]
<1>5. new \in Command /\ new.op = op /\ (t # Console => new.actor = "moderator")
    BY <1>3, <1>4 DEF Command, Role
<1> HIDE DEF new
<1>6. cmd' = [cmd EXCEPT ![t] = new] /\ pc' = [pc EXCEPT ![t] = FirstStep(op, t = Console)]
    BY <1>1 DEF new
<1>7. op \in {"KICK", "BAN", "UNBAN"}
    BY <1>3, <1>4
<1> QED BY <1>2, <1>5, <1>6, <1>7

\* Nobody comes to a step of SET.
LEMMA NoSetStep ==
    ASSUME Inv, RoleInv, Next
    PROVE  \A t \in Thread : pc'[t] \notin SetPC
<1>0. \A t \in Thread : pc[t] \notin SetPC
    BY DEF RoleInv
<1>1. ASSUME NEW t \in Thread, NEW p, p \notin SetPC, pc' = [pc EXCEPT ![t] = p] \/ UNCHANGED pc
      PROVE  \A u \in Thread : pc'[u] \notin SetPC
    BY <1>0, <1>1
<1>2. ASSUME NEW c \in Socket, Environment(c) \/ HandlerStep(c)
      PROVE  \A u \in Thread : pc'[u] \notin SetPC
    <2>1. \E p : p \notin SetPC /\ (pc' = [pc EXCEPT ![c] = p] \/ UNCHANGED pc)
        BY <1>2 DEF Environment, Accept, HandshakeFails, Admit, AuthEnds, Register, LoginLine,
           LoginRaises, Disconnect, ReadMessage, HandlerStep, VerifyPassword, LoginBanCheck,
           ReadRole, SecondBanCheck, RejectLogin, AddSession, Greet, Ungreet, BroadcastJoined,
           CleanUpSelf, Finally, SetPC
    <2> QED BY <1>1, <2>1
<1>3. ASSUME NEW t \in Thread, CleanUpStep(t)
      PROVE  \A u \in Thread : pc'[u] \notin SetPC
    BY <1>0, <1>3 DEF CleanUpStep, CleanUpRemove, CleanUpRelease, CleanUpAnnounce
<1>4. ASSUME NEW t \in Thread, CommandStep(t) \/ CommandRaises(t)
      PROVE  \A u \in Thread : pc'[u] \notin SetPC
    <2>1. ~At(t, "set") /\ ~At(t, "set_announce") /\ ~At(t, "set_session")
        BY <1>0 DEF SetPC
    <2>2. CASE RankCheck(t)
        <3>1. cmd[t].op \in {"KICK", "BAN", "UNBAN", "SET"} /\ cmd[t].op # "SET"
            BY <2>2 DEF RankCheck, CommandInv, CommandPC, SetPC, Command
        <3>2. FirstStep(cmd[t].op, TRUE) \notin SetPC /\ Home(t) \notin SetPC
            BY <3>1, FirstStepCases DEF SetPC, Home
        <3> QED BY <1>1, <2>2, <3>2 DEF RankCheck, EndCommand
    <2>3. CASE ~RankCheck(t)
        <3>1. \E p : p \notin SetPC /\ pc' = [pc EXCEPT ![t] = p]
            BY <1>4, <2>1, <2>3 DEF CommandStep, FindTarget, AddBan, Kick, RemoveBan, Announce,
               SetUserRole, SetAnnounce, SetSession, CommandRaises, EndCommand, Home, SetPC
        <3> QED BY <1>1, <3>1
    <2> QED BY <2>2, <2>3
<1>5. ASSUME NEW t \in Thread, ReadCommand(t)
      PROVE  \A u \in Thread : pc'[u] \notin SetPC
    <2>1. PICK op \in {"KICK", "BAN", "UNBAN"} : pc' = [pc EXCEPT ![t] = FirstStep(op, t = Console)]
        BY <1>5, ReadCases
    <2>2. FirstStep(op, t = Console) \notin SetPC
        BY FirstStepCases DEF SetPC
    <2> QED BY <1>1, <2>1, <2>2
<1> QED BY <1>2, <1>3, <1>4, <1>5 DEF Next

\* An account appears, a login becomes a session, or accounts stay as they are and
\* sessions can only end.
LEMMA AccountCases ==
    ASSUME Inv, RoleInv, Next
    PROVE  \/ \E c \in Socket : Register(c)
           \/ \E c \in Socket : AddSession(c)
           \/ UNCHANGED users /\ \A d \in Socket : sessions'[d] \in {sessions[d], None}
<1> DEFINE Quiet == UNCHANGED users /\ \A d \in Socket : sessions'[d] \in {sessions[d], None}
<1>1. ASSUME NEW c \in Socket, Environment(c), ~Register(c) PROVE Quiet
    BY <1>1 DEF Environment, Accept, HandshakeFails, Admit, AuthEnds, LoginLine, LoginRaises,
       Disconnect, ReadMessage, TryReserveIpSlot, ReserveUsername
<1>2. ASSUME NEW c \in Socket, HandlerStep(c), ~AddSession(c) PROVE Quiet
    BY <1>2 DEF HandlerStep, VerifyPassword, LoginBanCheck, ReadRole, SecondBanCheck, RejectLogin,
       Greet, Ungreet, BroadcastJoined, CleanUpSelf, Finally, ReleaseReservation, Remove, RegistryInv
<1>3. ASSUME NEW t \in Thread, CleanUpStep(t) PROVE Quiet
    BY <1>3 DEF CleanUpStep, CleanUpRemove, CleanUpRelease, CleanUpAnnounce, Remove, ReleaseIpSlot,
       RegistryInv
<1>4. ASSUME NEW t \in Thread, CommandStep(t) \/ ReadCommand(t) \/ CommandRaises(t) PROVE Quiet
    BY <1>4 DEF CommandStep, FindTarget, RankCheck, AddBan, Kick, RemoveBan, Announce, SetUserRole,
       SetAnnounce, SetSession, ReadCommand, CommandRaises, RoleInv, SetPC
<1> QED BY <1>1, <1>2, <1>3, <1>4 DEF Next

\* A name registered now was free, so nobody is online or past login() under it.
LEMMA RolesKept ==
    ASSUME Inv, RoleInv, Next
    PROVE  NoEscalation'
<1>1. /\ \A n \in Username : users[n] \in {InitialRole[n], "user"}
      /\ \A c \in Socket : Registered(c) => sessions[c].role = users[sessions[c].username]
    BY DEF RoleInv, NoEscalation, Online
<1>2. \A c \in Socket : Registered(c) => /\ sessions[c].username \in Username
                                         /\ sessions[c].role \in Role
    BY DEF RegistryInv, Registered, Session
<1>3. ASSUME NEW c \in Socket, Register(c) PROVE NoEscalation'
    <2>1. PICK n \in Username : users[n] = None /\ users' = [users EXCEPT ![n] = "user"]
        BY <1>3 DEF Register
    <2>2. UNCHANGED sessions
        BY <1>3 DEF Register
    <2>3. ASSUME NEW d \in Socket, Registered(d) PROVE sessions[d].username # n
        BY <1>1, <1>2, <2>1, <2>3, ServerAssumption DEF ServerAssumption
    <2> QED BY <1>1, <1>2, <2>1, <2>2, <2>3 DEF NoEscalation, Online, Registered
<1>4. ASSUME NEW c \in Socket, AddSession(c) PROVE NoEscalation'
    <2> DEFINE new == [username |-> reserved[c], role |-> login_role[c]]
    <2>1. sessions' = [sessions EXCEPT ![c] = new] /\ UNCHANGED users
        BY <1>4 DEF AddSession, Add
    <2>2. new.role = users[new.username]
        BY <1>4 DEF AddSession, RoleInv
    <2> HIDE DEF new
    <2> QED BY <1>1, <2>1, <2>2 DEF NoEscalation, Online, Registered
<1>5. ASSUME UNCHANGED users, \A d \in Socket : sessions'[d] \in {sessions[d], None}
      PROVE  NoEscalation'
    BY <1>1, <1>5 DEF NoEscalation, Online, Registered
<1> QED BY <1>3, <1>4, <1>5, AccountCases

LEMMA LoginRoleKept ==
    ASSUME Inv, RoleInv, Next, NEW c \in Socket, pc'[c] \in {"bancheck", "add"}
    PROVE  login_role'[c] = users'[reserved'[c]]
<1>1. pc[c] \in {"bancheck", "add"} => /\ login_role[c] = users[reserved[c]] /\ login_role[c] \in Role
                                       /\ reserved[c] \in Username
    BY DEF RoleInv, LoginInv, LoginPC
<1>2. ASSUME pc[c] \in {"bancheck", "add"}, UNCHANGED <<login_role, reserved, users>>
      PROVE  login_role'[c] = users'[reserved'[c]]
    BY <1>1, <1>2
<1>3. ASSUME NEW d \in Socket, Register(d) PROVE login_role'[c] = users'[reserved'[c]]
    BY <1>1, <1>3, ServerAssumption DEF Register, ServerAssumption
<1>4. ASSUME NEW d \in Socket, Environment(d), ~Register(d)
      PROVE  login_role'[c] = users'[reserved'[c]]
    <2>1. pc[c] \in {"bancheck", "add"} /\ login_role'[c] = login_role[c] /\ reserved'[c] = reserved[c]
        BY <1>4 DEF Environment, Accept, HandshakeFails, Admit, AuthEnds, LoginLine, LoginRaises,
           Disconnect, ReadMessage
    <2>2. UNCHANGED users
        BY <1>4 DEF Environment, Accept, HandshakeFails, Admit, AuthEnds, LoginLine, LoginRaises,
           Disconnect, ReadMessage
    <2> QED BY <1>1, <2>1, <2>2
<1>5. ASSUME NEW d \in Socket, HandlerStep(d) PROVE login_role'[c] = users'[reserved'[c]]
    <2>1. UNCHANGED users
        BY <1>5 DEF HandlerStep, VerifyPassword, LoginBanCheck, ReadRole, SecondBanCheck, RejectLogin,
           AddSession, Greet, Ungreet, BroadcastJoined, CleanUpSelf, Finally
    <2>2. CASE ReadRole(d) /\ c = d
        BY <2>2 DEF ReadRole
    <2>3. CASE ~(ReadRole(d) /\ c = d)
        <3>1. pc[c] \in {"bancheck", "add"} /\ login_role'[c] = login_role[c] /\ reserved'[c] = reserved[c]
            BY <1>5, <2>3 DEF HandlerStep, VerifyPassword, LoginBanCheck, ReadRole, SecondBanCheck,
               RejectLogin, AddSession, Greet, Ungreet, BroadcastJoined, CleanUpSelf, Finally
        <3> QED BY <1>1, <2>1, <3>1
    <2> QED BY <2>2, <2>3
<1>6. ASSUME NEW t \in Thread, CleanUpStep(t) PROVE login_role'[c] = users'[reserved'[c]]
    BY <1>2, <1>6 DEF CleanUpStep, CleanUpRemove, CleanUpRelease, CleanUpAnnounce
<1>7. ASSUME NEW t \in Thread, CommandStep(t) \/ ReadCommand(t) \/ CommandRaises(t)
      PROVE  login_role'[c] = users'[reserved'[c]]
    <2>1. UNCHANGED <<login_role, reserved, users>>
        BY <1>7 DEF CommandStep, FindTarget, RankCheck, AddBan, Kick, RemoveBan, Announce, SetUserRole,
           SetAnnounce, SetSession, ReadCommand, CommandRaises, RoleInv, SetPC
    <2>2. \E p : p \notin {"bancheck", "add"} /\ pc' = [pc EXCEPT ![t] = p]
        BY <1>7, ServerAssumption
           DEF CommandStep, FindTarget, RankCheck, AddBan, Kick, RemoveBan, Announce, FirstStep,
               SetUserRole, SetAnnounce, SetSession, ReadCommand, CommandRaises, EndCommand, Home,
               CommandInv, CommandPC, SetPC, Command, ServerAssumption
    <2>3. pc[c] \in {"bancheck", "add"}
        BY <2>2
    <2> QED BY <1>2, <2>1, <2>3
<1> QED BY <1>3, <1>4, <1>5, <1>6, <1>7 DEF Next

LEMMA RoleInvStep == Inv /\ RoleInv /\ [Next]_vars => RoleInv'
<1> SUFFICES ASSUME Inv, RoleInv, [Next]_vars PROVE RoleInv'
    OBVIOUS
<1>1. CASE Next
    <2>1. NoAdministrator
        BY DEF RoleInv
    <2> QED BY <1>1, <2>1, NoSetStep, RolesKept, LoginRoleKept DEF RoleInv
<1>2. CASE UNCHANGED vars
    BY <1>2 DEF vars, serverVars, RoleInv, NoEscalation, Online, Registered
<1> QED BY <1>1, <1>2

LEMMA RoleInvStart == NoAdministrator /\ Init => RoleInv
BY ServerAssumption DEF Init, RegistryInit, RoleInv, NoEscalation, Online, Registered, SetPC, ServerAssumption

\* On a server with no administrator, at the console or among the accounts, no
\* interleaving of logins, registrations, kicks and bans raises anybody's role.
THEOREM RolesNeverRise == NoAdministrator /\ Spec => []NoEscalation
<1>1. RoleInv => NoEscalation
    BY DEF RoleInv
<1> QED BY <1>1, RoleInvStart, RoleInvStep, ServerInvariant, PTL DEF Spec

\* A thread that has come past registry.add() does not log in again.
LEMMA NoReturn ==
    ASSUME Inv, Next, NEW d \in Socket, pc[d] \notin NotYetIn
    PROVE  pc'[d] \notin NotYetIn
<1>1. ASSUME NEW t \in Thread, NEW p, p \notin NotYetIn \/ t # d, pc' = [pc EXCEPT ![t] = p] \/ UNCHANGED pc
      PROVE  pc'[d] \notin NotYetIn
    BY <1>1
<1>2. ASSUME NEW c \in Socket, Environment(c) \/ HandlerStep(c) PROVE pc'[d] \notin NotYetIn
    <2>1. \E p : (p \notin NotYetIn \/ c # d) /\ (pc' = [pc EXCEPT ![c] = p] \/ UNCHANGED pc)
        BY <1>2 DEF Environment, Accept, HandshakeFails, Admit, AuthEnds, Register, LoginLine,
           LoginRaises, Disconnect, ReadMessage, HandlerStep, VerifyPassword, LoginBanCheck,
           ReadRole, SecondBanCheck, RejectLogin, AddSession, Greet, Ungreet, BroadcastJoined,
           CleanUpSelf, Finally, NotYetIn, LoginPC
    <2> QED BY <1>1, <2>1
<1>3. ASSUME NEW t \in Thread, CleanUpStep(t) PROVE pc'[d] \notin NotYetIn
    BY <1>3 DEF CleanUpStep, CleanUpRemove, CleanUpRelease, CleanUpAnnounce
<1>4. ASSUME NEW t \in Thread, CommandStep(t) \/ ReadCommand(t) \/ CommandRaises(t)
      PROVE  pc'[d] \notin NotYetIn
    <2>1. \E p : p \notin NotYetIn /\ pc' = [pc EXCEPT ![t] = p]
        BY <1>4, ServerAssumption
           DEF CommandStep, FindTarget, RankCheck, AddBan, Kick, RemoveBan, Announce, FirstStep,
               SetUserRole, SetAnnounce, SetSession, ReadCommand, CommandRaises, EndCommand, Home,
               CommandInv, CommandPC, SetPC, Command, ServerAssumption, NotYetIn, LoginPC
    <2> QED BY <1>1, <2>1
<1> QED BY <1>2, <1>3, <1>4 DEF Next

\* How a thread comes to, or goes on with, the part of a command that decides.
LEMMA DecidingCases ==
    ASSUME Inv, Next, NEW t \in Socket, pc'[t] \in Deciding
    PROVE  \/ ReadCommand(t)
           \/ FindTarget(t)
           \/ RankCheck(t) /\ ~EndCommand(t)
           \/ AddBan(t)
           \/ pc'[t] = pc[t] /\ cmd'[t] = cmd[t]
<1>1. ASSUME NEW c \in Socket, Environment(c) \/ HandlerStep(c) PROVE pc'[t] = pc[t] /\ cmd'[t] = cmd[t]
    BY <1>1 DEF Environment, Accept, HandshakeFails, Admit, AuthEnds, Register, LoginLine,
       LoginRaises, Disconnect, ReadMessage, HandlerStep, VerifyPassword, LoginBanCheck,
       ReadRole, SecondBanCheck, RejectLogin, AddSession, Greet, Ungreet, BroadcastJoined,
       CleanUpSelf, Finally, Deciding
<1>2. ASSUME NEW u \in Thread, CleanUpStep(u) PROVE pc'[t] = pc[t] /\ cmd'[t] = cmd[t]
    BY <1>2 DEF CleanUpStep, CleanUpRemove, CleanUpRelease, CleanUpAnnounce
<1>3. ASSUME NEW u \in Thread, u # t, CommandStep(u) \/ ReadCommand(u) \/ CommandRaises(u)
      PROVE  pc'[t] = pc[t] /\ cmd'[t] = cmd[t]
    BY <1>3 DEF CommandStep, FindTarget, RankCheck, AddBan, Kick, RemoveBan, Announce,
       SetUserRole, SetAnnounce, SetSession, ReadCommand, CommandRaises, EndCommand
<1>4. ASSUME CommandStep(t) \/ CommandRaises(t)
      PROVE  FindTarget(t) \/ (RankCheck(t) /\ ~EndCommand(t)) \/ AddBan(t)
    <2>1. ~EndCommand(t)
        BY DEF EndCommand, Home, Deciding
    <2> QED BY <1>4, <2>1, ServerAssumption
               DEF CommandStep, Kick, RemoveBan, Announce, SetUserRole, SetAnnounce, SetSession,
                   CommandRaises, Deciding, ServerAssumption
<1> QED BY <1>1, <1>2, <1>3, <1>4 DEF Next

\* The three parts of RankInv for one thread.
ActorHolds(t) == pc[t] \in Deciding => cmd[t].actor \in {"moderator", "admin"}

TargetHolds(t) ==
    pc[t] = "rank" /\ cmd[t].sock # None =>
        /\ pc[cmd[t].sock] \notin NotYetIn
        /\ Registered(cmd[t].sock) => sessions[cmd[t].sock].username = cmd[t].name

LowerRank(t) ==
    pc[t] \in {"ban", "kick"} /\ users[cmd[t].name] # None =>
        ROLE_RANK[users[cmd[t].name]] < ROLE_RANK[cmd[t].actor]

LEMMA RankParts ==
    /\ RankInv => \A t \in Socket : ActorHolds(t) /\ TargetHolds(t) /\ LowerRank(t)
    /\ (\A t \in Socket : ActorHolds(t)' /\ TargetHolds(t)' /\ LowerRank(t)') => RankInv'
BY DEF RankInv, ActorHolds, TargetHolds, LowerRank

\* A command under way in thread t is a well-formed one.
LEMMA CommandFacts ==
    ASSUME Inv, NEW t \in Socket, pc[t] \in Deciding
    PROVE  /\ cmd[t] \in Command /\ cmd[t].name \in Username /\ cmd[t].sock \in Socket \cup {None}
           /\ cmd[t].op \in {"KICK", "BAN", "UNBAN"}
BY DEF CommandInv, CommandPC, SetPC, Command, Deciding

LEMMA ActorKept ==
    ASSUME Inv, RoleInv, RankInv, Next, NEW t \in Socket
    PROVE  ActorHolds(t)'
<1> SUFFICES ASSUME pc'[t] \in Deciding PROVE cmd'[t].actor \in {"moderator", "admin"}
    BY DEF ActorHolds
<1>0. pc[t] \in Deciding => cmd[t].actor \in {"moderator", "admin"}
    BY RankParts DEF ActorHolds
<1>1. CASE ReadCommand(t)
    <2>1. PICK new \in Command : cmd' = [cmd EXCEPT ![t] = new] /\ (t # Console => new.actor = "moderator")
        BY <1>1, ReadCases
    <2> QED BY <2>1, ServerAssumption DEF ServerAssumption
<1>2. CASE FindTarget(t)
    <2>1. pc[t] = "target" /\ cmd[t] \in Command
        BY <1>2, CommandFacts DEF FindTarget, Deciding
    <2> QED BY <1>0, <1>2, <2>1 DEF FindTarget, Deciding, Command
<1>3. CASE RankCheck(t) /\ ~EndCommand(t)
    BY <1>0, <1>3 DEF RankCheck, Deciding
<1>4. CASE AddBan(t)
    BY <1>0, <1>4 DEF AddBan, Deciding
<1>5. CASE pc'[t] = pc[t] /\ cmd'[t] = cmd[t]
    BY <1>0, <1>5
<1> QED BY <1>1, <1>2, <1>3, <1>4, <1>5, DecidingCases

LEMMA TargetKept ==
    ASSUME Inv, RoleInv, RankInv, Next, NEW t \in Socket
    PROVE  TargetHolds(t)'
<1> SUFFICES ASSUME pc'[t] = "rank", cmd'[t].sock # None
             PROVE  /\ pc'[cmd'[t].sock] \notin NotYetIn
                    /\ sessions'[cmd'[t].sock] # None =>
                          sessions'[cmd'[t].sock].username = cmd'[t].name
    BY DEF TargetHolds, Registered
<1>1. CASE FindTarget(t)
    <2>1. cmd[t] \in Command /\ cmd[t].name \in Username
        BY <1>1, CommandFacts DEF FindTarget, Deciding
    <2>2. /\ cmd'[t].sock = by_name[cmd[t].name] /\ cmd'[t].name = cmd[t].name
          /\ UNCHANGED <<sessions, by_name>> /\ pc' = [pc EXCEPT ![t] = "rank"]
        BY <1>1, <2>1 DEF FindTarget, Command
    <2> DEFINE d == by_name[cmd[t].name]
    <2>3. d \in Socket /\ Registered(d) /\ sessions[d].username = cmd[t].name
        BY <2>1, <2>2 DEF RegistryInv, NameIndexSound
    <2>4. pc[d] \notin NotYetIn
        BY <2>3 DEF EntryInv
    <2>5. pc'[d] \notin NotYetIn
        BY <2>2, <2>4 DEF NotYetIn, LoginPC
    <2> QED BY <2>2, <2>3, <2>5
<1>2. CASE pc'[t] = pc[t] /\ cmd'[t] = cmd[t]
    <2> DEFINE d == cmd[t].sock
    <2>1. d \in Socket /\ d # None
        BY <1>2, CommandFacts DEF Deciding
    <2>2. pc[d] \notin NotYetIn /\ (Registered(d) => sessions[d].username = cmd[t].name)
        BY <1>2, <2>1, RankParts DEF TargetHolds
    <2>3. pc'[d] \notin NotYetIn
        BY <2>1, <2>2, NoReturn
    <2>4. sessions'[d] \in {sessions[d], None}
        <3>1. CASE \E c \in Socket : Register(c)
            BY <3>1 DEF Register
        <3>2. CASE \E c \in Socket : AddSession(c)
            BY <2>1, <2>2, <3>2 DEF AddSession, Add, NotYetIn, LoginPC, RegistryInv
        <3> QED BY <2>1, <3>1, <3>2, AccountCases
    <2> QED BY <1>2, <2>2, <2>3, <2>4 DEF Registered
<1>3. CASE ReadCommand(t)
    <2>1. PICK op \in {"KICK", "BAN", "UNBAN"} : pc' = [pc EXCEPT ![t] = FirstStep(op, t = Console)]
        BY <1>3, ReadCases
    <2>2. FirstStep(op, t = Console) # "rank"
        BY FirstStepCases
    <2> QED BY <2>1, <2>2
<1>4. CASE RankCheck(t) /\ ~EndCommand(t)
    <2>1. cmd[t].op \in {"KICK", "BAN", "UNBAN"} /\ pc' = [pc EXCEPT ![t] = FirstStep(cmd[t].op, TRUE)]
        BY <1>4, CommandFacts DEF RankCheck, Deciding
    <2>2. FirstStep(cmd[t].op, TRUE) # "rank"
        BY <2>1, FirstStepCases
    <2> QED BY <2>1, <2>2
<1>5. CASE AddBan(t)
    BY <1>5 DEF AddBan
<1> QED BY <1>1, <1>2, <1>3, <1>4, <1>5, DecidingCases DEF Deciding

LEMMA RankKept ==
    ASSUME Inv, RoleInv, RankInv, Next, NEW t \in Socket
    PROVE  LowerRank(t)'
<1> SUFFICES ASSUME pc'[t] \in {"ban", "kick"}, users'[cmd'[t].name] # None
             PROVE  ROLE_RANK[users'[cmd'[t].name]] < ROLE_RANK[cmd'[t].actor]
    BY DEF LowerRank
<1>1. CASE RankCheck(t) /\ ~EndCommand(t)
    <2>1. /\ UNCHANGED <<users, cmd>> /\ pc[t] = "rank"
          /\ TargetRole(t) # None => can_act_on(cmd[t].actor, TargetRole(t))
        BY <1>1 DEF RankCheck
    <2>2. cmd[t].name \in Username /\ cmd[t].sock \in Socket \cup {None}
        BY <2>1, CommandFacts DEF Deciding
    <2>3. TargetRole(t) = users[cmd[t].name]
        <3>1. CASE TargetOnline(t)
            <4>1. cmd[t].sock \in Socket /\ Registered(cmd[t].sock)
                BY <2>2, <3>1 DEF TargetOnline
            <4>2. sessions[cmd[t].sock].username = cmd[t].name
                BY <2>1, <3>1, RankParts DEF TargetHolds, TargetOnline
            <4>3. sessions[cmd[t].sock].role = users[sessions[cmd[t].sock].username]
                BY <4>1 DEF RoleInv, NoEscalation, Online
            <4> QED BY <3>1, <4>2, <4>3 DEF TargetRole
        <3>2. CASE ~TargetOnline(t)
            BY <3>2 DEF TargetRole
        <3> QED BY <3>1, <3>2
    <2> QED BY <2>1, <2>3 DEF can_act_on
<1>2. CASE AddBan(t) \/ (pc'[t] = pc[t] /\ cmd'[t] = cmd[t])
    <2>1. pc[t] \in {"ban", "kick"} /\ cmd'[t] = cmd[t]
        BY <1>2 DEF AddBan
    <2>2. cmd[t].name \in Username /\ cmd[t].actor \in {"moderator", "admin"}
        BY <2>1, CommandFacts, RankParts DEF ActorHolds, Deciding
    <2>3. CASE users'[cmd[t].name] = users[cmd[t].name]
        BY <2>1, <2>3, RankParts DEF LowerRank
    <2>4. CASE users'[cmd[t].name] = "user"
        BY <2>1, <2>2, <2>4 DEF ROLE_RANK
    <2>5. users'[cmd[t].name] \in {users[cmd[t].name], "user"}
        <3>1. CASE \E c \in Socket : Register(c)
            BY <2>2, <3>1 DEF Register
        <3>2. CASE \E c \in Socket : AddSession(c)
            BY <3>2 DEF AddSession
        <3> QED BY <3>1, <3>2, AccountCases
    <2> QED BY <2>3, <2>4, <2>5
<1>3. CASE ReadCommand(t)
    <2>1. PICK op \in {"KICK", "BAN", "UNBAN"} : pc' = [pc EXCEPT ![t] = FirstStep(op, t = Console)]
        BY <1>3, ReadCases
    <2>2. FirstStep(op, t = Console) = "target"
        BY ServerAssumption DEF FirstStep, ServerAssumption
    <2> QED BY <2>1, <2>2
<1>4. CASE FindTarget(t)
    BY <1>4 DEF FindTarget
<1> QED BY <1>1, <1>2, <1>3, <1>4, DecidingCases DEF Deciding

LEMMA RankInvStep == Inv /\ RoleInv /\ RankInv /\ [Next]_vars => RankInv'
<1> SUFFICES ASSUME Inv, RoleInv, RankInv, [Next]_vars PROVE RankInv'
    OBVIOUS
<1>1. CASE Next
    BY <1>1, ActorKept, TargetKept, RankKept, RankParts
<1>2. CASE UNCHANGED vars
    BY <1>2 DEF vars, serverVars, RankInv, Registered
<1> QED BY <1>1, <1>2

\* A thread at "kick" names only the socket that kick_user() and ban_user() look up.
LEMMA WhoIsKicked ==
    ASSUME Inv, RoleInv, RankInv, Next, NEW t \in Socket, At(t, "kick"), NEW c \in failed'[t]
    PROVE  ROLE_RANK[sessions[c].role] < ROLE_RANK[cmd[t].actor]
<1>1. cmd[t].name \in Username
    BY CommandFacts DEF Deciding
<1>2. Kick(t)
    <2>1. failed'[t] # failed[t] /\ cleanup[t] = None /\ failed[t] = {} /\ pc[t] = "kick"
        OBVIOUS
    <2>2. ASSUME NEW d \in Socket, Environment(d) \/ HandlerStep(d) PROVE FALSE
        BY <2>1, <2>2 DEF Environment, Accept, HandshakeFails, Admit, AuthEnds, Register, LoginLine,
           LoginRaises, Disconnect, ReadMessage, HandlerStep, VerifyPassword, LoginBanCheck,
           ReadRole, SecondBanCheck, RejectLogin, AddSession, Greet, Ungreet, BroadcastJoined,
           CleanUpSelf, Finally, Broadcast
    <2>3. ASSUME NEW u \in Thread, CleanUpStep(u) PROVE FALSE
        BY <2>1, <2>3 DEF CleanUpStep, CleanUpRemove, CleanUpRelease, CleanUpAnnounce
    <2>4. ASSUME NEW u \in Thread, CommandStep(u) \/ ReadCommand(u) \/ CommandRaises(u) PROVE Kick(t)
        BY <2>1, <2>4 DEF CommandStep, FindTarget, RankCheck, AddBan, Kick, RemoveBan, Announce,
           SetUserRole, SetAnnounce, SetSession, ReadCommand, CommandRaises, Broadcast
    <2> QED BY <2>2, <2>3, <2>4 DEF Next
<1>3. c = by_name[cmd[t].name] /\ c # None
    BY <1>2 DEF Kick
<1>4. c \in Socket /\ Registered(c) /\ sessions[c].username = cmd[t].name
    BY <1>1, <1>3 DEF RegistryInv, NameIndexSound
<1>5. sessions[c].role = users[cmd[t].name] /\ sessions[c].role \in Role
    BY <1>4 DEF RoleInv, NoEscalation, Online, RegistryInv, Registered, Session
<1>6. users[cmd[t].name] # None
    BY <1>5, ServerAssumption DEF ServerAssumption
<1> QED BY <1>5, <1>6, RankParts DEF LowerRank

\* A kick or a ban by a client removes only somebody of lower rank, although the rank
\* check and the removal look the target up separately.  (With an administrator a SET
\* can come between the two.)
THEOREM RanksRespected == NoAdministrator /\ Spec => RankHolds
<1>1. Init => RankInv
    BY ServerAssumption DEF Init, RankInv, Deciding, ServerAssumption
<1>2. Inv /\ RoleInv /\ RankInv /\ [Next]_vars =>
        [\A t \in Socket : At(t, "kick") /\ failed'[t] # {} =>
             \A c \in failed'[t] : ROLE_RANK[sessions[c].role] < ROLE_RANK[cmd[t].actor]]_vars
    BY WhoIsKicked
<1> QED BY <1>1, <1>2, RoleInvStart, RoleInvStep, RankInvStep, ServerInvariant, PTL DEF Spec, RankHolds
-----------------------------------------------------------------------------
(* One session per name.  In general it does not hold: reserved_username   *)
(* outlives the reservation, and the finally clause of a connection that   *)
(* was removed before its OK line releases the name of whoever holds it    *)
(* then.  This is the only way to a second session.                        *)

\* Nobody takes a client out between registry.add() and its OK line, and its queue
\* takes that line.
GreetsUndisturbed ==
    \A c \in Socket : pc[c] = "greet" => sessions'[c] # None /\ pc'[c] # "ungreet"

\* Nobody has a name twice, whether as a session or in a login under way.
UniqueInv == UniqueSession /\ LoginsHoldNames

\* A connection that holds a name in reserved_username, and not its session.
Claims(c) == pc[c] \in LoginPC \cup {"closing", "finally"} /\ reserved[c] # None

\* If greetings are not disturbed, reserved_username of a connection without a session
\* is a reservation of its own.
ClaimInv ==
    /\ \A c \in Socket : Claims(c) => reserved[c] \in pending_logins
    /\ \A c, d \in Socket : Claims(c) /\ Claims(d) /\ reserved[c] = reserved[d] => c = d
    /\ \A c \in Socket : pc[c] # "ungreet" /\ (pc[c] = "greet" => Registered(c))
    /\ \A c \in Socket : pc[c] \notin LoginPC \cup {"greet", "closing", "finally"} => reserved[c] = None

\* The steps that change who has which name, or that begin or end a login; all others
\* leave names, reservations and the logins under way as they are.
NamesSteady ==
    /\ UNCHANGED <<by_name, pending_logins>>
    /\ \A d \in Socket : /\ Registered(d)' <=> Registered(d)
                         /\ sessions'[d].username = sessions[d].username

LEMMA NameCases ==
    ASSUME Inv, Next
    PROVE  \/ \E c \in Socket : LoginLine(c) \/ RejectLogin(c) \/ AddSession(c) \/ Finally(c)
           \/ \E c \in Socket : Remove(c)
           \/ NamesSteady
<1>1. ASSUME NEW c \in Socket, Environment(c) PROVE LoginLine(c) \/ NamesSteady
    BY <1>1 DEF Environment, Accept, HandshakeFails, Admit, AuthEnds, Register, LoginRaises,
       Disconnect, ReadMessage, TryReserveIpSlot, NamesSteady, Registered
<1>2. ASSUME NEW c \in Socket, HandlerStep(c)
      PROVE  RejectLogin(c) \/ AddSession(c) \/ Finally(c) \/ Remove(c) \/ NamesSteady
    BY <1>2 DEF HandlerStep, VerifyPassword, LoginBanCheck, ReadRole, SecondBanCheck, Greet,
       Ungreet, BroadcastJoined, CleanUpSelf, NamesSteady, Registered
<1>3. ASSUME NEW t \in Thread, CleanUpStep(t) PROVE NamesSteady \/ \E c \in Socket : Remove(c)
    BY <1>3 DEF CleanUpStep, CleanUpRemove, CleanUpRelease, CleanUpAnnounce, ReleaseIpSlot,
       NamesSteady, Registered
<1>4. ASSUME NEW t \in Thread, SetSession(t) PROVE NamesSteady
    <2>1. cmd[t].name \in Username /\ cmd[t].role \in Role
        BY <1>4, ServerAssumption DEF SetSession, CommandInv, CommandPC, SetPC, Command,
           ServerAssumption
    <2>2. SetRole(cmd[t].name, cmd[t].role)
        BY <1>4 DEF SetSession
    <2> QED BY <2>1, <2>2, SetRoleNames DEF SetRole, NamesSteady
<1>5. ASSUME NEW t \in Thread, CommandStep(t) \/ ReadCommand(t) \/ CommandRaises(t), ~SetSession(t)
      PROVE  NamesSteady
    BY <1>5 DEF CommandStep, FindTarget, RankCheck, AddBan, Kick, RemoveBan, Announce,
       SetUserRole, SetAnnounce, ReadCommand, CommandRaises, NamesSteady, Registered
<1> QED BY <1>1, <1>2, <1>3, <1>4, <1>5 DEF Next

\* How a connection comes into a login, or stays in one.
LEMMA LoginCases ==
    ASSUME Inv, Next, NEW c \in Socket, pc'[c] \in LoginPC
    PROVE  \/ LoginLine(c)
           \/ pc[c] \in LoginPC /\ reserved'[c] = reserved[c]
<1>1. ASSUME NEW d \in Socket, Environment(d)
      PROVE  LoginLine(c) \/ (pc[c] \in LoginPC /\ reserved'[c] = reserved[c])
    <2>1. CASE LoginLine(d)
        <3>1. CASE d # c
            BY <2>1, <3>1 DEF LoginLine
        <3> QED BY <2>1, <3>1
    <2>2. CASE ~LoginLine(d)
        BY <1>1, <2>2 DEF Environment, Accept, HandshakeFails, Admit, AuthEnds, Register,
           LoginRaises, Disconnect, ReadMessage, LoginPC
    <2> QED BY <2>1, <2>2
<1>4. ASSUME NEW d \in Socket, HandlerStep(d)
      PROVE  pc[c] \in LoginPC /\ reserved'[c] = reserved[c]
    BY <1>4 DEF HandlerStep, VerifyPassword, LoginBanCheck, ReadRole, SecondBanCheck, RejectLogin,
       AddSession, Greet, Ungreet, BroadcastJoined, CleanUpSelf, Finally, LoginPC
<1>2. ASSUME NEW t \in Thread, CleanUpStep(t) PROVE pc[c] \in LoginPC /\ reserved'[c] = reserved[c]
    BY <1>2 DEF CleanUpStep, CleanUpRemove, CleanUpRelease, CleanUpAnnounce
<1>3. ASSUME NEW t \in Thread, CommandStep(t) \/ ReadCommand(t) \/ CommandRaises(t)
      PROVE  pc[c] \in LoginPC /\ reserved'[c] = reserved[c]
    <2>1. UNCHANGED reserved
        BY <1>3 DEF CommandStep, FindTarget, RankCheck, AddBan, Kick, RemoveBan, Announce,
           SetUserRole, SetAnnounce, SetSession, ReadCommand, CommandRaises
    <2>2. \E p : p \notin LoginPC /\ pc' = [pc EXCEPT ![t] = p]
        BY <1>3, ServerAssumption
           DEF CommandStep, FindTarget, RankCheck, AddBan, Kick, RemoveBan, Announce, FirstStep,
               SetUserRole, SetAnnounce, SetSession, ReadCommand, CommandRaises, EndCommand, Home,
               CommandInv, CommandPC, SetPC, Command, ServerAssumption, LoginPC
    <2> QED BY <2>1, <2>2
<1> QED BY <1>1, <1>2, <1>3, <1>4 DEF Next

LEMMA UniqueSteady ==
    ASSUME Inv, UniqueInv, Next, NamesSteady, ~\E c \in Socket : LoginLine(c)
    PROVE  UniqueInv'
<1>1. UniqueSession'
    <2> SUFFICES ASSUME NEW c \in Socket, Registered(c)' PROVE by_name'[sessions'[c].username] = c
        BY DEF UniqueSession, Online
    <2> QED BY DEF UniqueInv, LoginsHoldNames, UniqueSession, Online, NamesSteady
<1>2. \A c \in Socket : pc'[c] \in LoginPC => pc[c] \in LoginPC /\ reserved'[c] = reserved[c]
    BY LoginCases
<1> QED BY <1>1, <1>2 DEF UniqueInv, LoginsHoldNames, NamesSteady

\* A login begins with a name that nobody has: every other login has its reservation.
LEMMA UniqueLoginLine ==
    ASSUME Inv, UniqueInv, Next, NEW c \in Socket, LoginLine(c)
    PROVE  UniqueInv'
<1>1. PICK n \in Username, granted \in BOOLEAN :
         /\ ReserveUsername(n, granted)
         /\ reserved' = [reserved EXCEPT ![c] = IF granted THEN n ELSE None]
         /\ Goto(c, IF granted THEN "verify" ELSE "auth")
    BY DEF LoginLine
<1>2. UNCHANGED <<by_name, sessions>> /\ pc[c] = "auth"
    BY <1>1 DEF ReserveUsername, LoginLine
<1>3. UniqueSession'
    BY <1>2 DEF UniqueInv, LoginsHoldNames, UniqueSession, Online, Registered
<1>4. CASE granted = FALSE
    BY <1>1, <1>2, <1>3, <1>4 DEF UniqueInv, LoginsHoldNames, ReserveUsername, LoginPC
<1>5. CASE granted = TRUE
    <2>1. /\ n \notin pending_logins /\ pending_logins' = pending_logins \cup {n}
          /\ reserved' = [reserved EXCEPT ![c] = n] /\ pc' = [pc EXCEPT ![c] = "verify"]
        BY <1>1, <1>5 DEF ReserveUsername
    <2>2. ASSUME NEW d \in Socket, d # c, pc[d] \in LoginPC
          PROVE  reserved[d] \in pending_logins /\ reserved[d] # n
        <3>1. reserved[d] \in pending_logins
            BY <1>2, <2>2 DEF UniqueInv, LoginsHoldNames
        <3> QED BY <2>1, <3>1
    <2>3. \A d \in Socket : pc'[d] \in LoginPC => reserved'[d] \in pending_logins'
        BY <2>1, <2>2
    <2>4. \A d, e \in Socket :
             pc'[d] \in LoginPC /\ pc'[e] \in LoginPC /\ reserved'[d] = reserved'[e] => d = e
        <3> SUFFICES ASSUME NEW d \in Socket, NEW e \in Socket, d # e,
                            pc'[d] \in LoginPC, pc'[e] \in LoginPC
                     PROVE  reserved'[d] # reserved'[e]
            OBVIOUS
        <3>1. CASE d = c
            BY <2>1, <2>2, <3>1
        <3>2. CASE e = c
            BY <2>1, <2>2, <3>2
        <3>3. CASE d # c /\ e # c
            BY <2>1, <3>3 DEF UniqueInv, LoginsHoldNames
        <3> QED BY <3>1, <3>2, <3>3
    <2> QED BY <1>3, <2>3, <2>4 DEF UniqueInv, LoginsHoldNames
<1> QED BY <1>1, <1>4, <1>5

\* A session is removed, by whomever; its name goes from the index only if the index
\* had this very session.
LEMMA UniqueRemove ==
    ASSUME Inv, UniqueInv, Next, NEW c \in Socket, Remove(c), ~\E d \in Socket : LoginLine(d)
    PROVE  UniqueInv'
<1>1. UniqueSession'
    <2> SUFFICES ASSUME NEW d \in Socket, Registered(d)' PROVE by_name'[sessions'[d].username] = d
        BY DEF UniqueSession, Online
    <2>1. d # c /\ sessions'[d] = sessions[d] /\ Registered(d)
        BY DEF Remove, Registered
    <2>2. by_name[sessions[d].username] = d /\ sessions[d].username \in Username
        BY <2>1 DEF UniqueInv, LoginsHoldNames, UniqueSession, Online, RegistryInv, Registered, Session
    <2> QED BY <2>1, <2>2 DEF Remove
<1>2. \A d \in Socket : pc'[d] \in LoginPC => pc[d] \in LoginPC /\ reserved'[d] = reserved[d]
    BY LoginCases
<1> QED BY <1>1, <1>2 DEF UniqueInv, LoginsHoldNames, Remove

\* registry.add() of a login that still has its reservation.
LEMMA UniqueAdd ==
    ASSUME Inv, UniqueInv, NEW c \in Socket, AddSession(c)
    PROVE  UniqueInv'
<1> DEFINE n == reserved[c]
           new == [username |-> n, role |-> login_role[c]]
<1>1. /\ pc[c] = "add" /\ n \in Username /\ ~Registered(c)
    BY DEF AddSession, LoginInv, LoginPC, EntryInv, NotYetIn
<1>2. /\ sessions' = [sessions EXCEPT ![c] = new] /\ by_name' = [by_name EXCEPT ![n] = c]
      /\ pending_logins' = pending_logins \ {n} /\ pc' = [pc EXCEPT ![c] = "greet"]
      /\ UNCHANGED reserved
    BY DEF AddSession, Add
<1>3. \A d \in Socket : Registered(d) => sessions[d].username # n
    <2> SUFFICES ASSUME NEW d \in Socket, Registered(d), sessions[d].username = n PROVE FALSE
        OBVIOUS
    <2>1. by_name[n] = d /\ d # c
        BY <1>1 DEF UniqueInv, LoginsHoldNames, UniqueSession, Online
    <2>2. n \in pending_logins
        BY <1>1 DEF UniqueInv, LoginsHoldNames, LoginPC
    <2> QED BY <2>1, <2>2, RegistryAssumption DEF RegistryInv, OnlineNotPending, RegistryAssumption
<1>4. UniqueSession'
    <2> SUFFICES ASSUME NEW d \in Socket, sessions'[d] # None PROVE by_name'[sessions'[d].username] = d
        BY DEF UniqueSession, Online, Registered
    <2>1. CASE d = c
        <3>1. sessions'[d].username = n
            BY <1>2, <2>1
        <3> QED BY <1>1, <1>2, <2>1, <3>1
    <2>2. CASE d # c
        <3>1. sessions'[d] = sessions[d] /\ Registered(d)
            BY <1>2, <2>2 DEF Registered
        <3>2. by_name[sessions[d].username] = d /\ sessions[d].username # n
            BY <1>3, <3>1 DEF UniqueInv, LoginsHoldNames, UniqueSession, Online
        <3> HIDE DEF n
        <3> QED BY <1>2, <3>1, <3>2
    <2> QED BY <2>1, <2>2
<1>5. \A d \in Socket : pc'[d] \in LoginPC => /\ d # c /\ pc[d] \in LoginPC
                                             /\ reserved'[d] = reserved[d] /\ reserved[d] # n
    BY <1>1, <1>2 DEF UniqueInv, LoginsHoldNames, LoginPC
<1>6. \A d \in Socket : pc'[d] \in LoginPC => reserved'[d] \in pending_logins'
    <2> SUFFICES ASSUME NEW d \in Socket, pc'[d] \in LoginPC PROVE reserved'[d] \in pending_logins'
        OBVIOUS
    <2>1. pc[c] # "done" /\ d # c /\ pc[d] \in LoginPC
        BY <1>1, <1>5
    <2>2. reserved[d] \in pending_logins
        BY <2>1 DEF UniqueInv, LoginsHoldNames
    <2> QED BY <1>2, <1>5, <2>2
<1> QED BY <1>4, <1>5, <1>6 DEF UniqueInv, LoginsHoldNames

\* A rejected login releases its own name, and so does a finally clause.
LEMMA UniqueRelease ==
    ASSUME Inv, UniqueInv, NEW c \in Socket, RejectLogin(c) \/ Finally(c), ReleasesOwn
    PROVE  UniqueInv'
<1>1. /\ UNCHANGED <<sessions, by_name>> /\ reserved' = [reserved EXCEPT ![c] = None]
      /\ pending_logins' \in {pending_logins, pending_logins \ {reserved[c]}}
      /\ reserved[c] = None => pending_logins' = pending_logins \/ RejectLogin(c)
      /\ \/ pc[c] = "reject" /\ pc' = [pc EXCEPT ![c] = "auth"]
         \/ pc[c] = "finally" /\ pc' = [pc EXCEPT ![c] = "done"]
    BY DEF RejectLogin, Finally, ReleaseReservation
<1>2. UniqueSession'
    BY <1>1 DEF UniqueInv, LoginsHoldNames, UniqueSession, Online, Registered
<1>3. \A d \in Socket : pc'[d] \in LoginPC => d # c /\ pc[d] \in LoginPC /\ reserved'[d] = reserved[d]
    BY <1>1 DEF LoginPC
<1>4. ASSUME NEW d \in Socket, pc'[d] \in LoginPC PROVE reserved'[d] \in pending_logins'
    <2>1. /\ d # c /\ pc[d] \in LoginPC /\ reserved'[d] = reserved[d]
          /\ reserved[d] \in pending_logins
        BY <1>3, <1>4 DEF UniqueInv, LoginsHoldNames
    <2>2. reserved[d] # reserved[c]
        <3>1. CASE pc[c] = "reject"
            BY <2>1, <3>1 DEF UniqueInv, LoginsHoldNames, LoginPC
        <3>2. CASE pc[c] = "finally" /\ pc'[c] = "done"
            <4>1. reserved[d] # None
                BY <2>1, RegistryAssumption DEF LoginInv, RegistryAssumption
            <4> QED BY <2>1, <3>2, <4>1 DEF ReleasesOwn
        <3> QED BY <1>1, <3>1, <3>2
    <2> QED BY <1>1, <2>1, <2>2
<1> QED BY <1>2, <1>3, <1>4 DEF UniqueInv, LoginsHoldNames

LEMMA UniqueInvStep == Inv /\ UniqueInv /\ [Next]_vars /\ [ReleasesOwn]_vars => UniqueInv'
<1> SUFFICES ASSUME Inv, UniqueInv, [Next]_vars, [ReleasesOwn]_vars PROVE UniqueInv'
    OBVIOUS
<1>1. CASE UNCHANGED vars
    BY <1>1 DEF vars, serverVars, UniqueInv, LoginsHoldNames, UniqueSession, Online, Registered
<1>2. CASE Next /\ ~UNCHANGED vars
    <2>1. CASE \E c \in Socket : LoginLine(c)
        BY <1>2, <2>1, UniqueLoginLine
    <2>2. CASE \E c \in Socket : RejectLogin(c) \/ Finally(c)
        BY <1>2, <2>2, UniqueRelease
    <2>3. CASE \E c \in Socket : AddSession(c)
        BY <2>3, UniqueAdd
    <2>4. CASE NamesSteady \/ \E c \in Socket : Remove(c)
        BY <1>2, <2>1, <2>4, UniqueSteady, UniqueRemove
    <2> QED BY <1>2, <2>1, <2>2, <2>3, <2>4, NameCases
<1> QED BY <1>1, <1>2

LEMMA UniqueInvStart == Init => UniqueInv
BY ServerAssumption
   DEF Init, RegistryInit, UniqueInv, LoginsHoldNames, UniqueSession, Online, Registered, LoginPC, ServerAssumption

\* At most one connection is logged in under a name, and by_name() finds it, as long as
\* no finally clause releases a name that another login holds: that is the only way
\* to a second session.
THEOREM UniqueUnlessForeignRelease == Spec /\ [][ReleasesOwn]_vars => []UniqueSession
<1>1. UniqueInv => UniqueSession
    BY DEF UniqueInv
<1> QED BY <1>1, UniqueInvStart, UniqueInvStep, ServerInvariant, PTL DEF Spec

\* With any number of connections and threads, no step but a finally clause that releases
\* the name of another login makes a second session possible.
THEOREM OnlyForeignReleaseHurts == Spec => UniqueUntilForeignRelease
<1>1. Inv /\ [Next]_vars =>
         [UniqueSession /\ LoginsHoldNames /\ ReleasesOwn => (UniqueSession /\ LoginsHoldNames)']_vars
    BY UniqueInvStep DEF UniqueInv
<1> QED BY <1>1, ServerInvariant, PTL DEF Spec, UniqueUntilForeignRelease

\* What a step does to the place of one connection and to its reserved_username.
LEMMA LifeSteps ==
    ASSUME Inv, Next, NEW c \in Socket
    PROVE  \/ pc'[c] = pc[c] /\ reserved'[c] = reserved[c]
           \/ LoginLine(c) \/ AddSession(c)
           \/ pc[c] \in LoginPC /\ pc'[c] \in LoginPC \cup {"closing"} /\ reserved'[c] = reserved[c]
           \/ reserved'[c] = None /\ pc'[c] \notin {"greet", "ungreet"}
           \/ pc[c] = "greet" /\ pc'[c] = "ungreet"
           \/ pc[c] = "ungreet"
           \/ pc[c] = "closing" /\ pc'[c] = "finally" /\ reserved'[c] = reserved[c]
           \/ /\ pc[c] \in {"new", "handshake", "auth", "joined", "chat"} \cup CommandPC
              /\ pc'[c] \notin LoginPC \cup {"greet", "ungreet"}
              /\ reserved'[c] = reserved[c]
<1> DEFINE P == \/ pc'[c] = pc[c] /\ reserved'[c] = reserved[c]
                \/ LoginLine(c) \/ AddSession(c)
                \/ pc[c] \in LoginPC /\ pc'[c] \in LoginPC \cup {"closing"} /\ reserved'[c] = reserved[c]
                \/ reserved'[c] = None /\ pc'[c] \notin {"greet", "ungreet"}
                \/ pc[c] = "greet" /\ pc'[c] = "ungreet"
                \/ pc[c] = "ungreet"
                \/ pc[c] = "closing" /\ pc'[c] = "finally" /\ reserved'[c] = reserved[c]
                \/ /\ pc[c] \in {"new", "handshake", "auth", "joined", "chat"} \cup CommandPC
                   /\ pc'[c] \notin LoginPC \cup {"greet", "ungreet"}
                   /\ reserved'[c] = reserved[c]
<1>1. ASSUME NEW d \in Socket, Environment(d) \/ HandlerStep(d), d # c PROVE P
    <2>1. /\ pc' = pc \/ \E p : pc' = [pc EXCEPT ![d] = p]
          /\ reserved' = reserved \/ \E n : reserved' = [reserved EXCEPT ![d] = n]
        BY <1>1 DEF Environment, Accept, HandshakeFails, Admit, AuthEnds, Register, LoginLine,
           LoginRaises, Disconnect, ReadMessage, HandlerStep, VerifyPassword, LoginBanCheck,
           ReadRole, SecondBanCheck, RejectLogin, AddSession, Greet, Ungreet, BroadcastJoined,
           CleanUpSelf, Finally
    <2> QED BY <1>1, <2>1
<1>2. ASSUME Environment(c) PROVE P
    <2>1. CASE LoginLine(c)
        BY <2>1
    <2>2. CASE ~LoginLine(c)
        BY <1>2, <2>2 DEF Environment, Accept, HandshakeFails, Admit, AuthEnds, Register,
           LoginRaises, Disconnect, ReadMessage, LoginPC
    <2> QED BY <2>1, <2>2
<1>3. ASSUME HandlerStep(c) PROVE P
    <2>1. CASE AddSession(c)
        BY <2>1
    <2>2. CASE ~AddSession(c)
        BY <1>3, <2>2 DEF HandlerStep, VerifyPassword, LoginBanCheck, ReadRole, SecondBanCheck,
           RejectLogin, Greet, Ungreet, BroadcastJoined, CleanUpSelf, Finally, LoginPC
    <2> QED BY <2>1, <2>2
<1>4. ASSUME NEW t \in Thread, CleanUpStep(t) PROVE P
    BY <1>4 DEF CleanUpStep, CleanUpRemove, CleanUpRelease, CleanUpAnnounce
<1>5. ASSUME NEW t \in Thread, CommandStep(t) \/ ReadCommand(t) \/ CommandRaises(t) PROVE P
    <2>1. UNCHANGED reserved
        BY <1>5 DEF CommandStep, FindTarget, RankCheck, AddBan, Kick, RemoveBan, Announce,
           SetUserRole, SetAnnounce, SetSession, ReadCommand, CommandRaises
    <2>2. \E p : p \notin LoginPC \cup {"greet", "ungreet"} /\ pc' = [pc EXCEPT ![t] = p]
        BY <1>5, ServerAssumption
           DEF CommandStep, FindTarget, RankCheck, AddBan, Kick, RemoveBan, Announce, FirstStep,
               SetUserRole, SetAnnounce, SetSession, ReadCommand, CommandRaises, EndCommand, Home,
               CommandInv, CommandPC, SetPC, Command, ServerAssumption, LoginPC
    <2>3. pc[t] \in {"chat", "console"} \cup CommandPC
        BY <1>5 DEF CommandStep, FindTarget, RankCheck, AddBan, Kick, RemoveBan, Announce,
           SetUserRole, SetAnnounce, SetSession, ReadCommand, CommandRaises, Home, CommandPC
    <2>4. pc[c] # "console"
        BY DEF ServerInv, ServerTypeOK, HandlerPC, LoginPC, CommandPC
    <2> QED BY <2>1, <2>2, <2>3, <2>4
<1> QED BY <1>1, <1>2, <1>3, <1>4, <1>5 DEF Next

\* Where a claim comes from.
LEMMA ClaimCases ==
    ASSUME Inv, ClaimInv, Next, NEW c \in Socket, Claims(c)'
    PROVE  LoginLine(c) \/ (Claims(c) /\ reserved'[c] = reserved[c])
<1>1. ~AddSession(c)
    BY DEF AddSession, Claims, LoginPC
<1>2. pc[c] \notin LoginPC \cup {"greet", "closing", "finally"} => reserved[c] = None
    BY DEF ClaimInv
<1>3. pc[c] # "ungreet"
    BY DEF ClaimInv
<1> QED BY <1>1, <1>2, <1>3, LifeSteps DEF Claims, LoginPC, CommandPC

LEMMA ClaimsKept ==
    ASSUME Inv, ClaimInv, Next
    PROVE  /\ \A c \in Socket : Claims(c)' => reserved'[c] \in pending_logins'
           /\ \A c, d \in Socket : Claims(c)' /\ Claims(d)' /\ reserved'[c] = reserved'[d] => c = d
<1>1. ASSUME NEW a \in Socket, LoginLine(a)
      PROVE  /\ \A c \in Socket : Claims(c)' => reserved'[c] \in pending_logins'
             /\ \A c, d \in Socket : Claims(c)' /\ Claims(d)' /\ reserved'[c] = reserved'[d] => c = d
    <2>1. PICK n \in Username, granted \in BOOLEAN :
             /\ ReserveUsername(n, granted)
             /\ reserved' = [reserved EXCEPT ![a] = IF granted THEN n ELSE None]
             /\ Goto(a, IF granted THEN "verify" ELSE "auth")
        BY <1>1 DEF LoginLine
    <2>2. ASSUME NEW c \in Socket, c # a, Claims(c)'
          PROVE  Claims(c) /\ reserved'[c] = reserved[c] /\ reserved[c] \in pending_logins
        BY <2>1, <2>2 DEF Claims, ClaimInv
    <2>3. Claims(a)' => granted = TRUE
        BY <2>1 DEF Claims, LoginPC
    <2>4. pending_logins \subseteq pending_logins'
        BY <2>1 DEF ReserveUsername
    <2>5. granted = TRUE => reserved'[a] = n /\ n \in pending_logins' /\ n \notin pending_logins
        BY <2>1 DEF ReserveUsername
    <2>6. ASSUME NEW c \in Socket, Claims(c)' PROVE reserved'[c] \in pending_logins'
        BY <2>2, <2>3, <2>4, <2>5, <2>6
    <2>7. ASSUME NEW c \in Socket, NEW d \in Socket, Claims(c)', Claims(d)', reserved'[c] = reserved'[d]
          PROVE  c = d
        <3>1. CASE c # a /\ d # a
            BY <2>2, <2>7, <3>1 DEF ClaimInv
        <3>2. CASE c = a \/ d = a
            BY <2>2, <2>3, <2>5, <2>7, <3>2
        <3> QED BY <3>1, <3>2
    <2> QED BY <2>6, <2>7
<1>2. ASSUME ~\E a \in Socket : LoginLine(a), NEW c \in Socket, Claims(c)'
      PROVE  Claims(c) /\ reserved'[c] = reserved[c] /\ reserved[c] \in pending_logins
    <2>1. Claims(c) /\ reserved'[c] = reserved[c]
        BY <1>2, ClaimCases
    <2> QED BY <2>1 DEF ClaimInv
<1>3. ASSUME NEW a \in Socket, RejectLogin(a) \/ AddSession(a) \/ Finally(a),
             ~\E b \in Socket : LoginLine(b), NEW c \in Socket, Claims(c)'
      PROVE  reserved'[c] \in pending_logins'
    <2>1. /\ pc[a] \in LoginPC \cup {"finally"}
          /\ pc'[a] \in {"auth", "greet", "done"}
          /\ pending_logins' \in {pending_logins, pending_logins \ {reserved[a]}}
        BY <1>3 DEF RejectLogin, AddSession, Finally, ReleaseReservation, Add, LoginPC
    <2>2. c # a
        BY <1>3, <2>1 DEF Claims, LoginPC
    <2>3. Claims(c) /\ reserved'[c] = reserved[c] /\ reserved[c] \in pending_logins
        BY <1>2, <1>3
    <2>4. reserved[a] # reserved[c]
        BY <2>1, <2>2, <2>3 DEF ClaimInv, Claims
    <2> QED BY <2>1, <2>3, <2>4
<1>4. ASSUME NamesSteady \/ \E a \in Socket : Remove(a), ~\E b \in Socket : LoginLine(b),
             NEW c \in Socket, Claims(c)'
      PROVE  reserved'[c] \in pending_logins'
    BY <1>2, <1>4 DEF NamesSteady, Remove
<1>5. ASSUME ~\E a \in Socket : LoginLine(a)
      PROVE  \A c, d \in Socket : Claims(c)' /\ Claims(d)' /\ reserved'[c] = reserved'[d] => c = d
    BY <1>2, <1>5 DEF ClaimInv
<1>6. ASSUME ~\E a \in Socket : LoginLine(a)
      PROVE  \A c \in Socket : Claims(c)' => reserved'[c] \in pending_logins'
    BY <1>3, <1>4, <1>6, NameCases
<1> QED BY <1>1, <1>5, <1>6

LEMMA ClaimInvStep == Inv /\ ClaimInv /\ [Next]_vars /\ [GreetsUndisturbed]_vars => ClaimInv'
<1> SUFFICES ASSUME Inv, ClaimInv, [Next]_vars, [GreetsUndisturbed]_vars PROVE ClaimInv'
    OBVIOUS
<1>1. CASE UNCHANGED vars
    BY <1>1 DEF vars, serverVars, ClaimInv, Claims, Registered
<1>2. CASE Next /\ GreetsUndisturbed
    <2>1. ASSUME NEW c \in Socket
          PROVE  /\ pc'[c] # "ungreet" /\ (pc'[c] = "greet" => sessions'[c] # None)
                 /\ pc'[c] \notin LoginPC \cup {"greet", "closing", "finally"} => reserved'[c] = None
        <3>1. /\ pc[c] # "ungreet" /\ (pc[c] = "greet" => sessions'[c] # None /\ pc'[c] # "ungreet")
              /\ pc[c] \notin LoginPC \cup {"greet", "closing", "finally"} => reserved[c] = None
            BY <1>2 DEF ClaimInv, GreetsUndisturbed
        <3>2. CASE LoginLine(c)
            BY <3>2 DEF LoginLine, LoginPC
        <3>3. CASE AddSession(c)
            <4>1. pc'[c] = "greet" /\ sessions'[c] = [username |-> reserved[c], role |-> login_role[c]]
                BY <3>3 DEF AddSession, Add
            <4>2. reserved[c] \in Username /\ login_role[c] \in Role
                BY <3>3 DEF AddSession, LoginInv, LoginPC
            <4>3. sessions'[c] \in Session
                BY <4>1, <4>2 DEF Session
            <4> QED BY <4>1, <4>3, RegistryAssumption DEF RegistryAssumption
        <3>4. CASE ~LoginLine(c) /\ ~AddSession(c)
            BY <1>2, <3>1, <3>4, LifeSteps DEF LoginPC, CommandPC
        <3> QED BY <3>2, <3>3, <3>4
    <2> QED BY <1>2, <2>1, ClaimsKept DEF ClaimInv, Registered
<1> QED BY <1>1, <1>2

LEMMA ClaimInvStart == Init => ClaimInv
BY ServerAssumption DEF Init, ClaimInv, Claims, LoginPC, ServerAssumption

\* A name never has two sessions as long as no client is taken out between its
\* registry.add() and its OK line and its queue takes that line: then what a finally
\* clause releases is a reservation of its own.
THEOREM UniqueUnlessDisturbed == Spec /\ [][GreetsUndisturbed]_vars => []UniqueSession
<1>1. UniqueInv => UniqueSession
    BY DEF UniqueInv
<1>2. ClaimInv => ReleasesOwn
    BY DEF ClaimInv, ReleasesOwn, Claims, LoginPC
<1>3. Inv /\ UniqueInv /\ ClaimInv /\ [Next]_vars => UniqueInv'
    BY <1>2, UniqueInvStep
<1> QED BY <1>1, <1>3, UniqueInvStart, ClaimInvStart, ClaimInvStep, ServerInvariant, PTL DEF Spec

-----------------------------------------------------------------------------
(* Once /ban is done, the account is offline.  In general it does not hold *)
(* either.  A second session of the name is one cause; a ban that is       *)
(* written between the last ban check of a login and its registry.add() is *)
(* the other, and there is none besides.                                   *)

\* A ban is not written while a login of that name is past its last ban check.
BanMeetsNoLogin ==
    \A t \in Thread, c \in Socket :
        pc[t] = "ban" /\ pc'[t] = "kick" /\ pc[c] = "add" => reserved[c] # cmd[t].name

\* Thread t has still to look up the account it has banned, or has found c and will
\* remove it.
WillRemove(t, c) ==
    /\ Executing(t, "BAN", sessions[c].username)
    /\ pc[t] = "kick" \/ (pc[t] = "announce" /\ c \in failed[t])

BanInv ==
    /\ \A c \in Online : sessions[c].username \in banned => \E t \in Thread : WillRemove(t, c)
    /\ \A c \in Socket : pc[c] = "add" => reserved[c] \notin banned
    /\ \A t \in Thread : pc[t] = "ban" => cmd[t].op = "BAN"

LEMMA OnlineCases ==
    ASSUME Inv, Next, NEW c \in Socket, Registered(c)'
    PROVE  \/ AddSession(c)
           \/ Registered(c) /\ sessions'[c].username = sessions[c].username
<1>1. ASSUME NEW d \in Socket, LoginLine(d) \/ RejectLogin(d) \/ Finally(d)
      PROVE  UNCHANGED sessions
    BY <1>1 DEF LoginLine, RejectLogin, Finally, ReserveUsername, ReleaseReservation
<1>2. ASSUME NEW d \in Socket, d # c, AddSession(d) PROVE sessions'[c] = sessions[c]
    BY <1>2 DEF AddSession, Add
<1>3. ASSUME NEW d \in Socket, Remove(d) PROVE sessions'[c] = sessions[c]
    BY <1>3 DEF Remove, Registered
<1> QED BY <1>1, <1>2, <1>3, NameCases DEF NamesSteady, Registered

\* How a login comes past the last ban check.
LEMMA CheckedCases ==
    ASSUME Inv, Next, NEW c \in Socket, pc'[c] = "add"
    PROVE  /\ reserved'[c] = reserved[c]
           /\ pc[c] = "add" \/ (reserved[c] \notin banned /\ banned' = banned)
<1>1. ASSUME NEW d \in Socket, Environment(d) PROVE reserved'[c] = reserved[c] /\ pc[c] = "add"
    BY <1>1 DEF Environment, Accept, HandshakeFails, Admit, AuthEnds, Register, LoginLine,
       LoginRaises, Disconnect, ReadMessage
<1>2. ASSUME NEW d \in Socket, HandlerStep(d)
      PROVE  /\ reserved'[c] = reserved[c]
             /\ pc[c] = "add" \/ (reserved[c] \notin banned /\ banned' = banned)
    BY <1>2 DEF HandlerStep, VerifyPassword, LoginBanCheck, ReadRole, SecondBanCheck, RejectLogin,
       AddSession, Greet, Ungreet, BroadcastJoined, CleanUpSelf, Finally
<1>3. ASSUME NEW t \in Thread, CleanUpStep(t) PROVE reserved'[c] = reserved[c] /\ pc[c] = "add"
    BY <1>3 DEF CleanUpStep, CleanUpRemove, CleanUpRelease, CleanUpAnnounce
<1>4. ASSUME NEW t \in Thread, CommandStep(t) \/ ReadCommand(t) \/ CommandRaises(t)
      PROVE  reserved'[c] = reserved[c] /\ pc[c] = "add"
    <2>1. UNCHANGED reserved
        BY <1>4 DEF CommandStep, FindTarget, RankCheck, AddBan, Kick, RemoveBan, Announce,
           SetUserRole, SetAnnounce, SetSession, ReadCommand, CommandRaises
    <2>2. \E p : p # "add" /\ pc' = [pc EXCEPT ![t] = p]
        BY <1>4, ServerAssumption
           DEF CommandStep, FindTarget, RankCheck, AddBan, Kick, RemoveBan, Announce, FirstStep,
               SetUserRole, SetAnnounce, SetSession, ReadCommand, CommandRaises, EndCommand, Home,
               CommandInv, CommandPC, SetPC, Command, ServerAssumption
    <2> QED BY <2>1, <2>2
<1> QED BY <1>1, <1>2, <1>3, <1>4 DEF Next

\* Only AddBan writes a name to the ban file.
LEMMA BanCases ==
    ASSUME Inv, Next
    PROVE  banned' \subseteq banned \/ \E t \in Thread : AddBan(t)
<1>1. ASSUME NEW d \in Socket, Environment(d) \/ HandlerStep(d) PROVE banned' = banned
    BY <1>1 DEF Environment, Accept, HandshakeFails, Admit, AuthEnds, Register, LoginLine,
       LoginRaises, Disconnect, ReadMessage, HandlerStep, VerifyPassword, LoginBanCheck,
       ReadRole, SecondBanCheck, RejectLogin, AddSession, Greet, Ungreet, BroadcastJoined,
       CleanUpSelf, Finally
<1>2. ASSUME NEW t \in Thread, CleanUpStep(t) PROVE banned' = banned
    BY <1>2 DEF CleanUpStep, CleanUpRemove, CleanUpRelease, CleanUpAnnounce
<1>3. ASSUME NEW t \in Thread, CommandStep(t) \/ ReadCommand(t) \/ CommandRaises(t), ~AddBan(t)
      PROVE  banned' \subseteq banned
    BY <1>3 DEF CommandStep, FindTarget, RankCheck, Kick, RemoveBan, Announce,
       SetUserRole, SetAnnounce, SetSession, ReadCommand, CommandRaises
<1> QED BY <1>1, <1>2, <1>3 DEF Next

\* A thread that is to write a ban is executing BAN.
LEMMA BanOpKept ==
    ASSUME Inv, BanInv, Next, NEW t \in Thread, pc'[t] = "ban"
    PROVE  cmd'[t].op = "BAN"
<1>1. ASSUME NEW d \in Socket, Environment(d) \/ HandlerStep(d) PROVE pc[t] = "ban" /\ cmd'[t] = cmd[t]
    BY <1>1 DEF Environment, Accept, HandshakeFails, Admit, AuthEnds, Register, LoginLine,
       LoginRaises, Disconnect, ReadMessage, HandlerStep, VerifyPassword, LoginBanCheck,
       ReadRole, SecondBanCheck, RejectLogin, AddSession, Greet, Ungreet, BroadcastJoined,
       CleanUpSelf, Finally
<1>2. ASSUME NEW u \in Thread, CleanUpStep(u) PROVE pc[t] = "ban" /\ cmd'[t] = cmd[t]
    BY <1>2 DEF CleanUpStep, CleanUpRemove, CleanUpRelease, CleanUpAnnounce
<1>3. ASSUME NEW u \in Thread, u # t, CommandStep(u) \/ ReadCommand(u) \/ CommandRaises(u)
      PROVE  pc[t] = "ban" /\ cmd'[t] = cmd[t]
    BY <1>3, ZenonT(40) DEF CommandStep, FindTarget, RankCheck, AddBan, Kick, RemoveBan, Announce,
       SetUserRole, SetAnnounce, SetSession, ReadCommand, CommandRaises, EndCommand
<1>4. ASSUME CommandStep(t) \/ CommandRaises(t) PROVE cmd'[t].op = "BAN"
    <2>1. ~EndCommand(t)
        BY DEF EndCommand, Home
    <2>2. pc[t] = "rank" /\ cmd' = cmd /\ FirstStep(cmd[t].op, TRUE) = "ban"
        BY <1>4, <2>1 DEF CommandStep, FindTarget, RankCheck, AddBan, Kick, RemoveBan, Announce,
           SetUserRole, SetAnnounce, SetSession, CommandRaises
    <2>3. cmd[t].op \in {"KICK", "BAN", "UNBAN", "SET"}
        BY <2>2 DEF CommandInv, CommandPC, Command
    <2> QED BY <2>2, <2>3 DEF FirstStep
<1>5. ASSUME ReadCommand(t) PROVE cmd'[t].op = "BAN"
    <2>1. PICK op \in {"KICK", "BAN", "UNBAN", "SET"} :
             FirstStep(op, t = Console) = "ban" /\ cmd'[t].op = op
        BY <1>5, ServerAssumption DEF ReadCommand, ServerAssumption
    <2> QED BY <2>1 DEF FirstStep
<1> QED BY <1>1, <1>2, <1>3, <1>4, <1>5 DEF Next, BanInv

\* A thread that is to remove a client does so before it does anything else: the kick
\* finds the client, because it is the one session of its name.
LEMMA RemoverKept ==
    ASSUME Inv, UniqueSession, Next, NEW c \in Socket, Registered(c), Registered(c)',
           sessions'[c].username = sessions[c].username, NEW t \in Thread, WillRemove(t, c)
    PROVE  WillRemove(t, c)'
<1> DEFINE n == sessions[c].username
<1>1. pc[t] \in {"kick", "announce"} /\ cmd[t] # None /\ cmd[t].op = "BAN" /\ cmd[t].name = n
    BY DEF WillRemove, Executing
<1>2. SUFFICES /\ cmd'[t] = cmd[t]
               /\ pc'[t] = "kick" \/ (pc'[t] = "announce" /\ c \in failed'[t])
    BY <1>1 DEF WillRemove, Executing
<1>3. pc[t] = "kick" \/ (pc[t] = "announce" /\ c \in failed[t])
    BY DEF WillRemove
<1>4. ASSUME cmd'[t] = cmd[t], pc'[t] = pc[t], failed[t] \subseteq failed'[t]
      PROVE  /\ cmd'[t] = cmd[t]
             /\ pc'[t] = "kick" \/ (pc'[t] = "announce" /\ c \in failed'[t])
    BY <1>3, <1>4
<1>5. ASSUME NEW d \in Socket, Environment(d) \/ HandlerStep(d)
      PROVE  cmd'[t] = cmd[t] /\ pc'[t] = pc[t] /\ failed[t] \subseteq failed'[t]
    BY <1>1, <1>5 DEF Environment, Accept, HandshakeFails, Admit, AuthEnds, Register, LoginLine,
       LoginRaises, Disconnect, ReadMessage, HandlerStep, VerifyPassword, LoginBanCheck,
       ReadRole, SecondBanCheck, RejectLogin, AddSession, Greet, Ungreet, BroadcastJoined,
       CleanUpSelf, Finally, Broadcast
<1>6. ASSUME NEW u \in Thread, CleanUpStep(u)
      PROVE  /\ cmd'[t] = cmd[t] /\ pc'[t] = pc[t]
             /\ c \in failed[t] => c \in failed'[t]
    BY <1>6 DEF CleanUpStep, CleanUpRemove, CleanUpRelease, CleanUpAnnounce, Remove, Registered
<1>7. ASSUME NEW u \in Thread, u # t, CommandStep(u) \/ ReadCommand(u) \/ CommandRaises(u)
      PROVE  cmd'[t] = cmd[t] /\ pc'[t] = pc[t] /\ failed[t] \subseteq failed'[t]
    <2>1. cmd'[t] = cmd[t] /\ pc'[t] = pc[t]
        BY <1>7, ZenonT(40) DEF CommandStep, FindTarget, RankCheck, AddBan, Kick, RemoveBan, Announce,
           SetUserRole, SetAnnounce, SetSession, ReadCommand, CommandRaises, EndCommand
    <2>2. failed'[t] = failed[t]
        BY <1>7 DEF CommandStep, FindTarget, RankCheck, AddBan, Kick, RemoveBan, Announce,
           SetUserRole, SetAnnounce, SetSession, ReadCommand, CommandRaises, Broadcast
    <2> QED BY <2>1, <2>2
<1>8. ASSUME CommandStep(t) \/ ReadCommand(t) \/ CommandRaises(t)
      PROVE  cmd'[t] = cmd[t] /\ pc'[t] = "announce" /\ c \in failed'[t]
    <2>1. failed[t] = {}
        BY <1>8 DEF CommandStep, FindTarget, RankCheck, AddBan, Kick, RemoveBan, Announce,
           SetUserRole, SetAnnounce, SetSession, ReadCommand, CommandRaises
    <2>2. pc[t] = "kick"
        BY <1>3, <2>1
    <2>3. Kick(t)
        BY <1>8, <2>2 DEF CommandStep, FindTarget, RankCheck, AddBan, RemoveBan, Announce,
           SetUserRole, SetAnnounce, SetSession, ReadCommand, CommandRaises, Home
    <2>4. by_name[cmd[t].name] = c
        BY <1>1 DEF UniqueSession, Online
    <2>5. c # None
        BY RegistryAssumption DEF RegistryAssumption
    <2> QED BY <2>3, <2>4, <2>5 DEF Kick
<1> QED BY <1>3, <1>4, <1>5, <1>6, <1>7, <1>8 DEF Next

LEMMA BanInvStep ==
    Inv /\ UniqueSession /\ BanInv /\ [Next]_vars /\ [BanMeetsNoLogin]_vars => BanInv'
<1> SUFFICES ASSUME Inv, UniqueSession, BanInv, [Next]_vars, [BanMeetsNoLogin]_vars PROVE BanInv'
    OBVIOUS
<1>1. CASE UNCHANGED vars
    BY <1>1 DEF vars, serverVars, BanInv, WillRemove, Executing, Online, Registered
<1>2. CASE Next /\ BanMeetsNoLogin
    <2>1. ASSUME NEW t \in Thread, AddBan(t)
          PROVE  /\ banned' = banned \cup {cmd[t].name} /\ cmd[t] # None /\ cmd[t].op = "BAN"
                 /\ pc[t] = "ban" /\ pc'[t] = "kick" /\ cmd' = cmd
        <3>1. /\ banned' = banned \cup {cmd[t].name} /\ pc[t] = "ban" /\ cmd' = cmd
              /\ pc' = [pc EXCEPT ![t] = "kick"]
            BY <2>1 DEF AddBan
        <3>2. cmd[t] \in Command
            BY <3>1 DEF CommandInv, CommandPC
        <3>3. cmd[t] # None
            BY <3>2, ServerAssumption DEF ServerAssumption
        <3> QED BY <3>1, <3>3 DEF BanInv
    <2>2. ASSUME NEW c \in Socket, Registered(c)', sessions'[c].username \in banned'
          PROVE  \E t \in Thread : WillRemove(t, c)'
        <3>1. CASE sessions'[c].username \notin banned
            <4>1. PICK t \in Thread : AddBan(t)
                BY <1>2, <2>2, <3>1, BanCases
            <4>2. Executing(t, "BAN", sessions[c].username)' /\ pc'[t] = "kick"
                BY <2>1, <2>2, <3>1, <4>1 DEF Executing
            <4> QED BY <4>2 DEF WillRemove
        <3>2. CASE sessions'[c].username \in banned /\ AddSession(c)
            <4>1. sessions'[c] = [username |-> reserved[c], role |-> login_role[c]] /\ pc[c] = "add"
                BY <3>2 DEF AddSession, Add
            <4> QED BY <3>2, <4>1 DEF BanInv
        <3>3. CASE sessions'[c].username \in banned /\ ~AddSession(c)
            <4>1. Registered(c) /\ sessions'[c].username = sessions[c].username
                BY <1>2, <2>2, <3>3, OnlineCases
            <4>2. PICK t \in Thread : WillRemove(t, c)
                BY <3>3, <4>1 DEF BanInv, Online
            <4> QED BY <1>2, <2>2, <4>1, <4>2, RemoverKept
        <3> QED BY <3>1, <3>2, <3>3
    <2>3. ASSUME NEW c \in Socket, pc'[c] = "add" PROVE reserved'[c] \notin banned'
        <3>1. /\ reserved'[c] = reserved[c]
              /\ pc[c] = "add" \/ (reserved[c] \notin banned /\ banned' = banned)
            BY <1>2, <2>3, CheckedCases
        <3>2. CASE \E t \in Thread : AddBan(t)
            <4>1. PICK t \in Thread : AddBan(t)
                BY <3>2
            <4>2. t # c /\ pc[c] = "add"
                <5>1. UNCHANGED users /\ pc' = [pc EXCEPT ![t] = "kick"]
                    BY <4>1 DEF AddBan
                <5> QED BY <2>3, <5>1
            <4>3. reserved[c] # cmd[t].name
                BY <1>2, <2>1, <4>1, <4>2 DEF BanMeetsNoLogin
            <4> QED BY <2>1, <3>1, <4>1, <4>2, <4>3 DEF BanInv
        <3>3. CASE banned' \subseteq banned
            BY <3>1, <3>3 DEF BanInv
        <3> QED BY <1>2, <3>2, <3>3, BanCases
    <2>4. \A t \in Thread : pc'[t] = "ban" => cmd'[t].op = "BAN"
        BY <1>2, BanOpKept
    <2>5. \A c \in Online' : sessions'[c].username \in banned' => \E t \in Thread : WillRemove(t, c)'
        BY <2>2 DEF Online
    <2> QED BY <2>3, <2>4, <2>5 DEF BanInv
<1> QED BY <1>1, <1>2

LEMMA BanInvStart == Init => BanInv
BY ServerAssumption DEF Init, RegistryInit, BanInv, Online, Registered, ServerAssumption

\* Once /ban is done the account is offline, as long as no ban is written while a login
\* of that name is between its last ban check and registry.add(), and no finally clause
\* releases a name that another login holds: the kick that follows the ban removes the
\* session the account had, and no other login gets past its ban check.
THEOREM BannedIsOffline ==
    Spec /\ [][ReleasesOwn]_vars /\ [][BanMeetsNoLogin]_vars => []BannedOffline
<1>1. UniqueInv => UniqueSession
    BY DEF UniqueInv
<1>2. BanInv => BannedOffline
    BY DEF BanInv, BannedOffline, WillRemove
<1> QED BY <1>1, <1>2, UniqueInvStart, UniqueInvStep, BanInvStart, BanInvStep, ServerInvariant, PTL
        DEF Spec

=============================================================================
