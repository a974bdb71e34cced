----------------------------- MODULE ChatClient -----------------------------
(***************************************************************************)
(* The terminal client: client_side/client.py and                          *)
(* client_side/client_management/connection.py, against the lines that     *)
(* server_side/server.py sends it.                                         *)
(*                                                                         *)
(* The client takes 0.2 seconds of silence after connect() for acceptance; *)
(* nothing bounds how long the server's refusal takes.  It has no request  *)
(* numbers: the next line it reads is the answer to its last request.  The *)
(* server registers a client before it queues the OK line, so a broadcast  *)
(* may come first.  Lines and requests arrive in order, one at a time.     *)
(*                                                                         *)
(* The client sends a name as it was typed and keeps it so; the server     *)
(* makes the account's name of it, by strip() and lower().  Several        *)
(* spellings are one account: the function Account says which.             *)
(***************************************************************************)
EXTENDS Naturals, Sequences

CONSTANTS
    Username,    \* the names of accounts
    Spelling,    \* the names as the user may type them
    Account,     \* the account that the server makes of a spelling
    MaxRetries,  \* max_retries of connect_with_backoff()
    BaseDelay,   \* base_delay
    MaxDelay,    \* the cap of the delay
    MaxChat,     \* bound on the broadcasts to one connection
    None

ASSUME ClientAssumption ==
    /\ MaxRetries \in Nat \ {0} /\ BaseDelay \in Nat \ {0}
    /\ MaxDelay \in Nat /\ BaseDelay <= MaxDelay /\ MaxChat \in Nat
    /\ Account \in [Spelling -> Username]
    /\ None \notin Username /\ None \notin Spelling

VARIABLES
    pc,            \* the main thread
    receiver,      \* the receive() thread: "off", "on", "done"
    attempt,       \* of connect_with_backoff()
    delay,
    connected,     \* whether the first call of connect_with_backoff() is over
    asked,         \* the last request sent
    nickname,      \* the name the client chats under, as typed, or None
    stop_threads,
    server,        \* the server's end of the connection
    name,          \* the account the server has logged this connection in as, or None
    toClient,      \* the lines on their way to the client
    toServer,      \* the requests on their way to the server
    chat           \* the number of broadcasts to this connection

clientVars == <<pc, receiver, attempt, delay, connected, asked, nickname, stop_threads>>
serverVars == <<server, name, toClient, toServer, chat>>
vars == <<clientVars, serverVars>>

Login(n) == [op |-> "LOGIN", name |-> n]
Register(n) == [op |-> "REGISTER", name |-> n]
Requests == {Login(n) : n \in Spelling} \cup {Register(n) : n \in Spelling}

\* The lines of the server, as far as the client tells them apart; of the OK line
\* of a login it does not look at the name; "OK Registration successful" is the other.
ClientLine == {"OK", "OK_REGISTERED", "ERR", "MSG"}
IsOk(line) == line \in {"OK", "OK_REGISTERED"}

Init ==
    /\ pc = "connect" /\ receiver = "off" /\ attempt = 1 /\ delay = BaseDelay
    /\ connected = FALSE /\ asked = None /\ nickname = None /\ stop_threads = FALSE
    /\ server = "none" /\ name = None /\ toClient = <<>> /\ toServer = <<>>
    /\ chat = 0

Goto(p) ==
    pc' = p /\ UNCHANGED <<receiver, attempt, delay, connected, asked, nickname, stop_threads>>
-----------------------------------------------------------------------------
(* connect() and connect_with_backoff().                                   *)

Connect ==
    /\ pc = "connect"
    /\ server' = "accepted" /\ name' = None /\ toClient' = <<>> /\ toServer' = <<>>
    /\ chat' = 0
    /\ Goto("probe")

\* main() catches the OSError of its first call only.
ConnectFails ==
    /\ pc = "connect"
    /\ Goto(IF connected THEN "traceback" ELSE "exit")
    /\ UNCHANGED serverVars

\* A line within 0.2 seconds is a refusal.
ProbeRefused ==
    /\ pc = "probe" /\ toClient # <<>>
    /\ Goto(IF attempt = MaxRetries THEN "exit" ELSE "sleep")
    /\ server' = "closed" /\ toClient' = <<>>
    /\ UNCHANGED <<name, toServer, chat>>

\* A timeout, the end of the stream and an error are all None: accepted.
ProbeSilent ==
    /\ pc = "probe" /\ toClient = <<>>
    /\ pc' = "prompt" /\ connected' = TRUE
    /\ UNCHANGED <<receiver, attempt, delay, asked, nickname, stop_threads, serverVars>>

\* Mutant: the attempts are not counted.
SleepUncounted ==
    /\ pc = "sleep"
    /\ pc' = "connect"
    /\ delay' = IF 2 * delay < MaxDelay THEN 2 * delay ELSE MaxDelay
    /\ UNCHANGED <<receiver, attempt, connected, asked, nickname, stop_threads, serverVars>>

\* Mutant: the delay grows without the cap.
SleepUncapped ==
    /\ pc = "sleep"
    /\ pc' = "connect" /\ attempt' = attempt + 1
    /\ delay' = 2 * delay
    /\ UNCHANGED <<receiver, connected, asked, nickname, stop_threads, serverVars>>

Sleep ==
    /\ pc = "sleep"
    /\ pc' = "connect" /\ attempt' = attempt + 1
    /\ delay' = IF 2 * delay < MaxDelay THEN 2 * delay ELSE MaxDelay
    /\ UNCHANGED <<receiver, connected, asked, nickname, stop_threads, serverVars>>
-----------------------------------------------------------------------------
(* The authentication loop of main().                                      *)

\* The user chooses; send() to a connection the server has closed may or may not
\* raise.
SendRequest ==
    /\ pc = "prompt"
    /\ \E r \in Requests :
          /\ asked' = r
          /\ toServer' = IF server = "closed" THEN toServer ELSE Append(toServer, r)
    /\ pc' = "await"
    /\ UNCHANGED <<receiver, attempt, delay, connected, nickname, stop_threads,
                   server, name, toClient, chat>>

Reconnect ==
    /\ pc' = "connect" /\ attempt' = 1 /\ delay' = BaseDelay
    /\ UNCHANGED <<receiver, connected, asked, nickname, stop_threads>>

SendFails == pc = "prompt" /\ server = "closed" /\ Reconnect /\ UNCHANGED serverVars

\* The next line is longer than read_line() takes, which a broadcast may be; the
\* client gives the connection up.
GiveUpOnLongLine ==
    /\ server # "closed" /\ toClient # <<>> /\ Head(toClient) = "MSG"
    /\ server' = "closed" /\ toServer' = <<>>
    /\ UNCHANGED <<name, toClient, chat>>

\* The end of the stream, a reset that discards what was still unread, a long line.
NoAnswer ==
    /\ pc = "await"
    /\ \/ server = "closed" /\ UNCHANGED serverVars
       \/ GiveUpOnLongLine
    /\ Reconnect

\* Mutant: every OK is taken for the answer to a LOGIN.
ReadAnswerAnyOk ==
    /\ pc = "await" /\ toClient # <<>>
    /\ IF IsOk(Head(toClient))
       THEN nickname' = asked.name /\ pc' = "input" /\ receiver' = "on"
       ELSE pc' = "prompt" /\ UNCHANGED <<nickname, receiver>>
    /\ toClient' = Tail(toClient)
    /\ UNCHANGED <<attempt, delay, connected, asked, stop_threads,
                   server, name, toServer, chat>>

ReadAnswer ==
    /\ pc = "await" /\ toClient # <<>>
    /\ IF asked.op = "LOGIN" /\ IsOk(Head(toClient))
       THEN nickname' = asked.name /\ pc' = "input" /\ receiver' = "on"
       ELSE pc' = "prompt" /\ UNCHANGED <<nickname, receiver>>
    /\ toClient' = Tail(toClient)
    /\ UNCHANGED <<attempt, delay, connected, asked, stop_threads,
                   server, name, toServer, chat>>
-----------------------------------------------------------------------------
(* receive() and write().                                                  *)

\* MSG and ERR lines are printed.
Receive ==
    /\ receiver = "on" /\ ~stop_threads /\ pc = "input" /\ toClient # <<>>
    /\ toClient' = Tail(toClient)
    /\ UNCHANGED <<clientVars, server, name, toServer, chat>>

\* Mutant: the thread ends without a word to write().
ReceiveNoneSilent ==
    /\ receiver = "on" /\ pc = "input" /\ server = "closed"
    /\ receiver' = "done"
    /\ UNCHANGED <<pc, attempt, delay, connected, asked, nickname, stop_threads, serverVars>>

\* The server is gone, or sends a line that is too long: the flag is set and the
\* socket closed.
ReceiveNone ==
    /\ receiver = "on" /\ pc = "input"
    /\ \/ server = "closed" /\ UNCHANGED serverVars
       \/ GiveUpOnLongLine
    /\ receiver' = "done" /\ stop_threads' = TRUE
    /\ UNCHANGED <<pc, attempt, delay, connected, asked, nickname>>

\* write() is in input().  An empty line is ignored; anything else is sent, which
\* raises on the socket that receive() has closed and may raise on one that the
\* server has closed; the loop ends when the flag is set, and main() with it.
TypeLine ==
    /\ pc = "input"
    /\ \/ Goto(IF stop_threads THEN "exit" ELSE "input")
       \/ server = "closed" /\ Goto("exit")
    /\ UNCHANGED serverVars

\* /quit, /exit, Ctrl-C or the end of the input.
Quit ==
    /\ pc = "input"
    /\ pc' = "exit" /\ stop_threads' = TRUE
    /\ server' = "closed" /\ toServer' = <<>>
    /\ UNCHANGED <<receiver, attempt, delay, connected, asked, nickname,
                   name, toClient, chat>>
-----------------------------------------------------------------------------
(* The server's end of the connection.                                     *)

Reply(line) == toClient' = Append(toClient, line)

\* The handshake is over; the slot of the address is free or not.
Admit ==
    /\ server = "accepted"
    /\ server' = "auth"
    /\ UNCHANGED <<clientVars, name, toClient, toServer, chat>>

Refuse ==
    /\ server = "accepted"
    /\ server' = "closed" /\ Reply("ERR")
    /\ UNCHANGED <<clientVars, name, toServer, chat>>

\* Mutant: a line that is refused gets no answer.
ServeSilently ==
    /\ server = "auth" /\ toServer # <<>>
    /\ \/ UNCHANGED <<toClient, server, name>>
       \/ /\ Head(toServer).op = "LOGIN"
          /\ server' = "added" /\ name' = Account[Head(toServer).name] /\ UNCHANGED toClient
    /\ toServer' = Tail(toServer)
    /\ UNCHANGED <<clientVars, chat>>

\* One line of the authentication loop: an error, a registration, a login that
\* goes on with registry.add(), or an error that ends the connection.
Serve ==
    /\ server = "auth" /\ toServer # <<>>
    /\ \/ Reply("ERR") /\ UNCHANGED <<server, name>>
       \/ Reply("ERR") /\ server' = "closed" /\ UNCHANGED name
       \/ /\ Head(toServer).op = "REGISTER"
          /\ Reply("OK_REGISTERED") /\ UNCHANGED <<server, name>>
       \/ /\ Head(toServer).op = "LOGIN"
          /\ server' = "added" /\ name' = Account[Head(toServer).name] /\ UNCHANGED toClient
    /\ toServer' = Tail(toServer)
    /\ UNCHANGED <<clientVars, chat>>

SendOk ==
    /\ server = "added"
    /\ server' = "online" /\ Reply("OK")
    /\ UNCHANGED <<clientVars, name, toServer, chat>>

\* A message of another client: to everybody who is registered.
Broadcast ==
    /\ server \in {"added", "online"} /\ chat < MaxChat
    /\ Reply("MSG") /\ chat' = chat + 1
    /\ UNCHANGED <<clientVars, server, name, toServer>>

\* handle_messages() has no branch for LOGIN and REGISTER: no answer.
Ignore ==
    /\ server = "online" /\ toServer # <<>>
    /\ toServer' = Tail(toServer)
    /\ UNCHANGED <<clientVars, server, name, toClient, chat>>

\* A kick, a timeout, a lost connection or the end of the server.
CloseConnection ==
    /\ server \in {"accepted", "auth", "added", "online"}
    /\ server' = "closed" /\ toServer' = <<>>
    /\ UNCHANGED <<clientVars, name, toClient, chat>>
-----------------------------------------------------------------------------
\* What the client does without its user.
Client ==
    \/ Connect \/ ProbeRefused \/ ProbeSilent \/ Sleep \/ NoAnswer \/ ReadAnswer
    \/ Receive \/ ReceiveNone

Server == Admit \/ Refuse \/ Serve \/ SendOk \/ Ignore

Next ==
    \/ Client \/ Server
    \/ SendRequest \/ TypeLine \/ ConnectFails \/ SendFails \/ Quit \/ Broadcast \/ CloseConnection

Spec == Init /\ [][Next]_vars /\ WF_vars(Client) /\ WF_vars(Server)
-----------------------------------------------------------------------------
ClientTypeOK ==
    /\ pc \in {"connect", "probe", "sleep", "prompt", "await", "input", "exit", "traceback"}
    /\ receiver \in {"off", "on", "done"}
    /\ attempt \in 1..MaxRetries /\ delay \in BaseDelay..MaxDelay
    /\ attempt = 1 => delay = BaseDelay
    /\ connected \in BOOLEAN /\ stop_threads \in BOOLEAN
    /\ asked \in Requests \cup {None}
    /\ nickname \in Spelling \cup {None} /\ name \in Username \cup {None}
    /\ server \in {"none", "accepted", "auth", "added", "online", "closed"}
    /\ toClient \in Seq(ClientLine) /\ toServer \in Seq(Requests)
    /\ chat \in 0..MaxChat

\* The client starts to chat only if the server has logged this connection in: a
\* refusal that comes late, the answer to a REGISTER, a connection that was lost
\* and made again never pass for a login.
LoginGenuine == nickname # None => name # None

\* Client and server agree on who is logged in: the name that main() keeps after a
\* successful LOGIN is a spelling of the account that the server has registered.  (It
\* fails: a broadcast before the OK line makes the client take that OK for the answer
\* to its next LOGIN, which may have another name.)
NicknameAgrees == nickname # None => name = Account[nickname]

\* connect_with_backoff() returns or gives up, whatever the server refuses.
ConnectEnds == pc \in {"connect", "probe", "sleep"} ~> pc \in {"prompt", "exit", "traceback"}

\* A request that the client makes before the server has logged its connection in is
\* answered, or the loss of the connection noticed: no refusal, failed registration or
\* lost connection leaves main() waiting in read_line() for ever.
AnsweredBeforeLogin == (pc = "await" /\ name = None) ~> pc # "await"

\* Every request is answered or the loss of the connection noticed.  (It fails: a client
\* that has read a broadcast in place of its OK asks again, and handle_messages() has
\* no answer to a LOGIN.)
AnswersCome == pc = "await" ~> pc # "await"

\* The loss of the connection reaches write(), which waits in input() and reads
\* nothing from the socket: receive() tells it through the flag.
LossIsNoticed == (pc = "input" /\ server = "closed") ~> (stop_threads \/ pc = "exit")
=============================================================================
