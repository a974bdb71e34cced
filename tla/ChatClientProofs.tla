-------------------------- MODULE ChatClientProofs --------------------------
(***************************************************************************)
(* Theorems about ChatClient: its types, that the client believes it is    *)
(* logged in only if the server has logged this connection in, and what it *)
(* takes for them to agree on the name.                                    *)
(***************************************************************************)
EXTENDS ChatClient, TLAPS

\* Between two connections nothing is open at the server's end, and a client that
\* sleeps has an attempt left.
ConnectInv ==
    /\ pc \in {"connect", "sleep"} => server \in {"none", "closed"}
    /\ pc = "sleep" => attempt < MaxRetries
    /\ pc = "await" => asked \in Requests
    /\ server = "none" => name = None

\* Nobody is logged in on this connection: one line at most is on its way to the
\* client, it is the answer to the request the client waits for or a refusal, and
\* while the connection is open the request or its answer is on its way, never both.
Unauthenticated ==
    /\ nickname = None
    /\ server \in {"none", "accepted", "auth", "closed"}
    /\ pc \in {"probe", "prompt", "await"} =>
          /\ Len(toClient) <= 1
          /\ \A i \in 1..Len(toClient) :
                /\ toClient[i] # "OK"
                /\ toClient[i] = "OK_REGISTERED" =>
                      pc = "await" /\ asked.op = "REGISTER"
          /\ server \in {"accepted", "auth"} =>
                /\ pc # "await" => toServer = <<>> /\ toClient = <<>>
                /\ pc = "await" => \/ toServer = <<asked>> /\ toClient = <<>>
                                   \/ toServer = <<>> /\ Len(toClient) = 1
          /\ server = "accepted" => toClient = <<>>

LoginInv ==
    /\ name = None => Unauthenticated
    /\ name # None => server \in {"added", "online", "closed"}
    /\ nickname # None => pc \in {"input", "exit"} /\ name # None

ClientInv == ClientTypeOK /\ ConnectInv /\ LoginInv

\* The order that the server does not keep: no broadcast reaches a client between
\* registry.add() and the OK line.
OkBeforeBroadcasts == server = "added" => chat' = chat

\* The server has logged the connection in and no broadcast was faster than the OK
\* line: the client waits for the answer to that LOGIN, which is the next line.
Authenticated ==
    /\ pc \notin {"probe", "prompt"}
    /\ pc = "await" =>
          /\ asked.op = "LOGIN" /\ Account[asked.name] = name
          /\ server = "added" => toClient = <<>>
          /\ server = "online" => Len(toClient) > 0
          /\ Len(toClient) > 0 => toClient[1] = "OK"

AgreeInv ==
    /\ name # None => Authenticated
    /\ nickname # None => name = Account[nickname]
-----------------------------------------------------------------------------
USE ClientAssumption

LEMMA RequestFacts ==
    /\ None \notin Username /\ None \notin Spelling
    /\ \A r \in Requests : /\ r.name \in Spelling /\ r.op \in {"LOGIN", "REGISTER"}
                           /\ Account[r.name] \in Username
BY DEF Requests, Login, Register

LEMMA InitInv == Init => ClientInv
<1> SUFFICES ASSUME Init PROVE ClientInv
    OBVIOUS
<1>1. ClientTypeOK
    <2>1. toClient \in Seq(ClientLine) /\ toServer \in Seq(Requests)
        BY DEF Init
    <2>2. /\ pc = "connect" /\ receiver = "off" /\ server = "none"
          /\ attempt = 1 /\ delay = BaseDelay /\ chat = 0
          /\ connected = FALSE /\ stop_threads = FALSE
          /\ asked = None /\ nickname = None /\ name = None
        BY DEF Init
    <2>3. attempt \in 1..MaxRetries /\ delay \in BaseDelay..MaxDelay /\ chat \in 0..MaxChat
        BY <2>2
    <2>4. connected \in BOOLEAN /\ stop_threads \in BOOLEAN
        BY <2>2
    <2>5. QED
        BY <2>1, <2>2, <2>3, <2>4 DEF ClientTypeOK
<1>2. ConnectInv /\ LoginInv
    BY DEF Init, ConnectInv, LoginInv, Unauthenticated
<1>3. QED
    BY <1>1, <1>2 DEF ClientInv

\* A line or a request at the end of a queue, and the first one taken off.
LEMMA ToClientAppend ==
    ASSUME ClientTypeOK, NEW line \in ClientLine, toClient' = Append(toClient, line)
    PROVE  /\ toClient' \in Seq(ClientLine)
           /\ Len(toClient) \in Nat /\ Len(toClient') = Len(toClient) + 1
           /\ \A i \in 1..Len(toClient) : toClient'[i] = toClient[i]
           /\ toClient'[Len(toClient) + 1] = line
BY DEF ClientTypeOK

LEMMA ToClientTail ==
    ASSUME ClientTypeOK, toClient # <<>>, toClient' = Tail(toClient)
    PROVE  /\ toClient' \in Seq(ClientLine) /\ Head(toClient) = toClient[1]
           /\ Len(toClient) \in Nat \ {0} /\ Len(toClient') \in Nat /\ Len(toClient) = Len(toClient') + 1
           /\ \A i \in 1..Len(toClient') : toClient'[i] = toClient[i + 1]
BY DEF ClientTypeOK

LEMMA ToServerTail ==
    ASSUME ClientTypeOK, toServer # <<>>, toServer' = Tail(toServer)
    PROVE  /\ toServer' \in Seq(Requests) /\ Head(toServer) \in Requests
           /\ \A r : toServer = <<r>> => toServer' = <<>> /\ Head(toServer) = r
BY DEF ClientTypeOK

LEMMA EmptyLines ==
    ASSUME ClientTypeOK
    PROVE  /\ Len(toClient) \in Nat
           /\ toClient = <<>> <=> Len(toClient) = 0
BY DEF ClientTypeOK

\* connect(), the probe and the pauses between attempts.
LEMMA ConnectKeeps ==
    ASSUME ClientInv, Connect \/ ConnectFails \/ ProbeRefused \/ ProbeSilent \/ Sleep
    PROVE  ClientInv'
<1> USE DEF ClientInv, Goto
<1>1. CASE Connect
    <2>1. toClient' \in Seq(ClientLine) /\ toServer' \in Seq(Requests)
        BY <1>1 DEF Connect
    <2>2. /\ pc' = "probe" /\ server' = "accepted" /\ name' = None /\ chat' = 0
          /\ UNCHANGED <<receiver, attempt, delay, connected, asked, nickname, stop_threads>>
        BY <1>1 DEF Connect
    <2>3. chat' \in 0..MaxChat
        BY <2>2
    <2>4. ClientTypeOK'
        BY <2>1, <2>2, <2>3 DEF ClientTypeOK
    <2>5. ConnectInv' /\ LoginInv'
        BY <1>1 DEF Connect, ConnectInv, LoginInv, Unauthenticated
    <2>6. QED
        BY <2>4, <2>5
<1>2. CASE ConnectFails
    BY <1>2 DEF ConnectFails, serverVars, ClientTypeOK, ConnectInv, LoginInv, Unauthenticated
<1>3. CASE ProbeRefused
    <2>1. ClientTypeOK'
        BY <1>3 DEF ProbeRefused, ClientTypeOK
    <2>2. ConnectInv'
        BY <1>3 DEF ProbeRefused, ClientTypeOK, ConnectInv
    <2>3. LoginInv'
        BY <1>3 DEF ProbeRefused, ConnectInv, LoginInv, Unauthenticated
    <2>4. QED
        BY <2>1, <2>2, <2>3
<1>4. CASE ProbeSilent
    <2>1. ClientTypeOK'
        BY <1>4 DEF ProbeSilent, serverVars, ClientTypeOK
    <2>2. ConnectInv' /\ LoginInv'
        BY <1>4 DEF ProbeSilent, serverVars, ConnectInv, LoginInv, Unauthenticated
    <2>3. QED
        BY <2>1, <2>2
<1>5. CASE Sleep
    <2>1. ClientTypeOK'
        BY <1>5 DEF Sleep, serverVars, ClientTypeOK, ConnectInv
    <2>2. ConnectInv' /\ LoginInv'
        BY <1>5 DEF Sleep, serverVars, ConnectInv, LoginInv, Unauthenticated
    <2>3. QED
        BY <2>1, <2>2
<1>6. QED
    BY <1>1, <1>2, <1>3, <1>4, <1>5

\* The requests, and the loss of the connection in the authentication loop.
LEMMA RequestKeeps ==
    ASSUME ClientInv, SendRequest \/ SendFails \/ NoAnswer
    PROVE  ClientInv'
<1> USE DEF ClientInv
<1>1. CASE SendRequest
    <2>1. PICK r \in Requests : /\ asked' = r
                                /\ toServer' = IF server = "closed" THEN toServer ELSE Append(toServer, r)
        BY <1>1 DEF SendRequest
    <2>2. Append(toServer, r) \in Seq(Requests) /\ Append(<<>>, r) = <<r>>
        BY DEF ClientTypeOK
    <2>3. ClientTypeOK'
        BY <1>1, <2>1, <2>2 DEF SendRequest, ClientTypeOK
    <2>4. ConnectInv'
        BY <1>1, <2>1 DEF SendRequest, ConnectInv
    <2>5. LoginInv'
        BY <1>1, <2>1, <2>2 DEF SendRequest, LoginInv, Unauthenticated
    <2>6. QED
        BY <2>3, <2>4, <2>5
<1>2. CASE SendFails \/ NoAnswer
    <2>1. ClientTypeOK'
        <3>1. /\ toServer' \in {toServer, <<>>} /\ server' \in {server, "closed"}
              /\ UNCHANGED <<name, toClient, chat>>
            BY <1>2 DEF SendFails, NoAnswer, GiveUpOnLongLine, serverVars
        <3>2. toServer' \in Seq(Requests)
            <4>1. <<>> \in Seq(Requests) /\ toServer \in Seq(Requests)
                BY DEF ClientTypeOK
            <4>2. QED
                BY <3>1, <4>1
        <3>3. QED
            BY <1>2, <3>1, <3>2 DEF SendFails, NoAnswer, Reconnect, ClientTypeOK
    <2>2. ConnectInv' /\ LoginInv'
        BY <1>2 DEF SendFails, NoAnswer, GiveUpOnLongLine, Reconnect, serverVars, ConnectInv,
                    LoginInv, Unauthenticated
    <2>3. QED
        BY <2>1, <2>2
<1>3. QED
    BY <1>1, <1>2

\* The line the client takes for the answer to its last request.
LEMMA AnswerKeeps ==
    ASSUME ClientInv, ReadAnswer
    PROVE  ClientInv'
<1> USE DEF ClientInv
<1>1. /\ toClient' \in Seq(ClientLine) /\ Head(toClient) = toClient[1]
      /\ Len(toClient) \in Nat \ {0} /\ Len(toClient') \in Nat /\ Len(toClient) = Len(toClient') + 1
    BY ToClientTail DEF ReadAnswer
<1>2. asked \in Requests /\ asked.name \in Spelling /\ asked.name # None
    BY RequestFacts DEF ReadAnswer, ConnectInv
<1>3. ClientTypeOK'
    BY <1>1, <1>2 DEF ReadAnswer, ClientTypeOK
<1>4. ConnectInv'
    BY DEF ReadAnswer, ConnectInv
<1>5. CASE name = None
    <2>1. Unauthenticated /\ pc = "await"
        BY <1>5 DEF ReadAnswer, LoginInv
    <2>2. /\ Len(toClient) = 1 /\ Len(toClient') = 0 /\ toClient[1] # "OK"
          /\ (toClient[1] = "OK_REGISTERED" => asked.op = "REGISTER")
        BY <1>1, <2>1 DEF Unauthenticated
    <2>3. ~(asked.op = "LOGIN" /\ IsOk(Head(toClient)))
        BY <1>1, <2>2 DEF IsOk
    <2>4. toClient' = <<>> /\ toClient # <<>>
        BY <1>1, <2>2 DEF ReadAnswer
    <2>5. pc' = "prompt" /\ UNCHANGED <<nickname, name, server, toServer>>
        BY <2>3 DEF ReadAnswer
    <2>6. /\ nickname = None /\ server \in {"none", "auth", "closed"}
          /\ (server = "auth" => toServer = <<>>)
        BY <2>1, <2>4 DEF Unauthenticated
    <2>7. Unauthenticated'
        BY <2>4, <2>5, <2>6 DEF Unauthenticated
    <2>8. LoginInv'
        BY <1>5, <2>5, <2>6, <2>7 DEF LoginInv
    <2>9. QED
        BY <1>3, <1>4, <2>8
<1>6. CASE name # None
    BY <1>3, <1>4, <1>6 DEF ReadAnswer, LoginInv
<1>7. QED
    BY <1>5, <1>6

\* receive() and write().
LEMMA ChatKeeps ==
    ASSUME ClientInv, Receive \/ ReceiveNone \/ TypeLine \/ Quit
    PROVE  ClientInv'
<1> USE DEF ClientInv, Goto
<1>1. pc = "input"
    BY DEF Receive, ReceiveNone, TypeLine, Quit
<1>2. CASE Receive
    <2>1. toClient' \in Seq(ClientLine)
        BY <1>2, ToClientTail DEF Receive
    <2>2. ClientTypeOK'
        BY <1>2, <2>1 DEF Receive, clientVars, ClientTypeOK
    <2>3. ConnectInv' /\ LoginInv'
        BY <1>1, <1>2 DEF Receive, clientVars, ConnectInv, LoginInv, Unauthenticated
    <2>4. QED
        BY <2>2, <2>3
<1>3. CASE ReceiveNone \/ TypeLine
    <2>1. ClientTypeOK'
        <3>1. /\ toServer' \in {toServer, <<>>} /\ server' \in {server, "closed"}
              /\ UNCHANGED <<name, toClient, chat>>
            BY <1>3 DEF ReceiveNone, GiveUpOnLongLine, TypeLine, serverVars
        <3>2. toServer' \in Seq(Requests)
            <4>1. <<>> \in Seq(Requests) /\ toServer \in Seq(Requests)
                BY DEF ClientTypeOK
            <4>2. QED
                BY <3>1, <4>1
        <3>3. /\ pc' \in {"input", "exit"} /\ receiver' \in {receiver, "done"}
              /\ stop_threads' \in BOOLEAN
              /\ UNCHANGED <<attempt, delay, connected, asked, nickname>>
            BY <1>1, <1>3 DEF ReceiveNone, TypeLine, ClientTypeOK
        <3>4. QED
            BY <3>1, <3>2, <3>3 DEF ClientTypeOK
    <2>2. ConnectInv' /\ LoginInv'
        BY <1>1, <1>3 DEF ReceiveNone, GiveUpOnLongLine, TypeLine, serverVars, ConnectInv,
                          LoginInv, Unauthenticated
    <2>3. QED
        BY <2>1, <2>2
<1>4. CASE Quit
    <2>1. ClientTypeOK'
        BY <1>4 DEF Quit, ClientTypeOK
    <2>2. ConnectInv' /\ LoginInv'
        BY <1>1, <1>4 DEF Quit, ConnectInv, LoginInv, Unauthenticated
    <2>3. QED
        BY <2>1, <2>2
<1>5. QED
    BY <1>2, <1>3, <1>4

\* The server before and in its authentication loop.
LEMMA AuthKeeps ==
    ASSUME ClientInv, Admit \/ Refuse \/ Serve
    PROVE  ClientInv'
<1> USE DEF ClientInv, clientVars, Reply
<1>1. name = None /\ server \in {"accepted", "auth"} /\ pc \notin {"connect", "sleep"}
    BY DEF Admit, Refuse, Serve, LoginInv, ConnectInv
<1>2. CASE Admit
    <2>1. ClientTypeOK'
        BY <1>2 DEF Admit, ClientTypeOK
    <2>2. ConnectInv' /\ LoginInv'
        BY <1>1, <1>2 DEF Admit, ConnectInv, LoginInv, Unauthenticated
    <2>3. QED
        BY <2>1, <2>2
<1>3. CASE Refuse
    <2>1. /\ toClient' \in Seq(ClientLine) /\ Len(toClient) \in Nat
          /\ Len(toClient') = Len(toClient) + 1 /\ toClient'[Len(toClient) + 1] = "ERR"
        BY <1>3, ToClientAppend DEF Refuse, ClientLine
    <2>2. ClientTypeOK'
        BY <1>3, <2>1 DEF Refuse, ClientTypeOK
    <2>3. ConnectInv'
        BY <1>1, <1>3 DEF Refuse, ConnectInv
    <2>4. nickname = None /\ (pc \in {"probe", "prompt", "await"} => Len(toClient) = 0)
        BY <1>1, <1>3, EmptyLines DEF Refuse, LoginInv, Unauthenticated
    <2>5. UNCHANGED <<pc, name, nickname>> /\ server' = "closed"
        BY <1>3 DEF Refuse
    <2>6. pc \in {"probe", "prompt", "await"} =>
              Len(toClient') <= 1 /\ \A i \in 1..Len(toClient') : toClient'[i] = "ERR"
        BY <2>1, <2>4
    <2>7. Unauthenticated'
        BY <2>4, <2>5, <2>6 DEF Unauthenticated
    <2>8. LoginInv'
        BY <1>1, <2>4, <2>5, <2>7 DEF LoginInv
    <2>9. QED
        BY <2>2, <2>3, <2>8
<1>4. CASE Serve
    <2>1. /\ toServer' \in Seq(Requests) /\ Head(toServer) \in Requests
          /\ Account[Head(toServer).name] \in Username /\ Account[Head(toServer).name] # None
        BY <1>4, ToServerTail, RequestFacts DEF Serve
    <2>2. pc \in {"probe", "prompt", "await"} =>
              /\ pc = "await" /\ toServer' = <<>> /\ Head(toServer) = asked
              /\ toClient = <<>> /\ Len(toClient) = 0
        BY <1>1, <1>4, ToServerTail, EmptyLines DEF Serve, LoginInv, Unauthenticated
    <2>3. CASE UNCHANGED toClient /\ server' = "added" /\ name' = Account[Head(toServer).name]
               /\ Head(toServer).op = "LOGIN"
        <3>1. ClientTypeOK'
            BY <1>4, <2>1, <2>3 DEF Serve, ClientTypeOK
        <3>2. ConnectInv'
            BY <1>1, <1>4, <2>3 DEF Serve, ConnectInv
        <3>3. UNCHANGED <<pc, nickname, asked, toClient>> /\ nickname = None
            BY <1>1, <1>4, <2>3 DEF Serve, LoginInv, Unauthenticated
        <3>4. LoginInv'
            BY <2>1, <2>3, <3>3 DEF LoginInv
        <3>5. QED
            BY <3>1, <3>2, <3>4
    <2>4. ASSUME NEW line \in {"ERR", "OK_REGISTERED"},
                 Reply(line), UNCHANGED name, server' \in {"auth", "closed"},
                 line = "OK_REGISTERED" => Head(toServer).op = "REGISTER"
          PROVE  ClientInv'
        <3>1. /\ toClient' \in Seq(ClientLine) /\ Len(toClient) \in Nat
              /\ Len(toClient') = Len(toClient) + 1 /\ toClient'[Len(toClient) + 1] = line
            BY <2>4, ToClientAppend DEF ClientLine
        <3>2. UNCHANGED <<clientVars, chat>> /\ nickname = None
            BY <1>1, <1>4 DEF Serve, LoginInv, Unauthenticated
        <3>3. ClientTypeOK'
            BY <2>1, <2>4, <3>1, <3>2 DEF ClientTypeOK
        <3>4. ConnectInv'
            BY <1>1, <2>4, <3>2 DEF ConnectInv
        <3>5. pc \in {"probe", "prompt", "await"} =>
                  Len(toClient') = 1 /\ \A i \in 1..Len(toClient') : toClient'[i] = line
            BY <2>2, <3>1
        <3>6. Unauthenticated'
            BY <2>2, <2>4, <3>2, <3>5 DEF Unauthenticated
        <3>7. LoginInv'
            BY <1>1, <2>4, <3>2, <3>6 DEF LoginInv
        <3>8. QED
            BY <3>3, <3>4, <3>7
    <2>5. QED
        BY <1>1, <1>4, <2>3, <2>4 DEF Serve
<1>5. QED
    BY <1>2, <1>3, <1>4

\* The server after registry.add(), and the end of the connection.
LEMMA OnlineKeeps ==
    ASSUME ClientInv, SendOk \/ Broadcast \/ Ignore \/ CloseConnection
    PROVE  ClientInv'
<1> USE DEF ClientInv, clientVars, Reply
<1>1. CASE SendOk
    <2>1. /\ toClient' \in Seq(ClientLine) /\ Len(toClient) \in Nat
          /\ Len(toClient') = Len(toClient) + 1 /\ toClient'[Len(toClient) + 1] = "OK"
        BY <1>1, ToClientAppend DEF SendOk, ClientLine
    <2>2. ClientTypeOK'
        BY <1>1, <2>1 DEF SendOk, ClientTypeOK
    <2>3. name # None /\ (toClient = <<>> => Len(toClient) = 0)
        BY <1>1, EmptyLines DEF SendOk, LoginInv, Unauthenticated
    <2>4. ConnectInv' /\ LoginInv'
        BY <1>1, <2>1, <2>3 DEF SendOk, ConnectInv, LoginInv
    <2>5. QED
        BY <2>2, <2>4
<1>2. CASE Broadcast
    <2>1. /\ toClient' \in Seq(ClientLine) /\ Len(toClient) \in Nat
          /\ Len(toClient') = Len(toClient) + 1
          /\ \A i \in 1..Len(toClient) : toClient'[i] = toClient[i]
        BY <1>2, ToClientAppend DEF Broadcast, ClientLine
    <2>2. ClientTypeOK'
        BY <1>2, <2>1 DEF Broadcast, ClientTypeOK
    <2>3. name # None
        BY <1>2 DEF Broadcast, LoginInv, Unauthenticated
    <2>4. ConnectInv'
        BY <1>2 DEF Broadcast, ConnectInv
    <2>5. UNCHANGED <<pc, asked, nickname, name, server>>
        BY <1>2 DEF Broadcast
    <2>6. LoginInv'
        BY <1>2, <2>3, <2>5 DEF LoginInv
    <2>7. QED
        BY <2>2, <2>4, <2>6
<1>3. CASE Ignore
    <2>1. ClientTypeOK'
        BY <1>3, ToServerTail DEF Ignore, ClientTypeOK
    <2>2. ConnectInv' /\ LoginInv'
        BY <1>3 DEF Ignore, ConnectInv, LoginInv, Unauthenticated
    <2>3. QED
        BY <2>1, <2>2
<1>4. CASE CloseConnection
    <2>1. ClientTypeOK'
        BY <1>4 DEF CloseConnection, ClientTypeOK
    <2>2. ConnectInv' /\ LoginInv'
        BY <1>4 DEF CloseConnection, ConnectInv, LoginInv, Unauthenticated
    <2>3. QED
        BY <2>1, <2>2
<1>5. QED
    BY <1>1, <1>2, <1>3, <1>4
-----------------------------------------------------------------------------
\* The inductive invariant: where the request, its answer and the login are, on
\* both ends of the connection, in every order of requests, refusals, broadcasts,
\* losses and reconnections.
THEOREM ClientInvariant == Spec => []ClientInv
<1>1. ClientInv /\ [Next]_vars => ClientInv'
    <2> SUFFICES ASSUME ClientInv, [Next]_vars PROVE ClientInv'
        OBVIOUS
    <2>1. CASE Next
        BY <2>1, ConnectKeeps, RequestKeeps, AnswerKeeps, ChatKeeps, AuthKeeps, OnlineKeeps
        DEF Next, Client, Server
    <2>2. CASE UNCHANGED vars
        <3>1. ClientTypeOK'
            BY <2>2 DEF vars, clientVars, serverVars, ClientInv, ClientTypeOK
        <3>2. ConnectInv' /\ LoginInv'
            BY <2>2 DEF vars, clientVars, serverVars, ClientInv, ConnectInv, LoginInv, Unauthenticated
        <3>3. QED
            BY <3>1, <3>2 DEF ClientInv
    <2>3. QED
        BY <2>1, <2>2
<1>2. QED
    BY <1>1, InitInv, PTL DEF Spec

\* The types of the client's state hold: the attempts of connect_with_backoff() stay
\* within max_retries, its delay between base_delay and the cap, and both start again
\* with every reconnection.
THEOREM ClientTypeCorrect == Spec => []ClientTypeOK
BY ClientInvariant, PTL DEF ClientInv

\* main() leaves its authentication loop only on a connection that the server has
\* logged in, whatever was refused, lost or answered before.
THEOREM LoginIsGenuine == Spec => []LoginGenuine
<1>1. ClientInv => LoginGenuine
    BY DEF ClientInv, LoginInv, LoginGenuine
<1>2. QED
    BY <1>1, ClientInvariant, PTL

-----------------------------------------------------------------------------
(* Who is logged in.  NicknameAgrees fails because a broadcast may come    *)
(* between registry.add() and the OK line; nothing else brings client and  *)
(* server apart.                                                           *)

\* The steps of the client.
LEMMA ClientAgrees ==
    ASSUME ClientInv, ClientInv', AgreeInv, OkBeforeBroadcasts,
           Client \/ SendRequest \/ TypeLine \/ ConnectFails \/ SendFails \/ Quit
    PROVE  AgreeInv'
<1> USE DEF AgreeInv, Goto
<1>1. CASE Connect
    BY <1>1 DEF Connect, ClientInv, ConnectInv, LoginInv
<1>2. CASE ProbeRefused \/ ProbeSilent \/ Sleep \/ ConnectFails
    BY <1>2 DEF ProbeRefused, ProbeSilent, Sleep, ConnectFails, serverVars, Authenticated
<1>3. CASE SendRequest
    BY <1>3 DEF SendRequest, Authenticated
<1>4. CASE SendFails \/ NoAnswer
    BY <1>4 DEF SendFails, NoAnswer, GiveUpOnLongLine, Reconnect, serverVars, Authenticated
<1>5. CASE ReadAnswer
    <2>1. UNCHANGED name /\ pc = "await" /\ nickname = None
        BY <1>5 DEF ReadAnswer, ClientInv, LoginInv
    <2>2. CASE name = None
        BY <2>1, <2>2 DEF ClientInv, LoginInv
    <2>3. CASE name # None
        <3>1. Head(toClient) = toClient[1] /\ Len(toClient) > 0
            BY <1>5, ToClientTail DEF ReadAnswer, ClientInv
        <3>2. asked.op = "LOGIN" /\ IsOk(Head(toClient)) /\ Account[asked.name] = name
            BY <2>1, <2>3, <3>1 DEF Authenticated, IsOk
        <3>3. QED
            BY <1>5, <2>1, <3>2 DEF ReadAnswer, Authenticated
    <2>4. QED
        BY <2>2, <2>3
<1>6. CASE Receive \/ ReceiveNone \/ TypeLine \/ Quit
    BY <1>6 DEF Receive, ReceiveNone, GiveUpOnLongLine, TypeLine, Quit, clientVars, serverVars,
                Authenticated
<1>7. QED
    BY <1>1, <1>2, <1>3, <1>4, <1>5, <1>6 DEF Client

\* The steps of the server.
LEMMA ServerAgrees ==
    ASSUME ClientInv, ClientInv', AgreeInv, OkBeforeBroadcasts,
           Server \/ Broadcast \/ CloseConnection
    PROVE  AgreeInv'
<1> USE DEF AgreeInv, clientVars, Reply
<1>1. CASE Admit \/ Refuse
    BY <1>1 DEF Admit, Refuse, ClientInv, LoginInv
<1>2. CASE Serve
    <2>1. name = None /\ nickname = None /\ Unauthenticated /\ server = "auth" /\ toServer # <<>>
        BY <1>2 DEF Serve, ClientInv, LoginInv, Unauthenticated
    <2>2. pc \in {"probe", "prompt", "await"} =>
              /\ pc = "await" /\ Head(toServer) = asked /\ toClient = <<>> /\ Len(toClient) = 0
        BY <1>2, <2>1, ToServerTail, EmptyLines DEF Serve, ClientInv, Unauthenticated
    <2>3. CASE UNCHANGED name
        BY <1>2, <2>1, <2>3 DEF Serve
    <2>4. CASE UNCHANGED toClient /\ server' = "added" /\ name' = Account[Head(toServer).name]
               /\ Head(toServer).op = "LOGIN"
        <3>1. UNCHANGED <<pc, asked, nickname>>
            BY <1>2 DEF Serve
        <3>2. Authenticated'
            BY <2>2, <2>4, <3>1 DEF Authenticated
        <3>3. QED
            BY <2>1, <3>1, <3>2
    <2>5. QED
        BY <1>2, <2>3, <2>4 DEF Serve
<1>3. CASE SendOk
    <2>1. /\ Len(toClient) \in Nat /\ Len(toClient') = Len(toClient) + 1
          /\ toClient'[Len(toClient) + 1] = "OK"
        BY <1>3, ToClientAppend DEF SendOk, ClientInv, ClientLine
    <2>2. toClient = <<>> => Len(toClient) = 0
        BY EmptyLines DEF ClientInv
    <2>3. UNCHANGED <<pc, asked, nickname, name>> /\ server = "added" /\ server' = "online"
        BY <1>3 DEF SendOk
    <2>4. Authenticated => Authenticated'
        BY <2>1, <2>2, <2>3 DEF Authenticated
    <2>5. QED
        BY <2>3, <2>4
<1>4. CASE Broadcast
    <2>1. /\ Len(toClient) \in Nat /\ Len(toClient') = Len(toClient) + 1
          /\ \A i \in 1..Len(toClient) : toClient'[i] = toClient[i]
        BY <1>4, ToClientAppend DEF Broadcast, ClientInv, ClientLine
    <2>2. chat \in Nat /\ chat' = chat + 1
        BY <1>4 DEF Broadcast, ClientInv, ClientTypeOK
    <2>3. server = "online" /\ UNCHANGED <<pc, asked, nickname, name, server>>
        BY <1>4, <2>2 DEF Broadcast, OkBeforeBroadcasts
    <2>4. Authenticated => Authenticated'
        BY <2>1, <2>3 DEF Authenticated
    <2>5. QED
        BY <2>3, <2>4
<1>5. CASE Ignore \/ CloseConnection
    BY <1>5 DEF Ignore, CloseConnection, Authenticated
<1>6. QED
    BY <1>1, <1>2, <1>3, <1>4, <1>5 DEF Server

\* In every behaviour in which no broadcast comes between registry.add() and the OK
\* line, the name that main() keeps is a spelling of the account that the server has
\* logged in, whatever was refused, registered, lost and tried again before.  The
\* order of these two calls in server.py is all that stands between the code and
\* NicknameAgrees.
THEOREM AgreeUnlessOvertaken == Spec /\ [][OkBeforeBroadcasts]_vars => []NicknameAgrees
<1>1. Init => AgreeInv
    BY DEF Init, AgreeInv
<1>2. ClientInv /\ ClientInv' /\ AgreeInv /\ [Next]_vars /\ [OkBeforeBroadcasts]_vars => AgreeInv'
    <2> SUFFICES ASSUME ClientInv, ClientInv', AgreeInv, [Next]_vars, [OkBeforeBroadcasts]_vars
                 PROVE  AgreeInv'
        OBVIOUS
    <2>1. CASE UNCHANGED vars
        BY <2>1 DEF vars, clientVars, serverVars, AgreeInv, Authenticated
    <2>2. CASE Next /\ OkBeforeBroadcasts
        BY <2>2, ClientAgrees, ServerAgrees DEF Next
    <2>3. QED
        BY <2>1, <2>2
<1>3. AgreeInv => NicknameAgrees
    BY DEF AgreeInv, NicknameAgrees
<1>4. QED
    BY <1>1, <1>2, <1>3, ClientInvariant, PTL DEF Spec
=============================================================================
