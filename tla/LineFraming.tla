---------------------------- MODULE LineFraming ----------------------------
(***************************************************************************)
(* read_line() of server_side/handlers/client_handler.py (the client has   *)
(* the same function) and the two loops of the server that read with it:   *)
(* the authentication loop of handle_new_connection() and handle_messages()*)
(* which takes over after a successful LOGIN with a buffer of its own.     *)
(*                                                                         *)
(* A byte is a letter, a blank or the newline.  What a line says does not  *)
(* matter here; whether a LOGIN succeeds is a free choice.  The client     *)
(* sends anything; a patient one (the client of this repository is) waits  *)
(* for the answer to each line until it is logged in.                      *)
(***************************************************************************)
EXTENDS Naturals, Sequences, FiniteSets, FiniteSetsExt, SequencesExt

CONSTANTS
    MaxLine,     \* MAX_LINE_LENGTH
    ChunkSize,   \* what one recv() returns at most
    MaxMessage,  \* the longest line handle_messages() accepts
    MaxBytes     \* bound on what the client sends

ASSUME FramingAssumption ==
    /\ MaxLine \in Nat \ {0} /\ ChunkSize \in Nat \ {0}
    /\ MaxMessage \in Nat \ {0} /\ MaxBytes \in Nat \ {0}

Letter == "letter"
Blank == "blank"
Newline == "newline"
Byte == {Letter, Blank, Newline}

VARIABLES
    sent,      \* the bytes the client has sent
    patient,   \* whether it waits for the answers
    closed,    \* whether it has closed the connection
    received,  \* how many of them recv() has returned
    buffer,    \* the buffer of the loop that is reading
    loop,      \* the loop that reads: "auth", then none during "login", "chat", or "over"
    lines,     \* auxiliary: the lines each loop has handled
    start,     \* auxiliary: the number of bytes received before the second loop started
    dropped    \* auxiliary: what was in the first buffer when the second took over

client == <<sent, patient, closed>>
vars   == <<client, received, buffer, loop, lines, start, dropped>>

Init ==
    /\ sent = <<>> /\ patient \in BOOLEAN /\ closed = FALSE
    /\ received = 0 /\ buffer = <<>> /\ loop = "auth"
    /\ lines = [auth |-> <<>>, chat |-> <<>>]
    /\ start = 0 /\ dropped = <<>>
-----------------------------------------------------------------------------
(* The client.                                                             *)

\* A line the server has been sent and has not handled yet.
Unanswered == Newline \in Range(buffer) \cup Range(SubSeq(sent, received + 1, Len(sent)))

Send ==
    /\ ~closed /\ Len(sent) < MaxBytes
    /\ patient /\ loop = "auth" => ~Unanswered
    /\ \E b \in Byte : sent' = Append(sent, b)
    /\ UNCHANGED <<patient, closed, received, buffer, loop, lines, start, dropped>>

CloseClient ==
    /\ ~closed
    /\ closed' = TRUE
    /\ UNCHANGED <<sent, patient, received, buffer, loop, lines, start, dropped>>
-----------------------------------------------------------------------------
(* read_line().                                                            *)

\* Both loops end when read_line() returns None.
Over ==
    /\ loop' = "over"
    /\ UNCHANGED <<client, received, lines, start, dropped>>

\* Mutant: the first loop reads on while the login is being completed.
NeedsMoreDuringLogin == loop # "over" /\ Newline \notin Range(buffer)

NeedsMore == loop \in {"auth", "chat"} /\ Newline \notin Range(buffer)

TooMuch == NeedsMore /\ Len(buffer) > MaxLine /\ Over /\ UNCHANGED buffer

\* Mutant: the length of what has been read so far is not looked at.
RecvUnbounded ==
    /\ NeedsMore
    /\ \E n \in 1..ChunkSize :
          /\ received + n <= Len(sent)
          /\ buffer' = buffer \o SubSeq(sent, received + 1, received + n)
          /\ received' = received + n
    /\ UNCHANGED <<client, loop, lines, start, dropped>>

Recv ==
    /\ NeedsMore /\ Len(buffer) <= MaxLine
    /\ \E n \in 1..ChunkSize :
          /\ received + n <= Len(sent)
          /\ buffer' = buffer \o SubSeq(sent, received + 1, received + n)
          /\ received' = received + n
    /\ UNCHANGED <<client, loop, lines, start, dropped>>

EndOfStream ==
    /\ NeedsMore /\ Len(buffer) <= MaxLine /\ closed /\ received = Len(sent)
    /\ Over /\ UNCHANGED buffer

\* A timeout of the authentication, or a connection reset.
RecvFails == NeedsMore /\ Len(buffer) <= MaxLine /\ Over /\ UNCHANGED buffer

\* buffer.split(b"\n", 1)
Cut == SelectInSeq(buffer, LAMBDA b : b = Newline)
Raw == SubSeq(buffer, 1, Cut - 1)
Rest == SubSeq(buffer, Cut + 1, Len(buffer))

Strip(s) ==
    LET text == {i \in DOMAIN s : s[i] # Blank}
    IN  IF text = {} THEN <<>> ELSE SubSeq(s, Min(text), Max(text))

\* Mutant: a line is seen only when it is the last thing in the buffer.
HasLineAtEnd(l) == loop = l /\ buffer # <<>> /\ Last(buffer) = Newline

HasLine(l) == loop = l /\ Newline \in Range(buffer)

LineTooLong ==
    /\ HasLine("auth") \/ HasLine("chat")
    /\ Len(Raw) > MaxLine
    /\ Over /\ buffer' = Rest

ReturnsLine(l) == HasLine(l) /\ Len(Raw) <= MaxLine
-----------------------------------------------------------------------------
(* The loops.                                                              *)

Handled(l) == lines' = [lines EXCEPT ![l] = Append(@, Strip(Raw))]

\* An empty line ends the authentication, and so does a line from a blocked address.
AuthEnds ==
    /\ ReturnsLine("auth")
    /\ \/ Strip(Raw) = <<>> /\ UNCHANGED lines
       \/ Strip(Raw) # <<>> /\ Handled("auth")
    /\ loop' = "over" /\ buffer' = Rest
    /\ UNCHANGED <<client, received, start, dropped>>

\* A line that is answered and does not log the client in.
AuthLine ==
    /\ ReturnsLine("auth") /\ Strip(Raw) # <<>>
    /\ Handled("auth") /\ buffer' = Rest
    /\ UNCHANGED <<client, received, loop, start, dropped>>

\* A successful LOGIN: the client is registered and gets its OK line.
Login ==
    /\ ReturnsLine("auth") /\ Strip(Raw) # <<>>
    /\ Handled("auth") /\ buffer' = Rest
    /\ loop' = "login"
    /\ UNCHANGED <<client, received, start, dropped>>

\* handle_messages() starts, with buffer = b"".
HandOver ==
    /\ loop = "login"
    /\ loop' = "chat" /\ buffer' = <<>>
    /\ start' = received /\ dropped' = buffer
    /\ UNCHANGED <<client, received, lines>>

\* The client is gone before handle_messages() starts.
LoginFails == loop = "login" /\ Over /\ UNCHANGED buffer

\* Mutant: the rest of the buffer goes with the line.
ChatLineClearsBuffer ==
    /\ ReturnsLine("chat")
    /\ IF Len(Strip(Raw)) > MaxMessage THEN UNCHANGED lines ELSE Handled("chat")
    /\ buffer' = <<>>
    /\ UNCHANGED <<client, received, loop, start, dropped>>

\* A line that is too long for a message is answered with MESSAGE_TOO_LONG.
ChatLine ==
    /\ ReturnsLine("chat")
    /\ IF Len(Strip(Raw)) > MaxMessage THEN UNCHANGED lines ELSE Handled("chat")
    /\ buffer' = Rest
    /\ UNCHANGED <<client, received, loop, start, dropped>>
-----------------------------------------------------------------------------
Server ==
    \/ TooMuch \/ Recv \/ EndOfStream \/ LineTooLong
    \/ AuthEnds \/ AuthLine \/ Login \/ HandOver \/ ChatLine

Next == Send \/ CloseClient \/ Server \/ RecvFails \/ LoginFails

Spec == Init /\ [][Next]_vars /\ WF_vars(Server)
-----------------------------------------------------------------------------
(* The lines of a stream, defined on the stream as a whole.                *)

\* The place in the stream of the first byte of the buffer, less one.
Base == received - Len(buffer)

\* Where in the stream the loop that reads began.
Origin == IF loop = "chat" THEN start ELSE 0

\* The lines of stream s between the places `from' and `upto': each begins at `from'
\* or behind a newline and ends at the next newline.
LinesOf(s, from, upto) ==
    {l \in [begin : from..upto, end : from + 1..upto] :
        /\ l.begin = from \/ s[l.begin] = Newline
        /\ {j \in l.begin + 1..l.end : s[j] = Newline} = {l.end}}

Text(s, l) == SubSeq(s, l.begin + 1, l.end - 1)

\* texts is the list of the lines L of s, stripped, in their order in the stream.
Lists(texts, s, L) ==
    /\ Len(texts) = Cardinality(L)
    /\ \A l \in L : texts[Cardinality({k \in L : k.end <= l.end})] = Strip(Text(s, l))

\* Those of the lines that are not too long for a message.
Messages(s, L) == {l \in L : Len(Strip(Text(s, l))) <= MaxMessage}

\* The lines the loop has taken off the buffer so far.
Taken == LinesOf(sent, Origin, Base)

\* The lines a loop handles are the lines of the bytes it has consumed, wherever
\* recv() cut the stream: none is torn, joined, repeated or left out, one that is
\* too long is never handled and nothing behind it is.
ChunksInvisible ==
    /\ loop \in {"auth", "login"} => Lists(lines.auth, sent, Taken)
    /\ loop = "chat" => Lists(lines.chat, sent, Messages(sent, Taken))
    /\ loop # "over" => \A l \in Taken : Len(Text(sent, l)) <= MaxLine

\* A peer that never sends a newline cannot make the buffer grow: one chunk more
\* than the longest line is the most it holds.
BufferBounded == Len(buffer) <= MaxLine + ChunkSize

\* The change of buffers at the login loses nothing of a client that waits for the
\* answer to its LOGIN: every byte it sent was in a line the first loop handled or
\* reaches the second.  (What an impatient one sent behind the LOGIN line is in
\* `dropped', and the rest of a line of which the beginning was dropped is then
\* read as a line.)
PatientLosesNothing == patient => dropped = <<>>

\* Every line is read in the end, also when several came in one chunk and no byte
\* will follow.
LinesAreRead == <>[](loop = "over" \/ ~Unanswered)
=============================================================================
