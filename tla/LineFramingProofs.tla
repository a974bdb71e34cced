------------------------- MODULE LineFramingProofs -------------------------
(***************************************************************************)
(* Theorems about LineFraming: the buffer of read_line() is a window of the*)
(* stream and bounded, the change of buffers at the login loses nothing of *)
(* a client that waits for its answer, and the lines the loops handle are  *)
(* those of the stream, one after the other and all together.              *)
(***************************************************************************)
EXTENDS LineFraming, SequenceTheorems, FiniteSetTheorems, WellFoundedInduction, TLAPS

FramingTypeOK ==
    /\ sent \in Seq(Byte) /\ buffer \in Seq(Byte) /\ received \in 0..Len(sent)
    /\ patient \in BOOLEAN
    /\ loop \in {"auth", "login", "chat", "over"}

\* The buffer holds the last bytes that were received, in their order: what read_line()
\* cuts off are always the next bytes of the stream.
BufferIsWindow ==
    /\ Len(buffer) <= received
    /\ \A j \in 1..Len(buffer) : buffer[j] = sent[Base + j]

\* Of the bytes a patient client has sent and the first loop has not handled, only the
\* last can end a line: there is nothing behind it that could be left in the buffer.
PatientInv ==
    patient =>
        /\ loop = "auth" => \A i \in Base + 1..Len(sent) : sent[i] = Newline => i = Len(sent)
        /\ loop = "login" => buffer = <<>>

FramingInv ==
    FramingTypeOK /\ BufferIsWindow /\ BufferBounded /\ PatientInv /\ PatientLosesNothing
-----------------------------------------------------------------------------
USE FramingAssumption

(* buffer.split(b"\n", 1)                                                  *)

LEMMA MinIsLeast ==
    ASSUME NEW I, I \subseteq Nat, I # {}
    PROVE  Min(I) \in I /\ \A i \in I : Min(I) <= i
<1>1. PICK x \in I : \A y \in I : ~(<<y, x>> \in OpToRel(<, Nat))
    BY NatLessThanWellFounded, WFMin
<1>2. \A y \in I : x <= y
    <2> SUFFICES ASSUME NEW y \in I PROVE x <= y
        OBVIOUS
    <2>1. ~(y < x)
        BY <1>1 DEF OpToRel
    <2>2. QED
        BY <2>1
<1>3. QED
    BY <1>2 DEF Min

\* The cut is at the first newline.
LEMMA CutFacts ==
    ASSUME FramingTypeOK, Newline \in Range(buffer)
    PROVE  /\ Cut \in 1..Len(buffer) /\ buffer[Cut] = Newline
           /\ \A i \in 1..Cut - 1 : buffer[i] # Newline
<1> DEFINE I == {i \in 1..Len(buffer) : buffer[i] = Newline}
<1>1. buffer \in Seq(Byte) /\ Len(buffer) \in Nat /\ DOMAIN buffer = 1..Len(buffer)
    BY DEF FramingTypeOK
<1>2. I # {} /\ I \subseteq Nat
    BY <1>1 DEF Range
<1>3. Cut = Min(I)
    BY <1>2 DEF Cut, SelectInSeq
<1>4. Cut \in I /\ \A i \in I : Cut <= i
    BY <1>2, <1>3, MinIsLeast
<1>5. QED
    BY <1>1, <1>4

LEMMA RestFacts ==
    ASSUME FramingTypeOK, Newline \in Range(buffer)
    PROVE  /\ Rest \in Seq(Byte) /\ Len(Rest) = Len(buffer) - Cut
           /\ \A j \in 1..Len(Rest) : Rest[j] = buffer[Cut + j]
<1>1. buffer \in Seq(Byte) /\ Len(buffer) \in Nat
    BY DEF FramingTypeOK
<1>2. Cut \in 1..Len(buffer)
    BY CutFacts
<1>3. \A i \in Cut + 1..Len(buffer) : buffer[i] \in Byte
    BY <1>1, <1>2, ElementOfSeq
<1>4. /\ Rest \in Seq(Byte)
      /\ Len(Rest) = IF Cut + 1 <= Len(buffer) THEN Len(buffer) - (Cut + 1) + 1 ELSE 0
      /\ \A j \in 1..Len(buffer) - (Cut + 1) + 1 : Rest[j] = buffer[Cut + 1 + j - 1]
    BY <1>1, <1>2, <1>3, SubSeqProperties DEF Rest
<1>5. QED
    BY <1>1, <1>2, <1>4
-----------------------------------------------------------------------------
(* What the steps do to the buffer.                                        *)

LEMMA InitInv == Init => FramingInv
BY DEF Init, FramingInv, FramingTypeOK, BufferIsWindow, BufferBounded, PatientInv,
       PatientLosesNothing, Base

\* Taking a line off the buffer moves the window on; of a patient client nothing stays.
LEMMA TakeLine ==
    ASSUME FramingInv, Newline \in Range(buffer), buffer' = Rest, UNCHANGED <<sent, patient, received>>
    PROVE  /\ buffer' \in Seq(Byte) /\ BufferIsWindow' /\ BufferBounded'
           /\ patient /\ loop = "auth" => buffer' = <<>> /\ received = Len(sent)
<1>1. /\ FramingTypeOK /\ buffer \in Seq(Byte) /\ Len(buffer) \in Nat /\ received \in Nat
      /\ sent \in Seq(Byte) /\ Len(sent) \in Nat /\ received <= Len(sent)
    BY DEF FramingInv, FramingTypeOK
<1>2. Cut \in 1..Len(buffer) /\ buffer[Cut] = Newline
    BY <1>1, CutFacts
<1>3. /\ Rest \in Seq(Byte) /\ Len(Rest) = Len(buffer) - Cut
      /\ \A j \in 1..Len(Rest) : Rest[j] = buffer[Cut + j]
    BY <1>1, RestFacts
<1>4. Len(buffer) <= received /\ \A j \in 1..Len(buffer) : buffer[j] = sent[Base + j]
    BY DEF FramingInv, BufferIsWindow
<1>5. BufferIsWindow'
    <2>1. Base' = Base + Cut
        BY <1>1, <1>2, <1>3 DEF Base
    <2>2. Len(Rest) <= received
        BY <1>1, <1>2, <1>3, <1>4
    <2>3. ASSUME NEW j \in 1..Len(Rest) PROVE Rest[j] = sent[Base + Cut + j]
        <3>1. Cut + j \in 1..Len(buffer)
            BY <1>1, <1>2, <1>3
        <3>2. buffer[Cut + j] = sent[Base + (Cut + j)] /\ Rest[j] = buffer[Cut + j]
            BY <1>3, <1>4, <3>1
        <3>3. Base + (Cut + j) = Base + Cut + j
            BY <1>1, <1>2 DEF Base
        <3>4. QED
            BY <3>2, <3>3
    <2>4. QED
        BY <2>1, <2>2, <2>3 DEF BufferIsWindow
<1>6. BufferBounded'
    BY <1>1, <1>2, <1>3 DEF FramingInv, BufferBounded
<1>7. ASSUME patient, loop = "auth" PROVE buffer' = <<>> /\ received = Len(sent)
    <2>1. Base + Cut \in Base + 1..Len(sent) /\ sent[Base + Cut] = Newline
        BY <1>1, <1>2, <1>4 DEF Base
    <2>2. Base + Cut = Len(sent)
        BY <1>7, <2>1 DEF FramingInv, PatientInv
    <2>3. received = Len(sent) /\ Cut = Len(buffer)
        BY <1>1, <1>2, <2>2 DEF Base
    <2>4. QED
        BY <1>1, <1>3, <2>3, EmptySeq
<1>8. QED
    BY <1>3, <1>5, <1>6, <1>7

LEMMA RecvFacts ==
    ASSUME FramingInv, Recv
    PROVE  /\ buffer' \in Seq(Byte) /\ received' \in 0..Len(sent)
           /\ BufferIsWindow' /\ BufferBounded' /\ Base' = Base
           /\ loop # "login" /\ UNCHANGED <<client, loop, lines, start, dropped>>
<1>1. /\ buffer \in Seq(Byte) /\ Len(buffer) \in Nat /\ received \in Nat
      /\ sent \in Seq(Byte) /\ Len(sent) \in Nat /\ received <= Len(sent)
    BY DEF FramingInv, FramingTypeOK
<1>2. PICK n \in 1..ChunkSize : /\ received + n <= Len(sent) /\ received' = received + n
                                /\ buffer' = buffer \o SubSeq(sent, received + 1, received + n)
    BY DEF Recv
<1>3. Len(buffer) <= MaxLine /\ loop # "login" /\ UNCHANGED <<client, loop, lines, start, dropped>>
    BY DEF Recv, NeedsMore
<1> DEFINE c == SubSeq(sent, received + 1, received + n)
<1>4. n \in Nat /\ 1 <= n /\ n <= ChunkSize
    BY <1>2
<1>5. c \in Seq(Byte) /\ Len(c) = n /\ \A i \in 1..n : c[i] = sent[received + i]
    <2>1. \A i \in received + 1..received + n : sent[i] \in Byte
        BY <1>1, <1>2, <1>4, ElementOfSeq
    <2>2. /\ c \in Seq(Byte)
          /\ Len(c) = IF received + 1 <= received + n THEN (received + n) - (received + 1) + 1 ELSE 0
          /\ \A i \in 1..(received + n) - (received + 1) + 1 : c[i] = sent[received + 1 + i - 1]
        BY <1>1, <1>4, <2>1, SubSeqProperties
    <2>3. QED
        BY <1>1, <1>4, <2>2
<1> HIDE DEF c
<1>6. /\ buffer' \in Seq(Byte) /\ Len(buffer') = Len(buffer) + n
      /\ \A j \in 1..Len(buffer) + n : buffer'[j] = IF j <= Len(buffer) THEN buffer[j] ELSE c[j - Len(buffer)]
    <2>1. /\ buffer \o c \in Seq(Byte) /\ Len(buffer \o c) = Len(buffer) + Len(c)
          /\ \A j \in 1..Len(buffer) + Len(c) :
                (buffer \o c)[j] = IF j <= Len(buffer) THEN buffer[j] ELSE c[j - Len(buffer)]
        BY <1>1, <1>5, ConcatProperties
    <2>2. buffer' = buffer \o c
        BY <1>2 DEF c
    <2>3. QED
        BY <1>5, <2>1, <2>2
<1>7. Base' = Base /\ received' \in 0..Len(sent)
    BY <1>1, <1>2, <1>4, <1>6 DEF Base
<1>8. BufferIsWindow'
    <2>1. Len(buffer) <= received /\ \A j \in 1..Len(buffer) : buffer[j] = sent[Base + j]
        BY DEF FramingInv, BufferIsWindow
    <2>2. ASSUME NEW j \in 1..Len(buffer) + n PROVE buffer'[j] = sent[Base + j]
        <3>1. CASE j <= Len(buffer)
            BY <1>1, <1>6, <2>1, <3>1
        <3>2. CASE j > Len(buffer)
            <4>1. j - Len(buffer) \in 1..n /\ received + (j - Len(buffer)) = Base + j
                BY <1>1, <1>4, <3>2 DEF Base
            <4>2. buffer'[j] = c[j - Len(buffer)]
                BY <1>1, <1>6, <3>2
            <4>3. c[j - Len(buffer)] = sent[received + (j - Len(buffer))]
                BY <1>5, <4>1
            <4>4. QED
                BY <4>1, <4>2, <4>3
        <3>3. QED
            BY <1>1, <3>1, <3>2
    <2>3. Len(buffer') <= received' /\ UNCHANGED sent
        BY <1>1, <1>2, <1>3, <1>4, <1>6, <2>1 DEF client
    <2>4. QED
        BY <1>6, <1>7, <2>2, <2>3 DEF BufferIsWindow
<1>9. BufferBounded'
    BY <1>1, <1>3, <1>4, <1>6 DEF BufferBounded
<1>10. QED
    BY <1>3, <1>6, <1>7, <1>8, <1>9

\* A byte more in the stream leaves the window where it is; a patient client sends it
\* only when no line of its is under way.
LEMMA SendFacts ==
    ASSUME FramingInv, Send
    PROVE  FramingInv'
<1>1. /\ buffer \in Seq(Byte) /\ Len(buffer) \in Nat /\ received \in Nat
      /\ sent \in Seq(Byte) /\ Len(sent) \in Nat /\ received <= Len(sent) /\ Len(buffer) <= received
      /\ FramingTypeOK
    BY DEF FramingInv, FramingTypeOK, BufferIsWindow
<1>2. PICK b \in Byte : sent' = Append(sent, b)
    BY DEF Send
<1>3. UNCHANGED <<patient, received, buffer, loop, dropped>>
    BY DEF Send
<1>4. /\ sent' \in Seq(Byte) /\ Len(sent') = Len(sent) + 1
      /\ \A i \in 1..Len(sent) : sent'[i] = sent[i]
    BY <1>1, <1>2, AppendProperties
<1>5. FramingTypeOK'
    BY <1>1, <1>3, <1>4 DEF FramingTypeOK
<1>6. BufferIsWindow'
    <2>1. Base' = Base
        BY <1>3 DEF Base
    <2>2. ASSUME NEW j \in 1..Len(buffer) PROVE buffer[j] = sent'[Base + j]
        <3>1. Base + j \in 1..Len(sent)
            BY <1>1 DEF Base
        <3>2. QED
            BY <1>4, <3>1 DEF FramingInv, BufferIsWindow
    <2>3. QED
        BY <1>1, <1>3, <2>1, <2>2 DEF BufferIsWindow
<1>7. PatientInv'
    <2> SUFFICES ASSUME patient PROVE /\ loop = "login" => buffer = <<>>
                                      /\ (loop = "auth" => \A i \in Base + 1..Len(sent) + 1 :
                                             sent'[i] = Newline => i = Len(sent) + 1)
        <3>1. Base' = Base
            BY <1>3 DEF Base
        <3>2. QED
            BY <1>3, <1>4, <3>1 DEF PatientInv
    <2>1. loop = "login" => buffer = <<>>
        BY DEF FramingInv, PatientInv
    <2>2. ASSUME loop = "auth", NEW i \in Base + 1..Len(sent) + 1, i # Len(sent) + 1
          PROVE  sent'[i] # Newline
        <3>1. i \in Base + 1..Len(sent) /\ Base \in Nat /\ i \in 1..Len(sent)
            BY <1>1, <2>2 DEF Base
        <3>2. Newline \notin Range(buffer) /\ Newline \notin Range(SubSeq(sent, received + 1, Len(sent)))
            BY <2>2 DEF Send, Unanswered
        <3>3. CASE i <= received
            <4>1. i - Base \in 1..Len(buffer)
                BY <1>1, <3>1, <3>3 DEF Base
            <4>2. buffer[i - Base] = sent[Base + (i - Base)] /\ Base + (i - Base) = i
                BY <1>1, <3>1, <4>1 DEF FramingInv, BufferIsWindow
            <4>3. buffer[i - Base] # Newline
                BY <1>1, <3>2, <4>1 DEF Range
            <4>4. QED
                BY <1>4, <3>1, <4>2, <4>3
        <3>4. CASE i > received
            <4> DEFINE r == SubSeq(sent, received + 1, Len(sent))
            <4>1. \A k \in received + 1..Len(sent) : sent[k] \in Byte
                BY <1>1, ElementOfSeq
            <4>2. /\ r \in Seq(Byte)
                  /\ Len(r) = IF received + 1 <= Len(sent) THEN Len(sent) - (received + 1) + 1 ELSE 0
                  /\ \A k \in 1..Len(sent) - (received + 1) + 1 : r[k] = sent[received + 1 + k - 1]
                BY <1>1, <4>1, SubSeqProperties
            <4> HIDE DEF r
            <4>3. i - received \in 1..Len(r) /\ i - received \in 1..Len(sent) - (received + 1) + 1
                  /\ received + 1 + (i - received) - 1 = i
                BY <1>1, <3>1, <3>4, <4>2
            <4>4. r[i - received] = sent[i]
                BY <4>2, <4>3
            <4>5. r[i - received] # Newline
                BY <3>2, <4>2, <4>3 DEF Range, r
            <4>6. QED
                BY <1>4, <3>1, <4>4, <4>5
        <3>5. QED
            BY <1>1, <3>1, <3>3, <3>4
    <2>3. QED
        BY <2>1, <2>2
<1>8. QED
    BY <1>3, <1>5, <1>6, <1>7 DEF FramingInv, BufferBounded, PatientLosesNothing

\* The end of the connection: the invariant asks nothing more of a patient client.
LEMMA OverFacts ==
    ASSUME FramingInv, loop' = "over", UNCHANGED <<sent, patient, received, dropped>>,
           UNCHANGED buffer \/ (Newline \in Range(buffer) /\ buffer' = Rest)
    PROVE  FramingInv'
<1>1. buffer' \in Seq(Byte) /\ BufferIsWindow' /\ BufferBounded'
    <2>1. CASE UNCHANGED buffer
        BY <2>1 DEF FramingInv, FramingTypeOK, BufferIsWindow, BufferBounded, Base
    <2>2. CASE Newline \in Range(buffer) /\ buffer' = Rest
        BY <2>2, TakeLine
    <2>3. QED
        BY <2>1, <2>2
<1>2. FramingTypeOK' /\ PatientInv' /\ PatientLosesNothing'
    BY <1>1 DEF FramingInv, FramingTypeOK, PatientInv, PatientLosesNothing
<1>3. QED
    BY <1>1, <1>2 DEF FramingInv

LEMMA InvStep == FramingInv /\ [Next]_vars => FramingInv'
<1> SUFFICES ASSUME FramingInv, [Next]_vars PROVE FramingInv'
    OBVIOUS
<1>0. FramingTypeOK
    BY DEF FramingInv
<1>1. CASE Send
    BY <1>1, SendFacts
<1>2. CASE CloseClient \/ UNCHANGED vars
    <2>1. UNCHANGED <<sent, patient, received, buffer, loop, dropped>>
        BY <1>2 DEF CloseClient, vars, client
    <2>2. QED
        BY <2>1 DEF FramingInv, FramingTypeOK, BufferIsWindow, BufferBounded, PatientInv,
                    PatientLosesNothing, Base
<1>3. CASE TooMuch \/ EndOfStream \/ RecvFails \/ LoginFails
    BY <1>3, OverFacts DEF TooMuch, EndOfStream, RecvFails, LoginFails, Over, client
<1>4. CASE LineTooLong
    BY <1>4, OverFacts DEF LineTooLong, Over, HasLine, client
<1>5. CASE AuthEnds
    BY <1>5, OverFacts DEF AuthEnds, ReturnsLine, HasLine, client
<1>6. CASE Recv
    <2>1. /\ buffer' \in Seq(Byte) /\ received' \in 0..Len(sent)
          /\ BufferIsWindow' /\ BufferBounded' /\ Base' = Base
          /\ loop # "login" /\ UNCHANGED <<sent, patient, loop, dropped>>
        BY <1>6, RecvFacts DEF client
    <2>2. FramingTypeOK'
        BY <1>0, <2>1 DEF FramingTypeOK
    <2>3. PatientInv' /\ PatientLosesNothing'
        BY <2>1 DEF FramingInv, PatientInv, PatientLosesNothing
    <2>4. QED
        BY <2>1, <2>2, <2>3 DEF FramingInv
<1>7. CASE AuthLine \/ Login \/ ChatLine
    <2>1. /\ Newline \in Range(buffer) /\ buffer' = Rest /\ UNCHANGED <<sent, patient, received, dropped>>
          /\ \/ loop = "auth" /\ loop' \in {"auth", "login"}
             \/ loop = "chat" /\ loop' = "chat"
        BY <1>7 DEF AuthLine, Login, ChatLine, ReturnsLine, HasLine, client
    <2>2. /\ buffer' \in Seq(Byte) /\ BufferIsWindow' /\ BufferBounded'
          /\ (patient /\ loop = "auth" => buffer' = <<>> /\ received = Len(sent))
        BY <2>1, TakeLine
    <2>3. FramingTypeOK'
        BY <1>0, <2>1, <2>2 DEF FramingTypeOK
    <2>4. PatientInv'
        <3>1. CASE loop = "chat"
            BY <2>1, <3>1 DEF PatientInv
        <3>2. CASE loop = "auth" /\ patient
            <4>1. buffer' = <<>> /\ Base' = Len(sent) /\ Len(sent) \in Nat /\ UNCHANGED sent
                BY <1>0, <2>1, <2>2, <3>2 DEF Base, FramingTypeOK
            <4>2. QED
                BY <4>1 DEF PatientInv
        <3>3. CASE ~patient
            BY <2>1, <3>3 DEF PatientInv
        <3>4. QED
            BY <2>1, <3>1, <3>2, <3>3
    <2>5. QED
        BY <2>1, <2>2, <2>3, <2>4 DEF FramingInv, PatientLosesNothing
<1>8. CASE HandOver
    <2>1. /\ loop = "login" /\ loop' = "chat" /\ buffer' = <<>> /\ dropped' = buffer
          /\ UNCHANGED <<sent, patient, received>>
        BY <1>8 DEF HandOver, client
    <2>2. buffer' \in Seq(Byte) /\ Len(buffer') = 0
        BY <2>1
    <2>3. FramingTypeOK'
        BY <1>0, <2>1, <2>2 DEF FramingTypeOK
    <2>4. BufferIsWindow' /\ BufferBounded'
        BY <1>0, <2>1, <2>2 DEF FramingTypeOK, BufferIsWindow, BufferBounded
    <2>5. PatientInv' /\ PatientLosesNothing'
        BY <2>1 DEF FramingInv, PatientInv, PatientLosesNothing
    <2>6. QED
        BY <2>3, <2>4, <2>5 DEF FramingInv
<1>9. QED
    BY <1>1, <1>2, <1>3, <1>4, <1>5, <1>6, <1>7, <1>8 DEF Next, Server
-----------------------------------------------------------------------------
(* The theorems.                                                           *)

\* The invariant is inductive.
THEOREM FramingInvariant == Spec => []FramingInv
BY InitInv, InvStep, PTL DEF Spec

\* read_line() never holds more than one chunk beyond the longest line, whatever the
\* peer sends.
THEOREM BufferIsBounded == Spec => []BufferBounded
<1>1. FramingInv => BufferBounded
    BY DEF FramingInv
<1>2. QED
    BY <1>1, FramingInvariant, PTL

\* The new buffer of handle_messages() loses no byte of a client that waits for the
\* answer to its LOGIN.
THEOREM PatientIsHeard == Spec => []PatientLosesNothing
<1>1. FramingInv => PatientLosesNothing
    BY DEF FramingInv
<1>2. QED
    BY <1>1, FramingInvariant, PTL

\* However recv() cuts the stream and however lines are taken off, what is in the
\* buffer are the last bytes received, none lost, repeated or out of order.
THEOREM BufferFollowsStream == Spec => []BufferIsWindow
<1>1. FramingInv => BufferIsWindow
    BY DEF FramingInv
<1>2. QED
    BY <1>1, FramingInvariant, PTL
-----------------------------------------------------------------------------
(* Line by line: what ChunksInvisible says of all lines, said of the next. *)

\* The next line of the stream ends at i.
NextEnd(i) ==
    /\ i \in Base + 1..received
    /\ sent[i] = Newline /\ \A j \in Base + 1..i - 1 : sent[j] # Newline

NextLine(i) == Strip(SubSeq(sent, Base + 1, i - 1))

TakesNextLine ==
    /\ lines' # lines => Base' # Base
    /\ Base' # Base /\ loop # "login" =>
          /\ Base = Origin \/ sent[Base] = Newline
          /\ NextEnd(Base')
          /\ \/ lines' = [lines EXCEPT ![loop] = Append(@, NextLine(Base'))]
             \/ /\ lines' = lines
                /\ loop' = "over" \/ (loop = "chat" /\ Len(NextLine(Base')) > MaxMessage)
          /\ lines' # lines => (Base' - Base) - 1 <= MaxLine

\* What a loop takes from the stream in one step, the last of a connection included,
\* is the next line, from behind the last newline up to the next one.  It
\* handles this line and no other; it skips one only as a message that is too long
\* or when the connection ends, and never handles one longer than MAX_LINE_LENGTH.
LineByLine == [][TakesNextLine]_vars

\* Between two lines the rest of the stream begins behind a newline, or where the
\* loop began.
AtLineStart ==
    loop \in {"auth", "chat"} =>
        /\ Origin \in 0..Base
        /\ Base = Origin \/ (Base \in 1..received /\ sent[Base] = Newline)

LEMMA TakeStep ==
    ASSUME FramingInv, Newline \in Range(buffer), buffer' = Rest, UNCHANGED <<sent, received>>
    PROVE  /\ Base \in Nat /\ Base' = Base + Cut /\ Base' \in 1..received /\ Base' # Base
           /\ NextEnd(Base') /\ Raw = SubSeq(sent, Base + 1, Base' - 1)
           /\ Raw \in Seq(Byte) /\ Len(Raw) = (Base' - Base) - 1
<1>1. /\ FramingTypeOK /\ buffer \in Seq(Byte) /\ Len(buffer) \in Nat /\ received \in Nat
      /\ sent \in Seq(Byte) /\ Len(sent) \in Nat /\ received <= Len(sent)
    BY DEF FramingInv, FramingTypeOK
<1>2. /\ Cut \in 1..Len(buffer) /\ buffer[Cut] = Newline
      /\ \A i \in 1..Cut - 1 : buffer[i] # Newline
    BY <1>1, CutFacts
<1>3. Len(buffer) <= received /\ \A j \in 1..Len(buffer) : buffer[j] = sent[Base + j]
    BY DEF FramingInv, BufferIsWindow
<1>4. Len(buffer') = Len(buffer) - Cut
    BY <1>1, RestFacts
<1>5. Base \in Nat /\ Base' = Base + Cut /\ Base' \in 1..received /\ Base' # Base
    BY <1>1, <1>2, <1>3, <1>4 DEF Base
<1>6. NextEnd(Base + Cut)
    <2>1. sent[Base + Cut] = Newline
        BY <1>2, <1>3
    <2>2. ASSUME NEW j \in Base + 1..(Base + Cut) - 1 PROVE sent[j] # Newline
        <3>1. j - Base \in 1..Cut - 1 /\ j - Base \in 1..Len(buffer) /\ Base + (j - Base) = j
            BY <1>1, <1>2, <1>5
        <3>2. QED
            BY <1>2, <1>3, <3>1
    <2>3. Base + Cut \in Base + 1..received
        BY <1>1, <1>2, <1>5
    <2>4. QED
        BY <2>1, <2>2, <2>3 DEF NextEnd
<1> DEFINE r == SubSeq(sent, Base + 1, (Base + Cut) - 1)
<1>7. /\ Raw \in Seq(Byte) /\ Len(Raw) = Cut - 1
      /\ \A i \in 1..Cut - 1 : Raw[i] = buffer[i]
    <2>1. \A i \in 1..Cut - 1 : buffer[i] \in Byte
        BY <1>1, <1>2, ElementOfSeq
    <2>2. /\ Raw \in Seq(Byte) /\ Len(Raw) = IF 1 <= Cut - 1 THEN (Cut - 1) - 1 + 1 ELSE 0
          /\ \A i \in 1..(Cut - 1) - 1 + 1 : Raw[i] = buffer[1 + i - 1]
        BY <1>2, <2>1, SubSeqProperties DEF Raw
    <2>3. QED
        BY <1>2, <2>2
<1>8. r \in Seq(Byte) /\ Len(r) = Cut - 1 /\ \A i \in 1..Cut - 1 : r[i] = sent[Base + i]
    <2>1. \A i \in Base + 1..(Base + Cut) - 1 : sent[i] \in Byte
        BY <1>1, <1>2, <1>5, ElementOfSeq
    <2>2. /\ r \in Seq(Byte)
          /\ Len(r) = IF Base + 1 <= (Base + Cut) - 1 THEN ((Base + Cut) - 1) - (Base + 1) + 1 ELSE 0
          /\ \A i \in 1..((Base + Cut) - 1) - (Base + 1) + 1 : r[i] = sent[Base + 1 + i - 1]
        BY <1>2, <1>5, <2>1, SubSeqProperties
    <2> HIDE DEF r
    <2>3. QED
        BY <1>2, <1>5, <2>2
<1> HIDE DEF r
<1>9. Raw = r
    <2>1. \A i \in 1..Len(Raw) : Raw[i] = r[i]
        BY <1>2, <1>3, <1>7, <1>8
    <2>2. QED
        BY <1>7, <1>8, <2>1, SeqEqual
<1>10. QED
    BY <1>2, <1>5, <1>6, <1>7, <1>9 DEF r

\* The start of a line stays one: a loop takes whole lines, and the second begins with
\* an empty buffer.
LEMMA LineStartStep ==
    ASSUME FramingInv, AtLineStart, [Next]_vars
    PROVE  AtLineStart'
<1>1. /\ FramingTypeOK /\ buffer \in Seq(Byte) /\ Len(buffer) \in Nat /\ received \in Nat
      /\ sent \in Seq(Byte) /\ Len(sent) \in Nat /\ received <= Len(sent)
      /\ Len(buffer) <= received /\ Base \in 0..received
    BY DEF FramingInv, FramingTypeOK, BufferIsWindow, Base
<1>2. CASE loop' = "over" \/ Login
    BY <1>2 DEF AtLineStart, Login
<1>3. CASE Send
    <2>1. /\ UNCHANGED <<received, buffer, loop, start>> /\ \E b \in Byte : sent' = Append(sent, b)
        BY <1>3 DEF Send
    <2>2. Base' = Base /\ Origin' = Origin
        BY <2>1 DEF Base, Origin
    <2>3. \A i \in 1..Len(sent) : sent'[i] = sent[i]
        BY <1>1, <2>1, AppendProperties
    <2>4. Base \in 1..received => sent'[Base] = sent[Base]
        BY <1>1, <2>3
    <2>5. QED
        BY <2>1, <2>2, <2>4 DEF AtLineStart
<1>4. CASE CloseClient \/ UNCHANGED vars
    BY <1>4 DEF CloseClient, vars, client, AtLineStart, Origin, Base
<1>5. CASE Recv
    <2>1. Base' = Base /\ UNCHANGED <<client, loop, start>> /\ Origin' = Origin
        BY <1>5, RecvFacts DEF Origin
    <2>2. received' >= received /\ received' \in Nat
        BY <1>1, <1>5 DEF Recv
    <2>3. QED
        BY <1>1, <2>1, <2>2 DEF AtLineStart, client
<1>6. CASE AuthLine \/ ChatLine
    <2>1. /\ Newline \in Range(buffer) /\ buffer' = Rest /\ loop \in {"auth", "chat"}
          /\ UNCHANGED <<sent, received, loop, start>>
        BY <1>6 DEF AuthLine, ChatLine, ReturnsLine, HasLine, client
    <2>2. Base' \in 1..received /\ NextEnd(Base') /\ Base' > Base /\ Origin' = Origin
        BY <1>1, <2>1, TakeStep DEF Origin, NextEnd
    <2>3. sent'[Base'] = Newline
        BY <2>1, <2>2 DEF NextEnd
    <2>4. Origin \in 0..Base
        BY <2>1 DEF AtLineStart
    <2>5. Origin' \in 0..Base' /\ Base' \in 1..received'
        BY <1>1, <2>1, <2>2, <2>4
    <2>6. QED
        BY <2>3, <2>5 DEF AtLineStart
<1>7. CASE HandOver
    <2>1. loop' = "chat" /\ start' = received /\ received' = received /\ Len(buffer') = 0
        BY <1>7 DEF HandOver
    <2>2. Base' = received /\ Origin' = received
        BY <1>1, <2>1 DEF Base, Origin
    <2>3. QED
        BY <1>1, <2>1, <2>2 DEF AtLineStart
<1>8. QED
    BY <1>2, <1>3, <1>4, <1>5, <1>6, <1>7
       DEF Next, Server, TooMuch, EndOfStream, LineTooLong, AuthEnds, RecvFails, LoginFails, Over

LEMMA NextLineStep ==
    ASSUME FramingInv, AtLineStart, [Next]_vars
    PROVE  TakesNextLine
<1>1. FramingTypeOK /\ Base \in Nat
    BY DEF FramingInv, FramingTypeOK, BufferIsWindow, Base
<1>2. CASE Base' = Base /\ lines' = lines
    BY <1>2 DEF TakesNextLine
<1>3. CASE Send \/ CloseClient \/ UNCHANGED vars \/ TooMuch \/ EndOfStream \/ RecvFails \/ LoginFails
    <2>1. UNCHANGED <<received, buffer, lines>>
        BY <1>3 DEF Send, CloseClient, vars, client, TooMuch, EndOfStream, RecvFails, LoginFails, Over
    <2>2. QED
        BY <1>2, <2>1 DEF Base
<1>4. CASE Recv
    BY <1>2, <1>4, RecvFacts
<1>5. CASE HandOver
    <2>1. loop = "login" /\ lines' = lines
        BY <1>5 DEF HandOver
    <2>2. QED
        BY <2>1 DEF TakesNextLine
<1>6. CASE LineTooLong \/ AuthEnds \/ AuthLine \/ Login \/ ChatLine
    <2>1. /\ Newline \in Range(buffer) /\ buffer' = Rest /\ loop \in {"auth", "chat"}
          /\ UNCHANGED <<sent, received>>
        BY <1>6 DEF LineTooLong, AuthEnds, AuthLine, Login, ChatLine, ReturnsLine, HasLine, Over, client
    <2>2. /\ Base' # Base /\ NextEnd(Base') /\ Raw = SubSeq(sent, Base + 1, Base' - 1)
          /\ Len(Raw) = (Base' - Base) - 1
        BY <2>1, TakeStep
    <2>3. Strip(Raw) = NextLine(Base')
        BY <2>2 DEF NextLine
    <2>4. \/ lines' = [lines EXCEPT ![loop] = Append(@, Strip(Raw))]
          \/ /\ lines' = lines
             /\ loop' = "over" \/ (loop = "chat" /\ Len(Strip(Raw)) > MaxMessage)
        BY <1>6 DEF LineTooLong, AuthEnds, AuthLine, Login, ChatLine, ReturnsLine, HasLine, Over, Handled
    <2>5. lines' # lines => Len(Raw) <= MaxLine
        BY <1>6 DEF LineTooLong, AuthEnds, AuthLine, Login, ChatLine, ReturnsLine, Over
    <2>6. Base = Origin \/ sent[Base] = Newline
        BY <2>1 DEF AtLineStart
    <2>7. QED
        BY <2>2, <2>3, <2>4, <2>5, <2>6 DEF TakesNextLine
<1>7. QED
    BY <1>3, <1>4, <1>5, <1>6 DEF Next, Server

\* However recv() cuts the stream, read_line() hands the loops the lines of the stream
\* one after the other: none is torn, joined, repeated or left out.
THEOREM LinesAreConsecutive == Spec => LineByLine
<1>1. Init => AtLineStart
    <2>1. ASSUME Init PROVE loop = "auth" /\ Base = 0 /\ Origin = 0
        <3>1. loop = "auth" /\ received = 0 /\ Len(buffer) = 0
            BY <2>1 DEF Init
        <3>2. QED
            BY <3>1 DEF Origin, Base
    <2>2. QED
        BY <2>1 DEF AtLineStart
<1>2. FramingInv /\ AtLineStart /\ [Next]_vars => AtLineStart'
    BY LineStartStep
<1>3. FramingInv /\ AtLineStart /\ [Next]_vars => [TakesNextLine]_vars
    BY NextLineStep
<1>4. QED
    BY <1>1, <1>2, <1>3, FramingInvariant, PTL DEF Spec, LineByLine
-----------------------------------------------------------------------------
(* All lines together: ChunksInvisible.                                    *)

LEMMA MaxIsGreatest ==
    ASSUME NEW I, NEW n \in Nat, I \subseteq 0..n, I # {}
    PROVE  Max(I) \in I /\ \A i \in I : i <= Max(I)
<1> DEFINE J == {n - i : i \in I}
<1>1. J \subseteq Nat /\ J # {}
    <2>1. \A i \in I : n - i \in Nat
        OBVIOUS
    <2>2. QED
        BY <2>1, Zenon
<1> HIDE DEF J
<1>2. Min(J) \in J /\ \A j \in J : Min(J) <= j
    BY <1>1, MinIsLeast
<1>3. PICK m \in I : Min(J) = n - m
    BY <1>2 DEF J
<1>4. ASSUME NEW i \in I PROVE i <= m
    <2>1. n - i \in J
        BY DEF J
    <2>2. n - m <= n - i
        BY <1>2, <1>3, <2>1
    <2>3. QED
        BY <2>2
<1>5. QED
    BY <1>4 DEF Max

LEMMA StripType ==
    ASSUME NEW s \in Seq(Byte)
    PROVE  Strip(s) \in Seq(Byte)
<1> DEFINE text == {i \in DOMAIN s : s[i] # Blank}
<1>1. Len(s) \in Nat /\ text \subseteq 1..Len(s) /\ text \subseteq 0..Len(s) /\ text \subseteq Nat
    OBVIOUS
<1>2. CASE text = {}
    BY <1>2 DEF Strip
<1>3. CASE text # {}
    <2> HIDE DEF text
    <2>1. Min(text) \in 1..Len(s) /\ Max(text) \in 1..Len(s)
        BY <1>1, <1>3, MinIsLeast, MaxIsGreatest
    <2>2. \A i \in Min(text)..Max(text) : s[i] \in Byte
        BY <1>1, <2>1, ElementOfSeq
    <2>3. SubSeq(s, Min(text), Max(text)) \in Seq(Byte)
        BY <2>1, <2>2, SubSeqProperties
    <2>4. QED
        BY <1>3, <2>3 DEF Strip, text
<1>4. QED
    BY <1>2, <1>3

\* Reading on to the next newline adds one line, behind all others.
LEMMA LinesOfGrows ==
    ASSUME NEW s \in Seq(Byte), NEW from \in Nat, NEW upto \in Nat, NEW to \in Nat,
           from <= upto, upto < to, upto = from \/ s[upto] = Newline,
           s[to] = Newline, \A j \in upto + 1..to - 1 : s[j] # Newline,
           NEW x, x = [begin |-> upto, end |-> to]
    PROVE  /\ LinesOf(s, from, to) = LinesOf(s, from, upto) \cup {x}
           /\ \A l \in LinesOf(s, from, upto) : l.end \in Nat /\ l.end < to
<1>1. ASSUME NEW l \in LinesOf(s, from, upto) PROVE l \in LinesOf(s, from, to) /\ l.end \in Nat /\ l.end < to
    <2>1. /\ l \in [begin : from..upto, end : from + 1..upto]
          /\ l.begin = from \/ s[l.begin] = Newline
          /\ {j \in l.begin + 1..l.end : s[j] = Newline} = {l.end}
        BY <1>1 DEF LinesOf
    <2>2. l \in [begin : from..to, end : from + 1..to] /\ l.end \in Nat /\ l.end < to
        BY <2>1
    <2>3. QED
        BY <2>1, <2>2 DEF LinesOf
<1>2. x \in LinesOf(s, from, to)
    <2>1. x \in [begin : from..to, end : from + 1..to] /\ x.begin = upto /\ x.end = to
        OBVIOUS
    <2>2. {j \in upto + 1..to : s[j] = Newline} = {to}
        OBVIOUS
    <2>3. QED
        BY <2>1, <2>2 DEF LinesOf
<1>3. ASSUME NEW l \in LinesOf(s, from, to) PROVE l \in LinesOf(s, from, upto) \/ l = x
    <2>1. /\ l \in [begin : from..to, end : from + 1..to]
          /\ l.begin = from \/ s[l.begin] = Newline
          /\ {j \in l.begin + 1..l.end : s[j] = Newline} = {l.end}
        BY <1>3 DEF LinesOf
    <2>2. l.begin \in Nat /\ l.end \in Nat /\ from <= l.begin /\ l.end <= to
        BY <2>1
    <2>3. l.end \in l.begin + 1..l.end /\ s[l.end] = Newline
        BY <2>1
    <2>4. l.begin < l.end
        BY <2>2, <2>3
    <2>5. CASE l.end <= upto
        <3>1. l \in [begin : from..upto, end : from + 1..upto]
            BY <2>1, <2>2, <2>4, <2>5
        <3>2. QED
            BY <2>1, <3>1 DEF LinesOf
    <2>6. CASE l.end > upto
        <3>1. l.end = to
            <4>1. l.end \notin upto + 1..to - 1
                BY <2>3
            <4>2. QED
                BY <2>2, <2>6, <4>1
        <3>2. l.begin <= upto
            <4>1. l.begin \notin upto + 1..to - 1 \/ l.begin = from
                BY <2>1
            <4>2. QED
                BY <2>2, <2>4, <3>1, <4>1
        <3>3. ~(l.begin < upto)
            <4>1. SUFFICES ASSUME l.begin < upto PROVE FALSE
                OBVIOUS
            <4>2. s[upto] = Newline /\ upto \in l.begin + 1..l.end
                BY <2>2, <3>1, <4>1
            <4>3. upto = l.end
                BY <2>1, <4>2
            <4>4. QED
                BY <3>1, <4>3
        <3>4. l.begin = upto
            BY <2>2, <3>2, <3>3
        <3>5. QED
            BY <2>1, <3>1, <3>4
    <2>7. QED
        BY <2>2, <2>5, <2>6
<1>4. QED
    BY <1>1, <1>2, <1>3

\* What is sent later changes no line.
LEMMA LinesOfKept ==
    ASSUME NEW s \in Seq(Byte), NEW t \in Seq(Byte), NEW from \in Nat, NEW upto \in Nat,
           upto <= Len(s), upto <= Len(t), \A i \in 1..upto : t[i] = s[i]
    PROVE  /\ LinesOf(t, from, upto) = LinesOf(s, from, upto)
           /\ \A l \in LinesOf(s, from, upto) : Text(t, l) = Text(s, l)
<1>1. ASSUME NEW l \in [begin : from..upto, end : from + 1..upto]
      PROVE  l \in LinesOf(t, from, upto) <=> l \in LinesOf(s, from, upto)
    <2>1. l.begin \in Nat /\ l.begin >= from /\ l.begin <= upto /\ l.end \in Nat /\ l.end <= upto
        BY <1>1
    <2>2. {j \in l.begin + 1..l.end : t[j] = Newline} = {j \in l.begin + 1..l.end : s[j] = Newline}
        BY <2>1
    <2>3. l.begin # from => t[l.begin] = s[l.begin]
        BY <2>1
    <2>4. QED
        BY <2>2, <2>3 DEF LinesOf
<1>2. LinesOf(t, from, upto) = LinesOf(s, from, upto)
    BY <1>1 DEF LinesOf
<1>3. ASSUME NEW l \in LinesOf(s, from, upto) PROVE Text(t, l) = Text(s, l)
    <2>1. l.begin \in Nat /\ l.end \in Nat /\ l.end <= upto /\ l.end >= 1
        BY <1>3 DEF LinesOf
    <2> DEFINE m == l.begin + 1
               n == l.end - 1
    <2>2. m \in 1..Len(s) + 1 /\ m \in Nat /\ m >= 1 /\ n \in Nat /\ n <= Len(s) /\ n <= Len(t) /\ n <= upto
        <3>1. l \in [begin : from..upto, end : from + 1..upto]
            BY <1>3 DEF LinesOf
        <3>2. QED
            BY <2>1, <3>1
    <2> HIDE DEF m, n
    <2>3. \A i \in m..n : s[i] \in Byte /\ t[i] \in Byte /\ t[i] = s[i]
        BY <2>2, ElementOfSeq
    <2>4. /\ SubSeq(s, m, n) \in Seq(Byte) /\ Len(SubSeq(s, m, n)) = IF m <= n THEN n - m + 1 ELSE 0
          /\ \A i \in 1..n - m + 1 : SubSeq(s, m, n)[i] = s[m + i - 1]
        BY <2>2, <2>3, SubSeqProperties
    <2>5. /\ SubSeq(t, m, n) \in Seq(Byte) /\ Len(SubSeq(t, m, n)) = IF m <= n THEN n - m + 1 ELSE 0
          /\ \A i \in 1..n - m + 1 : SubSeq(t, m, n)[i] = t[m + i - 1]
        BY <2>2, <2>3, SubSeqProperties
    <2>6. ASSUME NEW i \in 1..Len(SubSeq(s, m, n)) PROVE SubSeq(t, m, n)[i] = SubSeq(s, m, n)[i]
        <3>1. i \in 1..n - m + 1 /\ m + i - 1 \in m..n
            BY <2>2, <2>4
        <3>2. QED
            BY <2>3, <2>4, <2>5, <3>1
    <2>7. SubSeq(t, m, n) = SubSeq(s, m, n)
        BY <2>4, <2>5, <2>6, SeqEqual
    <2>8. QED
        BY <2>7 DEF Text, m, n
<1>4. QED
    BY <1>2, <1>3

\* A line behind all others, handled, goes to the end of the list.
LEMMA ListsAppend ==
    ASSUME NEW S, NEW texts \in Seq(S), NEW v \in S, NEW s, NEW L, IsFiniteSet(L), NEW x,
           x.end \in Nat, \A l \in L : l.end \in Nat /\ l.end < x.end,
           Lists(texts, s, L), v = Strip(Text(s, x))
    PROVE  Lists(Append(texts, v), s, L \cup {x})
<1> DEFINE M == L \cup {x}
           Upto(l, K) == {k \in K : k.end <= l.end}
<1>1. x \notin L
    OBVIOUS
<1>2. Cardinality(L) \in Nat /\ Cardinality(M) = Cardinality(L) + 1 /\ Len(texts) = Cardinality(L)
    BY <1>1, FS_AddElement, FS_CardinalityType DEF Lists
<1>3. /\ Len(Append(texts, v)) = Len(texts) + 1
      /\ \A i \in 1..Len(texts) : Append(texts, v)[i] = texts[i]
      /\ Append(texts, v)[Len(texts) + 1] = v
    BY AppendProperties
<1>4. ASSUME NEW l \in L
      PROVE  Append(texts, v)[Cardinality(Upto(l, M))] = Strip(Text(s, l))
    <2>1. Upto(l, M) = Upto(l, L)
        OBVIOUS
    <2>2. Upto(l, L) \subseteq L /\ l \in Upto(l, L)
        OBVIOUS
    <2>3. IsFiniteSet(Upto(l, L)) /\ Cardinality(Upto(l, L)) <= Cardinality(L)
        BY <2>2, FS_Subset
    <2>4. Cardinality(Upto(l, L)) \in Nat /\ Cardinality(Upto(l, L)) # 0
        BY <2>2, <2>3, FS_CardinalityType, FS_EmptySet
    <2>5. texts[Cardinality(Upto(l, L))] = Strip(Text(s, l))
        BY DEF Lists
    <2>6. Cardinality(Upto(l, L)) \in 1..Len(texts)
        BY <1>2, <2>3, <2>4
    <2>7. QED
        BY <1>3, <2>1, <2>5, <2>6
<1>5. Append(texts, v)[Cardinality(Upto(x, M))] = Strip(Text(s, x))
    <2>1. Upto(x, M) = M
        OBVIOUS
    <2>2. QED
        BY <1>2, <1>3, <2>1
<1>6. QED
    BY <1>2, <1>3, <1>4, <1>5 DEF Lists

\* ChunksInvisible with the types it needs; the second list is empty until the second
\* loop starts.
LinesInv ==
    /\ lines \in [auth : Seq(Seq(Byte)), chat : Seq(Seq(Byte))]
    /\ loop \in {"auth", "login"} => lines.chat = <<>>
    /\ loop # "over" => Origin \in 0..Base /\ IsFiniteSet(Taken)
    /\ ChunksInvisible

\* Handling a line that was taken off the buffer: it is the next one of the stream.
LEMMA HandleStep ==
    ASSUME FramingInv, AtLineStart, LinesInv, loop \in {"auth", "chat"},
           Newline \in Range(buffer), Len(Raw) <= MaxLine, buffer' = Rest,
           UNCHANGED <<sent, received, start>>, Origin' = Origin
    PROVE  /\ Raw \in Seq(Byte)
           /\ IsFiniteSet(Taken') /\ Origin' \in 0..Base'
           /\ \A l \in Taken' : Len(Text(sent, l)) <= MaxLine
           /\ \E x : /\ Taken' = Taken \cup {x} /\ Text(sent, x) = Raw
                     /\ x.end \in Nat /\ \A l \in Taken : l.end \in Nat /\ l.end < x.end
<1>1. /\ sent \in Seq(Byte) /\ received \in Nat /\ received <= Len(sent) /\ Len(sent) \in Nat
    BY DEF FramingInv, FramingTypeOK
<1>2. Base \in Nat /\ Base' \in 1..received
    BY TakeStep
<1>3. Raw = SubSeq(sent, Base + 1, Base' - 1)
    BY TakeStep
<1>4. Origin \in Nat /\ Origin <= Base /\ (Base = Origin \/ sent[Base] = Newline)
    BY <1>2 DEF AtLineStart
<1>5. /\ Base < Base' /\ Base' \in Nat /\ sent[Base'] = Newline
      /\ \A j \in Base + 1..Base' - 1 : sent[j] # Newline
    <2>1. NextEnd(Base')
        BY TakeStep
    <2>2. Base' \in Base + 1..received
        BY <2>1 DEF NextEnd
    <2>3. sent[Base'] = Newline /\ \A j \in Base + 1..Base' - 1 : sent[j] # Newline
        BY <2>1 DEF NextEnd
    <2>4. Base < Base' /\ Base' \in Nat
        BY <1>2, <2>2
    <2>5. QED
        BY <2>3, <2>4
<1> DEFINE x == [begin |-> Base, end |-> Base']
<1>6. /\ LinesOf(sent, Origin, Base') = LinesOf(sent, Origin, Base) \cup {x}
      /\ \A l \in LinesOf(sent, Origin, Base) : l.end \in Nat /\ l.end < Base'
    BY <1>1, <1>2, <1>4, <1>5, LinesOfGrows
<1>7. Taken' = Taken \cup {x} /\ \A l \in Taken : l.end \in Nat /\ l.end < Base'
    BY <1>6 DEF Taken
<1>8. Text(sent, x) = Raw
    BY <1>3 DEF Text
<1>9. IsFiniteSet(Taken) /\ \A l \in Taken : Len(Text(sent, l)) <= MaxLine
    BY DEF LinesInv, ChunksInvisible
<1>10. IsFiniteSet(Taken')
    BY <1>7, <1>9, FS_AddElement
<1>11. Raw \in Seq(Byte)
    BY TakeStep
<1>12. Origin' \in 0..Base'
    BY <1>2, <1>4, <1>5
<1>13. \A l \in Taken' : Len(Text(sent, l)) <= MaxLine
    BY <1>7, <1>8, <1>9
<1>14. x.end \in Nat /\ x.end = Base'
    BY <1>5
<1> HIDE DEF x
<1>15. QED
    BY <1>7, <1>8, <1>10, <1>11, <1>12, <1>13, <1>14

\* Nothing is taken off the buffer and the list of lines stays.
LEMMA KeepStep ==
    ASSUME FramingInv, FramingInv', LinesInv, Base' = Base, UNCHANGED <<loop, lines, start>>,
           \A i \in 1..Len(sent) : sent'[i] = sent[i]
    PROVE  LinesInv'
<1>1. /\ sent \in Seq(Byte) /\ sent' \in Seq(Byte) /\ Base \in Nat
      /\ Base <= Len(sent) /\ Base <= Len(sent') /\ Len(sent) \in Nat
    <2>1. /\ sent \in Seq(Byte) /\ Base \in Nat /\ Base <= Len(sent)
        BY DEF FramingInv, FramingTypeOK, BufferIsWindow, Base
    <2>2. /\ sent' \in Seq(Byte) /\ Base' <= Len(sent')
        BY DEF FramingInv, FramingTypeOK, BufferIsWindow, Base
    <2>3. QED
        BY <2>1, <2>2
<1>2. Origin' = Origin
    BY DEF Origin
<1>3. CASE loop = "over"
    BY <1>3 DEF LinesInv, ChunksInvisible
<1>4. CASE loop # "over"
    <2>1. Origin \in Nat
        BY <1>4 DEF LinesInv
    <2>2. \A i \in 1..Base : sent'[i] = sent[i]
        BY <1>1
    <2>3. /\ LinesOf(sent', Origin, Base) = LinesOf(sent, Origin, Base)
          /\ \A l \in LinesOf(sent, Origin, Base) : Text(sent', l) = Text(sent, l)
        BY <1>1, <2>1, <2>2, LinesOfKept
    <2>4. Taken' = Taken /\ \A l \in Taken : Text(sent', l) = Text(sent, l)
        BY <1>2, <2>3 DEF Taken
    <2>5. Messages(sent', Taken') = Messages(sent, Taken) /\ Messages(sent, Taken) \subseteq Taken
        BY <2>4 DEF Messages
    <2>6. ASSUME NEW texts, NEW L, L \subseteq Taken, Lists(texts, sent, L) PROVE Lists(texts, sent', L)
        BY <2>4, <2>6 DEF Lists
    <2>7. loop \in {"auth", "login"} => Lists(lines'.auth, sent', Taken')
        BY <2>4, <2>6 DEF LinesInv, ChunksInvisible
    <2>8. loop = "chat" => Lists(lines'.chat, sent', Messages(sent', Taken'))
        BY <2>5, <2>6 DEF LinesInv, ChunksInvisible
    <2>9. \A l \in Taken' : Len(Text(sent', l)) <= MaxLine
        BY <1>4, <2>4 DEF LinesInv, ChunksInvisible
    <2>10. ChunksInvisible'
        BY <2>7, <2>8, <2>9 DEF ChunksInvisible
    <2>11. QED
        BY <1>2, <1>4, <2>4, <2>10 DEF LinesInv
<1>5. QED
    BY <1>3, <1>4

LEMMA LinesInvStep ==
    ASSUME FramingInv, FramingInv', AtLineStart, LinesInv, [Next]_vars
    PROVE  LinesInv'
<1>1. /\ sent \in Seq(Byte) /\ Len(sent) \in Nat /\ received \in Nat /\ received <= Len(sent)
    BY DEF FramingInv, FramingTypeOK
<1>2. CASE Send
    <2>1. UNCHANGED <<received, buffer, loop, lines, start>> /\ \E b \in Byte : sent' = Append(sent, b)
        BY <1>2 DEF Send
    <2>2. \A i \in 1..Len(sent) : sent'[i] = sent[i]
        BY <1>1, <2>1, AppendProperties
    <2>3. QED
        BY <2>1, <2>2, KeepStep DEF Base
<1>3. CASE CloseClient \/ UNCHANGED vars
    <2>1. UNCHANGED <<sent, received, buffer, loop, lines, start>>
        BY <1>3 DEF CloseClient, vars, client
    <2>2. QED
        BY <2>1, KeepStep DEF Base
<1>4. CASE Recv
    BY <1>4, RecvFacts, KeepStep DEF client
<1>5. CASE AuthLine \/ Login \/ AuthEnds \/ ChatLine
    <2>1. /\ loop \in {"auth", "chat"} /\ Newline \in Range(buffer) /\ Len(Raw) <= MaxLine
          /\ buffer' = Rest /\ UNCHANGED <<sent, received, start>>
        BY <1>5 DEF AuthLine, Login, AuthEnds, ChatLine, ReturnsLine, HasLine, client
    <2>2. Origin' = Origin
        BY <1>5, <2>1 DEF AuthLine, Login, AuthEnds, ChatLine, ReturnsLine, HasLine, Origin
    <2>3. /\ Raw \in Seq(Byte) /\ IsFiniteSet(Taken') /\ Origin' \in 0..Base'
          /\ \A l \in Taken' : Len(Text(sent, l)) <= MaxLine
        BY <2>1, <2>2, HandleStep
    <2>4. PICK x : /\ Taken' = Taken \cup {x} /\ Text(sent, x) = Raw
                   /\ x.end \in Nat /\ \A l \in Taken : l.end \in Nat /\ l.end < x.end
        BY <2>1, <2>2, HandleStep
    <2>5. /\ Strip(Raw) \in Seq(Byte) /\ Len(Strip(Raw)) \in Nat /\ IsFiniteSet(Taken)
          /\ lines \in [auth : Seq(Seq(Byte)), chat : Seq(Seq(Byte))]
          /\ Append(lines.auth, Strip(Raw)) \in Seq(Seq(Byte))
          /\ Append(lines.chat, Strip(Raw)) \in Seq(Seq(Byte))
        <3>1. Strip(Raw) \in Seq(Byte) /\ Len(Strip(Raw)) \in Nat /\ IsFiniteSet(Taken)
            BY <2>1, <2>3, StripType DEF LinesInv
        <3>2. lines \in [auth : Seq(Seq(Byte)), chat : Seq(Seq(Byte))]
            BY DEF LinesInv
        <3>3. QED
            BY <3>1, <3>2, AppendProperties
    <2>6. CASE AuthLine \/ Login
        <3>1. /\ loop = "auth" /\ loop' \in {"auth", "login"}
              /\ lines' = [lines EXCEPT !.auth = Append(@, Strip(Raw))]
            BY <2>6 DEF AuthLine, Login, ReturnsLine, HasLine, Handled
        <3>2. Lists(lines.auth, sent, Taken) /\ lines.chat = <<>>
            BY <3>1 DEF LinesInv, ChunksInvisible
        <3>3. Lists(Append(lines.auth, Strip(Raw)), sent, Taken \cup {x})
            BY <2>4, <2>5, <3>2, ListsAppend
        <3>4. /\ lines'.auth = Append(lines.auth, Strip(Raw)) /\ lines'.chat = <<>>
              /\ lines' \in [auth : Seq(Seq(Byte)), chat : Seq(Seq(Byte))]
            BY <2>5, <3>1, <3>2
        <3>5. ChunksInvisible'
            BY <2>1, <2>3, <2>4, <3>1, <3>3, <3>4 DEF ChunksInvisible
        <3>6. QED
            BY <2>3, <3>4, <3>5 DEF LinesInv
    <2>7. CASE ChatLine
        <3>1. /\ loop = "chat" /\ loop' = "chat"
              /\ IF Len(Strip(Raw)) > MaxMessage
                 THEN lines' = lines
                 ELSE lines' = [lines EXCEPT !.chat = Append(@, Strip(Raw))]
            BY <2>7 DEF ChatLine, ReturnsLine, HasLine, Handled
        <3>2. Lists(lines.chat, sent, Messages(sent, Taken))
            BY <3>1 DEF LinesInv, ChunksInvisible
        <3>3. CASE Len(Strip(Raw)) > MaxMessage
            <4>1. Messages(sent, Taken') = Messages(sent, Taken)
                BY <2>4, <2>5, <3>3 DEF Messages
            <4>2. ChunksInvisible'
                BY <2>1, <2>3, <3>1, <3>2, <3>3, <4>1 DEF ChunksInvisible
            <4>3. QED
                BY <2>3, <2>5, <3>1, <3>3, <4>2 DEF LinesInv
        <3>4. CASE ~(Len(Strip(Raw)) > MaxMessage)
            <4>1. Messages(sent, Taken') = Messages(sent, Taken) \cup {x}
                BY <2>4, <2>5, <3>4 DEF Messages
            <4>2. Messages(sent, Taken) \subseteq Taken /\ IsFiniteSet(Messages(sent, Taken))
                BY <2>5, FS_Subset DEF Messages
            <4>3. Lists(Append(lines.chat, Strip(Raw)), sent, Messages(sent, Taken) \cup {x})
                BY <2>4, <2>5, <3>2, <4>2, ListsAppend
            <4>4. /\ lines'.chat = Append(lines.chat, Strip(Raw))
                  /\ lines' \in [auth : Seq(Seq(Byte)), chat : Seq(Seq(Byte))]
                BY <2>5, <3>1, <3>4
            <4>5. ChunksInvisible'
                BY <2>1, <2>3, <3>1, <4>1, <4>3, <4>4 DEF ChunksInvisible
            <4>6. QED
                BY <2>3, <3>1, <4>4, <4>5 DEF LinesInv
        <3>5. QED
            BY <3>3, <3>4
    <2>8. CASE AuthEnds
        <3>1. /\ loop' = "over"
              /\ lines' = lines \/ lines' = [lines EXCEPT !.auth = Append(@, Strip(Raw))]
            BY <2>8 DEF AuthEnds, Handled
        <3>2. lines' \in [auth : Seq(Seq(Byte)), chat : Seq(Seq(Byte))]
            BY <2>5, <3>1
        <3>3. QED
            BY <3>1, <3>2 DEF LinesInv, ChunksInvisible
    <2>9. QED
        BY <1>5, <2>6, <2>7, <2>8
<1>6. CASE HandOver
    <2>1. /\ loop = "login" /\ loop' = "chat" /\ start' = received
          /\ Len(buffer') = 0 /\ UNCHANGED <<sent, received, lines>>
        BY <1>6 DEF HandOver, client
    <2>2. Base' = received /\ Origin' = received
        BY <1>1, <2>1 DEF Base, Origin
    <2>3. Taken' = {} /\ Messages(sent', Taken') = {}
        BY <1>1, <2>2 DEF Taken, LinesOf, Messages
    <2>4. lines.chat = <<>> /\ lines \in [auth : Seq(Seq(Byte)), chat : Seq(Seq(Byte))]
        BY <2>1 DEF LinesInv
    <2>5. ChunksInvisible'
        BY <2>1, <2>3, <2>4, FS_EmptySet DEF ChunksInvisible, Lists
    <2>6. QED
        BY <1>1, <2>1, <2>2, <2>3, <2>4, <2>5, FS_EmptySet DEF LinesInv
<1>7. CASE TooMuch \/ EndOfStream \/ RecvFails \/ LoginFails \/ LineTooLong
    <2>1. loop' = "over" /\ lines' = lines
        BY <1>7 DEF TooMuch, EndOfStream, RecvFails, LoginFails, LineTooLong, Over
    <2>2. QED
        BY <2>1 DEF LinesInv, ChunksInvisible
<1>8. QED
    BY <1>2, <1>3, <1>4, <1>5, <1>6, <1>7 DEF Next, Server

\* Wherever recv() cuts the stream, the lines a loop has handled are, in number, text
\* and order, the lines of the bytes it has consumed (in the second loop those short
\* enough for a message), and none of them is longer than MAX_LINE_LENGTH.
THEOREM LinesAreThoseSent == Spec => []ChunksInvisible
<1>1. Init => AtLineStart /\ LinesInv
    <2> SUFFICES ASSUME Init PROVE AtLineStart /\ LinesInv
        OBVIOUS
    <2>1. loop = "auth" /\ received = 0 /\ Len(buffer) = 0 /\ lines = [auth |-> <<>>, chat |-> <<>>]
        BY DEF Init
    <2>2. Base = 0 /\ Origin = 0
        BY <2>1 DEF Base, Origin
    <2>3. Taken = {}
        BY <2>2 DEF Taken, LinesOf
    <2>4. ChunksInvisible
        BY <2>1, <2>3, FS_EmptySet DEF ChunksInvisible, Lists
    <2>5. QED
        BY <2>1, <2>2, <2>3, <2>4, FS_EmptySet DEF AtLineStart, LinesInv
<1>2. FramingInv /\ AtLineStart /\ [Next]_vars => AtLineStart'
    BY LineStartStep
<1>3. FramingInv /\ FramingInv' /\ AtLineStart /\ LinesInv /\ [Next]_vars => LinesInv'
    BY LinesInvStep
<1>4. LinesInv => ChunksInvisible
    BY DEF LinesInv
<1>5. QED
    BY <1>1, <1>2, <1>3, <1>4, FramingInvariant, PTL DEF Spec
=============================================================================
