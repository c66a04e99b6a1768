------------------------------ MODULE Framing ------------------------------
(***************************************************************************)
(* One direction of a connection: messages are strings that end with the   *)
(* escape character and a newline (ReplicaConnectionHandler::send), TCP    *)
(* delivers the bytes in order and in pieces of its own choice, and        *)
(* Connection::receive puts messages together again in bufferContent and   *)
(* partialMsg.  ClientConnectionHandler::send and ::receive do the same.   *)
(*                                                                         *)
(* A byte is a position in a message, so that it cannot be mistaken for    *)
(* another one: messages contain neither NUL, escape nor newline.  The     *)
(* calls of receive come one after the other: a call made while a message  *)
(* is handled (Participant::prepare2PC) returns before the outer one, which *)
(* then finds partialMsg empty and returns too.                            *)
(***************************************************************************)
EXTENDS Integers, SequencesExt

CONSTANTS
    Lengths,           \* Lengths[m]: bytes of the text of the m-th message
    BufferSize,        \* Connection::bufferSize
    AnySegmentation
        \* TRUE: recv may return any piece of what was sent.  FALSE: pieces are
        \* shorter than the buffer, none ends between the two bytes of a
        \* terminator, and a message, which fits in the buffer, comes in two
        \* pieces at most

Amount == Len(Lengths)

ASSUME LengthsAssumption == Lengths \in Seq(Nat \ {0})
ASSUME BufferAssumption == BufferSize \in Nat /\ BufferSize >= 2
ASSUME SegmentationAssumption ==
    /\ AnySegmentation \in BOOLEAN
    /\ ~AnySegmentation => \A m \in 1 .. Amount : Lengths[m] + 2 <= BufferSize

ESC == <<0, 1>>
NL == <<0, 2>>
Junk == <<0, 3>>     \* a byte of the memory behind messageBuffer

Text(m) == [i \in 1 .. Lengths[m] |-> <<m, i>>]

\* ReplicaConnectionHandler::send.
Encoding(m) == Text(m) \o <<ESC, NL>>

VARIABLES
    sent,        \* messages the sender has written
    senderOpen,  \* the sender has not closed the connection
    wire,        \* bytes sent and not received
    buffer,      \* bufferContent
    partial,     \* partialMsg
    handled,     \* history: the strings given to ServerMessage::toMessage
    returned,    \* history: calls of receive that have returned
    open         \* connectionOpen

vars == <<sent, senderOpen, wire, buffer, partial, handled, returned, open>>

Bytes == (UNION {ToSet(Text(m)) : m \in 1 .. Amount}) \cup {ESC, NL, Junk}

\* A line never has a newline, and only lines that do not end a message are kept.
TypeOK ==
    /\ sent \in 0 .. Amount
    /\ senderOpen \in BOOLEAN
    /\ ToSet(wire) \subseteq Bytes \ {Junk}
    /\ ToSet(buffer) \subseteq Bytes
    /\ ToSet(partial) \subseteq Bytes \ {NL, ESC}
    /\ \A k \in 1 .. Len(handled) : ToSet(handled[k]) \subseteq Bytes \ {NL}
    /\ returned \in Nat
    /\ open \in BOOLEAN

Init ==
    /\ sent = 0
    /\ senderOpen = TRUE
    /\ wire = <<>>
    /\ buffer = <<>>
    /\ partial = <<>>
    /\ handled = <<>>
    /\ returned = 0
    /\ open = TRUE

-----------------------------------------------------------------------------
(* The other end of the connection.                                        *)

Send ==
    /\ senderOpen
    /\ sent < Amount
    /\ sent' = sent + 1
    /\ wire' = wire \o Encoding(sent + 1)
    /\ UNCHANGED <<senderOpen, buffer, partial, handled, returned, open>>

\* Connection::close; what was sent before is still delivered.
SenderCloses ==
    /\ senderOpen
    /\ senderOpen' = FALSE
    /\ UNCHANGED <<sent, wire, buffer, partial, handled, returned, open>>

-----------------------------------------------------------------------------
(* Connection::receive.                                                    *)

\* The pieces recv may return.
Pieces ==
    {n \in 1 .. Len(wire) :
        /\ n <= BufferSize
        /\ AnySegmentation \/ /\ n < BufferSize
                              /\ wire[n] # ESC
                              /\ partial # <<>> => Contains(SubSeq(wire, 1, n), NL)}

\* bufferContent += messageBuffer reads up to a NUL: when recv has filled the
\* array none is left, and what lies behind is read as well.
Overrun(n) == IF n = BufferSize THEN {<<>>, <<Junk>>, <<NL>>} ELSE {<<>>}

\* recv is called only when the buffer is empty.
Recv ==
    /\ open
    /\ buffer = <<>>
    /\ \E n \in Pieces :
          /\ \E more \in Overrun(n) : buffer' = SubSeq(wire, 1, n) \o more
          /\ wire' = SubSeq(wire, n + 1, Len(wire))
    /\ UNCHANGED <<sent, senderOpen, partial, handled, returned, open>>

\* recv returns nothing more: receive throws, and the connection is closed.
RecvEnd ==
    /\ open
    /\ buffer = <<>>
    /\ wire = <<>>
    /\ ~senderOpen
    /\ open' = FALSE
    /\ UNCHANGED <<sent, senderOpen, wire, buffer, partial, handled, returned>>

IsNewline(b) == b = NL

LineLen ==
    IF Contains(buffer, NL)
    THEN SelectInSeq(buffer, IsNewline) - 1 ELSE Len(buffer)

\* Mutant: the newline is taken for a part of the line.
LineWithNewline ==
    IF Contains(buffer, NL) THEN SubSeq(buffer, 1, LineLen + 1) ELSE buffer

Line == SubSeq(buffer, 1, LineLen)

\* Mutant: the newline stays in the buffer.
FromNewline == SubSeq(buffer, LineLen + 1, Len(buffer))

AfterLine == SubSeq(buffer, LineLen + 2, Len(buffer))

EndsMessage == Line # <<>> /\ Last(Line) = ESC

\* The line is kept, in the place of what was kept before, and the loop goes on
\* unless the line is empty.
KeepLine ==
    /\ open
    /\ buffer # <<>>
    /\ ~EndsMessage
    /\ partial' = Line
    /\ buffer' = AfterLine
    /\ returned' = IF Line = <<>> THEN returned + 1 ELSE returned
    /\ UNCHANGED <<sent, senderOpen, wire, handled, open>>

\* Mutant: what was kept is forgotten.
LastLine == Line

WholeMessage == partial \o Line

\* The string that was handed over for the m-th message.
IsMessage(s, m) == s = Append(Text(m), ESC)

IsAnyMessage(s) == \E m \in 1 .. Amount : IsMessage(s, m)

\* The message is parsed and handled, and receive returns.  A string that is no
\* message may match no format: toMessage throws and the connection is closed.
HandleMessage ==
    /\ open
    /\ buffer # <<>>
    /\ EndsMessage
    /\ open' \in {TRUE, IsAnyMessage(WholeMessage)}
    /\ handled' = Append(handled, WholeMessage)
    /\ returned' = IF open' THEN returned + 1 ELSE returned
    /\ partial' = <<>>
    /\ buffer' = AfterLine
    /\ UNCHANGED <<sent, senderOpen, wire>>
-----------------------------------------------------------------------------
ReceiveStep == Recv \/ RecvEnd \/ KeepLine \/ HandleMessage

\* Both ends are closed.
Terminated == ~open /\ ~senderOpen /\ UNCHANGED vars

Next == Send \/ SenderCloses \/ ReceiveStep \/ Terminated

\* The receiving thread runs, and the network delivers.
Spec == Init /\ [][Next]_vars /\ WF_vars(ReceiveStep)

-----------------------------------------------------------------------------
\* The bytes of the messages from the m-th one to the last one sent.
BytesFrom(m) == FlattenSeq([k \in 1 .. sent + 1 - m |-> Encoding(m + k - 1)])

\* Every byte is in one place: what is kept, buffered and on its way is exactly the
\* messages that have not been handled, whatever was cut where, so no message can
\* be lost, repeated or put together from parts of two.
BytesConserved ==
    partial \o buffer \o wire = BytesFrom(Len(handled) + 1)

\* receive "receives and manages a single message" (Connection.cpp:30): it never
\* returns more often than messages were handled, which those who wait for a vote or
\* for the decision rely on.
OneMessagePerReceive == returned <= Len(handled)

\* The number of messages handled when they are the first ones sent; otherwise a
\* number the stream never reaches.
HandledInOrder ==
    IF \A k \in 1 .. Len(handled) : k <= Amount /\ IsMessage(handled[k], k)
    THEN Len(handled) ELSE Amount + 1

Stream == INSTANCE MessageStream WITH handled <- HandledInOrder

\* The connection is a stream of messages: each call of receive handles the next
\* one, every one is handled in the end, and the receiver only ends with all of
\* them handled.
ReliableStream == Stream!Spec
=============================================================================
