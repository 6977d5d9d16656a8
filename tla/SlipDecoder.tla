---------------------------- MODULE SlipDecoder ----------------------------
(***************************************************************************)
(* The SLIP encoder and decoder of src/src/util/slip.js at the two ends of *)
(* a serial line.  Bytes arrive in pieces of any length; each piece is one *)
(* call of decode(), which hands every message it completes to onMessage.  *)
(* The line may lose or change bytes.                                      *)
(*                                                                         *)
(* The consumer of the messages either takes them all, or is               *)
(* DfuTransportPrn.onData, which throws while a message is still unread.   *)
(***************************************************************************)
EXTENDS Integers, Sequences

CONSTANTS
    Plain,          \* bytes without a meaning for SLIP
    Scenarios,      \* what is sent, who takes it and how many bytes are damaged
    BufferSize,     \* initial size of the decoder's buffer
    MaxMessageSize

END == "END"
ESC == "ESC"
ESC_END == "ESC_END"
ESC_ESC == "ESC_ESC"
Byte == Plain \cup {END, ESC, ESC_END, ESC_ESC}

\* "all" takes every message; "mailbox" is DfuTransportPrn.onData; with "in turn"
\* the sender waits until its last message was read.
Consumers == {"all", "mailbox", "in turn"}
Message == Seq(Byte) \ {<<>>}

ASSUME SlipAssumption ==
    /\ Plain \cap {END, ESC, ESC_END, ESC_ESC} = {}
    /\ Scenarios \subseteq [messages : Seq(Message), consumer : Consumers, damage : Nat]
    /\ BufferSize \in Nat \ {0} /\ MaxMessageSize \in Nat \ {0}

\* No message comes near maxMessageSize: that is 10 MB, and the MTU is reported in two bytes.
ASSUME SizeAssumption ==
    /\ BufferSize < MaxMessageSize
    /\ \A s \in Scenarios : \A n \in DOMAIN s.messages : 2 * Len(s.messages[n]) <= MaxMessageSize

VARIABLES
    scenario,
    encoded,    \* of encode(): encoded[0 .. j - 1], or none when it does not run
    room,       \* encoded.length
    taken,      \* bytes of the message that are encoded
    line,       \* bytes under way, each with the number of its message
    left,       \* how many of them the current call of decode() still has to look at
    sent,       \* messages sent
    got,        \* messages the consumer took
    buffer,     \* msgBuffer[0 .. msgBufferIdx - 1]
    capacity,   \* msgBuffer.length
    escape,
    unread,     \* the consumer's lastReceivedPacket is set
    damaged     \* numbers of the messages that lost or changed a byte, in order

encoderVars == <<encoded, room, taken, sent>>
decoderVars == <<buffer, capacity, escape>>
consumerVars == <<got, unread>>
vars == <<scenario, encoderVars, line, left, decoderVars, consumerVars, damaged>>

Init ==
    /\ scenario \in Scenarios
    /\ encoded = <<>> /\ room = 0 /\ taken = 0 /\ sent = <<>>
    /\ line = <<>> /\ left = 0 /\ damaged = <<>>
    /\ buffer = <<>> /\ capacity = BufferSize /\ escape = FALSE
    /\ got = <<>> /\ unread = FALSE

-----------------------------------------------------------------------------
(* Encoder                                                                 *)

\* The message that is sent next.
Data == scenario.messages[Len(sent) + 1]

\* One data byte on the line.
Stuffed(b) == IF b = END THEN <<ESC, ESC_END>>
              ELSE IF b = ESC THEN <<ESC, ESC_ESC>> ELSE <<b>>

\* Space for two more bytes and the trailing END.
Fits(j, length) == j <= length - 3

\* A byte written past the end of a Uint8Array is dropped.
Framed(bytes) == [i \in DOMAIN bytes |-> [val |-> bytes[i], frame |-> Len(sent) + 1]]
Put(length, bytes) ==
    LET all == encoded \o Framed(bytes) IN
    IF Len(all) <= length THEN all ELSE SubSeq(all, 1, length)

\* encode() begins with a leading END, ...
Encode ==
    /\ encoded = <<>> /\ Len(sent) < Len(scenario.messages)
    /\ scenario.consumer = "in turn" => line = <<>> /\ ~unread
    /\ encoded' = Framed(<<END>>) /\ room' = ((Len(Data) + 7) \div 4) * 4
    /\ UNCHANGED <<scenario, taken, sent, line, left, decoderVars, consumerVars, damaged>>

\* ... goes on byte by byte, ...
EncodeByte ==
    /\ encoded # <<>> /\ taken < Len(Data) /\ taken' = taken + 1
    /\ room' = IF Fits(Len(encoded), room) THEN room ELSE 2 * room
    /\ encoded' = Put(room', Stuffed(Data[taken + 1]))
    /\ UNCHANGED <<scenario, sent, line, left, decoderVars, consumerVars, damaged>>

\* ... and ends with an END.  All is written; the serial transport strips the first END.
Send(stripped) ==
    /\ encoded # <<>> /\ taken = Len(Data)
    /\ LET bytes == Put(room, <<END>>) IN line' = line \o IF stripped THEN Tail(bytes) ELSE bytes
    /\ sent' = Append(sent, Data) /\ encoded' = <<>> /\ room' = 0 /\ taken' = 0
    /\ UNCHANGED <<scenario, left, decoderVars, consumerVars, damaged>>

-----------------------------------------------------------------------------
(* Decoder                                                                 *)

HasMailbox == scenario.consumer # "all"

\* The port emits 'data' with the next n bytes, and decode() looks at each.
OnRawData(n) ==
    /\ left = 0 /\ n <= Len(line) /\ left' = n
    /\ UNCHANGED <<scenario, encoderVars, line, decoderVars, consumerVars, damaged>>

Take == line' = Tail(line) /\ left' = left - 1

\* The buffer has no place for byte number idx.
FullLate(idx, length) == idx > length
Full(idx, length) == idx > length - 1

\* What a byte after ESC stands for.
SameByte(val) == val
Unescaped(val) == IF val = ESC_ESC THEN ESC ELSE IF val = ESC_END THEN END ELSE val

\* addByte(), and handleMessageMaxError() when there is no more room.
AddByte ==
    /\ left > 0 /\ (escape \/ Head(line).val \notin {ESC, END})
    /\ capacity' = IF Full(Len(buffer), capacity) THEN 2 * capacity ELSE capacity
    /\ LET val == Head(line).val IN
       buffer' = IF capacity' < MaxMessageSize
                 THEN Append(buffer, IF escape THEN Unescaped(val) ELSE val) ELSE <<>>
    /\ escape' = FALSE
    /\ Take /\ UNCHANGED <<scenario, encoderVars, consumerVars, damaged>>

Escape ==
    /\ left > 0 /\ ~escape /\ Head(line).val = ESC /\ escape' = TRUE
    /\ Take /\ UNCHANGED <<scenario, encoderVars, buffer, capacity, consumerVars, damaged>>

\* What stays in the buffer after a message.
Kept(msg) == msg
Cleared(msg) == <<>>

\* handleEnd(): an empty message is tossed; when onMessage throws, the buffer is
\* left as it is and the bytes after the message are not looked at.
HandleEnd ==
    /\ left > 0 /\ ~escape /\ Head(line).val = END
    /\ \/ buffer = <<>> /\ Take /\ UNCHANGED <<buffer, consumerVars>>
       \/ /\ buffer # <<>> /\ ~(HasMailbox /\ unread) /\ Take
          /\ got' = Append(got, buffer) /\ unread' = HasMailbox /\ buffer' = Cleared(buffer)
       \/ /\ buffer # <<>> /\ HasMailbox /\ unread
          /\ line' = SubSeq(line, left + 1, Len(line)) /\ left' = 0
          /\ UNCHANGED <<buffer, consumerVars>>
    /\ UNCHANGED <<scenario, encoderVars, capacity, escape, damaged>>

\* The consumer's message is read(), but not while decode() runs.
Read ==
    /\ left = 0 /\ unread /\ unread' = FALSE
    /\ UNCHANGED <<scenario, encoderVars, line, left, decoderVars, got, damaged>>

-----------------------------------------------------------------------------
\* A byte of message f is lost, or becomes another.
Damage(i) ==
    /\ i > left /\ Len(damaged) < scenario.damage
    /\ damaged' = Append(damaged, line[i].frame)
    /\ \/ line' = SubSeq(line, 1, i - 1) \o SubSeq(line, i + 1, Len(line))
       \/ \E val \in Byte : line' = [line EXCEPT ![i].val = val]
    /\ UNCHANGED <<scenario, encoderVars, left, decoderVars, consumerVars>>

Next ==
    \/ Encode \/ EncodeByte \/ \E stripped \in BOOLEAN : Send(stripped)
    \/ \E n \in 1 .. Len(line) : OnRawData(n)
    \/ AddByte \/ Escape \/ HandleEnd \/ Read
    \/ \E i \in 1 .. Len(line) : Damage(i)

Spec == Init /\ [][Next]_vars

-----------------------------------------------------------------------------
Bytes == [val : Byte, frame : 1 .. Len(scenario.messages)]

\* Neither encoder nor decoder write past the end of their buffers.
TypeOK ==
    /\ scenario \in Scenarios /\ encoded \in Seq(Bytes) /\ line \in Seq(Bytes)
    /\ room \in Nat /\ Len(encoded) <= room /\ taken \in Nat /\ left \in 0 .. Len(line)
    /\ sent \in Seq(Message) /\ got \in Seq(Seq(Byte))
    /\ buffer \in Seq(Byte) /\ capacity \in Nat /\ Len(buffer) <= capacity
    /\ escape \in BOOLEAN /\ unread \in BOOLEAN /\ damaged \in Seq(1 .. Len(scenario.messages))

\* On an undamaged line messages arrive unchanged and in order, however their bytes
\* are split and whatever bytes they contain (slip.js:41-75, 108-185).
Transparent ==
  damaged = <<>> /\ scenario.consumer # "mailbox" =>
    /\ Len(got) <= Len(sent) /\ got = SubSeq(sent, 1, Len(got))
    /\ line = <<>> => got = sent

\* Damage is local: all messages arrive from the second one after the last that was
\* damaged.  The first after it may be lost to an END that was lost or escaped
\* (slip.js:115-132).  That is so until lost ENDs have merged messages into one that does
\* not fit: after it nothing does (slip.js:165-172).
LastDamaged ==
    IF damaged = <<>> THEN 0
    ELSE CHOOSE f \in 1 .. Len(sent) :
           /\ \E i \in DOMAIN damaged : damaged[i] = f
           /\ \A i \in DOMAIN damaged : damaged[i] <= f
Resynchronises ==
    line = <<>> /\ damaged # <<>> /\ scenario.consumer = "all" /\ capacity < MaxMessageSize =>
        LET n == Len(sent) - LastDamaged - 1 IN
        n > 0 => /\ Len(got) >= n
                 /\ SubSeq(got, Len(got) - n + 1, Len(got)) = SubSeq(sent, Len(sent) - n + 1, Len(sent))

-----------------------------------------------------------------------------
(* What the comments say and the code does not do.                         *)

\* "The onMessage callback will be invoked when a complete message has been
\* decoded", slip.js:103: what it is given is a message that was sent.
MessagesAreWhole == \A n \in DOMAIN got : \E k \in DOMAIN sent : got[n] = sent[k]
=============================================================================
