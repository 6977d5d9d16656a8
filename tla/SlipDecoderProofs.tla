------------------------- MODULE SlipDecoderProofs -------------------------
(***************************************************************************)
(* The types of SlipDecoder, and that an undamaged line is transparent.    *)
(* The invariant says how far the decoder is, as an encoder would be       *)
(* (At), and that the bytes under way are those that lead it to the end of *)
(* the last message sent (Leads): one place for each byte, and what a byte *)
(* at a place may be (Follows).  An encoded message leads from its         *)
(* beginning to that of the next one, whether its first END is stripped or *)
(* not, and decode() follows byte by byte.                                 *)
(***************************************************************************)
EXTENDS SlipDecoder, SequenceTheorems, TLAPS

\* The messages of the scenario, the one that is encoded and how far.
Typed ==
    /\ TypeOK /\ capacity > 0 /\ Len(sent) <= Len(scenario.messages)
    /\ encoded = <<>> => taken = 0
    /\ encoded # <<>> => Len(sent) < Len(scenario.messages) /\ taken <= Len(Data) /\ room > 0

-----------------------------------------------------------------------------
(* Sequences                                                               *)

\* Taken from the line.
LEMMA HeadTail ==
    ASSUME NEW S, NEW s \in Seq(S), Len(s) > 0
    PROVE  /\ Head(s) \in S /\ Head(s) = s[1] /\ Tail(s) \in Seq(S) /\ Len(Tail(s)) = Len(s) - 1
           /\ \A i \in 1 .. Len(s) - 1 : Tail(s)[i] = s[i + 1]
OBVIOUS

\* A part of the line.
LEMMA Part ==
    ASSUME NEW S, NEW s \in Seq(S), NEW m \in Nat \ {0}, NEW n \in Nat, n <= Len(s)
    PROVE  /\ SubSeq(s, m, n) \in Seq(S)
           /\ Len(SubSeq(s, m, n)) = IF m <= n THEN n - m + 1 ELSE 0
           /\ \A i \in 1 .. n - m + 1 : SubSeq(s, m, n)[i] = s[m + i - 1]
<1>1. \A i \in m .. n : s[i] \in S
  BY ElementOfSeq
<1> QED BY <1>1, SubSeqProperties

\* Bytes that follow others.
LEMMA ConcatFacts ==
    ASSUME NEW S, NEW s \in Seq(S), NEW t \in Seq(S), NEW u, u = s \o t
    PROVE  /\ u \in Seq(S) /\ Len(u) = Len(s) + Len(t)
           /\ \A i \in 1 .. Len(s) : u[i] = s[i]
           /\ \A i \in 1 .. Len(t) : u[Len(s) + i] = t[i]
<1>1. Len(s) \in Nat /\ Len(t) \in Nat
  OBVIOUS
<1>2. /\ u \in Seq(S) /\ Len(u) = Len(s) + Len(t)
      /\ \A i \in 1 .. Len(s) + Len(t) : u[i] = IF i <= Len(s) THEN s[i] ELSE t[i - Len(s)]
  BY ConcatProperties
<1>3. ASSUME NEW i \in 1 .. Len(t) PROVE u[Len(s) + i] = t[i]
  <2>1. Len(s) + i \in 1 .. Len(s) + Len(t) /\ ~(Len(s) + i <= Len(s)) /\ (Len(s) + i) - Len(s) = i
    BY <1>1
  <2> QED BY <2>1, <1>2
<1> QED BY <1>1, <1>2, <1>3

\* They may all belong to one message.
LEMMA ConcatFrames ==
    ASSUME NEW S, NEW s \in Seq(S), NEW t \in Seq(S), NEW u, u = s \o t, NEW n,
           \A i \in 1 .. Len(s) : s[i].frame = n, \A i \in 1 .. Len(t) : t[i].frame = n
    PROVE  \A i \in 1 .. Len(u) : u[i].frame = n
<1>1. Len(s) \in Nat /\ Len(t) \in Nat
  OBVIOUS
<1>2. /\ Len(u) = Len(s) + Len(t)
      /\ \A i \in 1 .. Len(s) : u[i] = s[i]
      /\ \A i \in 1 .. Len(t) : u[Len(s) + i] = t[i]
  BY ConcatFacts
<1>3. ASSUME NEW i \in 1 .. Len(u) PROVE u[i].frame = n
  <2>1. CASE i <= Len(s)
    BY <2>1, <1>1, <1>2
  <2>2. CASE ~(i <= Len(s))
    <3>1. PICK j \in 1 .. Len(t) : i = Len(s) + j
      <4>1. i - Len(s) \in 1 .. Len(t) /\ i = Len(s) + (i - Len(s))
        BY <2>2, <1>1, <1>2
      <4> QED BY <4>1
    <3> QED BY <3>1, <1>2
  <2> QED BY <2>1, <2>2
<1> QED BY <1>3

\* The messages of a scenario are not empty, and consist of bytes.
LEMMA Messages ==
    ASSUME scenario \in Scenarios
    PROVE  /\ scenario.messages \in Seq(Message) /\ Len(scenario.messages) \in Nat
           /\ scenario.consumer \in Consumers /\ scenario.damage \in Nat
           /\ \A n \in 1 .. Len(scenario.messages) :
                /\ scenario.messages[n] \in Message /\ scenario.messages[n] \in Seq(Byte)
                /\ Len(scenario.messages[n]) \in Nat \ {0}
<1>1. /\ scenario.messages \in Seq(Message) /\ scenario.consumer \in Consumers /\ scenario.damage \in Nat
  BY SlipAssumption
<1>2. \A m \in Message : m \in Seq(Byte) /\ Len(m) \in Nat \ {0}
  BY DEF Message
<1> QED BY <1>1, <1>2, ElementOfSeq

\* A byte is encoded by one or two.
LEMMA StuffedFacts ==
    ASSUME NEW b \in Byte
    PROVE  Stuffed(b) \in Seq(Byte) /\ Len(Stuffed(b)) \in Nat /\ Len(Stuffed(b)) <= 2
<1>1. {END, ESC, ESC_END, ESC_ESC} \subseteq Byte
  BY DEF Byte
<1> QED BY <1>1 DEF Stuffed

\* Bytes that are put to those that are encoded, while there is room.
LEMMA PutFacts ==
    ASSUME Typed, Len(sent) < Len(scenario.messages), NEW bytes \in Seq(Byte), NEW length \in Nat
    PROVE  /\ Framed(bytes) \in Seq(Bytes) /\ Len(Framed(bytes)) = Len(bytes)
           /\ \A i \in 1 .. Len(bytes) : Framed(bytes)[i] = [val |-> bytes[i], frame |-> Len(sent) + 1]
           /\ Put(length, bytes) \in Seq(Bytes) /\ Len(Put(length, bytes)) <= length
           /\ encoded # <<>> /\ length > 0 => Put(length, bytes) # <<>>
           /\ Len(encoded) + Len(bytes) <= length => encoded \o Framed(bytes) = Put(length, bytes)
<1>1. Len(sent) + 1 \in 1 .. Len(scenario.messages)
  BY Messages DEF Typed, TypeOK
<1>2. /\ Framed(bytes) \in Seq(Bytes) /\ Len(Framed(bytes)) = Len(bytes)
      /\ \A i \in 1 .. Len(bytes) : Framed(bytes)[i] = [val |-> bytes[i], frame |-> Len(sent) + 1]
  <2>1. DOMAIN bytes = 1 .. Len(bytes) /\ Len(bytes) \in Nat /\ \A i \in 1 .. Len(bytes) : bytes[i] \in Byte
    BY ElementOfSeq
  <2>2. \A i \in 1 .. Len(bytes) : [val |-> bytes[i], frame |-> Len(sent) + 1] \in Bytes
    BY <1>1, <2>1 DEF Bytes
  <2> QED BY <2>1, <2>2 DEF Framed
<1> HIDE DEF Framed
<1> DEFINE f == Framed(bytes)
<1> DEFINE sum == encoded \o f
<1>3. /\ encoded \in Seq(Bytes) /\ f \in Seq(Bytes)
  BY <1>2 DEF Typed, TypeOK
<1> HIDE DEF f
<1>4. sum \in Seq(Bytes) /\ Len(sum) = Len(encoded) + Len(f) /\ Len(sum) \in Nat
  BY <1>3, ConcatProperties
<1> HIDE DEF sum
<1>5. Put(length, bytes) = IF Len(sum) <= length THEN sum ELSE SubSeq(sum, 1, length)
  BY DEF Put, sum, f
<1>6. ~(Len(sum) <= length) => SubSeq(sum, 1, length) \in Seq(Bytes) /\ Len(SubSeq(sum, 1, length)) = length
  BY <1>4, Part
<1>7. Len(f) = Len(bytes)
  BY <1>2 DEF f
<1>8. Put(length, bytes) \in Seq(Bytes) /\ Len(Put(length, bytes)) <= length
  BY <1>4, <1>5, <1>6
<1>9. Len(encoded) + Len(bytes) <= length => Put(length, bytes) = sum
  BY <1>4, <1>5, <1>7
<1>10. encoded # <<>> => Len(encoded) > 0
  BY <1>3
<1>11. encoded # <<>> /\ length > 0 => Len(Put(length, bytes)) > 0
  BY <1>3, <1>4, <1>5, <1>6, <1>10
<1> QED BY <1>2, <1>8, <1>9, <1>11 DEF sum, f

-----------------------------------------------------------------------------
(* Types                                                                   *)

\* Of a message that is still to be sent.
LEMMA DataFacts ==
    ASSUME Typed, Len(sent) < Len(scenario.messages)
    PROVE  /\ Len(sent) + 1 \in DOMAIN scenario.messages /\ Data = scenario.messages[Len(sent) + 1]
           /\ Data \in Message /\ Data \in Seq(Byte) /\ Len(Data) \in Nat \ {0}
           /\ \A i \in 1 .. Len(Data) : Data[i] \in Byte
<1>1. scenario \in Scenarios /\ Len(sent) \in Nat
  BY DEF Typed, TypeOK
<1> DEFINE n == Len(sent) + 1
<1>2. n \in 1 .. Len(scenario.messages)
  BY <1>1, Messages
<1>3. n \in DOMAIN scenario.messages
  BY <1>1, <1>2, Messages
<1>4. Data = scenario.messages[n]
  BY DEF Data
<1> HIDE DEF n
<1>5. /\ scenario.messages[n] \in Message /\ scenario.messages[n] \in Seq(Byte)
      /\ Len(scenario.messages[n]) \in Nat \ {0}
  BY <1>1, <1>2, Messages
<1> QED BY <1>3, <1>4, <1>5, ElementOfSeq DEF n

LEMMA InitTyped == Init => Typed
<1> SUFFICES ASSUME Init PROVE Typed
  OBVIOUS
<1>1. scenario \in Scenarios /\ BufferSize \in Nat \ {0}
  BY SlipAssumption DEF Init
<1>2. Len(<<>>) = 0 /\ \A S : <<>> \in Seq(S)
  BY EmptySeq
<1>3. /\ encoded \in Seq(Bytes) /\ line \in Seq(Bytes) /\ sent \in Seq(Message) /\ got \in Seq(Seq(Byte))
      /\ buffer \in Seq(Byte) /\ damaged \in Seq(1 .. Len(scenario.messages))
  BY <1>2 DEF Init
<1>4. Len(encoded) = 0 /\ Len(buffer) = 0 /\ Len(line) = 0
  BY <1>2 DEF Init
<1>5. /\ room \in Nat /\ taken \in Nat /\ room = 0 /\ left \in Nat /\ left = 0 /\ capacity \in Nat \ {0}
      /\ escape \in BOOLEAN /\ unread \in BOOLEAN
  BY <1>1 DEF Init
<1>6. TypeOK
  BY <1>1, <1>3, <1>4, <1>5 DEF TypeOK
<1> QED BY <1>1, <1>2, <1>5, <1>6, Messages DEF Init, Typed

LEMMA EncodeTyped == ASSUME Typed, Encode PROVE Typed'
<1>1. /\ Len(sent) < Len(scenario.messages) /\ encoded = <<>> /\ encoded' = Framed(<<END>>)
      /\ room' = ((Len(Data) + 7) \div 4) * 4
  BY DEF Encode
<1>2. <<END>> \in Seq(Byte) /\ Len(<<END>>) = 1
  BY DEF Byte
<1>3. encoded' \in Seq(Bytes) /\ Len(encoded') = 1
  BY <1>1, <1>2, PutFacts
<1>4. Len(Data) \in Nat \ {0}
  BY <1>1, DataFacts
<1>5. room' \in Nat /\ room' >= 4
  BY <1>1, <1>4
<1>6. /\ scenario' = scenario /\ taken' = taken /\ sent' = sent /\ line' = line /\ left' = left
      /\ buffer' = buffer /\ capacity' = capacity /\ escape' = escape /\ got' = got /\ unread' = unread
      /\ damaged' = damaged
  BY DEF Encode, decoderVars, consumerVars
<1>7. Bytes' = Bytes /\ Data' = Data
  BY <1>6 DEF Bytes, Data
<1>8. TypeOK'
  BY <1>3, <1>5, <1>6, <1>7 DEF Typed, TypeOK
<1> QED BY <1>1, <1>4, <1>5, <1>6, <1>7, <1>8 DEF Typed

LEMMA EncodeByteTyped == ASSUME Typed, EncodeByte PROVE Typed'
<1>1. /\ Len(sent) < Len(scenario.messages) /\ encoded # <<>> /\ taken < Len(Data) /\ taken \in Nat
      /\ room \in Nat
  BY DEF Typed, TypeOK, EncodeByte
<1>2. /\ taken' = taken + 1 /\ room' = (IF Fits(Len(encoded), room) THEN room ELSE 2 * room)
      /\ encoded' = Put(room', Stuffed(Data[taken + 1]))
  BY DEF EncodeByte
<1>3. Stuffed(Data[taken + 1]) \in Seq(Byte)
  BY <1>1, DataFacts, StuffedFacts
<1>4. room' \in Nat
  BY <1>1, <1>2
<1>5. encoded' \in Seq(Bytes) /\ Len(encoded') <= room'
  BY <1>2, <1>3, <1>4, <1>1, PutFacts
<1>6. /\ scenario' = scenario /\ sent' = sent /\ line' = line /\ left' = left
      /\ buffer' = buffer /\ capacity' = capacity /\ escape' = escape /\ got' = got /\ unread' = unread
      /\ damaged' = damaged
  BY DEF EncodeByte, decoderVars, consumerVars
<1>7. Bytes' = Bytes /\ Data' = Data
  BY <1>6 DEF Bytes, Data
<1>8. TypeOK'
  BY <1>1, <1>2, <1>4, <1>5, <1>6, <1>7 DEF Typed, TypeOK
<1>9. encoded' # <<>> /\ room' > 0
  BY <1>1, <1>2, <1>3, <1>4, PutFacts DEF Typed
<1> QED BY <1>1, <1>2, <1>6, <1>7, <1>8, <1>9, DataFacts DEF Typed

LEMMA SendTyped == ASSUME Typed, NEW stripped \in BOOLEAN, Send(stripped) PROVE Typed'
<1> DEFINE bytes == Put(room, <<END>>)
<1>1. /\ Len(sent) < Len(scenario.messages) /\ encoded # <<>> /\ room \in Nat /\ room > 0
      /\ line \in Seq(Bytes) /\ left \in 0 .. Len(line) /\ sent \in Seq(Message) /\ Len(sent) \in Nat
  BY DEF Typed, TypeOK, Send
<1>2. /\ line' = line \o IF stripped THEN Tail(bytes) ELSE bytes
      /\ sent' = Append(sent, Data) /\ encoded' = <<>> /\ room' = 0 /\ taken' = 0
  BY DEF Send
<1>3. <<END>> \in Seq(Byte)
  BY DEF Byte
<1>4. bytes \in Seq(Bytes) /\ bytes # <<>>
  BY <1>1, <1>3, PutFacts
<1> HIDE DEF bytes
<1> DEFINE more == IF stripped THEN Tail(bytes) ELSE bytes
<1>5. more \in Seq(Bytes)
  BY <1>4, HeadTailProperties
<1>6. line' = line \o more
  BY <1>2
<1> HIDE DEF more
<1>7. line' \in Seq(Bytes) /\ Len(line') = Len(line) + Len(more) /\ Len(more) \in Nat
  BY <1>1, <1>5, <1>6, ConcatProperties
<1>8. sent' \in Seq(Message) /\ Len(sent') = Len(sent) + 1
  BY <1>1, <1>2, DataFacts
<1>9. /\ scenario' = scenario /\ left' = left
      /\ buffer' = buffer /\ capacity' = capacity /\ escape' = escape /\ got' = got /\ unread' = unread
      /\ damaged' = damaged
  BY DEF Send, decoderVars, consumerVars
<1>10. Bytes' = Bytes
  BY <1>9 DEF Bytes
<1>11. encoded' \in Seq(Bytes) /\ Len(encoded') = 0
  BY <1>2
<1>12. left' \in 0 .. Len(line')
  BY <1>1, <1>7, <1>9
<1>13. TypeOK'
  BY <1>2, <1>7, <1>8, <1>9, <1>10, <1>11, <1>12 DEF Typed, TypeOK
<1>14. Len(scenario.messages) \in Nat
  BY Messages DEF Typed, TypeOK
<1>15. capacity' > 0 /\ Len(sent') <= Len(scenario'.messages)
  BY <1>1, <1>8, <1>9, <1>14 DEF Typed
<1> QED BY <1>2, <1>13, <1>15 DEF Typed

LEMMA OnRawDataTyped == ASSUME Typed, NEW n \in 1 .. Len(line), OnRawData(n) PROVE Typed'
<1>1. /\ scenario' = scenario /\ taken' = taken /\ sent' = sent /\ line' = line /\ left' = n
      /\ encoded' = encoded /\ room' = room
      /\ buffer' = buffer /\ capacity' = capacity /\ escape' = escape /\ got' = got /\ unread' = unread
      /\ damaged' = damaged
  BY DEF OnRawData, encoderVars, decoderVars, consumerVars
<1>2. Bytes' = Bytes /\ Data' = Data
  BY <1>1 DEF Bytes, Data
<1>3. left' \in 0 .. Len(line')
  BY <1>1
<1>4. TypeOK'
  BY <1>1, <1>2, <1>3 DEF Typed, TypeOK
<1> QED BY <1>1, <1>2, <1>4 DEF Typed

LEMMA ReadTyped == ASSUME Typed, Read PROVE Typed'
<1>1. /\ scenario' = scenario /\ taken' = taken /\ sent' = sent /\ line' = line /\ left' = left
      /\ encoded' = encoded /\ room' = room
      /\ buffer' = buffer /\ capacity' = capacity /\ escape' = escape /\ got' = got /\ unread' = FALSE
      /\ damaged' = damaged
  BY DEF Read, encoderVars, decoderVars
<1>2. Bytes' = Bytes /\ Data' = Data
  BY <1>1 DEF Bytes, Data
<1>3. TypeOK'
  BY <1>1, <1>2 DEF Typed, TypeOK
<1> QED BY <1>1, <1>2, <1>3 DEF Typed

\* decode() looks at the next byte.
LEMMA TakeFacts ==
    ASSUME Typed, left > 0
    PROVE  /\ line \in Seq(Bytes) /\ Len(line) > 0 /\ Len(line) \in Nat /\ left \in Nat
           /\ Head(line) \in Bytes /\ Head(line) = line[1] /\ Head(line).val \in Byte
           /\ Tail(line) \in Seq(Bytes) /\ Len(Tail(line)) = Len(line) - 1
           /\ \A i \in 1 .. Len(line) - 1 : Tail(line)[i] = line[i + 1]
           /\ Take => line' \in Seq(Bytes) /\ left' \in 0 .. Len(line')
<1>1. line \in Seq(Bytes) /\ Len(line) > 0 /\ Len(line) \in Nat /\ left \in Nat /\ left <= Len(line)
  BY DEF Typed, TypeOK
<1>2. /\ Head(line) \in Bytes /\ Head(line) = line[1] /\ Tail(line) \in Seq(Bytes)
      /\ Len(Tail(line)) = Len(line) - 1 /\ \A i \in 1 .. Len(line) - 1 : Tail(line)[i] = line[i + 1]
  BY <1>1, HeadTail
<1>3. Head(line).val \in Byte
  BY <1>2 DEF Bytes
<1>4. Take => line' \in Seq(Bytes) /\ left' \in 0 .. Len(line')
  BY <1>1, <1>2 DEF Take
<1> QED BY <1>1, <1>2, <1>3, <1>4

\* What is not the decoder's stays as it is.
LEMMA EncoderKept ==
    ASSUME Typed, UNCHANGED <<scenario, encoderVars, damaged>>, line' \in Seq(Bytes), left' \in 0 .. Len(line'),
           got' \in Seq(Seq(Byte)), unread' \in BOOLEAN, escape' \in BOOLEAN,
           buffer' \in Seq(Byte), capacity' \in Nat \ {0}, Len(buffer') <= capacity'
    PROVE  Typed'
<1>1. /\ scenario' = scenario /\ taken' = taken /\ sent' = sent /\ encoded' = encoded /\ room' = room
      /\ damaged' = damaged
  BY DEF encoderVars
<1>2. Bytes' = Bytes /\ Data' = Data
  BY <1>1 DEF Bytes, Data
<1>3. TypeOK'
  BY <1>1, <1>2 DEF Typed, TypeOK
<1> QED BY <1>1, <1>2, <1>3 DEF Typed

LEMMA UnescapedFacts == ASSUME NEW val \in Byte PROVE Unescaped(val) \in Byte
BY DEF Unescaped, Byte

LEMMA AddByteTyped == ASSUME Typed, AddByte PROVE Typed'
<1>1. /\ buffer \in Seq(Byte) /\ Len(buffer) \in Nat /\ capacity \in Nat \ {0} /\ Len(buffer) <= capacity
      /\ got \in Seq(Seq(Byte)) /\ unread \in BOOLEAN
  BY DEF Typed, TypeOK
<1>2. left > 0 /\ Take /\ got' = got /\ unread' = unread /\ escape' = FALSE
  BY DEF AddByte, consumerVars
<1> DEFINE val == IF escape THEN Unescaped(Head(line).val) ELSE Head(line).val
<1>3. val \in Byte
  BY <1>2, TakeFacts, UnescapedFacts
<1>4. /\ capacity' = (IF Full(Len(buffer), capacity) THEN 2 * capacity ELSE capacity)
      /\ buffer' = (IF capacity' < MaxMessageSize THEN Append(buffer, val) ELSE <<>>)
  BY DEF AddByte
<1> HIDE DEF val
<1>5. capacity' \in Nat \ {0} /\ Len(buffer) + 1 <= capacity'
  BY <1>1, <1>4 DEF Full
<1>6. buffer' \in Seq(Byte) /\ Len(buffer') <= Len(buffer) + 1
  BY <1>1, <1>3, <1>4
<1>7. Len(buffer') <= capacity'
  BY <1>1, <1>5, <1>6
<1> QED BY <1>1, <1>2, <1>5, <1>6, <1>7, TakeFacts, EncoderKept DEF AddByte

LEMMA EscapeTyped == ASSUME Typed, Escape PROVE Typed'
<1>1. /\ left > 0 /\ Take /\ got' = got /\ unread' = unread /\ escape' = TRUE
      /\ buffer' = buffer /\ capacity' = capacity
  BY DEF Escape, consumerVars
<1>2. /\ buffer' \in Seq(Byte) /\ capacity' \in Nat \ {0} /\ Len(buffer') <= capacity'
      /\ got' \in Seq(Seq(Byte)) /\ unread' \in BOOLEAN
  BY <1>1 DEF Typed, TypeOK
<1> QED BY <1>1, <1>2, TakeFacts, EncoderKept DEF Escape

LEMMA HandleEndTyped == ASSUME Typed, HandleEnd PROVE Typed'
<1>1. /\ left > 0 /\ capacity' = capacity /\ escape' = escape
  BY DEF HandleEnd
<1>2. /\ buffer \in Seq(Byte) /\ Len(buffer) \in Nat /\ capacity \in Nat \ {0} /\ Len(buffer) <= capacity
      /\ got \in Seq(Seq(Byte)) /\ unread \in BOOLEAN /\ escape \in BOOLEAN
      /\ line \in Seq(Bytes) /\ left \in Nat /\ left <= Len(line) /\ Len(line) \in Nat
  BY DEF Typed, TypeOK
<1>3. /\ (buffer' = buffer) \/ (buffer' = <<>>)
      /\ (got' = got) \/ (got' = Append(got, buffer))
      /\ (unread' = unread) \/ (unread' \in BOOLEAN)
      /\ Take \/ (line' = SubSeq(line, left + 1, Len(line)) /\ left' = 0)
  BY DEF HandleEnd, consumerVars, HasMailbox, Cleared
<1>4. buffer' \in Seq(Byte) /\ Len(buffer') <= Len(buffer)
  <2>1. CASE buffer' = buffer
    BY <2>1, <1>2
  <2>2. CASE buffer' = <<>>
    <3>1. <<>> \in Seq(Byte) /\ Len(<<>>) = 0
      BY EmptySeq
    <3> QED BY <2>2, <3>1, <1>2
  <2> QED BY <2>1, <2>2, <1>3
<1>5. capacity' \in Nat \ {0} /\ Len(buffer') <= capacity' /\ escape' \in BOOLEAN
  <2>1. Len(buffer') \in Nat
    BY <1>4
  <2> QED BY <2>1, <1>1, <1>2, <1>4
<1>6. unread' \in BOOLEAN
  BY <1>2, <1>3
<1>7. got' \in Seq(Seq(Byte))
  <2>1. Append(got, buffer) \in Seq(Seq(Byte))
    BY <1>2
  <2> QED BY <2>1, <1>2, <1>3
<1>8. SubSeq(line, left + 1, Len(line)) \in Seq(Bytes)
  BY <1>2, Part
<1>9. line' \in Seq(Bytes) /\ left' \in 0 .. Len(line')
  <2>1. CASE Take
    BY <2>1, <1>1, TakeFacts
  <2>2. CASE line' = SubSeq(line, left + 1, Len(line)) /\ left' = 0
    <3>1. line' \in Seq(Bytes)
      BY <2>2, <1>8
    <3> QED BY <2>2, <3>1
  <2> QED BY <2>1, <2>2, <1>3
<1> QED BY <1>4, <1>5, <1>6, <1>7, <1>9, EncoderKept DEF HandleEnd

LEMMA DamageTyped == ASSUME Typed, NEW i \in 1 .. Len(line), Damage(i) PROVE Typed'
<1>1. /\ scenario' = scenario /\ taken' = taken /\ sent' = sent /\ encoded' = encoded /\ room' = room
      /\ buffer' = buffer /\ capacity' = capacity /\ escape' = escape /\ got' = got /\ unread' = unread
      /\ left' = left /\ damaged' = Append(damaged, line[i].frame) /\ i > left
  BY DEF Damage, encoderVars, decoderVars, consumerVars
<1>2. line \in Seq(Bytes) /\ Len(line) \in Nat /\ left \in Nat /\ damaged \in Seq(1 .. Len(scenario.messages))
  BY DEF Typed, TypeOK
<1>3. line[i] \in Bytes
  BY <1>2, ElementOfSeq
<1>4. line[i].frame \in 1 .. Len(scenario.messages)
  BY <1>3 DEF Bytes
<1>5. damaged' \in Seq(1 .. Len(scenario.messages))
  BY <1>1, <1>2, <1>4
<1>6. Bytes' = Bytes /\ Data' = Data
  BY <1>1 DEF Bytes, Data
<1>7. line' \in Seq(Bytes) /\ left <= Len(line')
  <2>1. CASE line' = SubSeq(line, 1, i - 1) \o SubSeq(line, i + 1, Len(line))
    <3> DEFINE a == SubSeq(line, 1, i - 1)
    <3> DEFINE b == SubSeq(line, i + 1, Len(line))
    <3>1. a \in Seq(Bytes) /\ Len(a) = i - 1
      BY <1>2, Part
    <3>2. b \in Seq(Bytes) /\ Len(b) \in Nat
      BY <1>2, Part
    <3>3. line' = a \o b
      BY <2>1
    <3> HIDE DEF a, b
    <3>4. line' \in Seq(Bytes) /\ Len(line') = Len(a) + Len(b)
      BY <3>1, <3>2, <3>3, ConcatProperties
    <3> QED BY <3>1, <3>2, <3>4, <1>1, <1>2
  <2>2. CASE \E val \in Byte : line' = [line EXCEPT ![i].val = val]
    <3>1. PICK val \in Byte : line' = [line EXCEPT ![i].val = val]
      BY <2>2
    <3>2. [line[i] EXCEPT !.val = val] \in Bytes
      BY <1>3 DEF Bytes
    <3>3. line' = [line EXCEPT ![i] = [line[i] EXCEPT !.val = val]]
      BY <3>1
    <3>4. line' \in Seq(Bytes) /\ Len(line') = Len(line)
      BY <3>2, <3>3, <1>2, ExceptSeq
    <3> QED BY <3>4, <1>1, <1>2
  <2> QED BY <2>1, <2>2 DEF Damage
<1>8. TypeOK'
  BY <1>1, <1>2, <1>5, <1>6, <1>7 DEF Typed, TypeOK
<1> QED BY <1>1, <1>6, <1>8 DEF Typed

LEMMA NextTyped == ASSUME Typed, [Next]_vars PROVE Typed'
<1>1. CASE UNCHANGED vars
  <2>1. /\ scenario' = scenario /\ taken' = taken /\ sent' = sent /\ encoded' = encoded /\ room' = room
        /\ buffer' = buffer /\ capacity' = capacity /\ escape' = escape /\ got' = got /\ unread' = unread
        /\ left' = left /\ damaged' = damaged /\ line' = line
    BY <1>1 DEF vars, encoderVars, decoderVars, consumerVars
  <2>2. Bytes' = Bytes /\ Data' = Data
    BY <2>1 DEF Bytes, Data
  <2> QED BY <2>1, <2>2 DEF Typed, TypeOK
<1> QED BY <1>1, EncodeTyped, EncodeByteTyped, SendTyped, OnRawDataTyped, AddByteTyped, EscapeTyped,
           HandleEndTyped, ReadTyped, DamageTyped DEF Next

\* Encoder and decoder stay within their buffers, whatever the messages, how the
\* bytes are split and which of them are damaged (slip.js:46-74, 157-167).
THEOREM TypeCorrect == Spec => []TypeOK
<1>1. Typed => TypeOK
  BY DEF Typed
<1> QED BY <1>1, InitTyped, NextTyped, PTL DEF Spec

-----------------------------------------------------------------------------
(* How far the decoder is                                                  *)

\* It decodes message number n, has at bytes of it, and has seen an ESC or not.
At(n, at, esc) == [n |-> n, at |-> at, escape |-> esc]

\* Byte b is encoded by ESC and another one.
Special(b) == b \in {END, ESC}
Code(b) == IF b = END THEN ESC_END ELSE ESC_ESC

\* Byte e of the line may follow: it belongs to message p.n, and is an END around it,
\* its next byte, or one of the two that encode its next byte.
Follows(ms, p, e) ==
    /\ p.n \in DOMAIN ms /\ e.frame = p.n
    /\ LET m == ms[p.n] IN
       \/ ~p.escape /\ e.val = END /\ p.at \in {0, Len(m)}
       \/ /\ p.at < Len(m)
          /\ \/ ~p.escape /\ ~Special(m[p.at + 1]) /\ e.val = m[p.at + 1]
             \/ ~p.escape /\ Special(m[p.at + 1]) /\ e.val = ESC
             \/ p.escape /\ Special(m[p.at + 1]) /\ e.val = Code(m[p.at + 1])

\* Where the decoder is after it.
Moved(p, val) ==
    IF p.escape THEN At(p.n, p.at + 1, FALSE)
    ELSE IF val = ESC THEN At(p.n, p.at, TRUE)
    ELSE IF val # END THEN At(p.n, p.at + 1, FALSE)
    ELSE IF p.at = 0 THEN p ELSE At(p.n + 1, 0, FALSE)

\* The bytes take the decoder from one place to another.
Path(ms, q, bytes, from, to) ==
    /\ q[1] = from /\ q[Len(bytes) + 1] = to
    /\ \A i \in 1 .. Len(bytes) : Follows(ms, q[i], bytes[i]) /\ q[i + 1] = Moved(q[i], bytes[i].val)
Leads(ms, bytes, from, to) == \E q : Path(ms, q, bytes, from, to)

LEMMA LeadsEmpty == ASSUME NEW ms, NEW s, s = <<>>, NEW p, NEW r PROVE Leads(ms, s, p, r) <=> p = r
<1>1. Len(s) = 0
  BY EmptySeq
<1>2. ASSUME Leads(ms, s, p, r) PROVE p = r
  BY <1>1, <1>2 DEF Leads, Path
<1>3. ASSUME p = r PROVE Leads(ms, s, p, r)
  <2> DEFINE q == [i \in {1} |-> p]
  <2>1. q[1] = p
    OBVIOUS
  <2> HIDE DEF q
  <2>2. Path(ms, q, s, p, r)
    BY <1>1, <1>3, <2>1 DEF Path
  <2> QED BY <2>2 DEF Leads
<1> QED BY <1>2, <1>3

LEMMA LeadsOne ==
    ASSUME NEW ms, NEW S, NEW s \in Seq(S), NEW p, Len(s) = 1, Follows(ms, p, s[1])
    PROVE  Leads(ms, s, p, Moved(p, s[1].val))
<1> DEFINE q == [i \in 1 .. 2 |-> IF i = 1 THEN p ELSE Moved(p, s[1].val)]
<1>1. q[1] = p /\ q[2] = Moved(p, s[1].val)
  OBVIOUS
<1> HIDE DEF q
<1>2. Path(ms, q, s, p, Moved(p, s[1].val))
  BY <1>1 DEF Path
<1> QED BY <1>2 DEF Leads

\* The first byte is taken from the line.
LEMMA LeadsTail ==
    ASSUME NEW ms, NEW S, NEW s \in Seq(S), NEW p, NEW r, Len(s) > 0, Leads(ms, s, p, r)
    PROVE  Follows(ms, p, Head(s)) /\ Leads(ms, Tail(s), Moved(p, Head(s).val), r)
<1>1. PICK q : Path(ms, q, s, p, r)
  BY DEF Leads
<1>2. /\ Head(s) = s[1] /\ Len(Tail(s)) = Len(s) - 1 /\ Len(s) \in Nat
      /\ \A i \in 1 .. Len(s) - 1 : Tail(s)[i] = s[i + 1]
  BY HeadTail
<1> DEFINE t == Tail(s)
<1>3. /\ Len(t) = Len(s) - 1 /\ \A i \in 1 .. Len(s) - 1 : t[i] = s[i + 1]
  BY <1>2
<1> HIDE DEF t
<1>4. /\ q[1] = p /\ q[Len(s) + 1] = r
      /\ \A i \in 1 .. Len(s) : Follows(ms, q[i], s[i]) /\ q[i + 1] = Moved(q[i], s[i].val)
  BY <1>1 DEF Path
<1> DEFINE q1 == [i \in 1 .. Len(s) |-> q[i + 1]]
<1>5. \A i \in 1 .. Len(s) : q1[i] = q[i + 1]
  OBVIOUS
<1> HIDE DEF q1
<1>6. Follows(ms, p, s[1]) /\ q[2] = Moved(p, s[1].val)
  BY <1>2, <1>4
<1>7. q1[1] = Moved(p, s[1].val) /\ q1[Len(t) + 1] = r
  BY <1>2, <1>3, <1>4, <1>5, <1>6
<1>8. ASSUME NEW i \in 1 .. Len(t) PROVE Follows(ms, q1[i], t[i]) /\ q1[i + 1] = Moved(q1[i], t[i].val)
  <2>1. i \in 1 .. Len(s) /\ i + 1 \in 1 .. Len(s) /\ t[i] = s[i + 1] /\ q1[i] = q[i + 1] /\ q1[i + 1] = q[i + 1 + 1]
    BY <1>2, <1>3, <1>5
  <2> QED BY <2>1, <1>4
<1>9. Path(ms, q1, t, Moved(p, s[1].val), r)
  BY <1>7, <1>8 DEF Path
<1> QED BY <1>2, <1>6, <1>9 DEF Leads, t

\* More bytes follow.
LEMMA LeadsConcat ==
    ASSUME NEW ms, NEW S, NEW s \in Seq(S), NEW t \in Seq(S), NEW p, NEW r, NEW o, Leads(ms, s, p, r), Leads(ms, t, r, o)
    PROVE  Leads(ms, s \o t, p, o)
<1>1. PICK q : Path(ms, q, s, p, r)
  BY DEF Leads
<1>2. PICK q2 : Path(ms, q2, t, r, o)
  BY DEF Leads
<1>3. Len(s) \in Nat /\ Len(t) \in Nat
  OBVIOUS
<1> DEFINE u == s \o t
<1>4. /\ Len(u) = Len(s) + Len(t)
      /\ \A i \in 1 .. Len(s) : u[i] = s[i]
      /\ \A i \in 1 .. Len(t) : u[Len(s) + i] = t[i]
  BY ConcatProperties
<1> HIDE DEF u
<1>5. /\ q[1] = p /\ q[Len(s) + 1] = r
      /\ \A i \in 1 .. Len(s) : Follows(ms, q[i], s[i]) /\ q[i + 1] = Moved(q[i], s[i].val)
  BY <1>1 DEF Path
<1>6. /\ q2[1] = r /\ q2[Len(t) + 1] = o
      /\ \A i \in 1 .. Len(t) : Follows(ms, q2[i], t[i]) /\ q2[i + 1] = Moved(q2[i], t[i].val)
  BY <1>2 DEF Path
<1> DEFINE w == [i \in 1 .. Len(u) + 1 |-> IF i <= Len(s) THEN q[i] ELSE q2[i - Len(s)]]
<1>7. /\ \A i \in 1 .. Len(s) + 1 : w[i] = q[i]
      /\ \A i \in 1 .. Len(t) + 1 : w[Len(s) + i] = q2[i]
  <2>1. \A i \in 1 .. Len(s) : w[i] = q[i]
    BY <1>3, <1>4
  <2>2. ASSUME NEW i \in 1 .. Len(t) + 1 PROVE w[Len(s) + i] = q2[i]
    <3>1. Len(s) + i \in 1 .. Len(u) + 1 /\ ~(Len(s) + i <= Len(s)) /\ (Len(s) + i) - Len(s) = i
      BY <1>3, <1>4
    <3> QED BY <3>1
  <2>3. w[Len(s) + 1] = q[Len(s) + 1]
    BY <2>2, <1>3, <1>5, <1>6, SMTT(30)
  <2> HIDE DEF w
  <2> QED BY <2>1, <2>2, <2>3, <1>3
<1> HIDE DEF w
<1>8. w[1] = p /\ w[Len(u) + 1] = o
  <2>1. w[Len(s) + (Len(t) + 1)] = q2[Len(t) + 1] /\ Len(u) + 1 = Len(s) + (Len(t) + 1)
    BY <1>3, <1>4, <1>7
  <2> QED BY <2>1, <1>3, <1>5, <1>6, <1>7
<1>9. ASSUME NEW i \in 1 .. Len(u) PROVE Follows(ms, w[i], u[i]) /\ w[i + 1] = Moved(w[i], u[i].val)
  <2>1. CASE i <= Len(s)
    <3>1. i \in 1 .. Len(s) /\ w[i] = q[i] /\ w[i + 1] = q[i + 1] /\ u[i] = s[i]
      BY <2>1, <1>3, <1>4, <1>7
    <3> QED BY <3>1, <1>5
  <2>2. CASE i > Len(s)
    <3>1. PICK j \in 1 .. Len(t) : i = Len(s) + j
      <4>1. i - Len(s) \in 1 .. Len(t) /\ i = Len(s) + (i - Len(s))
        BY <2>2, <1>3, <1>4
      <4> QED BY <4>1
    <3>2. i + 1 = Len(s) + (j + 1) /\ j + 1 \in 1 .. Len(t) + 1 /\ j \in 1 .. Len(t) + 1
      BY <3>1, <1>3
    <3>3. w[i] = q2[j] /\ w[i + 1] = q2[j + 1] /\ u[i] = t[j]
      BY <3>1, <3>2, <1>4, <1>7
    <3> QED BY <3>3, <1>6
  <2> QED BY <2>1, <2>2, <1>3, <1>4
<1>10. Path(ms, w, u, p, o)
  BY <1>8, <1>9 DEF Path
<1> QED BY <1>10 DEF Leads, u

LEMMA LeadsTwo ==
    ASSUME NEW ms, NEW S, NEW s \in Seq(S), NEW p, Len(s) = 2,
           Follows(ms, p, s[1]), Follows(ms, Moved(p, s[1].val), s[2])
    PROVE  Leads(ms, s, p, Moved(Moved(p, s[1].val), s[2].val))
<1> DEFINE p2 == Moved(p, s[1].val)
<1> DEFINE p3 == Moved(p2, s[2].val)
<1>1. p2 = Moved(p, s[1].val) /\ p3 = Moved(p2, s[2].val)
  OBVIOUS
<1>2. Follows(ms, p, s[1]) /\ Follows(ms, p2, s[2])
  OBVIOUS
<1> HIDE DEF p2, p3
<1> DEFINE q == [i \in 1 .. 3 |-> IF i = 1 THEN p ELSE IF i = 2 THEN p2 ELSE p3]
<1>3. q[1] = p /\ q[2] = p2 /\ q[3] = p3
  OBVIOUS
<1> HIDE DEF q
<1>4. Path(ms, q, s, p, p3)
  <2>1. ASSUME NEW i \in 1 .. Len(s) PROVE Follows(ms, q[i], s[i]) /\ q[i + 1] = Moved(q[i], s[i].val)
    <3>1. CASE i = 1
      BY <3>1, <1>1, <1>2, <1>3
    <3>2. CASE i = 2
      BY <3>2, <1>1, <1>2, <1>3
    <3> QED BY <3>1, <3>2
  <2>2. q[Len(s) + 1] = p3
    BY <1>3
  <2> QED BY <2>1, <2>2, <1>3 DEF Path
<1>5. Leads(ms, s, p, p3)
  BY <1>4 DEF Leads
<1> QED BY <1>5, <1>1

\* One or two bytes that are put.
LEMMA FramedOne ==
    ASSUME Typed, Len(sent) < Len(scenario.messages), NEW b \in Byte
    PROVE  /\ Framed(<<b>>) \in Seq(Bytes) /\ Len(Framed(<<b>>)) = 1
           /\ Framed(<<b>>)[1].val = b /\ Framed(<<b>>)[1].frame = Len(sent) + 1
<1> DEFINE s == <<b>>
<1>1. s \in Seq(Byte) /\ Len(s) = 1 /\ s[1] = b
  OBVIOUS
<1> HIDE DEF s
<1>2. /\ Framed(s) \in Seq(Bytes) /\ Len(Framed(s)) = 1
      /\ Framed(s)[1] = [val |-> s[1], frame |-> Len(sent) + 1]
  BY <1>1, PutFacts
<1>3. Framed(s)[1].val = b /\ Framed(s)[1].frame = Len(sent) + 1
  BY <1>1, <1>2
<1> QED BY <1>2, <1>3 DEF s

LEMMA FramedTwo ==
    ASSUME Typed, Len(sent) < Len(scenario.messages), NEW b \in Byte, NEW c \in Byte
    PROVE  /\ Framed(<<b, c>>) \in Seq(Bytes) /\ Len(Framed(<<b, c>>)) = 2
           /\ Framed(<<b, c>>)[1].val = b /\ Framed(<<b, c>>)[1].frame = Len(sent) + 1
           /\ Framed(<<b, c>>)[2].val = c /\ Framed(<<b, c>>)[2].frame = Len(sent) + 1
<1> DEFINE s == <<b, c>>
<1>1. s \in Seq(Byte) /\ Len(s) = 2 /\ s[1] = b /\ s[2] = c
  OBVIOUS
<1> HIDE DEF s
<1>2. /\ Framed(s) \in Seq(Bytes) /\ Len(Framed(s)) = 2
      /\ Framed(s)[1] = [val |-> s[1], frame |-> Len(sent) + 1]
      /\ Framed(s)[2] = [val |-> s[2], frame |-> Len(sent) + 1]
  BY <1>1, PutFacts
<1>3. /\ Framed(s)[1].val = b /\ Framed(s)[1].frame = Len(sent) + 1
      /\ Framed(s)[2].val = c /\ Framed(s)[2].frame = Len(sent) + 1
  BY <1>1, <1>2
<1> QED BY <1>2, <1>3 DEF s

\* The bytes put for one byte of a message.
LEMMA StuffedLeads ==
    ASSUME Typed, NEW ms, NEW n \in DOMAIN ms, NEW k \in Nat, n = Len(sent) + 1,
           ms[n] \in Seq(Byte), k < Len(ms[n]), Len(sent) < Len(scenario.messages)
    PROVE  Leads(ms, Framed(Stuffed(ms[n][k + 1])), At(n, k, FALSE), At(n, k + 1, FALSE))
<1> DEFINE b == ms[n][k + 1]
<1>1. b \in Byte
  <2>1. k + 1 \in 1 .. Len(ms[n])
    OBVIOUS
  <2> QED BY <2>1, ElementOfSeq
<1>2. b = ms[n][k + 1]
  OBVIOUS
<1> HIDE DEF b
<1> DEFINE f == Framed(Stuffed(b))
<1> DEFINE p == At(n, k, FALSE)
<1>3. p.n = n /\ p.at = k /\ p.escape = FALSE
  BY DEF At
<1>4. CASE Special(b)
  <2>1. Stuffed(b) = <<ESC, Code(b)>> /\ ESC \in Byte /\ Code(b) \in Byte
    BY <1>4 DEF Stuffed, Special, Code, Byte, END, ESC
  <2>2. /\ f \in Seq(Bytes) /\ Len(f) = 2
        /\ f[1].val = ESC /\ f[2].val = Code(b) /\ f[1].frame = n /\ f[2].frame = n
    BY <2>1, FramedTwo
  <2> HIDE DEF f, p
  <2>3. Follows(ms, p, f[1])
    BY <2>2, <1>2, <1>3, <1>4 DEF Follows
  <2> DEFINE r == Moved(p, f[1].val)
  <2>4. r = At(n, k, TRUE)
    BY <2>2, <1>3 DEF Moved
  <2>5. r.n = n /\ r.at = k /\ r.escape = TRUE
    BY <2>4 DEF At
  <2>6. r = Moved(p, f[1].val)
    OBVIOUS
  <2> HIDE DEF r
  <2>7. Follows(ms, r, f[2])
    BY <2>2, <2>5, <1>2, <1>4 DEF Follows
  <2>8. Moved(r, f[2].val) = At(n, k + 1, FALSE)
    BY <2>5 DEF Moved
  <2>9. Leads(ms, f, p, Moved(r, f[2].val))
    BY <2>2, <2>3, <2>6, <2>7, LeadsTwo
  <2> QED BY <2>8, <2>9, <1>2 DEF f, p
<1>5. CASE ~Special(b)
  <2>1. Stuffed(b) = <<b>>
    BY <1>5 DEF Stuffed, Special
  <2>2. f \in Seq(Bytes) /\ Len(f) = 1 /\ f[1].val = b /\ f[1].frame = n
    BY <2>1, <1>1, FramedOne
  <2> HIDE DEF f, p
  <2>3. Follows(ms, p, f[1])
    BY <2>2, <1>2, <1>3, <1>5 DEF Follows
  <2>4. Moved(p, f[1].val) = At(n, k + 1, FALSE)
    BY <2>2, <1>3, <1>5 DEF Moved, Special
  <2>5. Leads(ms, f, p, Moved(p, f[1].val))
    BY <2>2, <2>3, LeadsOne
  <2> QED BY <2>4, <2>5, <1>2 DEF f, p
<1> QED BY <1>4, <1>5

\* The trailing END.
LEMMA EndLeads ==
    ASSUME Typed, NEW ms, NEW n \in DOMAIN ms, n = Len(sent) + 1,
           ms[n] \in Seq(Byte), Len(ms[n]) > 0, Len(sent) < Len(scenario.messages)
    PROVE  Leads(ms, Framed(<<END>>), At(n, Len(ms[n]), FALSE), At(n + 1, 0, FALSE))
<1> DEFINE f == Framed(<<END>>)
<1> DEFINE k == Len(ms[n])
<1> DEFINE p == At(n, k, FALSE)
<1>1. END \in Byte
  BY DEF Byte
<1>2. f \in Seq(Bytes) /\ Len(f) = 1 /\ f[1].val = END /\ f[1].frame = n
  BY <1>1, FramedOne
<1>3. p.n = n /\ p.at = k /\ p.escape = FALSE
  BY DEF At
<1>4. k = Len(ms[n]) /\ k > 0
  OBVIOUS
<1> HIDE DEF f, p, k
<1>5. Follows(ms, p, f[1])
  BY <1>2, <1>3, <1>4 DEF Follows
<1>6. END # ESC /\ k # 0
  BY <1>4 DEF END, ESC
<1>7. Moved(p, f[1].val) = At(n + 1, 0, FALSE)
  BY <1>2, <1>3, <1>6 DEF Moved
<1>8. Leads(ms, f, p, Moved(p, f[1].val))
  BY <1>2, <1>5, LeadsOne
<1> QED BY <1>7, <1>8 DEF f, p, k

\* The leading END.
LEMMA StartLeads ==
    ASSUME Typed, NEW ms, NEW n \in DOMAIN ms, n = Len(sent) + 1, Len(sent) < Len(scenario.messages)
    PROVE  Leads(ms, Framed(<<END>>), At(n, 0, FALSE), At(n, 0, FALSE))
<1> DEFINE f == Framed(<<END>>)
<1> DEFINE p == At(n, 0, FALSE)
<1>1. END \in Byte
  BY DEF Byte
<1>2. f \in Seq(Bytes) /\ Len(f) = 1 /\ f[1].val = END /\ f[1].frame = n
  BY <1>1, FramedOne
<1>3. p.n = n /\ p.at = 0 /\ p.escape = FALSE
  BY DEF At
<1> HIDE DEF f, p
<1>4. Follows(ms, p, f[1])
  BY <1>2, <1>3 DEF Follows
<1>5. END # ESC
  BY DEF END, ESC
<1>6. Moved(p, f[1].val) = p
  BY <1>2, <1>3, <1>5 DEF Moved
<1>7. Leads(ms, f, p, Moved(p, f[1].val))
  BY <1>2, <1>4, LeadsOne
<1> QED BY <1>6, <1>7 DEF f, p

-----------------------------------------------------------------------------
(* An undamaged line                                                       *)

\* Of the message that is encoded: the bytes so far lead a decoder to where the
\* encoder is, and there is space for the trailing END.
Encoding ==
    encoded # <<>> =>
        /\ room >= 4 /\ Len(encoded) < room /\ encoded[1].val = END
        /\ \A i \in 1 .. Len(encoded) : encoded[i].frame = Len(sent) + 1
        /\ Leads(scenario.messages, encoded, At(Len(sent) + 1, 0, FALSE), At(Len(sent) + 1, taken, FALSE))

\* The bytes under way lead the decoder to the end of the last message sent.
UnderWay ==
    /\ \A i \in 1 .. Len(line) : line[i].frame <= Len(sent)
    /\ Leads(scenario.messages, line, At(Len(got) + 1, Len(buffer), escape), At(Len(sent) + 1, 0, FALSE))

\* What was sent and taken, and what the buffer has of the next message.
Arrived ==
    /\ \A i \in 1 .. Len(sent) : sent[i] = scenario.messages[i]
    /\ Len(got) <= Len(sent) /\ \A i \in 1 .. Len(got) : got[i] = scenario.messages[i]
    /\ Len(buffer) > 0 => Len(got) < Len(sent)
    /\ \A i \in 1 .. Len(buffer) : buffer[i] = scenario.messages[Len(got) + 1][i]
    /\ capacity < MaxMessageSize

\* A sender that waits does not meet an unread message.
InTurn ==
    scenario.consumer = "in turn" =>
        /\ Len(sent) <= Len(got) + 1
        /\ unread => Len(got) = Len(sent)
        /\ encoded # <<>> => Len(got) = Len(sent) /\ ~unread

Whole == Encoding /\ UnderWay /\ Arrived /\ InTurn
Undamaged == damaged = <<>> /\ scenario.consumer # "mailbox"

LEMMA InitWhole == Init => Whole
<1> SUFFICES ASSUME Init PROVE Whole
  OBVIOUS
<1>1. Typed
  BY InitTyped
<1>2. /\ encoded = <<>> /\ sent = <<>> /\ line = <<>> /\ buffer = <<>> /\ got = <<>> /\ escape = FALSE
      /\ unread = FALSE /\ capacity = BufferSize
  BY DEF Init
<1>3. Len(sent) = 0 /\ Len(line) = 0 /\ Len(buffer) = 0 /\ Len(got) = 0
  BY <1>2, EmptySeq
<1>4. UnderWay
  <2>1. At(Len(got) + 1, Len(buffer), escape) = At(Len(sent) + 1, 0, FALSE)
    BY <1>2, <1>3
  <2>2. Leads(scenario.messages, line, At(Len(got) + 1, Len(buffer), escape), At(Len(sent) + 1, 0, FALSE))
    BY <2>1, <1>2, LeadsEmpty
  <2>3. \A i \in 1 .. Len(line) : line[i].frame <= Len(sent)
    BY <1>3
  <2> QED BY <2>2, <2>3, Zenon DEF UnderWay
<1>5. Arrived
  BY <1>2, <1>3, SizeAssumption DEF Arrived
<1>6. Encoding /\ InTurn
  BY <1>2, <1>3 DEF Encoding, InTurn
<1> QED BY <1>4, <1>5, <1>6 DEF Whole

LEMMA EncodeEncoding == ASSUME Typed, Encode PROVE Encoding'
<1> DEFINE ms == scenario.messages
<1> DEFINE n == Len(sent) + 1
<1>1. /\ scenario' = scenario /\ taken' = taken /\ sent' = sent /\ line' = line /\ left' = left
      /\ buffer' = buffer /\ capacity' = capacity /\ escape' = escape /\ got' = got /\ unread' = unread
  BY DEF Encode, decoderVars, consumerVars
<1>2. /\ Len(sent) < Len(scenario.messages) /\ encoded = <<>> /\ encoded' = Framed(<<END>>)
      /\ room' = ((Len(Data) + 7) \div 4) * 4 /\ (scenario.consumer = "in turn" => line = <<>> /\ ~unread)
  BY DEF Encode
<1>3. END \in Byte
  BY DEF Byte
<1>4. Len(encoded') = 1 /\ encoded'[1].val = END /\ encoded'[1].frame = n
  BY <1>2, <1>3, FramedOne
<1>5. Len(Data) \in Nat \ {0}
  BY <1>2, DataFacts
<1>6. room' \in Nat /\ room' >= 4
  <2>1. room' = ((Len(Data) + 7) \div 4) * 4
    BY <1>2
  <2> QED BY <2>1, <1>5
<1>7. n \in DOMAIN ms /\ n \in Nat /\ Len(got) \in Nat /\ Len(sent) \in Nat
  <2>1. Len(got) \in Nat /\ Len(sent) \in Nat
    BY DEF Typed, TypeOK
  <2>2. n \in DOMAIN ms
    BY <1>2, DataFacts
  <2>3. n \in Nat
    BY <2>1
  <2> QED BY <2>1, <2>2, <2>3
<1>8. Leads(ms, encoded', At(n, 0, FALSE), At(n, 0, FALSE))
  BY <1>2, <1>7, StartLeads
<1>9. taken = 0
  BY <1>2 DEF Typed
<1>10. Encoding'
  <2>1. Leads(scenario'.messages, encoded', At(Len(sent') + 1, 0, FALSE), At(Len(sent') + 1, taken', FALSE))
    BY <1>1, <1>8, <1>9
  <2>2. \A i \in 1 .. Len(encoded') : encoded'[i].frame = Len(sent') + 1
    BY <1>1, <1>4
  <2>3. room' >= 4 /\ Len(encoded') < room' /\ encoded'[1].val = END
    BY <1>4, <1>6
  <2> QED BY <2>1, <2>2, <2>3 DEF Encoding
<1> QED BY <1>10

LEMMA EncodeWhole == ASSUME Typed, Whole, Encode PROVE Whole'
<1> DEFINE ms == scenario.messages
<1> DEFINE n == Len(sent) + 1
<1>1. /\ scenario' = scenario /\ taken' = taken /\ sent' = sent /\ line' = line /\ left' = left
      /\ buffer' = buffer /\ capacity' = capacity /\ escape' = escape /\ got' = got /\ unread' = unread
  BY DEF Encode, decoderVars, consumerVars
<1>2. /\ Len(sent) < Len(scenario.messages) /\ encoded = <<>> /\ encoded' = Framed(<<END>>)
      /\ room' = ((Len(Data) + 7) \div 4) * 4 /\ (scenario.consumer = "in turn" => line = <<>> /\ ~unread)
  BY DEF Encode
<1>3. UnderWay'
  BY <1>1 DEF Whole, UnderWay
<1>4. Arrived'
  BY <1>1 DEF Whole, Arrived
<1>5. Len(got) \in Nat /\ Len(sent) \in Nat
  BY DEF Typed, TypeOK
<1>6. Encoding'
  BY EncodeEncoding
<1>7. InTurn'
  <2>1. CASE scenario.consumer = "in turn"
    <3> DEFINE p == At(Len(got) + 1, Len(buffer), escape)
    <3> DEFINE r == At(n, 0, FALSE)
    <3>1. Leads(ms, line, p, r) /\ line = <<>> /\ ~unread
      BY <2>1, <1>2 DEF Whole, UnderWay
    <3>2. p.n = Len(got) + 1 /\ r.n = n
      BY DEF At
    <3> HIDE DEF p, r
    <3>3. p = r
      BY <3>1, LeadsEmpty
    <3>4. Len(got) = Len(sent)
      BY <3>2, <3>3, <1>5
    <3>5. Len(sent') <= Len(got') + 1 /\ Len(got') = Len(sent') /\ ~unread'
      BY <3>1, <3>4, <1>1, <1>5
    <3> QED BY <3>5 DEF InTurn
  <2> QED BY <2>1, <1>1 DEF InTurn
<1> QED BY <1>3, <1>4, <1>6, <1>7 DEF Whole

LEMMA EncodeByteEncoding == ASSUME Typed, Encoding, EncodeByte PROVE Encoding'
<1> DEFINE ms == scenario.messages
<1> DEFINE n == Len(sent) + 1
<1> DEFINE bytes == Stuffed(Data[taken + 1])
<1>1. /\ scenario' = scenario /\ sent' = sent /\ line' = line /\ left' = left
      /\ buffer' = buffer /\ capacity' = capacity /\ escape' = escape /\ got' = got /\ unread' = unread
  BY DEF EncodeByte, decoderVars, consumerVars
<1>2. /\ encoded # <<>> /\ taken < Len(Data) /\ taken' = taken + 1
      /\ room' = (IF Fits(Len(encoded), room) THEN room ELSE 2 * room)
      /\ encoded' = Put(room', bytes)
  BY DEF EncodeByte
<1>3. /\ Len(sent) < Len(scenario.messages) /\ taken \in Nat /\ room \in Nat /\ encoded \in Seq(Bytes)
      /\ Len(encoded) \in Nat /\ Len(encoded) > 0
  BY <1>2 DEF Typed, TypeOK
<1>4. n \in DOMAIN ms /\ ms[n] \in Seq(Byte) /\ Data = ms[n]
  BY <1>3, DataFacts
<1>5. bytes \in Seq(Byte) /\ Len(bytes) \in Nat /\ Len(bytes) <= 2
  <2>1. Data[taken + 1] \in Byte
    BY <1>2, <1>3, DataFacts
  <2> QED BY <2>1, StuffedFacts
<1>6. /\ room >= 4 /\ Len(encoded) < room /\ encoded[1].val = END
      /\ \A i \in 1 .. Len(encoded) : encoded[i].frame = n
      /\ Leads(ms, encoded, At(n, 0, FALSE), At(n, taken, FALSE))
  BY <1>2 DEF Encoding
<1>7. Leads(ms, Framed(bytes), At(n, taken, FALSE), At(n, taken + 1, FALSE))
  BY <1>2, <1>3, <1>4, StuffedLeads
<1> HIDE DEF bytes
<1>8. room' \in Nat /\ room' >= 4 /\ Len(encoded) + 3 <= room'
  BY <1>2, <1>3, <1>6 DEF Fits
<1> DEFINE f == Framed(bytes)
<1>9. /\ f \in Seq(Bytes) /\ Len(f) = Len(bytes)
       /\ \A i \in 1 .. Len(bytes) : f[i] = [val |-> bytes[i], frame |-> n]
  BY <1>3, <1>5, PutFacts
<1>10. encoded' = encoded \o f
  <2>1. Len(encoded) + Len(bytes) <= room'
    BY <1>3, <1>5, <1>8
  <2> QED BY <2>1, <1>2, <1>3, <1>5, <1>8, PutFacts
<1>11. Leads(ms, f, At(n, taken, FALSE), At(n, taken', FALSE))
  BY <1>2, <1>7
<1> HIDE DEF f, n, ms
<1>12. \A i \in 1 .. Len(f) : f[i].frame = n
  <2> SUFFICES ASSUME NEW i \in 1 .. Len(f) PROVE f[i].frame = n
    OBVIOUS
  <2>1. f[i] = [val |-> bytes[i], frame |-> n]
    BY <1>9
  <2> QED BY <2>1
<1>13. Leads(ms, encoded', At(n, 0, FALSE), At(n, taken', FALSE))
  BY <1>3, <1>6, <1>9, <1>10, <1>11, LeadsConcat
<1>14. /\ Len(encoded') = Len(encoded) + Len(f)
       /\ \A i \in 1 .. Len(encoded) : encoded'[i] = encoded[i]
  <2>1. encoded \in Seq(Bytes) /\ f \in Seq(Bytes)
    BY <1>3, <1>9
  <2> QED BY <2>1, <1>10, ConcatFacts
<1>15. Len(encoded') < room'
  BY <1>3, <1>5, <1>8, <1>9, <1>14
<1>16. encoded'[1].val = END
  BY <1>3, <1>6, <1>14
<1>17. \A i \in 1 .. Len(encoded') : encoded'[i].frame = n
  BY <1>3, <1>6, <1>9, <1>10, <1>12, ConcatFrames
<1>18. Encoding'
  BY <1>1, <1>8, <1>13, <1>15, <1>16, <1>17 DEF Encoding, n, ms
<1> QED BY <1>18

LEMMA EncodeByteWhole == ASSUME Typed, Whole, EncodeByte PROVE Whole'
<1>1. /\ scenario' = scenario /\ sent' = sent /\ line' = line /\ left' = left
      /\ buffer' = buffer /\ capacity' = capacity /\ escape' = escape /\ got' = got /\ unread' = unread
  BY DEF EncodeByte, decoderVars, consumerVars
<1>2. UnderWay' /\ Arrived'
  BY <1>1 DEF Whole, UnderWay, Arrived
<1>3. Encoding'
  BY EncodeByteEncoding DEF Whole
<1>4. InTurn'
  <2>1. encoded # <<>>
    BY DEF EncodeByte
  <2> QED BY <1>1, <2>1 DEF Whole, InTurn
<1> QED BY <1>2, <1>3, <1>4 DEF Whole

\* The bytes of a message that are put on the line lead from its beginning to that of
\* the next one.
LEMMA SendLeads ==
    ASSUME Typed, Encoding, NEW stripped \in BOOLEAN, Send(stripped)
    PROVE  \E more \in Seq(Bytes) :
              /\ line' = line \o more /\ \A i \in 1 .. Len(more) : more[i].frame = Len(sent) + 1
              /\ Leads(scenario.messages, more, At(Len(sent) + 1, 0, FALSE), At(Len(sent) + 1 + 1, 0, FALSE))
<1> DEFINE ms == scenario.messages
<1> DEFINE n == Len(sent) + 1
<1> DEFINE e == Framed(<<END>>)
<1> DEFINE bytes == encoded \o e
<1> DEFINE more == IF stripped THEN Tail(bytes) ELSE bytes
<1> DEFINE p == At(n, 0, FALSE)
<1> DEFINE r == At(n + 1, 0, FALSE)
<1>1. /\ encoded # <<>> /\ taken = Len(Data)
      /\ line' = line \o IF stripped THEN Tail(Put(room, <<END>>)) ELSE Put(room, <<END>>)
  BY DEF Send
<1>2. /\ Len(sent) < Len(ms) /\ room \in Nat /\ encoded \in Seq(Bytes)
      /\ Len(encoded) \in Nat /\ Len(encoded) > 0 /\ Len(sent) \in Nat
  BY <1>1 DEF Typed, TypeOK
<1>3. n \in DOMAIN ms /\ ms[n] \in Seq(Byte) /\ Data = ms[n] /\ Len(ms[n]) > 0
  BY <1>2, DataFacts
<1>4. /\ Len(encoded) < room /\ encoded[1].val = END
      /\ \A i \in 1 .. Len(encoded) : encoded[i].frame = n
      /\ Leads(ms, encoded, p, At(n, Len(ms[n]), FALSE))
  BY <1>1, <1>3 DEF Encoding
<1>5. <<END>> \in Seq(Byte) /\ Len(<<END>>) = 1 /\ END \in Byte
  BY DEF Byte
<1>6. e \in Seq(Bytes) /\ Len(e) = 1 /\ e[1].frame = n
  BY <1>2, <1>5, FramedOne
<1>7. Put(room, <<END>>) = bytes
  <2>1. Len(encoded) + Len(<<END>>) <= room
    BY <1>2, <1>4, <1>5
  <2> QED BY <2>1, <1>2, <1>5, PutFacts
<1>8. Leads(ms, e, At(n, Len(ms[n]), FALSE), r)
  BY <1>2, <1>3, EndLeads
<1>9. p.escape = FALSE /\ p.at = 0
  BY DEF At
<1>10. line' = line \o more
  BY <1>1, <1>7
<1>11. bytes = encoded \o e
  OBVIOUS
<1> HIDE DEF ms, n, e, bytes, p, r, more
<1>12. Leads(ms, bytes, p, r)
  BY <1>2, <1>4, <1>6, <1>8, <1>11, LeadsConcat
<1>13. /\ bytes \in Seq(Bytes) /\ Len(bytes) = Len(encoded) + 1 /\ bytes[1] = encoded[1]
  <2>1. encoded \in Seq(Bytes) /\ e \in Seq(Bytes)
    BY <1>2, <1>6
  <2>2. /\ bytes \in Seq(Bytes) /\ Len(bytes) = Len(encoded) + Len(e)
        /\ \A i \in 1 .. Len(encoded) : bytes[i] = encoded[i]
    BY <2>1, <1>11, ConcatFacts
  <2> QED BY <2>2, <1>2, <1>6
<1>14. \A i \in 1 .. Len(e) : e[i].frame = n
  BY <1>6
<1>15. \A i \in 1 .. Len(bytes) : bytes[i].frame = n
  <2>1. encoded \in Seq(Bytes) /\ e \in Seq(Bytes) /\ \A i \in 1 .. Len(encoded) : encoded[i].frame = n
    BY <1>2, <1>4, <1>6
  <2> QED BY <2>1, <1>14, <1>11, ConcatFrames
<1>16. /\ more \in Seq(Bytes) /\ \A i \in 1 .. Len(more) : more[i].frame = n
       /\ Leads(ms, more, p, r)
  <2>1. CASE stripped
    <3> DEFINE t == Tail(bytes)
    <3>1. /\ Head(bytes).val = END /\ t \in Seq(Bytes) /\ Len(t) = Len(bytes) - 1
          /\ \A i \in 1 .. Len(bytes) - 1 : t[i] = bytes[i + 1]
      BY <1>2, <1>4, <1>13, HeadTail
    <3>2. Moved(p, Head(bytes).val) = p
      BY <3>1, <1>9 DEF Moved, END, ESC
    <3>3. Leads(ms, t, Moved(p, Head(bytes).val), r)
      BY <1>2, <1>12, <1>13, LeadsTail, SMTT(30)
    <3>4. more = t
      BY <2>1 DEF more
    <3> HIDE DEF t
    <3>5. \A i \in 1 .. Len(t) : t[i].frame = n
      BY <3>1, <1>2, <1>13, <1>15
    <3> QED BY <3>1, <3>2, <3>3, <3>4, <3>5
  <2>2. CASE ~stripped
    <3>1. more = bytes
      BY <2>2 DEF more
    <3> QED BY <3>1, <1>12, <1>13, <1>15
  <2> QED BY <2>1, <2>2
<1> QED BY <1>10, <1>16 DEF ms, n, p, r

\* One more message is sent.
LEMMA SendOrder ==
    ASSUME Typed, NEW stripped \in BOOLEAN, Send(stripped), \A i \in 1 .. Len(sent) : sent[i] = scenario.messages[i]
    PROVE  /\ Len(sent') = Len(sent) + 1 /\ Len(sent) < Len(scenario.messages) /\ Len(sent) \in Nat
           /\ \A i \in 1 .. Len(sent') : sent'[i] = scenario.messages[i]
<1>1. encoded # <<>> /\ sent' = Append(sent, Data)
  BY DEF Send
<1>2. Len(sent) < Len(scenario.messages) /\ sent \in Seq(Message) /\ Len(sent) \in Nat
  BY <1>1 DEF Typed, TypeOK
<1>3. Data = scenario.messages[Len(sent) + 1] /\ Data \in Message
  BY <1>2, DataFacts
<1>4. /\ Len(sent') = Len(sent) + 1
      /\ \A i \in 1 .. Len(sent) + 1 : sent'[i] = IF i = Len(sent) + 1 THEN Data ELSE sent[i]
  BY <1>1, <1>2, <1>3
<1>5. ASSUME NEW i \in 1 .. Len(sent') PROVE sent'[i] = scenario.messages[i]
  <2>1. i = Len(sent) + 1 \/ i \in 1 .. Len(sent)
    BY <1>2, <1>4
  <2> QED BY <2>1, <1>3, <1>4
<1> QED BY <1>2, <1>4, <1>5

LEMMA SendWhole == ASSUME Typed, Whole, NEW stripped \in BOOLEAN, Send(stripped) PROVE Whole'
<1> DEFINE ms == scenario.messages
<1> DEFINE n == Len(sent) + 1
<1>1. /\ scenario' = scenario /\ left' = left
      /\ buffer' = buffer /\ capacity' = capacity /\ escape' = escape /\ got' = got /\ unread' = unread
      /\ encoded # <<>> /\ encoded' = <<>>
  BY DEF Send, decoderVars, consumerVars
<1>2. /\ line \in Seq(Bytes) /\ Len(line) \in Nat /\ Len(sent) \in Nat /\ Len(got) \in Nat /\ n \in Nat
  BY DEF Typed, TypeOK
<1>3. /\ \A i \in 1 .. Len(sent) : sent[i] = scenario.messages[i]
      /\ Len(got) <= Len(sent) /\ \A i \in 1 .. Len(got) : got[i] = scenario.messages[i]
      /\ Len(buffer) > 0 => Len(got) < Len(sent)
      /\ \A i \in 1 .. Len(buffer) : buffer[i] = scenario.messages[Len(got) + 1][i]
      /\ capacity < MaxMessageSize
  BY DEF Whole, Arrived
<1>4. Len(sent') = n /\ \A i \in 1 .. Len(sent') : sent'[i] = scenario.messages[i]
  BY <1>3, SendOrder
<1>5. Arrived'
  <2>1. Len(got') <= Len(sent') /\ (Len(buffer') > 0 => Len(got') < Len(sent'))
    BY <1>1, <1>2, <1>3, <1>4
  <2> QED BY <2>1, <1>1, <1>3, <1>4 DEF Arrived
<1>6. Encoding'
  BY <1>1 DEF Encoding
<1>7. InTurn'
  <2>1. CASE scenario.consumer = "in turn"
    <3>1. Len(got) = Len(sent) /\ ~unread
      BY <2>1, <1>1 DEF Whole, InTurn
    <3>2. Len(sent') <= Len(got') + 1 /\ ~unread'
      BY <3>1, <1>1, <1>2, <1>4
    <3> QED BY <3>2, <1>1 DEF InTurn
  <2> QED BY <2>1, <1>1 DEF InTurn
<1>8. PICK more \in Seq(Bytes) :
        /\ line' = line \o more /\ \A i \in 1 .. Len(more) : more[i].frame = n
        /\ Leads(ms, more, At(n, 0, FALSE), At(n + 1, 0, FALSE))
  BY SendLeads DEF Whole
<1>9. UnderWay'
  <2>1. Leads(ms, line, At(Len(got) + 1, Len(buffer), escape), At(n, 0, FALSE))
    BY DEF Whole, UnderWay
  <2> HIDE DEF ms, n
  <2>2. Leads(ms, line', At(Len(got) + 1, Len(buffer), escape), At(n + 1, 0, FALSE))
    BY <2>1, <1>2, <1>8, LeadsConcat
  <2>3. Leads(scenario'.messages, line', At(Len(got') + 1, Len(buffer'), escape'), At(Len(sent') + 1, 0, FALSE))
    BY <2>2, <1>1, <1>4 DEF ms
  <2>4. /\ Len(line') = Len(line) + Len(more)
        /\ \A i \in 1 .. Len(line) : line'[i] = line[i]
        /\ \A i \in 1 .. Len(more) : line'[Len(line) + i] = more[i]
    BY <1>2, <1>8, ConcatFacts
  <2>5. Len(more) \in Nat
    BY <1>8
  <2>6. ASSUME NEW i \in 1 .. Len(line') PROVE line'[i].frame <= n
    <3>1. CASE i <= Len(line)
      <4>1. line'[i] = line[i] /\ i \in 1 .. Len(line)
        BY <3>1, <2>4, <2>5, <1>2
      <4>2. line[i].frame <= Len(sent)
        BY <4>1 DEF Whole, UnderWay
      <4>3. line[i] \in Bytes
        BY <4>1, <1>2, ElementOfSeq
      <4>4. line[i].frame \in Nat
        BY <4>3 DEF Bytes
      <4> QED BY <4>1, <4>2, <4>4, <1>2 DEF n
    <3>2. CASE ~(i <= Len(line))
      <4>1. PICK j \in 1 .. Len(more) : i = Len(line) + j
        <5>1. i - Len(line) \in 1 .. Len(more) /\ i = Len(line) + (i - Len(line))
          BY <3>2, <2>4, <2>5, <1>2
        <5> QED BY <5>1
      <4>2. line'[i].frame = n
        BY <4>1, <2>4, <1>8
      <4> QED BY <4>2, <1>2
    <3> QED BY <3>1, <3>2
  <2>7. \A i \in 1 .. Len(line') : line'[i].frame <= Len(sent')
    BY <2>6, <1>4
  <2> QED BY <2>3, <2>7, Zenon DEF UnderWay
<1> QED BY <1>5, <1>6, <1>7, <1>9 DEF Whole

\* Where the decoder is, and the message it expects.
Here == At(Len(got) + 1, Len(buffer), escape)
Expected == scenario.messages[Len(got) + 1]

\* The next byte decode() looks at is one of the expected message, which was sent.
LEMMA NextByte ==
    ASSUME Typed, Whole, left > 0
    PROVE  /\ Here.n = Len(got) + 1 /\ Here.at = Len(buffer) /\ Here.escape = escape
           /\ Follows(scenario.messages, Here, Head(line))
           /\ Leads(scenario.messages, Tail(line), Moved(Here, Head(line).val), At(Len(sent) + 1, 0, FALSE))
           /\ \A i \in 1 .. Len(Tail(line)) : Tail(line)[i].frame <= Len(sent)
           /\ Len(got) \in Nat /\ Len(sent) \in Nat /\ Len(got) < Len(sent)
           /\ Expected \in Seq(Byte) /\ Len(Expected) \in Nat /\ Len(Expected) > 0
           /\ 2 * Len(Expected) <= MaxMessageSize
<1> DEFINE ms == scenario.messages
<1>1. Here.n = Len(got) + 1 /\ Here.at = Len(buffer) /\ Here.escape = escape
  BY DEF Here, At
<1>2. /\ line \in Seq(Bytes) /\ Len(line) > 0 /\ Len(line) \in Nat /\ Head(line) = line[1]
      /\ Len(Tail(line)) = Len(line) - 1 /\ \A i \in 1 .. Len(line) - 1 : Tail(line)[i] = line[i + 1]
  BY TakeFacts
<1>3. Leads(ms, line, Here, At(Len(sent) + 1, 0, FALSE)) /\ \A i \in 1 .. Len(line) : line[i].frame <= Len(sent)
  BY DEF Whole, UnderWay, Here
<1>4. Follows(ms, Here, Head(line)) /\ Leads(ms, Tail(line), Moved(Here, Head(line).val), At(Len(sent) + 1, 0, FALSE))
  BY <1>2, <1>3, LeadsTail
<1>5. \A i \in 1 .. Len(Tail(line)) : Tail(line)[i].frame <= Len(sent)
  BY <1>2, <1>3
<1>6. Len(got) \in Nat /\ Len(sent) \in Nat /\ scenario \in Scenarios
  BY DEF Typed, TypeOK
<1>7. Len(got) < Len(sent)
  <2>1. Head(line).frame = Len(got) + 1
    BY <1>1, <1>4 DEF Follows
  <2>2. Head(line).frame <= Len(sent)
    BY <1>2, <1>3
  <2> QED BY <2>1, <2>2, <1>6
<1>8. ms \in Seq(Message) /\ Len(ms) \in Nat
  BY <1>6, Messages
<1> DEFINE n == Len(got) + 1
<1>9. n \in 1 .. Len(ms) /\ n \in DOMAIN ms
  <2>1. Len(sent) <= Len(ms)
    BY DEF Typed
  <2> HIDE DEF ms
  <2> QED BY <2>1, <1>6, <1>7, <1>8
<1>10. Expected = ms[n]
  BY DEF Expected
<1> HIDE DEF n
<1>11. ms[n] \in Seq(Byte) /\ Len(ms[n]) \in Nat \ {0}
  BY <1>6, <1>9, Messages
<1>12. 2 * Len(ms[n]) <= MaxMessageSize
  BY <1>6, <1>9, SizeAssumption
<1>13. /\ Expected \in Seq(Byte) /\ Len(Expected) \in Nat /\ Len(Expected) > 0
       /\ 2 * Len(Expected) <= MaxMessageSize
  BY <1>10, <1>11, <1>12
<1> QED BY <1>1, <1>4, <1>5, <1>6, <1>7, <1>13

LEMMA TakeUnderWay ==
    ASSUME Typed, Whole, left > 0, Take, scenario' = scenario, sent' = sent,
           Here' = Moved(Here, Head(line).val)
    PROVE  UnderWay'
<1>1. line' = Tail(line)
  BY DEF Take
<1>2. /\ Leads(scenario.messages, Tail(line), Moved(Here, Head(line).val), At(Len(sent) + 1, 0, FALSE))
      /\ \A i \in 1 .. Len(Tail(line)) : Tail(line)[i].frame <= Len(sent)
  BY NextByte
<1>3. Leads(scenario'.messages, line', Here', At(Len(sent') + 1, 0, FALSE))
  BY <1>1, <1>2
<1>4. \A i \in 1 .. Len(line') : line'[i].frame <= Len(sent')
  BY <1>1, <1>2
<1> QED BY <1>3, <1>4 DEF UnderWay, Here

LEMMA AddByteWhole == ASSUME Typed, Whole, AddByte PROVE Whole'
<1> DEFINE b == Expected[Len(buffer) + 1]
<1> DEFINE val == Head(line).val
<1>1. /\ scenario' = scenario /\ taken' = taken /\ sent' = sent /\ encoded' = encoded /\ room' = room
      /\ got' = got /\ unread' = unread /\ escape' = FALSE /\ left > 0 /\ Take
  BY DEF AddByte, encoderVars, consumerVars
<1>2. /\ escape \/ val \notin {ESC, END}
      /\ capacity' = (IF Full(Len(buffer), capacity) THEN 2 * capacity ELSE capacity)
      /\ buffer' = (IF capacity' < MaxMessageSize THEN Append(buffer, IF escape THEN Unescaped(val) ELSE val) ELSE <<>>)
  BY DEF AddByte
<1>3. /\ buffer \in Seq(Byte) /\ Len(buffer) \in Nat /\ capacity \in Nat /\ Len(buffer) <= capacity
      /\ escape \in BOOLEAN
  BY DEF Typed, TypeOK
<1>4. /\ Here.n = Len(got) + 1 /\ Here.at = Len(buffer) /\ Here.escape = escape
      /\ Follows(scenario.messages, Here, Head(line))
      /\ Len(got) \in Nat /\ Len(sent) \in Nat /\ Len(got) < Len(sent)
      /\ Expected \in Seq(Byte) /\ Len(Expected) \in Nat /\ 2 * Len(Expected) <= MaxMessageSize
  BY <1>1, NextByte
<1>5. /\ Len(buffer) < Len(Expected)
      /\ \/ ~escape /\ ~Special(b) /\ val = b
         \/ escape /\ Special(b) /\ val = Code(b)
  BY <1>2, <1>4 DEF Follows, Expected, Special
<1>6. (IF escape THEN Unescaped(val) ELSE val) = b
  BY <1>5 DEF Unescaped, Special, Code, END, ESC, ESC_END, ESC_ESC
<1>7. b \in Byte
  BY <1>3, <1>4, <1>5
<1>8. capacity' \in Nat /\ capacity' < MaxMessageSize
  <2>1. capacity < MaxMessageSize /\ MaxMessageSize \in Nat
    BY SlipAssumption DEF Whole, Arrived
  <2>2. CASE Full(Len(buffer), capacity)
    <3>1. capacity = Len(buffer)
      BY <2>2, <1>3 DEF Full
    <3> QED BY <3>1, <2>1, <2>2, <1>2, <1>3, <1>4, <1>5
  <2>3. CASE ~Full(Len(buffer), capacity)
    BY <2>1, <2>3, <1>2, <1>3
  <2> QED BY <2>2, <2>3
<1>9. buffer' = Append(buffer, b)
  BY <1>2, <1>6, <1>8
<1> HIDE DEF b, val
<1>10. Len(buffer') = Len(buffer) + 1 /\ \A i \in 1 .. Len(buffer) + 1 : buffer'[i] = IF i = Len(buffer) + 1 THEN b ELSE buffer[i]
  BY <1>3, <1>7, <1>9
<1>11. Here' = Moved(Here, val)
  <2>1. Here' = At(Len(got) + 1, Len(buffer) + 1, FALSE)
    BY <1>1, <1>10 DEF Here
  <2>2. escape \/ (val # ESC /\ val # END)
    BY <1>2 DEF val
  <2> QED BY <2>1, <2>2, <1>4 DEF Moved
<1>12. UnderWay'
  BY <1>1, <1>11, TakeUnderWay DEF val
<1>13. Arrived'
  <2>1. /\ \A i \in 1 .. Len(sent) : sent[i] = scenario.messages[i]
        /\ Len(got) <= Len(sent) /\ \A i \in 1 .. Len(got) : got[i] = scenario.messages[i]
        /\ \A i \in 1 .. Len(buffer) : buffer[i] = Expected[i]
    BY DEF Whole, Arrived, Expected
  <2>2. ASSUME NEW i \in 1 .. Len(buffer') PROVE buffer'[i] = Expected[i]
    <3>1. i \in 1 .. Len(buffer) + 1
      BY <1>10
    <3>2. i = Len(buffer) + 1 \/ i \in 1 .. Len(buffer)
      BY <3>1, <1>3
    <3>3. buffer'[i] = (IF i = Len(buffer) + 1 THEN b ELSE buffer[i])
      BY <3>1, <1>10
    <3> QED BY <2>1, <3>2, <3>3, <1>3 DEF b
  <2>3. Expected' = Expected
    BY <1>1 DEF Expected
  <2>4. \A i \in 1 .. Len(buffer') : buffer'[i] = scenario'.messages[Len(got') + 1][i]
    BY <2>2, <1>1 DEF Expected
  <2>5. Len(got') < Len(sent') /\ Len(got') <= Len(sent')
    BY <1>1, <1>4
  <2> QED BY <2>1, <2>4, <2>5, <1>1, <1>8 DEF Arrived
<1>14. Encoding' /\ InTurn'
  BY <1>1 DEF Whole, Encoding, InTurn
<1> QED BY <1>12, <1>13, <1>14 DEF Whole

LEMMA EscapeWhole == ASSUME Typed, Whole, Escape PROVE Whole'
<1>1. /\ scenario' = scenario /\ taken' = taken /\ sent' = sent /\ encoded' = encoded /\ room' = room
      /\ got' = got /\ unread' = unread /\ buffer' = buffer /\ capacity' = capacity /\ escape' = TRUE
      /\ left > 0 /\ Take /\ ~escape /\ Head(line).val = ESC
  BY DEF Escape, encoderVars, consumerVars
<1>2. /\ Here.n = Len(got) + 1 /\ Here.at = Len(buffer) /\ Here.escape = escape
  BY <1>1, NextByte
<1>3. Here' = Moved(Here, Head(line).val)
  <2>1. Here' = At(Len(got) + 1, Len(buffer), TRUE)
    BY <1>1 DEF Here
  <2> QED BY <2>1, <1>1, <1>2 DEF Moved
<1>4. UnderWay'
  BY <1>1, <1>3, TakeUnderWay
<1>5. Encoding' /\ InTurn' /\ Arrived'
  BY <1>1 DEF Whole, Encoding, InTurn, Arrived
<1> QED BY <1>4, <1>5 DEF Whole

LEMMA HandleEndWhole == ASSUME Typed, Whole, Undamaged, HandleEnd PROVE Whole'
<1>1. /\ scenario' = scenario /\ taken' = taken /\ sent' = sent /\ encoded' = encoded /\ room' = room
      /\ capacity' = capacity /\ escape' = escape
      /\ left > 0 /\ ~escape /\ Head(line).val = END
  BY DEF HandleEnd, encoderVars
<1>2. /\ buffer \in Seq(Byte) /\ Len(buffer) \in Nat /\ escape \in BOOLEAN /\ got \in Seq(Seq(Byte))
      /\ (buffer = <<>> <=> Len(buffer) = 0)
  BY DEF Typed, TypeOK
<1>3. /\ Here.n = Len(got) + 1 /\ Here.at = Len(buffer) /\ Here.escape = escape
      /\ Follows(scenario.messages, Here, Head(line))
      /\ Len(got) \in Nat /\ Len(sent) \in Nat /\ Len(got) < Len(sent)
      /\ Expected \in Seq(Byte) /\ Len(Expected) \in Nat /\ Len(Expected) > 0
  BY <1>1, NextByte
<1>4. CASE buffer = <<>> /\ Take /\ UNCHANGED <<buffer, consumerVars>>
  <2>1. got' = got /\ unread' = unread /\ buffer' = buffer
    BY <1>4 DEF consumerVars
  <2>2. Here' = Moved(Here, Head(line).val)
    <3>1. Here' = Here
      BY <2>1, <1>1 DEF Here
    <3>2. END # ESC
      BY DEF END, ESC
    <3> QED BY <3>1, <3>2, <1>1, <1>2, <1>3, <1>4 DEF Moved
  <2>3. UnderWay'
    BY <2>2, <1>1, <1>4, TakeUnderWay
  <2>4. Encoding' /\ InTurn' /\ Arrived'
    BY <2>1, <1>1 DEF Whole, Encoding, InTurn, Arrived
  <2> QED BY <2>3, <2>4 DEF Whole
<1>5. CASE /\ buffer # <<>> /\ ~(HasMailbox /\ unread) /\ Take
           /\ got' = Append(got, buffer) /\ unread' = HasMailbox /\ buffer' = Cleared(buffer)
  <2>1. got' = Append(got, buffer) /\ unread' = (scenario.consumer # "all") /\ buffer' = <<>> /\ Take
    BY <1>5 DEF HasMailbox, Cleared
  <2>2. Len(buffer) > 0 /\ Len(buffer) = Len(Expected)
    <3>1. Len(buffer) > 0
      BY <1>2, <1>5
    <3>2. \/ Len(buffer) \in {0, Len(Expected)}
          \/ Special(Expected[Len(buffer) + 1]) /\ Head(line).val = ESC
          \/ ~Special(Expected[Len(buffer) + 1]) /\ Head(line).val = Expected[Len(buffer) + 1]
      BY <1>1, <1>3 DEF Follows, Expected
    <3> QED BY <3>1, <3>2, <1>1, <1>2, <1>3 DEF Special, END, ESC
  <2>3. buffer = Expected
    <3>1. \A i \in 1 .. Len(buffer) : buffer[i] = Expected[i]
      BY DEF Whole, Arrived, Expected
    <3> QED BY <3>1, <2>2, <1>2, <1>3, SeqEqual
  <2>4. /\ Len(got') = Len(got) + 1 /\ Len(buffer') = 0
        /\ \A i \in 1 .. Len(got) + 1 : got'[i] = IF i = Len(got) + 1 THEN buffer ELSE got[i]
    BY <2>1, <1>2, EmptySeq
  <2>5. Here' = Moved(Here, Head(line).val)
    <3>1. Here' = At(Len(got) + 1 + 1, 0, FALSE)
      BY <2>4, <1>1, <1>2 DEF Here
    <3>2. END # ESC
      BY DEF END, ESC
    <3>3. Here.at # 0 /\ ~Here.escape
      BY <2>2, <1>1, <1>3
    <3> QED BY <3>1, <3>2, <3>3, <1>1, <1>3 DEF Moved
  <2>6. UnderWay'
    BY <2>1, <2>5, <1>1, TakeUnderWay
  <2>7. Arrived'
    <3>1. /\ \A i \in 1 .. Len(sent) : sent[i] = scenario.messages[i]
          /\ \A i \in 1 .. Len(got) : got[i] = scenario.messages[i]
          /\ capacity < MaxMessageSize
      BY DEF Whole, Arrived
    <3>2. ASSUME NEW i \in 1 .. Len(got') PROVE got'[i] = scenario.messages[i]
      <4>1. i \in 1 .. Len(got) + 1 /\ got'[i] = (IF i = Len(got) + 1 THEN buffer ELSE got[i])
        BY <2>4
      <4>2. i = Len(got) + 1 \/ i \in 1 .. Len(got)
        BY <4>1, <1>3
      <4> QED BY <3>1, <4>1, <4>2, <2>3 DEF Expected
    <3>3. Len(got') <= Len(sent')
      BY <2>4, <1>1, <1>3
    <3>4. Len(buffer') = 0
      BY <2>4
    <3>5. \A i \in 1 .. Len(buffer') : buffer'[i] = scenario'.messages[Len(got') + 1][i]
      BY <3>4
    <3> QED BY <3>1, <3>2, <3>3, <3>4, <3>5, <1>1 DEF Arrived
  <2>8. InTurn'
    <3>1. CASE scenario.consumer = "in turn"
      <4>1. Len(sent) <= Len(got) + 1 /\ (encoded # <<>> => Len(got) = Len(sent))
        BY <3>1 DEF Whole, InTurn
      <4>2. Len(got') = Len(sent') /\ encoded' = <<>>
        BY <4>1, <2>4, <1>1, <1>3
      <4>3. Len(sent') <= Len(got') + 1
        BY <4>2, <1>1, <1>3
      <4> QED BY <4>2, <4>3 DEF InTurn
    <3> QED BY <3>1, <1>1 DEF InTurn
  <2>9. Encoding'
    BY <1>1 DEF Whole, Encoding
  <2> QED BY <2>6, <2>7, <2>8, <2>9 DEF Whole
<1>6. CASE buffer # <<>> /\ HasMailbox /\ unread
  <2>1. scenario.consumer = "in turn"
    <3>1. scenario.consumer \in Consumers
      BY Messages DEF Typed, TypeOK
    <3> QED BY <3>1, <1>6 DEF Undamaged, HasMailbox, Consumers
  <2>2. Len(got) = Len(sent)
    BY <2>1, <1>6 DEF Whole, InTurn
  <2> QED BY <2>2, <1>3
<1> QED BY <1>4, <1>5, <1>6 DEF HandleEnd

LEMMA NextWhole == ASSUME Typed, Undamaged => Whole, [Next]_vars PROVE (Undamaged => Whole)'
<1> SUFFICES ASSUME Undamaged' PROVE Whole'
  OBVIOUS
<1>1. CASE UNCHANGED vars
  <2>1. /\ scenario' = scenario /\ taken' = taken /\ sent' = sent /\ encoded' = encoded /\ room' = room
        /\ buffer' = buffer /\ capacity' = capacity /\ escape' = escape /\ got' = got /\ unread' = unread
        /\ damaged' = damaged /\ line' = line
    BY <1>1 DEF vars, encoderVars, decoderVars, consumerVars
  <2> QED BY <2>1 DEF Undamaged, Whole, Encoding, UnderWay, Arrived, InTurn
<1>2. ASSUME NEW i \in 1 .. Len(line), Damage(i) PROVE FALSE
  <2>1. damaged' = Append(damaged, line[i].frame)
    BY <1>2 DEF Damage
  <2>2. damaged \in Seq(1 .. Len(scenario.messages))
    BY DEF Typed, TypeOK
  <2>3. Append(damaged, line[i].frame) # <<>>
    BY <2>2
  <2> QED BY <2>1, <2>3 DEF Undamaged
<1>3. CASE Next /\ UNCHANGED <<scenario, damaged>>
  <2>1. Undamaged /\ Whole
    BY <1>3 DEF Undamaged
  <2>2. CASE (\E n \in 1 .. Len(line) : OnRawData(n)) \/ Read
    <3>1. /\ scenario' = scenario /\ taken' = taken /\ sent' = sent /\ encoded' = encoded /\ room' = room
          /\ buffer' = buffer /\ capacity' = capacity /\ escape' = escape /\ got' = got /\ line' = line
          /\ (unread' = unread \/ unread' = FALSE)
      BY <2>2 DEF OnRawData, Read, encoderVars, decoderVars, consumerVars
    <3>2. Encoding' /\ UnderWay' /\ Arrived'
      BY <2>1, <3>1 DEF Whole, Encoding, UnderWay, Arrived
    <3>3. InTurn'
      BY <2>1, <3>1 DEF Whole, InTurn
    <3> QED BY <3>2, <3>3 DEF Whole
  <2> QED BY <2>1, <2>2, <1>2, <1>3, EncodeWhole, EncodeByteWhole, SendWhole, AddByteWhole, EscapeWhole,
             HandleEndWhole DEF Next
<1>4. Next => (\E i \in 1 .. Len(line) : Damage(i)) \/ UNCHANGED <<scenario, damaged>>
  BY DEF Next, Encode, EncodeByte, Send, OnRawData, AddByte, Escape, HandleEnd, Read
<1> QED BY <1>1, <1>2, <1>3, <1>4

\* On an undamaged line messages arrive unchanged and in order, however their bytes
\* are split and whatever bytes they contain (slip.js:41-75, 108-185): for all
\* messages that stay within the decoder's maximum.
THEOREM Unchanged == Spec => []Transparent
<1>1. ASSUME Typed, Undamaged => Whole PROVE Transparent
  <2> SUFFICES ASSUME Undamaged PROVE Len(got) <= Len(sent) /\ got = SubSeq(sent, 1, Len(got)) /\ (line = <<>> => got = sent)
    BY DEF Transparent, Undamaged
  <2>1. /\ \A i \in 1 .. Len(sent) : sent[i] = scenario.messages[i]
        /\ Len(got) <= Len(sent) /\ \A i \in 1 .. Len(got) : got[i] = scenario.messages[i]
    BY <1>1 DEF Whole, Arrived
  <2>2. /\ sent \in Seq(Message) /\ sent \in Seq(Seq(Byte)) /\ got \in Seq(Seq(Byte))
        /\ Len(got) \in Nat /\ Len(sent) \in Nat
    <3>1. Message \subseteq Seq(Byte)
      BY DEF Message
    <3> QED BY <1>1, <3>1, SeqMonotonic DEF Typed, TypeOK
  <2> DEFINE part == SubSeq(sent, 1, Len(got))
  <2>3. part \in Seq(Seq(Byte)) /\ Len(part) = Len(got) /\ \A i \in 1 .. Len(got) : part[i] = sent[i]
    BY <2>1, <2>2, Part
  <2> HIDE DEF part
  <2>4. got = part
    <3>1. ASSUME NEW i \in 1 .. Len(got) PROVE got[i] = part[i]
      <4>1. i \in 1 .. Len(sent)
        BY <2>1, <2>2
      <4> QED BY <4>1, <2>1, <2>3
    <3> QED BY <3>1, <2>2, <2>3, SeqEqual
  <2>5. ASSUME line = <<>> PROVE got = sent
    <3>1. Leads(scenario.messages, line, Here, At(Len(sent) + 1, 0, FALSE))
      BY <1>1 DEF Whole, UnderWay, Here
    <3> DEFINE end == At(Len(sent) + 1, 0, FALSE)
    <3>2. Leads(scenario.messages, line, Here, end)
      BY <3>1
    <3> HIDE DEF end
    <3>5. Here = end
      BY <3>2, <2>5, LeadsEmpty
    <3>3. Len(got) + 1 = Len(sent) + 1
      BY <3>5 DEF Here, At, end
    <3>4. Len(got) = Len(sent)
      BY <3>3, <2>2
    <3> QED BY <3>4, <2>1, <2>2, SeqEqual
  <2> QED BY <2>1, <2>4, <2>5 DEF part
<1>2. Init => Typed /\ (Undamaged => Whole)
  BY InitTyped, InitWhole
<1>3. Typed /\ (Undamaged => Whole) /\ [Next]_vars => (Typed /\ (Undamaged => Whole))'
  BY NextTyped, NextWhole
<1> QED BY <1>1, <1>2, <1>3, PTL DEF Spec
====
