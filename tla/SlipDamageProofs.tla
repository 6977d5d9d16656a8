------------------------- MODULE SlipDamageProofs -------------------------
(***************************************************************************)
(* That damage on the line of SlipDecoder is local, whatever and however   *)
(* much is lost or changed.                                                *)
(*                                                                         *)
(* After the last damaged message L, the bytes on the line can be cut      *)
(* behind each message: what follows leads a decoder that begins there to  *)
(* the end of what was sent (Cut).  The decoder may be anywhere while      *)
(* bytes up to L are to come (Lost).  In message L + 1 it may still have   *)
(* bytes from before in its buffer, but it never takes an ESC for one that *)
(* is none (Following), so that it finds the END of that message.  From    *)
(* then on it is where an encoder would be (Found).                        *)
(***************************************************************************)
EXTENDS SlipDecoderProofs

\* The end of what was sent.
Goal == At(Len(sent) + 1, 0, FALSE)

\* The first c bytes on the line belong to messages up to f, the rest to later ones.
Behind(f, c, rest) ==
    /\ Len(line) = c + Len(rest) /\ \A i \in 1 .. c : line[i].frame <= f
    /\ \A i \in 1 .. Len(rest) : line[c + i] = rest[i] /\ rest[i].frame > f
    /\ Leads(scenario.messages, rest, At(f + 1, 0, FALSE), Goal)
Cut(f) == \E c \in Nat : \E rest \in Seq(Bytes) : Behind(f, c, rest)
Cuts(n) == \A f \in n .. Len(sent) : Cut(f)

\* The last damaged message, or 0.
Last(L) ==
    /\ L \in 0 .. Len(sent) /\ \A i \in DOMAIN damaged : damaged[i] <= L
    /\ L > 0 => \E i \in DOMAIN damaged : damaged[i] = L

Lost(L) == Cuts(L)

Following(L) ==
    /\ L < Len(sent) /\ Cuts(L + 1)
    /\ \E at \in Nat, esc \in BOOLEAN :
          (escape => esc) /\ Leads(scenario.messages, line, At(L + 1, at, esc), Goal)

\* The decoder is in message k, and what it handed on last are the messages between.
Between(k, L) ==
    /\ k <= Len(got) + L + 2
    /\ \A i \in 1 .. k - L - 2 : got[Len(got) - (k - L - 2) + i] = scenario.messages[L + 1 + i]
Found(L) ==
    \E k \in L + 2 .. Len(sent) + 1 :
        /\ Cuts(k) /\ Leads(scenario.messages, line, At(k, Len(buffer), escape), Goal)
        /\ \A i \in 1 .. Len(buffer) : buffer[i] = scenario.messages[k][i]
        /\ Between(k, L)

\* Messages are sent in order, and their bytes stay so.
Ordered ==
    /\ \A i \in 1 .. Len(sent) : sent[i] = scenario.messages[i]
    /\ \A i \in 1 .. Len(line) : line[i].frame <= Len(sent)
    /\ \A i, j \in 1 .. Len(line) : i <= j => line[i].frame <= line[j].frame

\* As long as no merged message filled the buffer.
Local ==
    scenario.consumer = "all" /\ capacity < MaxMessageSize =>
        \E L \in 0 .. Len(sent) : Last(L) /\ (Lost(L) \/ Following(L) \/ Found(L))

-----------------------------------------------------------------------------
(* Cuts                                                                    *)

\* Numbers of messages are numbers.
LEMMA Frames ==
    ASSUME Typed
    PROVE  /\ line \in Seq(Bytes) /\ Len(line) \in Nat /\ Len(sent) \in Nat /\ Len(got) \in Nat
           /\ \A i \in 1 .. Len(line) : line[i] \in Bytes /\ line[i].frame \in Nat \ {0} /\ line[i].val \in Byte
<1>1. line \in Seq(Bytes) /\ Len(line) \in Nat /\ Len(sent) \in Nat /\ Len(got) \in Nat
  BY DEF Typed, TypeOK
<1>2. scenario \in Scenarios
  BY DEF Typed, TypeOK
<1>3. Len(scenario.messages) \in Nat
  BY <1>2, Messages
<1>4. \A b \in Bytes : b.frame \in Nat \ {0} /\ b.val \in Byte
  BY <1>3 DEF Bytes
<1> QED BY <1>1, <1>4, ElementOfSeq

\* The decoder looks at a byte before the cut.
LEMMA TakeCut ==
    ASSUME Typed, left > 0, Take, scenario' = scenario, sent' = sent,
           NEW f \in Nat, Cut(f), Head(line).frame <= f
    PROVE  Cut(f)'
<1>1. PICK c \in Nat, rest \in Seq(Bytes) : Behind(f, c, rest)
  BY DEF Cut
<1>2. /\ Len(line) > 0 /\ Len(line) \in Nat /\ Head(line) = line[1] /\ line' = Tail(line)
      /\ Len(Tail(line)) = Len(line) - 1 /\ \A i \in 1 .. Len(line) - 1 : Tail(line)[i] = line[i + 1]
  BY TakeFacts DEF Take
<1>3. /\ Len(line) = c + Len(rest) /\ \A i \in 1 .. c : line[i].frame <= f
      /\ \A i \in 1 .. Len(rest) : line[c + i] = rest[i] /\ rest[i].frame > f
      /\ Leads(scenario.messages, rest, At(f + 1, 0, FALSE), Goal)
  BY <1>1 DEF Behind
<1>4. Len(rest) \in Nat
  OBVIOUS
<1>5. c > 0
  <2>1. ASSUME c = 0 PROVE FALSE
    <3>1. 1 \in 1 .. Len(rest) /\ c + 1 = 1
      BY <2>1, <1>2, <1>3, <1>4
    <3>2. line[1].frame > f
      BY <3>1, <1>3
    <3>3. line[1].frame \in Nat
      BY <1>2, Frames
    <3> QED BY <3>2, <3>3, <1>2
  <2> QED BY <2>1
<1> DEFINE d == c - 1
<1> DEFINE t == Tail(line)
<1>6. Len(t) = d + Len(rest) /\ d \in Nat
  BY <1>2, <1>3, <1>4, <1>5
<1>7. \A i \in 1 .. Len(line) - 1 : t[i] = line[i + 1]
  BY <1>2
<1> HIDE DEF t
<1>8. ASSUME NEW i \in 1 .. d PROVE t[i].frame <= f
  <2>1. i \in 1 .. Len(line) - 1 /\ i + 1 \in 1 .. c
    BY <1>3, <1>4, <1>5
  <2> QED BY <2>1, <1>3, <1>7
<1>9. ASSUME NEW i \in 1 .. Len(rest) PROVE t[d + i] = rest[i] /\ rest[i].frame > f
  <2>1. d + i \in 1 .. Len(line) - 1 /\ (d + i) + 1 = c + i
    BY <1>3, <1>4, <1>5
  <2> QED BY <2>1, <1>3, <1>7
<1>10. Goal' = Goal
  BY DEF Goal
<1>11. Behind(f, d, rest)'
  <2> HIDE DEF d
  <2> QED BY <1>2, <1>3, <1>6, <1>8, <1>9, <1>10 DEF Behind, t
<1>12. Bytes' = Bytes
  BY DEF Bytes
<1> QED BY <1>6, <1>11, <1>12 DEF Cut

\* It looks at the first one behind it.
LEMMA CutHere ==
    ASSUME Typed, NEW f \in Nat, Cut(f), Len(line) > 0 => line[1].frame > f
    PROVE  Leads(scenario.messages, line, At(f + 1, 0, FALSE), Goal)
<1>1. PICK c \in Nat, rest \in Seq(Bytes) : Behind(f, c, rest)
  BY DEF Cut
<1>2. /\ Len(line) = c + Len(rest) /\ \A i \in 1 .. c : line[i].frame <= f
      /\ \A i \in 1 .. Len(rest) : line[c + i] = rest[i]
      /\ Leads(scenario.messages, rest, At(f + 1, 0, FALSE), Goal)
  BY <1>1 DEF Behind
<1>3. Len(rest) \in Nat /\ line \in Seq(Bytes)
  BY Frames
<1>4. c = 0
  <2>1. ASSUME c > 0 PROVE FALSE
    <3>1. 1 \in 1 .. c /\ 1 \in 1 .. Len(line)
      BY <2>1, <1>2, <1>3
    <3>2. line[1].frame <= f /\ line[1].frame > f /\ line[1].frame \in Nat
      BY <3>1, <1>2, Frames
    <3> QED BY <3>2
  <2> QED BY <2>1
<1>5. rest = line
  <2>1. Len(rest) = Len(line) /\ \A i \in 1 .. Len(rest) : rest[i] = line[i]
    BY <1>2, <1>3, <1>4
  <2> QED BY <2>1, <1>3, SeqEqual
<1> QED BY <1>2, <1>5

\* Another message is sent: it leads on.
LEMMA SendBytes ==
    ASSUME Typed, Encoding, Ordered, NEW stripped \in BOOLEAN, Send(stripped)
    PROVE  /\ scenario' = scenario /\ Len(sent') = Len(sent) + 1 /\ Goal' = At(Len(sent) + 1 + 1, 0, FALSE)
           /\ \A i \in 1 .. Len(sent') : sent'[i] = scenario.messages[i]
           /\ \E more \in Seq(Bytes) :
                /\ line' = line \o more /\ Len(line') = Len(line) + Len(more)
                /\ \A i \in 1 .. Len(line) : line'[i] = line[i]
                /\ \A i \in 1 .. Len(more) : line'[Len(line) + i] = more[i] /\ more[i].frame = Len(sent) + 1
                /\ Leads(scenario.messages, more, Goal, Goal')
<1>1. scenario' = scenario
  BY DEF Send
<1>2. Len(sent') = Len(sent) + 1 /\ \A i \in 1 .. Len(sent') : sent'[i] = scenario.messages[i]
  BY SendOrder DEF Ordered
<1>3. Goal' = At(Len(sent) + 1 + 1, 0, FALSE)
  BY <1>2 DEF Goal
<1>4. PICK more \in Seq(Bytes) :
        /\ line' = line \o more /\ \A i \in 1 .. Len(more) : more[i].frame = Len(sent) + 1
        /\ Leads(scenario.messages, more, At(Len(sent) + 1, 0, FALSE), At(Len(sent) + 1 + 1, 0, FALSE))
  BY SendLeads
<1>5. /\ Len(line') = Len(line) + Len(more)
      /\ \A i \in 1 .. Len(line) : line'[i] = line[i]
      /\ \A i \in 1 .. Len(more) : line'[Len(line) + i] = more[i]
  BY <1>4, Frames, ConcatFacts
<1>6. Leads(scenario.messages, more, Goal, Goal')
  BY <1>3, <1>4 DEF Goal
<1> QED BY <1>1, <1>2, <1>3, <1>4, <1>5, <1>6

LEMMA SendCut ==
    ASSUME Typed, Encoding, Ordered, NEW stripped \in BOOLEAN, Send(stripped),
           NEW f \in 0 .. Len(sent), Cut(f)
    PROVE  Cut(f)'
<1>1. PICK c \in Nat, rest \in Seq(Bytes) : Behind(f, c, rest)
  BY DEF Cut
<1>2. /\ Len(line) = c + Len(rest) /\ \A i \in 1 .. c : line[i].frame <= f
      /\ \A i \in 1 .. Len(rest) : line[c + i] = rest[i] /\ rest[i].frame > f
      /\ Leads(scenario.messages, rest, At(f + 1, 0, FALSE), Goal)
  BY <1>1 DEF Behind
<1>3. PICK more \in Seq(Bytes) :
        /\ line' = line \o more /\ Len(line') = Len(line) + Len(more)
        /\ \A i \in 1 .. Len(line) : line'[i] = line[i]
        /\ \A i \in 1 .. Len(more) : line'[Len(line) + i] = more[i] /\ more[i].frame = Len(sent) + 1
        /\ Leads(scenario.messages, more, Goal, Goal')
  BY SendBytes
<1> DEFINE next == rest \o more
<1>4. /\ next \in Seq(Bytes) /\ Len(next) = Len(rest) + Len(more)
      /\ \A i \in 1 .. Len(rest) : next[i] = rest[i]
      /\ \A i \in 1 .. Len(more) : next[Len(rest) + i] = more[i]
  BY ConcatFacts
<1>5. Leads(scenario.messages, next, At(f + 1, 0, FALSE), Goal')
  BY <1>2, <1>3, LeadsConcat
<1> HIDE DEF next
<1>6. Len(rest) \in Nat /\ Len(more) \in Nat /\ Len(line) \in Nat /\ f \in Nat /\ Len(sent) \in Nat /\ f <= Len(sent)
  BY Frames
<1>7. Len(line') = c + Len(next)
  BY <1>2, <1>3, <1>4, <1>6
<1>8. ASSUME NEW i \in 1 .. c PROVE line'[i].frame <= f
  <2>1. i \in 1 .. Len(line)
    BY <1>2, <1>6
  <2> QED BY <2>1, <1>2, <1>3
<1>9. ASSUME NEW i \in 1 .. Len(next) PROVE line'[c + i] = next[i] /\ next[i].frame > f
  <2>1. CASE i <= Len(rest)
    <3>1. i \in 1 .. Len(rest) /\ c + i \in 1 .. Len(line)
      BY <2>1, <1>2, <1>6
    <3>2. next[i] = rest[i] /\ line'[c + i] = line[c + i] /\ line[c + i] = rest[i] /\ rest[i].frame > f
      BY <3>1, <1>2, <1>3, <1>4
    <3> QED BY <3>2
  <2>2. CASE ~(i <= Len(rest))
    <3>1. PICK j \in 1 .. Len(more) : i = Len(rest) + j /\ c + i = Len(line) + j
      <4>1. i - Len(rest) \in 1 .. Len(more) /\ i = Len(rest) + (i - Len(rest)) /\ c + i = Len(line) + (i - Len(rest))
        BY <2>2, <1>2, <1>4, <1>6
      <4> QED BY <4>1
    <3>2. next[i] = more[j] /\ line'[c + i] = more[j] /\ more[j].frame = Len(sent) + 1
      BY <3>1, <1>3, <1>4
    <3> QED BY <3>2, <1>6
  <2> QED BY <2>1, <2>2
<1>10. scenario' = scenario
  BY SendBytes
<1>11. Behind(f, c, next)'
  BY <1>5, <1>7, <1>8, <1>9, <1>10 DEF Behind
<1>12. Bytes' = Bytes
  BY <1>10 DEF Bytes
<1> QED BY <1>4, <1>11, <1>12 DEF Cut

LEMMA SendOrdered ==
    ASSUME Typed, Encoding, Ordered, NEW stripped \in BOOLEAN, Send(stripped)
    PROVE  Ordered'
<1>1. PICK more \in Seq(Bytes) :
        /\ Len(line') = Len(line) + Len(more)
        /\ \A i \in 1 .. Len(line) : line'[i] = line[i]
        /\ \A i \in 1 .. Len(more) : line'[Len(line) + i] = more[i] /\ more[i].frame = Len(sent) + 1
  BY SendBytes
<1>2. /\ Len(more) \in Nat /\ Len(line) \in Nat /\ Len(sent) \in Nat
      /\ \A i \in 1 .. Len(line) : line[i].frame \in Nat
  BY Frames
<1>3. /\ scenario' = scenario /\ Len(sent') = Len(sent) + 1
      /\ \A i \in 1 .. Len(sent') : sent'[i] = scenario.messages[i]
  BY SendBytes
<1>4. /\ \A i \in 1 .. Len(line) : line[i].frame <= Len(sent)
      /\ \A i, j \in 1 .. Len(line) : i <= j => line[i].frame <= line[j].frame
  BY DEF Ordered
<1>5. ASSUME NEW i \in 1 .. Len(line')
      PROVE  \/ i \in 1 .. Len(line) /\ line'[i] = line[i]
             \/ i > Len(line) /\ line'[i].frame = Len(sent) + 1
  <2>1. CASE i <= Len(line)
    BY <2>1, <1>1, <1>2
  <2>2. CASE ~(i <= Len(line))
    <3>1. PICK j \in 1 .. Len(more) : i = Len(line) + j
      <4>1. i - Len(line) \in 1 .. Len(more) /\ i = Len(line) + (i - Len(line))
        BY <2>2, <1>1, <1>2
      <4> QED BY <4>1
    <3> QED BY <2>2, <3>1, <1>1, <1>2
  <2> QED BY <2>1, <2>2
<1>6. ASSUME NEW i \in 1 .. Len(line') PROVE line'[i].frame <= Len(sent')
  <2>1. CASE i \in 1 .. Len(line) /\ line'[i] = line[i]
    <3>1. line[i].frame <= Len(sent) /\ line[i].frame \in Nat
      BY <2>1, <1>2, <1>4
    <3> QED BY <2>1, <3>1, <1>2, <1>3
  <2>2. CASE line'[i].frame = Len(sent) + 1
    BY <2>2, <1>2, <1>3
  <2> QED BY <2>1, <2>2, <1>5
<1>7. ASSUME NEW i \in 1 .. Len(line'), NEW j \in 1 .. Len(line'), i <= j
      PROVE  line'[i].frame <= line'[j].frame
  <2>1. i \in Nat /\ j \in Nat
    BY <1>1, <1>2
  <2>2. CASE i \in 1 .. Len(line) /\ line'[i] = line[i]
    <3>1. line[i].frame <= Len(sent) /\ line[i].frame \in Nat
      BY <2>2, <1>2, <1>4
    <3>2. CASE j \in 1 .. Len(line) /\ line'[j] = line[j]
      BY <2>2, <3>2, <1>4, <1>7
    <3>3. CASE line'[j].frame = Len(sent) + 1
      BY <2>2, <3>1, <3>3, <1>2
    <3> QED BY <3>2, <3>3, <1>5
  <2>3. CASE i > Len(line) /\ line'[i].frame = Len(sent) + 1
    BY <2>1, <2>3, <1>2, <1>5, <1>7
  <2> QED BY <2>2, <2>3, <1>5
<1> QED BY <1>3, <1>6, <1>7 DEF Ordered

\* It can be cut off behind the last message, too.
LEMMA LastCut == Typed /\ Ordered => Cut(Len(sent))
<1> SUFFICES ASSUME Typed, Ordered PROVE Cut(Len(sent))
  OBVIOUS
<1> DEFINE none == <<>>
<1>1. none \in Seq(Bytes) /\ Len(none) = 0
  BY EmptySeq
<1>2. Len(line) \in Nat /\ \A i \in 1 .. Len(line) : line[i].frame <= Len(sent)
  BY Frames DEF Ordered
<1>3. Leads(scenario.messages, none, At(Len(sent) + 1, 0, FALSE), Goal)
  <2>1. none = <<>>
    OBVIOUS
  <2> HIDE DEF none
  <2>2. Leads(scenario.messages, none, Goal, Goal)
    BY <2>1, LeadsEmpty
  <2> QED BY <2>2 DEF Goal
<1> HIDE DEF none
<1>4. Len(line) = Len(line) + Len(none) /\ \A i \in 1 .. Len(none) : FALSE
  BY <1>1, <1>2
<1>5. Behind(Len(sent), Len(line), none)
  BY <1>1, <1>2, <1>3, <1>4 DEF Behind
<1> QED BY <1>1, <1>2, <1>5 DEF Cut

-----------------------------------------------------------------------------
(* Sending                                                                 *)

LEMMA InitLocal == Init => Ordered /\ Local
<1> SUFFICES ASSUME Init PROVE Ordered /\ Local
  OBVIOUS
<1>1. Typed
  BY InitTyped
<1>2. Len(sent) = 0 /\ Len(line) = 0 /\ damaged = <<>>
  BY EmptySeq DEF Init
<1>3. Ordered
  BY <1>2 DEF Ordered
<1>4. Last(0)
  <2>1. DOMAIN damaged = {}
    BY <1>2
  <2> QED BY <2>1, <1>2 DEF Last
<1>5. Lost(0)
  <2>1. Cut(Len(sent))
    BY <1>1, <1>3, LastCut
  <2>2. \A f \in 0 .. Len(sent) : f = Len(sent)
    BY <1>2
  <2> QED BY <2>1, <2>2 DEF Lost, Cuts
<1> QED BY <1>2, <1>3, <1>4, <1>5 DEF Local

LEMMA SendCuts ==
    ASSUME Typed, Encoding, Ordered, NEW stripped \in BOOLEAN, Send(stripped), NEW n \in Nat, Cuts(n)
    PROVE  Cuts(n)'
<1>1. Len(sent') = Len(sent) + 1 /\ Len(sent) \in Nat
  BY SendBytes, Frames
<1>2. Typed' /\ Ordered'
  BY SendTyped, SendOrdered
<1>3. Cut(Len(sent))'
  BY <1>2, LastCut, PTL
<1>4. ASSUME NEW f \in n .. Len(sent') PROVE Cut(f)'
  <2>1. CASE f <= Len(sent)
    <3>1. f \in n .. Len(sent) /\ f \in 0 .. Len(sent)
      BY <2>1, <1>1
    <3>2. Cut(f)
      BY <3>1 DEF Cuts
    <3> QED BY <3>1, <3>2, SendCut
  <2>2. CASE f = Len(sent')
    BY <2>2, <1>3
  <2> QED BY <2>1, <2>2, <1>1
<1> QED BY <1>4 DEF Cuts

LEMMA SendLocal ==
    ASSUME Typed, Encoding, Ordered, Local, NEW stripped \in BOOLEAN, Send(stripped)
    PROVE  Local'
<1>1. /\ scenario' = scenario /\ capacity' = capacity /\ damaged' = damaged /\ got' = got /\ buffer' = buffer
      /\ escape' = escape
  BY DEF Send, decoderVars, consumerVars
<1> SUFFICES ASSUME scenario.consumer = "all", capacity < MaxMessageSize PROVE Local'
  BY <1>1 DEF Local
<1>2. PICK L \in 0 .. Len(sent) : Last(L) /\ (Lost(L) \/ Following(L) \/ Found(L))
  BY DEF Local
<1>3. /\ Len(sent') = Len(sent) + 1 /\ Goal' = At(Len(sent) + 1 + 1, 0, FALSE)
      /\ line \in Seq(Bytes) /\ Len(sent) \in Nat /\ Len(got) \in Nat
  BY SendBytes, Frames
<1>4. PICK more \in Seq(Bytes) : line' = line \o more /\ Leads(scenario.messages, more, Goal, Goal')
  BY SendBytes
<1>5. ASSUME NEW p, Leads(scenario.messages, line, p, Goal) PROVE Leads(scenario.messages, line', p, Goal')
  BY <1>3, <1>4, <1>5, LeadsConcat
<1>6. L \in 0 .. Len(sent') /\ Last(L)'
  BY <1>1, <1>2, <1>3 DEF Last
<1>7. CASE Lost(L)
  <2>1. Cuts(L)'
    BY <1>7, SendCuts DEF Lost
  <2> QED BY <2>1, <1>6 DEF Local, Lost
<1>8. CASE Following(L)
  <2>1. L < Len(sent') /\ Cuts(L + 1)'
    BY <1>3, <1>8, SendCuts DEF Following
  <2>2. PICK at \in Nat, esc \in BOOLEAN : (escape => esc) /\ Leads(scenario.messages, line, At(L + 1, at, esc), Goal)
    BY <1>8 DEF Following
  <2>3. Leads(scenario'.messages, line', At(L + 1, at, esc), Goal')
    BY <2>2, <1>1, <1>5
  <2>4. Following(L)'
    BY <2>1, <2>2, <2>3, <1>1 DEF Following
  <2> QED BY <2>4, <1>6 DEF Local
<1>9. CASE Found(L)
  <2>1. PICK k \in L + 2 .. Len(sent) + 1 :
          /\ Cuts(k) /\ Leads(scenario.messages, line, At(k, Len(buffer), escape), Goal)
          /\ \A i \in 1 .. Len(buffer) : buffer[i] = scenario.messages[k][i]
          /\ Between(k, L)
    BY <1>9 DEF Found
  <2>2. k \in L + 2 .. Len(sent') + 1 /\ Cuts(k)'
    BY <2>1, <1>3, SendCuts
  <2>3. Leads(scenario'.messages, line', At(k, Len(buffer'), escape'), Goal')
    BY <2>1, <1>1, <1>5
  <2>4. Between(k, L)'
    BY <2>1, <1>1 DEF Between
  <2>5. Found(L)'
    BY <2>1, <2>2, <2>3, <2>4, <1>1 DEF Found
  <2> QED BY <2>5, <1>6 DEF Local
<1> QED BY <1>2, <1>7, <1>8, <1>9

-----------------------------------------------------------------------------
(* Decoding                                                                *)

\* A byte is taken from the line, and the messages are the same.
Taking == left > 0 /\ Take /\ scenario' = scenario /\ sent' = sent

LEMMA TakeCuts ==
    ASSUME Typed, Taking, NEW n \in Nat, Cuts(n), Head(line).frame <= n
    PROVE  Cuts(n)'
<1>1. Head(line).frame \in Nat /\ Len(sent) \in Nat
  BY TakeFacts, Frames DEF Taking
<1>2. ASSUME NEW f \in n .. Len(sent) PROVE Cut(f)'
  <2>1. f \in Nat /\ Head(line).frame <= f /\ Cut(f)
    BY <1>1 DEF Cuts
  <2> QED BY <2>1, TakeCut DEF Taking
<1> QED BY <1>2 DEF Cuts, Taking

LEMMA TakeOrdered == ASSUME Typed, Taking, Ordered PROVE Ordered'
<1>1. /\ line' = Tail(line) /\ Len(line) \in Nat /\ Len(Tail(line)) = Len(line) - 1
      /\ \A i \in 1 .. Len(line) - 1 : Tail(line)[i] = line[i + 1]
  BY TakeFacts DEF Taking, Take
<1>2. ASSUME NEW i \in 1 .. Len(line') PROVE line'[i] = line[i + 1] /\ i + 1 \in 1 .. Len(line) /\ i \in Int
  BY <1>1
<1>3. \A i \in 1 .. Len(line') : line'[i].frame <= Len(sent)
  BY <1>2 DEF Ordered
<1>4. ASSUME NEW i \in 1 .. Len(line'), NEW j \in 1 .. Len(line'), i <= j
      PROVE  line'[i].frame <= line'[j].frame
  <2>1. /\ line'[i] = line[i + 1] /\ i + 1 \in 1 .. Len(line) /\ i \in Int
        /\ line'[j] = line[j + 1] /\ j + 1 \in 1 .. Len(line) /\ j \in Int
    BY <1>2
  <2>2. i + 1 <= j + 1
    BY <2>1, <1>4
  <2> QED BY <2>1, <2>2 DEF Ordered
<1> QED BY <1>3, <1>4 DEF Ordered, Taking

\* The decoder is at a place from which the line leads on.
LEMMA NextFrom ==
    ASSUME Typed, Ordered, Taking, NEW p, Leads(scenario.messages, line, p, Goal)
    PROVE  /\ Follows(scenario.messages, p, Head(line)) /\ Head(line).frame = p.n
           /\ Leads(scenario'.messages, line', Moved(p, Head(line).val), Goal')
           /\ p.n \in Nat \ {0} /\ p.n <= Len(sent)
           /\ scenario.messages[p.n] \in Seq(Byte) /\ Len(scenario.messages[p.n]) \in Nat \ {0}
           /\ 2 * Len(scenario.messages[p.n]) <= MaxMessageSize
<1>1. line \in Seq(Bytes) /\ Len(line) > 0 /\ Len(line) \in Nat /\ Head(line) = line[1] /\ line' = Tail(line)
  BY TakeFacts DEF Taking, Take
<1>2. Follows(scenario.messages, p, Head(line)) /\ Leads(scenario.messages, Tail(line), Moved(p, Head(line).val), Goal)
  BY <1>1, LeadsTail
<1>3. Head(line).frame = p.n
  BY <1>2 DEF Follows
<1>4. p.n \in Nat \ {0} /\ p.n <= Len(sent)
  <2>1. 1 \in 1 .. Len(line)
    BY <1>1
  <2> QED BY <2>1, <1>1, <1>3, Frames DEF Ordered
<1>5. scenario \in Scenarios /\ Len(sent) <= Len(scenario.messages) /\ Len(sent) \in Nat
  BY Frames DEF Typed, TypeOK
<1>6. Len(scenario.messages) \in Nat /\ scenario.messages \in Seq(Message)
  BY <1>5, Messages
<1>7. p.n \in 1 .. Len(scenario.messages)
  BY <1>4, <1>5, <1>6
<1>8. scenario.messages[p.n] \in Seq(Byte) /\ Len(scenario.messages[p.n]) \in Nat \ {0}
  BY <1>5, <1>7, Messages
<1>9. 2 * Len(scenario.messages[p.n]) <= MaxMessageSize
  <2>1. p.n \in DOMAIN scenario.messages
    BY <1>2 DEF Follows
  <2> QED BY <2>1, <1>5, SizeAssumption
<1>10. Goal' = Goal
  BY DEF Goal, Taking
<1> QED BY <1>1, <1>2, <1>3, <1>4, <1>8, <1>9, <1>10 DEF Taking

\* What is left on the line begins behind message f.
LEMMA HereCut ==
    ASSUME Typed, Taking, NEW f \in Nat, \A i \in 1 .. Len(line') : line'[i].frame > f,
           Leads(scenario'.messages, line', At(f + 1, 0, FALSE), Goal')
    PROVE  Cut(f)'
<1>1. line' \in Seq(Bytes) /\ Len(line') \in Nat
  BY TakeFacts DEF Taking
<1>2. Len(line') = 0 + Len(line') /\ \A i \in 1 .. 0 : FALSE
  BY <1>1
<1>3. \A i \in 1 .. Len(line') : 0 + i = i
  BY <1>1
<1>4. Behind(f, 0, line)'
  BY <1>2, <1>3 DEF Behind
<1>5. Bytes' = Bytes
  BY DEF Bytes, Taking
<1> QED BY <1>1, <1>4, <1>5 DEF Cut

\* Bytes before the cut make no difference, and the first behind it ends a wrong ESC.
LEMMA LostTake ==
    ASSUME Typed, Ordered, Taking, NEW L \in 0 .. Len(sent), Lost(L),
           Head(line).val \notin {ESC, END} => ~escape'
    PROVE  Lost(L)' \/ Following(L)'
<1> DEFINE p == At(L + 1, 0, FALSE)
<1> DEFINE val == Head(line).val
<1>1. /\ Head(line) = line[1] /\ Head(line).frame \in Nat /\ Len(line) > 0 /\ Len(line) \in Nat
      /\ Len(sent) \in Nat /\ L \in Nat /\ L <= Len(sent)
  BY TakeFacts, Frames DEF Taking
<1>2. CASE Head(line).frame <= L
  BY <1>1, <1>2, TakeCuts DEF Lost
<1>3. CASE ~(Head(line).frame <= L)
  <2>1. Cut(L)
    BY <1>1 DEF Lost, Cuts
  <2>2. Leads(scenario.messages, line, p, Goal)
    <3>1. line[1].frame > L
      BY <1>1, <1>3
    <3> QED BY <2>1, <3>1, <1>1, CutHere
  <2>3. p.n = L + 1 /\ p.at = 0 /\ p.escape = FALSE
    BY DEF At
  <2>6. p = At(L + 1, 0, FALSE)
    OBVIOUS
  <2> HIDE DEF p
  <2>4. /\ Head(line).frame = L + 1 /\ L + 1 <= Len(sent)
        /\ Leads(scenario'.messages, line', Moved(p, val), Goal')
    BY <2>2, <2>3, NextFrom
  <2>5. Cuts(L + 1)'
    <3>1. Cuts(L + 1)
      BY <1>1 DEF Lost, Cuts
    <3> QED BY <3>1, <2>4, <1>1, TakeCuts
  <2>7. L < Len(sent') /\ L \in Nat
    BY <2>4, <1>1 DEF Taking
  <2>8. CASE val = END
    <3>1. Moved(p, val) = p
      BY <2>3, <2>8 DEF Moved, END, ESC
    <3>2. \A i \in 1 .. Len(line) : line[i].frame >= L + 1
      <4> SUFFICES ASSUME NEW i \in 1 .. Len(line) PROVE line[i].frame >= L + 1
        OBVIOUS
      <4>1. 1 \in 1 .. Len(line) /\ 1 <= i
        BY <1>1
      <4>2. line[1].frame <= line[i].frame /\ line[i].frame \in Nat
        BY <4>1, Frames DEF Ordered
      <4> QED BY <4>2, <2>4, <1>1
    <3>3. ASSUME NEW i \in 1 .. Len(line') PROVE line'[i].frame > L
      <4>1. line'[i] = line[i + 1] /\ i + 1 \in 1 .. Len(line)
        BY TakeFacts DEF Taking, Take
      <4>2. line[i + 1].frame >= L + 1 /\ line[i + 1].frame \in Nat
        BY <4>1, <3>2, Frames
      <4> QED BY <4>1, <4>2, <1>1
    <3>4. Leads(scenario'.messages, line', At(L + 1, 0, FALSE), Goal')
      BY <2>4, <2>6, <3>1
    <3>5. Cut(L)'
      BY <2>7, <3>3, <3>4, HereCut
    <3>6. ASSUME NEW f \in L .. Len(sent') PROVE Cut(f)'
      <4>1. f = L \/ f \in L + 1 .. Len(sent')
        BY <1>1, <2>7
      <4> QED BY <4>1, <2>5, <3>5 DEF Cuts
    <3> QED BY <3>6 DEF Lost, Cuts
  <2>9. CASE val # END
    <3>1. PICK at \in Nat, esc \in BOOLEAN : Moved(p, val) = At(L + 1, at, esc) /\ (escape' => esc)
      <4>1. CASE val = ESC
        <5>1. Moved(p, val) = At(L + 1, 0, TRUE)
          BY <4>1, <2>3 DEF Moved
        <5> QED BY <5>1
      <4>2. CASE val # ESC
        <5>1. Moved(p, val) = At(L + 1, 1, FALSE) /\ (escape' => FALSE)
          BY <4>2, <2>3, <2>9 DEF Moved
        <5> QED BY <5>1
      <4> QED BY <4>1, <4>2
    <3>2. Following(L)'
      BY <2>4, <2>5, <2>7, <3>1 DEF Following
    <3> QED BY <3>2
  <2> QED BY <2>8, <2>9
<1> QED BY <1>2, <1>3

\* In the message behind the damaged one every ESC is taken for one, or ends one too
\* many, and its END is found.
LEMMA FollowingTake ==
    ASSUME Typed, Typed', Ordered, Taking, NEW L \in 0 .. Len(sent), Following(L),
           \/ (escape \/ Head(line).val \notin {ESC, END}) /\ ~escape'
           \/ ~escape /\ Head(line).val = ESC
           \/ ~escape /\ Head(line).val = END /\ ~escape' /\ Len(buffer') = 0
    PROVE  Following(L)' \/ Found(L)'
<1> DEFINE val == Head(line).val
<1>1. PICK at \in Nat, esc \in BOOLEAN : (escape => esc) /\ Leads(scenario.messages, line, At(L + 1, at, esc), Goal)
  BY DEF Following
<1> DEFINE p == At(L + 1, at, esc)
<1>2. p.n = L + 1 /\ p.at = at /\ p.escape = esc /\ p = At(L + 1, at, esc)
  BY DEF At
<1>3. Leads(scenario.messages, line, p, Goal)
  BY <1>1
<1> HIDE DEF p
<1>4. /\ Follows(scenario.messages, p, Head(line)) /\ Head(line).frame = L + 1
      /\ Leads(scenario'.messages, line', Moved(p, val), Goal')
      /\ L + 1 <= Len(sent)
  BY <1>2, <1>3, NextFrom
<1>5. L \in Nat /\ L < Len(sent') /\ sent' = sent /\ Len(sent) \in Nat /\ Len(got') \in Nat
  <2>1. Len(got') \in Nat
    BY DEF Typed, TypeOK
  <2> QED BY <2>1, <1>4, Frames DEF Taking
<1>6. Cuts(L + 1)'
  <2>1. Cuts(L + 1)
    BY DEF Following
  <2> QED BY <2>1, <1>4, <1>5, TakeCuts
<1>7. ASSUME NEW a \in Nat, NEW e \in BOOLEAN, Moved(p, val) = At(L + 1, a, e), escape' => e
      PROVE  Following(L)'
  BY <1>4, <1>5, <1>6, <1>7 DEF Following
<1>8. esc => val \notin {ESC, END}
  BY <1>2, <1>4 DEF Follows, Code, END, ESC, ESC_END, ESC_ESC
<1>9. CASE (escape \/ val \notin {ESC, END}) /\ ~escape'
  <2>1. Moved(p, val) = At(L + 1, at + 1, FALSE)
    BY <1>1, <1>2, <1>9 DEF Moved
  <2>2. at + 1 \in Nat /\ (escape' => FALSE)
    BY <1>9
  <2> QED BY <2>1, <2>2, <1>7
<1>10. CASE ~escape /\ val = ESC
  <2>1. Moved(p, val) = At(L + 1, at, TRUE)
    BY <1>2, <1>8, <1>10 DEF Moved
  <2> QED BY <2>1, <1>7
<1>11. CASE ~escape /\ val = END /\ ~escape' /\ Len(buffer') = 0
  <2>1. END # ESC
    BY DEF END, ESC
  <2>2. CASE at = 0
    <3>1. Moved(p, val) = At(L + 1, at, FALSE)
      BY <2>1, <2>2, <1>2, <1>8, <1>11 DEF Moved
    <3>2. escape' => FALSE
      BY <1>11
    <3> QED BY <3>1, <3>2, <1>7
  <2>3. CASE at # 0
    <3>1. Moved(p, val) = At(L + 1 + 1, 0, FALSE)
      BY <2>1, <2>3, <1>2, <1>8, <1>11 DEF Moved
    <3> DEFINE k == L + 2
    <3>2. k = L + 1 + 1 /\ k \in L + 2 .. Len(sent') + 1 /\ k - L - 2 = 0
      BY <1>4, <1>5
    <3>3. escape' = FALSE
      BY <1>11 DEF Typed, TypeOK
    <3>4. Leads(scenario'.messages, line', At(k, Len(buffer'), escape'), Goal')
      BY <3>1, <3>2, <3>3, <1>4, <1>11
    <3>5. Cuts(k)'
      <4>1. \A f \in k .. Len(sent') : f \in L + 1 .. Len(sent')
        BY <1>5
      <4> QED BY <4>1, <1>6 DEF Cuts
    <3>6. \A i \in 1 .. Len(buffer') : buffer'[i] = scenario'.messages[k][i]
      BY <1>11
    <3>7. Between(k, L)'
      <4>1. k <= Len(got') + L + 2 /\ \A i \in 1 .. k - L - 2 : FALSE
        BY <3>2, <1>5
      <4> QED BY <4>1 DEF Between
    <3> HIDE DEF k
    <3> QED BY <3>2, <3>4, <3>5, <3>6, <3>7 DEF Found
  <2> QED BY <2>2, <2>3
<1> QED BY <1>9, <1>10, <1>11

\* Where an encoder would be: the next byte of message k, ...
LEMMA FoundAdd ==
    ASSUME Typed, Ordered, Taking, AddByte, capacity' < MaxMessageSize, NEW L \in 0 .. Len(sent), Found(L)
    PROVE  Found(L)'
<1> DEFINE val == Head(line).val
<1>1. PICK k \in L + 2 .. Len(sent) + 1 :
        /\ Cuts(k) /\ Leads(scenario.messages, line, At(k, Len(buffer), escape), Goal)
        /\ \A i \in 1 .. Len(buffer) : buffer[i] = scenario.messages[k][i]
        /\ Between(k, L)
  BY DEF Found
<1> DEFINE p == At(k, Len(buffer), escape)
<1> DEFINE m == scenario.messages[k]
<1> DEFINE b == m[Len(buffer) + 1]
<1>2. p.n = k /\ p.at = Len(buffer) /\ p.escape = escape
  BY DEF At
<1>3. Leads(scenario.messages, line, p, Goal)
  BY <1>1
<1> HIDE DEF p
<1>4. /\ Follows(scenario.messages, p, Head(line)) /\ Head(line).frame = k
      /\ Leads(scenario'.messages, line', Moved(p, val), Goal')
      /\ k \in Nat /\ k <= Len(sent) /\ m \in Seq(Byte) /\ Len(m) \in Nat
  BY <1>2, <1>3, NextFrom
<1>5. /\ escape \/ val \notin {ESC, END}
      /\ buffer' = Append(buffer, IF escape THEN Unescaped(val) ELSE val)
      /\ escape' = FALSE /\ got' = got /\ scenario' = scenario /\ sent' = sent
  BY DEF AddByte, encoderVars, consumerVars
<1>6. /\ buffer \in Seq(Byte) /\ Len(buffer) \in Nat /\ escape \in BOOLEAN
  BY DEF Typed, TypeOK
<1>7. /\ Len(buffer) < Len(m)
      /\ \/ ~escape /\ ~Special(b) /\ val = b
         \/ escape /\ Special(b) /\ val = Code(b)
  BY <1>2, <1>4, <1>5 DEF Follows, Special
<1>8. (IF escape THEN Unescaped(val) ELSE val) = b
  BY <1>7 DEF Unescaped, Special, Code, END, ESC, ESC_END, ESC_ESC
<1>9. b \in Byte
  BY <1>4, <1>6, <1>7
<1>10. Moved(p, val) = At(k, Len(buffer) + 1, FALSE)
  BY <1>2, <1>5 DEF Moved
<1> HIDE DEF b, m, val
<1>11. /\ Len(buffer') = Len(buffer) + 1
       /\ \A i \in 1 .. Len(buffer) + 1 : buffer'[i] = IF i = Len(buffer) + 1 THEN b ELSE buffer[i]
  BY <1>5, <1>6, <1>8, <1>9
<1>12. ASSUME NEW i \in 1 .. Len(buffer') PROVE buffer'[i] = scenario'.messages[k][i]
  <2>1. i = Len(buffer) + 1 \/ i \in 1 .. Len(buffer)
    BY <1>6, <1>11
  <2>2. buffer'[i] = (IF i = Len(buffer) + 1 THEN b ELSE buffer[i])
    BY <1>11
  <2> QED BY <2>1, <2>2, <1>1, <1>5, <1>6 DEF b, m
<1>13. Leads(scenario'.messages, line', At(k, Len(buffer'), escape'), Goal')
  BY <1>4, <1>5, <1>10, <1>11
<1>14. Cuts(k)'
  BY <1>1, <1>4, TakeCuts
<1>15. Between(k, L)'
  BY <1>1, <1>5 DEF Between
<1> QED BY <1>5, <1>12, <1>13, <1>14, <1>15 DEF Found

\* ... the first of two bytes for it, ...
LEMMA FoundEscape ==
    ASSUME Typed, Ordered, Taking, Escape, NEW L \in 0 .. Len(sent), Found(L)
    PROVE  Found(L)'
<1> DEFINE val == Head(line).val
<1>1. PICK k \in L + 2 .. Len(sent) + 1 :
        /\ Cuts(k) /\ Leads(scenario.messages, line, At(k, Len(buffer), escape), Goal)
        /\ \A i \in 1 .. Len(buffer) : buffer[i] = scenario.messages[k][i]
        /\ Between(k, L)
  BY DEF Found
<1> DEFINE p == At(k, Len(buffer), escape)
<1>2. p.n = k /\ p.at = Len(buffer) /\ p.escape = escape
  BY DEF At
<1>3. Leads(scenario.messages, line, p, Goal)
  BY <1>1
<1> HIDE DEF p
<1>4. Head(line).frame = k /\ Leads(scenario'.messages, line', Moved(p, val), Goal') /\ k \in Nat
  BY <1>2, <1>3, NextFrom
<1>5. /\ ~escape /\ val = ESC /\ escape' = TRUE
      /\ buffer' = buffer /\ got' = got /\ scenario' = scenario /\ sent' = sent
  BY DEF Escape, encoderVars, consumerVars
<1>6. Moved(p, val) = At(k, Len(buffer), TRUE)
  BY <1>2, <1>5 DEF Moved
<1>7. Leads(scenario'.messages, line', At(k, Len(buffer'), escape'), Goal')
  BY <1>4, <1>5, <1>6
<1>8. Cuts(k)'
  BY <1>1, <1>4, TakeCuts
<1>9. Between(k, L)'
  BY <1>1, <1>5 DEF Between
<1> QED BY <1>1, <1>5, <1>7, <1>8, <1>9 DEF Found

\* ... or an END around it.
LEMMA FoundEnd ==
    ASSUME Typed, Ordered, Taking, HandleEnd, scenario.consumer = "all", NEW L \in 0 .. Len(sent), Found(L)
    PROVE  Found(L)'
<1> DEFINE val == Head(line).val
<1>1. PICK k \in L + 2 .. Len(sent) + 1 :
        /\ Cuts(k) /\ Leads(scenario.messages, line, At(k, Len(buffer), escape), Goal)
        /\ \A i \in 1 .. Len(buffer) : buffer[i] = scenario.messages[k][i]
        /\ Between(k, L)
  BY DEF Found
<1> DEFINE p == At(k, Len(buffer), escape)
<1> DEFINE m == scenario.messages[k]
<1>2. p.n = k /\ p.at = Len(buffer) /\ p.escape = escape
  BY DEF At
<1>3. Leads(scenario.messages, line, p, Goal)
  BY <1>1
<1> HIDE DEF p
<1>4. /\ Follows(scenario.messages, p, Head(line)) /\ Head(line).frame = k
      /\ Leads(scenario'.messages, line', Moved(p, val), Goal')
      /\ k \in Nat /\ k <= Len(sent) /\ m \in Seq(Byte) /\ Len(m) \in Nat
  BY <1>2, <1>3, NextFrom
<1>5. /\ ~escape /\ val = END /\ escape' = escape /\ scenario' = scenario /\ sent' = sent /\ END # ESC
  BY DEF HandleEnd, encoderVars, END, ESC
<1>6. /\ buffer \in Seq(Byte) /\ Len(buffer) \in Nat /\ (buffer = <<>> <=> Len(buffer) = 0)
      /\ got \in Seq(Seq(Byte)) /\ Len(got) \in Nat /\ escape \in BOOLEAN /\ L \in Nat
      /\ Len(sent) \in Nat
  BY Frames DEF Typed, TypeOK
<1>7. Cuts(k)'
  BY <1>1, <1>4, TakeCuts
<1>8. CASE buffer = <<>> /\ buffer' = buffer /\ got' = got
  <2>1. Moved(p, val) = p
    BY <1>2, <1>5, <1>6, <1>8 DEF Moved
  <2>2. Leads(scenario'.messages, line', At(k, Len(buffer'), escape'), Goal')
    BY <2>1, <1>4, <1>5, <1>8 DEF p
  <2>3. Between(k, L)'
    BY <1>1, <1>5, <1>8 DEF Between
  <2> QED BY <2>2, <2>3, <1>1, <1>5, <1>7, <1>8 DEF Found
<1>9. CASE buffer # <<>> /\ buffer' = <<>> /\ got' = Append(got, buffer)
  <2>1. Len(buffer) > 0 /\ Len(buffer) = Len(m)
    <3>1. Len(buffer) > 0
      BY <1>6, <1>9
    <3>2. \/ Len(buffer) \in {0, Len(m)}
          \/ Special(m[Len(buffer) + 1]) /\ val = ESC
          \/ ~Special(m[Len(buffer) + 1]) /\ val = m[Len(buffer) + 1]
      BY <1>2, <1>4, <1>5 DEF Follows
    <3> QED BY <3>1, <3>2, <1>5 DEF Special
  <2>2. buffer = m
    <3>1. \A i \in 1 .. Len(buffer) : buffer[i] = m[i]
      BY <1>1
    <3> HIDE DEF m
    <3> QED BY <3>1, <2>1, <1>4, <1>6, SeqEqual
  <2>3. Len(buffer') = 0
    BY <1>9, EmptySeq
  <2>4. /\ Len(got') = Len(got) + 1
        /\ \A i \in 1 .. Len(got) + 1 : got'[i] = IF i = Len(got) + 1 THEN buffer ELSE got[i]
    BY <1>6, <1>9
  <2>5. Moved(p, val) = At(k + 1, 0, FALSE)
    <3>1. p.at # 0 /\ ~p.escape
      BY <2>1, <1>2, <1>5, <1>6
    <3> QED BY <3>1, <1>2, <1>5 DEF Moved
  <2>6. Leads(scenario'.messages, line', At(k + 1, Len(buffer'), escape'), Goal')
    BY <2>3, <2>5, <1>4, <1>5, <1>6
  <2>7. Cuts(k + 1)'
    <3>1. \A f \in k + 1 .. Len(sent') : f \in k .. Len(sent')
      BY <1>4, <1>5, <1>6
    <3> QED BY <3>1, <1>7 DEF Cuts
  <2>8. Between(k + 1, L)'
    <3>1. /\ k <= Len(got) + L + 2
          /\ \A i \in 1 .. k - L - 2 : got[Len(got) - (k - L - 2) + i] = scenario.messages[L + 1 + i]
      BY <1>1 DEF Between
    <3>2. k + 1 <= Len(got') + L + 2
      BY <3>1, <2>4, <1>4, <1>6
    <3>3. ASSUME NEW i \in 1 .. (k + 1) - L - 2
          PROVE  got'[Len(got') - ((k + 1) - L - 2) + i] = scenario'.messages[L + 1 + i]
      <4> DEFINE j == Len(got) - (k - L - 2) + i
      <4>1. Len(got') - ((k + 1) - L - 2) + i = j /\ j \in 1 .. Len(got) + 1 /\ i \in Int
            /\ (j = Len(got) + 1 <=> L + 1 + i = k)
            /\ (j # Len(got) + 1 => i \in 1 .. k - L - 2)
        <5>1. k \in Nat /\ L \in Nat /\ Len(got) \in Nat /\ k >= L + 2 /\ k <= Len(got) + L + 2
              /\ Len(got') = Len(got) + 1
          BY <3>1, <2>4, <1>1, <1>4, <1>6
        <5>2. i \in Int /\ i >= 1 /\ i <= (k + 1) - L - 2
          BY <5>1
        <5> QED BY <5>1, <5>2
      <4>2. j # Len(got) + 1 => got[j] = scenario.messages[L + 1 + i]
        BY <3>1, <4>1
      <4> HIDE DEF j
      <4>3. got'[j] = (IF j = Len(got) + 1 THEN buffer ELSE got[j])
        BY <2>4, <4>1
      <4>4. got'[j] = scenario.messages[L + 1 + i]
        <5>1. CASE j = Len(got) + 1
          BY <5>1, <4>1, <4>3, <2>2
        <5>2. CASE j # Len(got) + 1
          BY <5>2, <4>2, <4>3
        <5> QED BY <5>1, <5>2
      <4> QED BY <4>1, <4>4, <1>5
    <3> QED BY <3>2, <3>3 DEF Between
  <2>9. k + 1 \in L + 2 .. Len(sent') + 1
    BY <1>1, <1>4, <1>5, <1>6
  <2>10. \A i \in 1 .. Len(buffer') : buffer'[i] = scenario'.messages[k + 1][i]
    BY <2>3
  <2> QED BY <2>6, <2>7, <2>8, <2>9, <2>10 DEF Found
<1> QED BY <1>8, <1>9 DEF HandleEnd, HasMailbox, Cleared, consumerVars

LEMMA DecodeLocal ==
    ASSUME Typed, Typed', Ordered, Local, AddByte \/ Escape \/ HandleEnd
    PROVE  Local'
<1> SUFFICES ASSUME scenario'.consumer = "all", capacity' < MaxMessageSize
             PROVE  \E L \in 0 .. Len(sent') : Last(L)' /\ (Lost(L)' \/ Following(L)' \/ Found(L)')
  BY DEF Local
<1>1. scenario' = scenario /\ sent' = sent /\ damaged' = damaged /\ left > 0
  BY DEF AddByte, Escape, HandleEnd, encoderVars
<1>2. scenario.consumer = "all"
  BY <1>1
<1>3. Taking
  <2>1. HandleEnd => Take
    BY <1>2 DEF HandleEnd, HasMailbox
  <2> QED BY <2>1, <1>1 DEF AddByte, Escape, Taking
<1>4. capacity < MaxMessageSize
  <2>1. capacity \in Nat /\ capacity' \in {capacity, 2 * capacity}
    BY DEF AddByte, Escape, HandleEnd, Typed, TypeOK
  <2> QED BY <2>1, SlipAssumption
<1>5. PICK L \in 0 .. Len(sent) : Last(L) /\ (Lost(L) \/ Following(L) \/ Found(L))
  BY <1>2, <1>4 DEF Local
<1>6. Last(L)'
  BY <1>1, <1>5 DEF Last
<1> DEFINE val == Head(line).val
<1>7. \/ (escape \/ val \notin {ESC, END}) /\ ~escape'
      \/ ~escape /\ val = ESC
      \/ ~escape /\ val = END /\ ~escape' /\ Len(buffer') = 0
  <2>1. Len(<<>>) = 0
    OBVIOUS
  <2>2. HandleEnd => buffer' = <<>> /\ ~escape /\ val = END /\ escape' = escape
    BY <1>2 DEF HandleEnd, HasMailbox, Cleared
  <2> QED BY <2>1, <2>2 DEF AddByte, Escape
<1>8. CASE Lost(L)
  BY <1>1, <1>3, <1>5, <1>6, <1>7, <1>8, LostTake
<1>9. CASE Following(L)
  BY <1>1, <1>3, <1>5, <1>6, <1>7, <1>9, FollowingTake
<1>10. CASE Found(L)
  BY <1>1, <1>2, <1>3, <1>5, <1>6, <1>10, FoundAdd, FoundEscape, FoundEnd
<1> QED BY <1>5, <1>8, <1>9, <1>10

-----------------------------------------------------------------------------
(* Damage                                                                  *)

\* What is left of the line: d is 1 if the byte is lost.
LEMMA DamagedLine ==
    ASSUME Typed, NEW i \in 1 .. Len(line), Damage(i)
    PROVE  \E d \in {0, 1} :
              /\ Len(line') = Len(line) - d
              /\ \A j \in 1 .. Len(line') :
                    LET n == IF j < i THEN j ELSE j + d IN
                    n \in 1 .. Len(line) /\ line'[j].frame = line[n].frame
              /\ \A j \in i + 1 .. Len(line) : line'[j - d] = line[j]
<1>1. line \in Seq(Bytes) /\ Len(line) \in Nat /\ \A n \in 1 .. Len(line) : line[n] \in Bytes
  BY Frames
<1>2. CASE line' = SubSeq(line, 1, i - 1) \o SubSeq(line, i + 1, Len(line))
  <2> DEFINE s == SubSeq(line, 1, i - 1)
  <2> DEFINE t == SubSeq(line, i + 1, Len(line))
  <2>1. s \in Seq(Bytes) /\ Len(s) = i - 1 /\ \A n \in 1 .. i - 1 : s[n] = line[n]
    <3>1. i - 1 \in Nat /\ i - 1 <= Len(line) /\ (1 <= i - 1 \/ i - 1 = 0)
      BY <1>1
    <3>2. s \in Seq(Bytes) /\ Len(s) = (IF 1 <= i - 1 THEN i - 1 - 1 + 1 ELSE 0)
          /\ \A n \in 1 .. i - 1 - 1 + 1 : s[n] = line[1 + n - 1]
      BY <3>1, <1>1, Part
    <3> HIDE DEF s
    <3>3. Len(s) = i - 1
      BY <3>1, <3>2
    <3>4. ASSUME NEW n \in 1 .. i - 1 PROVE s[n] = line[n]
      <4>1. n \in 1 .. i - 1 - 1 + 1 /\ 1 + n - 1 = n
        BY <3>1
      <4> QED BY <4>1, <3>2
    <3> QED BY <3>2, <3>3, <3>4
  <2>2. t \in Seq(Bytes) /\ Len(t) = Len(line) - i /\ \A n \in 1 .. Len(line) - i : t[n] = line[i + n]
    <3>1. i + 1 \in Nat \ {0} /\ (i + 1 <= Len(line) \/ i = Len(line))
      BY <1>1
    <3>2. t \in Seq(Bytes) /\ Len(t) = (IF i + 1 <= Len(line) THEN Len(line) - (i + 1) + 1 ELSE 0)
          /\ \A n \in 1 .. Len(line) - (i + 1) + 1 : t[n] = line[i + 1 + n - 1]
      BY <3>1, <1>1, Part
    <3> HIDE DEF t
    <3>3. Len(t) = Len(line) - i
      BY <3>1, <3>2, <1>1
    <3>4. ASSUME NEW n \in 1 .. Len(line) - i PROVE t[n] = line[i + n]
      <4>1. n \in 1 .. Len(line) - (i + 1) + 1 /\ i + 1 + n - 1 = i + n
        BY <1>1
      <4> QED BY <4>1, <3>2
    <3> QED BY <3>2, <3>3, <3>4
  <2>3. line' = s \o t
    BY <1>2
  <2> HIDE DEF s, t
  <2>4. /\ Len(line') = Len(s) + Len(t) /\ \A n \in 1 .. Len(s) : line'[n] = s[n]
        /\ \A n \in 1 .. Len(t) : line'[Len(s) + n] = t[n]
    <3>1. s \in Seq(Bytes) /\ t \in Seq(Bytes)
      BY <2>1, <2>2
    <3> QED BY <3>1, <2>3, ConcatFacts
  <2>5. Len(line') = Len(line) - 1
    BY <2>1, <2>2, <2>4, <1>1
  <2>6. ASSUME NEW j \in i + 1 .. Len(line) PROVE line'[j - 1] = line[j]
    <3>1. PICK n \in 1 .. Len(line) - i : j = i + n
      <4>1. j - i \in 1 .. Len(line) - i /\ j = i + (j - i)
        BY <1>1
      <4> QED BY <4>1
    <3>2. n \in 1 .. Len(t) /\ Len(s) + n = j - 1
      BY <3>1, <2>1, <2>2, <1>1
    <3>3. line'[Len(s) + n] = t[n] /\ t[n] = line[i + n]
      BY <3>1, <3>2, <2>2, <2>4
    <3> QED BY <3>1, <3>2, <3>3
  <2>7. ASSUME NEW j \in 1 .. Len(line')
        PROVE  LET n == IF j < i THEN j ELSE j + 1 IN n \in 1 .. Len(line) /\ line'[j].frame = line[n].frame
    <3>1. CASE j < i
      <4>1. j \in 1 .. i - 1 /\ j \in 1 .. Len(line)
        BY <3>1, <2>5, <1>1
      <4>2. line'[j] = line[j]
        BY <4>1, <2>1, <2>4
      <4> QED BY <3>1, <4>1, <4>2
    <3>2. CASE ~(j < i)
      <4>1. j + 1 \in i + 1 .. Len(line) /\ j + 1 \in 1 .. Len(line) /\ (j + 1) - 1 = j
        BY <3>2, <2>5, <1>1
      <4>2. line'[j] = line[j + 1]
        BY <4>1, <2>6
      <4> QED BY <3>2, <4>1, <4>2
    <3> QED BY <3>1, <3>2
  <2> QED BY <2>5, <2>6, <2>7
<1>3. ASSUME NEW val \in Byte, line' = [line EXCEPT ![i].val = val]
      PROVE  /\ Len(line') = Len(line) - 0
             /\ \A j \in 1 .. Len(line') :
                    LET n == IF j < i THEN j ELSE j + 0 IN
                    n \in 1 .. Len(line) /\ line'[j].frame = line[n].frame
             /\ \A j \in i + 1 .. Len(line) : line'[j - 0] = line[j]
  <2>1. Len(line') = Len(line)
    BY <1>1, <1>3
  <2>2. ASSUME NEW j \in 1 .. Len(line) PROVE line'[j].frame = line[j].frame /\ (j # i => line'[j] = line[j])
    <3>1. line[j] \in Bytes
      BY <1>1
    <3> QED BY <3>1, <1>1, <1>3 DEF Bytes
  <2>3. \A j \in i + 1 .. Len(line) : j \in 1 .. Len(line) /\ j # i /\ j - 0 = j
    BY <1>1
  <2>4. \A j \in 1 .. Len(line) : j + 0 = j
    BY <1>1
  <2>5. Len(line) - 0 = Len(line)
    BY <1>1
  <2> QED BY <2>1, <2>2, <2>3, <2>4, <2>5
<1> QED BY <1>2, <1>3 DEF Damage

LEMMA DamageOrdered ==
    ASSUME Typed, Ordered, NEW i \in 1 .. Len(line), Damage(i)
    PROVE  Ordered'
<1>1. scenario' = scenario /\ sent' = sent
  BY DEF Damage, encoderVars
<1>2. PICK d \in {0, 1} :
        /\ Len(line') = Len(line) - d
        /\ \A j \in 1 .. Len(line') :
              LET n == IF j < i THEN j ELSE j + d IN
              n \in 1 .. Len(line) /\ line'[j].frame = line[n].frame
  BY DamagedLine
<1>3. \A j \in 1 .. Len(line') : line'[j].frame <= Len(sent)
  BY <1>2 DEF Ordered
<1>4. ASSUME NEW j \in 1 .. Len(line'), NEW k \in 1 .. Len(line'), j <= k
      PROVE  line'[j].frame <= line'[k].frame
  <2> DEFINE m == IF j < i THEN j ELSE j + d
  <2> DEFINE n == IF k < i THEN k ELSE k + d
  <2>1. m \in 1 .. Len(line) /\ line'[j].frame = line[m].frame /\ n \in 1 .. Len(line) /\ line'[k].frame = line[n].frame
    BY <1>2
  <2>2. m <= n
    <3>1. i \in Int /\ j \in Int /\ k \in Int
      BY <1>2, Frames
    <3> QED BY <3>1, <1>4
  <2> HIDE DEF m, n
  <2> QED BY <2>1, <2>2 DEF Ordered
<1> QED BY <1>1, <1>3, <1>4 DEF Ordered

\* Bytes before the cut make no difference.
LEMMA DamageCut ==
    ASSUME Typed, NEW i \in 1 .. Len(line), Damage(i), NEW f \in Nat, line[i].frame <= f, Cut(f)
    PROVE  Cut(f)'
<1>1. scenario' = scenario /\ sent' = sent
  BY DEF Damage, encoderVars
<1>2. PICK c \in Nat, rest \in Seq(Bytes) : Behind(f, c, rest)
  BY DEF Cut
<1>3. /\ Len(line) = c + Len(rest) /\ \A j \in 1 .. c : line[j].frame <= f
      /\ \A j \in 1 .. Len(rest) : line[c + j] = rest[j] /\ rest[j].frame > f
      /\ Leads(scenario.messages, rest, At(f + 1, 0, FALSE), Goal)
  BY <1>2 DEF Behind
<1>4. PICK d \in {0, 1} :
        /\ Len(line') = Len(line) - d
        /\ \A j \in 1 .. Len(line') :
              LET n == IF j < i THEN j ELSE j + d IN
              n \in 1 .. Len(line) /\ line'[j].frame = line[n].frame
        /\ \A j \in i + 1 .. Len(line) : line'[j - d] = line[j]
  BY DamagedLine
<1>5. Len(rest) \in Nat /\ i \in Nat /\ i >= 1 /\ i <= Len(line) /\ Len(line) \in Nat /\ line[i].frame \in Nat
  BY Frames
<1>6. i <= c
  <2>1. ASSUME i > c PROVE FALSE
    <3>1. PICK j \in 1 .. Len(rest) : i = c + j
      <4>1. i - c \in 1 .. Len(rest) /\ i = c + (i - c)
        BY <2>1, <1>3, <1>5
      <4> QED BY <4>1
    <3>2. line[i].frame > f
      BY <3>1, <1>3
    <3> QED BY <3>2, <1>5
  <2> QED BY <2>1, <1>5
<1> DEFINE e == c - d
<1>7. e \in Nat /\ Len(line') = e + Len(rest)
  BY <1>3, <1>4, <1>5, <1>6
<1>8. ASSUME NEW j \in 1 .. e PROVE line'[j].frame <= f
  <2> DEFINE n == IF j < i THEN j ELSE j + d
  <2>1. j \in 1 .. Len(line') /\ n \in 1 .. c
    BY <1>5, <1>6, <1>7
  <2>2. line'[j].frame = line[n].frame
    BY <2>1, <1>4
  <2> HIDE DEF n
  <2> QED BY <2>1, <2>2, <1>3
<1>9. ASSUME NEW j \in 1 .. Len(rest) PROVE line'[e + j] = rest[j] /\ rest[j].frame > f
  <2>1. c + j \in i + 1 .. Len(line) /\ (c + j) - d = e + j
    BY <1>3, <1>5, <1>6
  <2>2. line'[(c + j) - d] = line[c + j]
    BY <2>1, <1>4
  <2> HIDE DEF e
  <2> QED BY <2>1, <2>2, <1>3
<1>10. Goal' = Goal
  BY <1>1 DEF Goal
<1> HIDE DEF e
<1>11. Behind(f, e, rest)'
  BY <1>1, <1>3, <1>7, <1>8, <1>9, <1>10 DEF Behind
<1>12. Bytes' = Bytes
  BY <1>1 DEF Bytes
<1> QED BY <1>7, <1>11, <1>12 DEF Cut

\* Nothing on the line is of a message before the decoder's place.
LEMMA NothingBefore ==
    ASSUME Typed, Ordered, NEW p, Leads(scenario.messages, line, p, Goal), NEW i \in 1 .. Len(line)
    PROVE  line[i].frame \in Nat /\ p.n \in Nat /\ line[i].frame >= p.n
<1>1. line \in Seq(Bytes) /\ Len(line) \in Nat /\ Len(line) > 0 /\ 1 \in 1 .. Len(line) /\ 1 <= i
  BY Frames
<1>2. Follows(scenario.messages, p, Head(line)) /\ Head(line) = line[1]
  BY <1>1, LeadsTail
<1>3. line[1].frame = p.n
  BY <1>2 DEF Follows
<1>4. line[1].frame <= line[i].frame
  BY <1>1 DEF Ordered
<1> QED BY <1>1, <1>3, <1>4, Frames

LEMMA DamageLocal ==
    ASSUME Typed, Ordered, Local, NEW i \in 1 .. Len(line), Damage(i)
    PROVE  Local'
<1>1. PICK f \in Nat \ {0} : f = line[i].frame /\ f <= Len(sent) /\ Len(sent) \in Nat
  BY Frames DEF Ordered
<1>2. /\ scenario' = scenario /\ sent' = sent /\ capacity' = capacity /\ damaged' = Append(damaged, f)
  BY <1>1 DEF Damage, encoderVars, decoderVars
<1> SUFFICES ASSUME scenario.consumer = "all", capacity < MaxMessageSize
             PROVE  \E L \in 0 .. Len(sent) : Last(L)' /\ Lost(L)'
  BY <1>2 DEF Local
<1>3. PICK L \in 0 .. Len(sent) : Last(L) /\ (Lost(L) \/ Following(L) \/ Found(L))
  BY DEF Local
<1>4. damaged \in Seq(Nat) /\ damaged \in Seq(1 .. Len(scenario.messages))
  <2>1. damaged \in Seq(1 .. Len(scenario.messages))
    BY DEF Typed, TypeOK
  <2> QED BY <2>1, SeqMonotonic
<1>5. /\ Len(damaged) \in Nat /\ Len(damaged') = Len(damaged) + 1 /\ DOMAIN damaged = 1 .. Len(damaged)
      /\ DOMAIN damaged' = 1 .. Len(damaged) + 1
      /\ \A j \in 1 .. Len(damaged) + 1 : damaged'[j] = IF j = Len(damaged) + 1 THEN f ELSE damaged[j]
      /\ \A j \in 1 .. Len(damaged) : damaged[j] \in Nat
  BY SMTT(30), <1>2, <1>1, <1>4
<1>6. /\ \A j \in 1 .. Len(damaged) : damaged[j] <= L
      /\ L > 0 => \E j \in 1 .. Len(damaged) : damaged[j] = L
      /\ L \in Nat /\ L <= Len(sent)
  BY <1>1, <1>3, <1>5 DEF Last
<1>7. ASSUME NEW n \in Nat, Cuts(n), f <= n PROVE Cuts(n)'
  <2>1. ASSUME NEW g \in n .. Len(sent) PROVE Cut(g)'
    <3>1. g \in Nat /\ f <= g /\ Cut(g)
      BY <1>1, <1>7 DEF Cuts
    <3> QED BY <3>1, <1>1, DamageCut
  <2> QED BY <2>1, <1>2 DEF Cuts
<1>8. CASE f <= L
  <2>1. Lost(L)
    <3>1. ASSUME Following(L) PROVE FALSE
      <4>1. PICK at \in Nat, esc \in BOOLEAN : Leads(scenario.messages, line, At(L + 1, at, esc), Goal)
        BY <3>1 DEF Following
      <4> DEFINE p == At(L + 1, at, esc)
      <4>2. Leads(scenario.messages, line, p, Goal) /\ p.n = L + 1
        BY <4>1 DEF At
      <4> HIDE DEF p
      <4>3. f >= L + 1
        BY <4>2, <1>1, NothingBefore
      <4> QED BY <4>3, <1>1, <1>6, <1>8
    <3>2. ASSUME Found(L) PROVE FALSE
      <4>1. PICK k \in L + 2 .. Len(sent) + 1 : Leads(scenario.messages, line, At(k, Len(buffer), escape), Goal)
        BY <3>2 DEF Found
      <4> DEFINE p == At(k, Len(buffer), escape)
      <4>2. Leads(scenario.messages, line, p, Goal) /\ p.n = k
        BY <4>1 DEF At
      <4> HIDE DEF p
      <4>3. f >= k
        BY <4>2, <1>1, NothingBefore
      <4> QED BY <4>3, <1>1, <1>6, <1>8
    <3> QED BY <3>1, <3>2, <1>3
  <2>2. Lost(L)'
    BY <2>1, <1>6, <1>7, <1>8 DEF Lost
  <2>3. \A j \in 1 .. Len(damaged) + 1 : damaged'[j] <= L
    BY <1>5, <1>6, <1>8
  <2>4. \E j \in 1 .. Len(damaged) + 1 : damaged'[j] = L
    <3>1. PICK j \in 1 .. Len(damaged) : damaged[j] = L
      BY <1>1, <1>6, <1>8
    <3>2. j \in 1 .. Len(damaged) + 1 /\ j # Len(damaged) + 1
      BY <1>5
    <3> QED BY <3>1, <3>2, <1>5
  <2>5. Last(L)'
    BY <2>3, <2>4, <1>2, <1>5 DEF Last
  <2> QED BY <2>2, <2>5
<1>9. CASE f > L
  <2>1. Cuts(f)
    <3>1. CASE Lost(L)
      <4>1. \A g \in f .. Len(sent) : g \in L .. Len(sent)
        BY <1>1, <1>6, <1>9
      <4> QED BY <3>1, <4>1 DEF Lost, Cuts
    <3>2. CASE Following(L)
      <4>1. \A g \in f .. Len(sent) : g \in L + 1 .. Len(sent)
        BY <1>1, <1>6, <1>9
      <4> QED BY <3>2, <4>1 DEF Following, Cuts
    <3>3. CASE Found(L)
      <4>1. PICK k \in L + 2 .. Len(sent) + 1 :
              Cuts(k) /\ Leads(scenario.messages, line, At(k, Len(buffer), escape), Goal)
        BY <3>3 DEF Found
      <4> DEFINE p == At(k, Len(buffer), escape)
      <4>2. Leads(scenario.messages, line, p, Goal) /\ p.n = k
        BY <4>1 DEF At
      <4> HIDE DEF p
      <4>3. f >= k /\ k \in Nat
        BY <4>2, <1>1, NothingBefore
      <4>4. \A g \in f .. Len(sent) : g \in k .. Len(sent)
        BY <4>3, <1>1
      <4> QED BY <4>1, <4>4 DEF Cuts
    <3> QED BY <3>1, <3>2, <3>3, <1>3
  <2>2. Lost(f)'
    BY <2>1, <1>1, <1>7 DEF Lost
  <2>3. \A j \in 1 .. Len(damaged) + 1 : damaged'[j] <= f
    BY SMTT(30), <1>1, <1>5, <1>6, <1>9
  <2>4. Len(damaged) + 1 \in 1 .. Len(damaged) + 1 /\ damaged'[Len(damaged) + 1] = f
    BY <1>5
  <2>5. Last(f)' /\ f \in 0 .. Len(sent)
    BY <2>3, <2>4, <1>2, <1>1, <1>5 DEF Last
  <2> QED BY <2>2, <2>5
<1> QED BY <1>8, <1>9, <1>1, <1>6

-----------------------------------------------------------------------------
(* All steps                                                               *)

\* What encoder and consumer do otherwise makes no difference, ...
LEMMA SameLine ==
    ASSUME Ordered, Local, scenario' = scenario, line' = line, sent' = sent, got' = got, damaged' = damaged,
           buffer' = buffer, capacity' = capacity, escape' = escape
    PROVE  Ordered' /\ Local'
<1>1. Goal' = Goal /\ Bytes' = Bytes
  BY DEF Goal, Bytes
<1>2. \A f : Cut(f)' <=> Cut(f)
  BY <1>1 DEF Cut, Behind
<1>3. \A n : Cuts(n)' <=> Cuts(n)
  BY <1>2 DEF Cuts
<1>4. \A k, L : Between(k, L)' <=> Between(k, L)
  BY DEF Between
<1>5. \A L : /\ (Last(L)' <=> Last(L)) /\ (Lost(L)' <=> Lost(L))
             /\ (Following(L)' <=> Following(L)) /\ (Found(L)' <=> Found(L))
  BY <1>1, <1>3, <1>4 DEF Last, Lost, Following, Found
<1>6. Local'
  BY <1>5 DEF Local
<1>7. Ordered'
  BY DEF Ordered
<1> QED BY <1>6, <1>7

\* ... and when the consumer throws, the rest of the piece is gone.
LEMMA DecodeOrdered == ASSUME Typed, Ordered, AddByte \/ Escape \/ HandleEnd PROVE Ordered'
<1>1. scenario' = scenario /\ sent' = sent /\ left > 0
  BY DEF AddByte, Escape, HandleEnd, encoderVars
<1>2. CASE Take
  BY <1>1, <1>2, TakeOrdered DEF Taking
<1>3. CASE line' = SubSeq(line, left + 1, Len(line))
  <2>1. line \in Seq(Bytes) /\ Len(line) \in Nat /\ left \in Nat /\ left <= Len(line)
    BY DEF Typed, TypeOK
  <2> DEFINE t == SubSeq(line, left + 1, Len(line))
  <2>2. /\ Len(t) = IF left + 1 <= Len(line) THEN Len(line) - (left + 1) + 1 ELSE 0
        /\ \A i \in 1 .. Len(line) - (left + 1) + 1 : t[i] = line[left + 1 + i - 1]
    <3>1. left + 1 \in Nat \ {0}
      BY <2>1
    <3> QED BY <3>1, <2>1, Part
  <2>3. line' = t
    BY <1>3
  <2> HIDE DEF t
  <2>4. ASSUME NEW i \in 1 .. Len(line') PROVE i \in Int /\ left + i \in 1 .. Len(line) /\ line'[i] = line[left + i]
    <3>1. i \in 1 .. Len(line) - (left + 1) + 1 /\ left + 1 + i - 1 = left + i
      BY <2>1, <2>2, <2>3
    <3> QED BY <3>1, <2>1, <2>2, <2>3
  <2>5. \A i \in 1 .. Len(line') : line'[i].frame <= Len(sent)
    BY <2>4 DEF Ordered
  <2>6. ASSUME NEW i \in 1 .. Len(line'), NEW j \in 1 .. Len(line'), i <= j
        PROVE  line'[i].frame <= line'[j].frame
    <3>1. /\ i \in Int /\ left + i \in 1 .. Len(line) /\ line'[i] = line[left + i]
          /\ j \in Int /\ left + j \in 1 .. Len(line) /\ line'[j] = line[left + j]
      BY <2>4
    <3>2. left + i <= left + j
      BY <3>1, <2>1, <2>6
    <3> QED BY <3>1, <3>2 DEF Ordered
  <2> QED BY <2>5, <2>6, <1>1 DEF Ordered
<1> QED BY <1>2, <1>3 DEF AddByte, Escape, HandleEnd

LEMMA NextEncoding == ASSUME Typed, Encoding, [Next]_vars PROVE Encoding'
<1>1. CASE /\ scenario' = scenario /\ encoded' = encoded /\ room' = room /\ taken' = taken /\ sent' = sent
  BY <1>1 DEF Encoding
<1>2. ASSUME NEW stripped \in BOOLEAN, Send(stripped) PROVE Encoding'
  BY <1>2 DEF Send, Encoding
<1>3. CASE Encode
  BY <1>3, EncodeEncoding
<1>4. CASE EncodeByte
  BY <1>4, EncodeByteEncoding
<1> QED BY <1>1, <1>2, <1>3, <1>4
        DEF Next, vars, OnRawData, AddByte, Escape, HandleEnd, Read, Damage, encoderVars

LEMMA NextLocal ==
    ASSUME Typed, Typed', Encoding, Ordered, Local, [Next]_vars
    PROVE  Ordered' /\ Local'
<1>1. ASSUME NEW stripped \in BOOLEAN, Send(stripped) PROVE Ordered' /\ Local'
  BY <1>1, SendOrdered, SendLocal
<1>2. CASE AddByte \/ Escape \/ HandleEnd
  BY <1>2, DecodeOrdered, DecodeLocal
<1>3. ASSUME NEW i \in 1 .. Len(line), Damage(i) PROVE Ordered' /\ Local'
  BY <1>3, DamageOrdered, DamageLocal
<1>4. CASE Encode \/ EncodeByte \/ (\E n \in 1 .. Len(line) : OnRawData(n)) \/ Read \/ UNCHANGED vars
  <2>1. /\ scenario' = scenario /\ line' = line /\ sent' = sent /\ got' = got /\ damaged' = damaged
        /\ buffer' = buffer /\ capacity' = capacity /\ escape' = escape
    BY <1>4 DEF Encode, EncodeByte, OnRawData, Read, vars, encoderVars, decoderVars, consumerVars
  <2> QED BY <2>1, SameLine
<1> QED BY <1>1, <1>2, <1>3, <1>4 DEF Next

\* The decoder is where an encoder would be when the line is empty.
LEMMA Caught ==
    ASSUME Typed, Ordered, line = <<>>, NEW L \in 0 .. Len(sent), Lost(L) \/ Following(L) \/ Found(L),
           L + 1 < Len(sent)
    PROVE  LET n == Len(sent) - L - 1 IN
              n <= Len(got) /\ \A i \in 1 .. n : got[Len(got) - n + i] = sent[L + 1 + i]
<1>1. Len(line) = 0 /\ Len(sent) \in Nat /\ Len(got) \in Nat /\ L \in Nat
  BY EmptySeq, Frames
<1>2. Goal.n = Len(sent) + 1
  BY DEF Goal, At
<1>3. ASSUME NEW p, Leads(scenario.messages, line, p, Goal) PROVE p = Goal
  BY <1>3, LeadsEmpty
<1>4. ASSUME NEW n, NEW a, NEW e, Leads(scenario.messages, line, At(n, a, e), Goal) PROVE n = Len(sent) + 1
  <2>1. At(n, a, e) = Goal
    BY <1>3, <1>4
  <2>2. At(n, a, e).n = n
    BY DEF At
  <2> QED BY <2>1, <2>2, <1>2
<1>5. ASSUME Lost(L) PROVE FALSE
  <2>1. Cut(L)
    BY <1>1, <1>5 DEF Lost, Cuts
  <2>2. ~(Len(line) > 0)
    BY <1>1
  <2>3. Leads(scenario.messages, line, At(L + 1, 0, FALSE), Goal)
    BY <2>1, <2>2, <1>1, CutHere
  <2>4. L + 1 = Len(sent) + 1
    BY <2>3, <1>4
  <2> QED BY <2>4, <1>1
<1>6. ASSUME Following(L) PROVE FALSE
  <2>1. PICK at \in Nat, esc \in BOOLEAN : Leads(scenario.messages, line, At(L + 1, at, esc), Goal)
    BY <1>6 DEF Following
  <2>2. L + 1 = Len(sent) + 1
    BY <2>1, <1>4
  <2> QED BY <2>2, <1>1
<1>7. PICK k \in L + 2 .. Len(sent) + 1 :
        Leads(scenario.messages, line, At(k, Len(buffer), escape), Goal) /\ Between(k, L)
  BY <1>5, <1>6 DEF Found
<1>8. k = Len(sent) + 1
  BY <1>4, <1>7
<1> DEFINE n == Len(sent) - L - 1
<1>9. k - L - 2 = n /\ n \in Nat
  BY <1>1, <1>8
<1>10. n <= Len(got)
  BY <1>1, <1>7, <1>8 DEF Between
<1>11. ASSUME NEW i \in 1 .. n PROVE got[Len(got) - n + i] = sent[L + 1 + i]
  <2>1. got[Len(got) - n + i] = scenario.messages[L + 1 + i]
    BY <1>7, <1>9 DEF Between
  <2>2. L + 1 + i \in 1 .. Len(sent)
    BY <1>1
  <2> QED BY <2>1, <2>2 DEF Ordered
<1> QED BY <1>10, <1>11

\* Damage is local: all messages arrive from the second one after the last that was
\* damaged, however many bytes were lost or changed, until lost ENDs have merged messages
\* into one that does not fit (slip.js:115-132, 165-172).
THEOREM DamageIsLocal == Spec => []Resynchronises
<1>1. ASSUME Typed, Ordered, Local PROVE Resynchronises
  <2> SUFFICES ASSUME line = <<>>, damaged # <<>>, scenario.consumer = "all", capacity < MaxMessageSize,
                      Len(sent) - LastDamaged - 1 > 0
               PROVE  LET n == Len(sent) - LastDamaged - 1 IN
                        /\ Len(got) >= n
                        /\ SubSeq(got, Len(got) - n + 1, Len(got)) = SubSeq(sent, Len(sent) - n + 1, Len(sent))
    BY DEF Resynchronises
  <2>1. PICK L \in 0 .. Len(sent) : Last(L) /\ (Lost(L) \/ Following(L) \/ Found(L))
    BY <1>1 DEF Local
  <2>2. LastDamaged = L
    <3>1. \E i \in DOMAIN damaged : damaged[i] \in Nat \ {0}
      <4>1. damaged \in Seq(1 .. Len(scenario.messages))
        BY <1>1 DEF Typed, TypeOK
      <4> QED BY <4>1
    <3>2. /\ \A i \in DOMAIN damaged : damaged[i] <= L
          /\ L > 0 => \E i \in DOMAIN damaged : damaged[i] = L
      BY <2>1 DEF Last
    <3>3. Len(sent) \in Nat
      BY <1>1, Frames
    <3>4. L \in 1 .. Len(sent) /\ \E i \in DOMAIN damaged : damaged[i] = L
      BY <2>1, <3>1, <3>2, <3>3
    <3>5. \A f \in 1 .. Len(sent) :
             (\E i \in DOMAIN damaged : damaged[i] = f) /\ (\A i \in DOMAIN damaged : damaged[i] <= f) => f = L
      BY <3>2, <3>3, <3>4
    <3> QED BY <3>2, <3>4, <3>5 DEF LastDamaged
  <2> DEFINE n == Len(sent) - L - 1
  <2>3. /\ Len(sent) \in Nat /\ Len(got) \in Nat /\ L \in Nat /\ n \in Nat \ {0} /\ L + 1 < Len(sent)
        /\ Len(sent) - n + 1 = L + 2
    BY <1>1, <2>1, <2>2, Frames
  <2>4. n <= Len(got) /\ \A i \in 1 .. n : got[Len(got) - n + i] = sent[L + 1 + i]
    BY <1>1, <2>1, <2>3, Caught
  <2>5. sent \in Seq(Seq(Byte)) /\ got \in Seq(Seq(Byte))
    <3>1. Message \subseteq Seq(Byte)
      BY DEF Message
    <3> QED BY <1>1, <3>1, SeqMonotonic DEF Typed, TypeOK
  <2> DEFINE a == Len(got) - n + 1
  <2> DEFINE g == SubSeq(got, a, Len(got))
  <2> DEFINE s == SubSeq(sent, L + 2, Len(sent))
  <2>6. /\ a \in Nat \ {0} /\ L + 2 \in Nat \ {0} /\ Len(got) - a + 1 = n /\ Len(sent) - (L + 2) + 1 = n
        /\ a <= Len(got) /\ L + 2 <= Len(sent)
    BY <2>3, <2>4
  <2> HIDE DEF n, a
  <2>7. g \in Seq(Seq(Byte)) /\ Len(g) = n /\ \A i \in 1 .. n : g[i] = got[a + i - 1]
    <3>1. a \in Nat \ {0} /\ Len(got) \in Nat /\ Len(got) <= Len(got) /\ Len(got) - a + 1 = n /\ n > 0
      BY <2>3, <2>6
    <3>2. /\ SubSeq(got, a, Len(got)) \in Seq(Seq(Byte))
          /\ Len(SubSeq(got, a, Len(got))) = IF a <= Len(got) THEN Len(got) - a + 1 ELSE 0
          /\ \A i \in 1 .. Len(got) - a + 1 : SubSeq(got, a, Len(got))[i] = got[a + i - 1]
      BY <3>1, <2>5, Part
    <3> QED BY <3>1, <3>2, <2>6
  <2>8. s \in Seq(Seq(Byte)) /\ Len(s) = n /\ \A i \in 1 .. n : s[i] = sent[L + 2 + i - 1]
    BY SMTT(30), <2>3, <2>5, <2>6, Part
  <2> HIDE DEF g, s
  <2>9. ASSUME NEW i \in 1 .. n PROVE g[i] = s[i]
    <3>1. a + i - 1 = Len(got) - n + i /\ L + 2 + i - 1 = L + 1 + i
      BY <2>3 DEF a
    <3> QED BY <3>1, <2>4, <2>7, <2>8
  <2>10. g = s
    BY <2>7, <2>8, <2>9, SeqEqual
  <2> QED BY <2>2, <2>3, <2>4, <2>10 DEF g, s, a, n
<1>2. Init => Typed /\ Encoding /\ Ordered /\ Local
  <2>1. Init => Encoding
    BY DEF Init, Encoding
  <2> QED BY <2>1, InitTyped, InitLocal
<1>3. Typed /\ Encoding /\ Ordered /\ Local /\ [Next]_vars => (Typed /\ Encoding /\ Ordered /\ Local)'
  BY NextTyped, NextEncoding, NextLocal
<1> QED BY <1>1, <1>2, <1>3, PTL DEF Spec
=============================================================================
