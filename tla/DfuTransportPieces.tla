------------------------- MODULE DfuTransportPieces -------------------------
(***************************************************************************)
(* How the bytes of a chunk get to the target: the MTU that ready() finds  *)
(* out, or that DfuTransportSlowSerial puts in its place, the pieces       *)
(* writeObjectPiece() cuts the chunk into, what they become on the wire,   *)
(* and the checksum that is carried from piece to piece and compared with  *)
(* the target's.                                                           *)
(*                                                                         *)
(* The target answers each request, as it does when a chunk of its own is  *)
(* taken; a piece may be lost or damaged on the way.                       *)
(***************************************************************************)
EXTENDS Integers, Sequences, FiniteSets

CONSTANTS
    Payloads,           \* init packets or firmware, as sequences of bytes
    WireMtus,           \* what the target may report
    MaxMtus,            \* maxMtu of DfuTransportSlowSerial
    Prns,               \* values of packetReceiveNotification; 0 switches it off
    MaxFaults,          \* bound: pieces lost or damaged
    Checksum(_, _),     \* crc32(bytes, previous)
    None, Zero          \* undefined, and a checksum of 0

\* Of a payload, and the MTU that is reported in two bytes.
Bytes == 0 .. 255
Reports == 0 .. 65535

\* A checksum that is not 0 can be carried on: the first n bytes of a payload, ...
SumTo(payload, n) == Checksum(SubSeq(payload, 1, n), None)
SoFar(payload, n) == IF n = 0 THEN None ELSE SumTo(payload, n)

ASSUME PiecesAssumption ==
    /\ Payloads \subseteq Seq(Bytes) /\ WireMtus \subseteq Reports /\ MaxMtus \subseteq Nat
    /\ Prns \subseteq Nat /\ MaxFaults \in Nat

\* ... and then the others, have the checksum of all.
ASSUME ChainingAssumption ==
    \A payload \in Payloads : \A n \in 0 .. Len(payload) : \A m \in n .. Len(payload) :
        SoFar(payload, n) # Zero =>
            Checksum(SubSeq(payload, n + 1, m), SoFar(payload, n)) = SumTo(payload, m)

\* Bytes that were changed on the way, at the places D.
Struck(bytes, D) == [n \in DOMAIN bytes |-> IF n \in D THEN (bytes[n] + 1) % 256 ELSE bytes[n]]

\* As many bytes of a chunk as may be damaged are found out, even if its checksum begins
\* anew after the first m bytes, because that of those is 0.  Of CRC-32 this is true for one
\* damaged byte if the checksum went on; else it depends on the payload.
ASSUME DetectionAssumption ==
    \A payload \in Payloads : \A n \in 0 .. Len(payload) : \A m \in 0 .. n :
        \A D \in SUBSET (m + 1 .. n) : Cardinality(D) \in 1 .. MaxFaults =>
            Checksum(Struck(SubSeq(payload, 1, n), D), None)
                # Checksum(SubSeq(payload, m + 1, n), SoFar(payload, m))

VARIABLES
    kind, wire, maxMtu, prn,    \* "ble", "serial" or "slow"; of the latter two, and the last
    mtu,
    payload, start, end,        \* arguments of sendPayloadChunk
    step, pos, crcSoFar, prnCount,  \* of writeObjectPiece: bytes up to pos are written
    wrote,                      \* length of the last write on the wire
    received,                   \* by the target, of the payload
    faults

settings == <<kind, wire, maxMtu, prn, payload, start, end>>
vars == <<settings, mtu, step, pos, crcSoFar, prnCount, wrote, received, faults>>

Least(m, n) == IF m < n THEN m ELSE n

\* The remainder of JavaScript, which has the sign of n.
FlooredRemainder(n, d) == n % d
JsRemainder(n, d) == IF n >= 0 THEN n % d ELSE -((-n) % d)

\* Math.floor((mtu / 2) - 2), rounded down to words.
Unframed(w) == w \div 2
Unrounded(w) == (w - 4) \div 2
AnyLength(n) == n
WholeWords(n) == n - JsRemainder(n, 4)
SerialMtu(w) == WholeWords(Unrounded(w))

Init ==
    /\ kind \in {"ble", "serial", "slow"} /\ prn \in Prns
    /\ wire \in IF kind = "ble" THEN {0} ELSE WireMtus
    /\ maxMtu \in IF kind = "slow" THEN MaxMtus ELSE {0}
    /\ payload \in Payloads /\ start \in 0 .. Len(payload) - 1 /\ end \in start + 1 .. Len(payload)
    /\ mtu = 0 /\ step = "unready" /\ pos = start /\ crcSoFar = SoFar(payload, start) /\ prnCount = 0
    /\ wrote = 0 /\ received = SubSeq(payload, 1, start) /\ faults = 0

\* ready(): fixed over BLE, reported over a serial line, and then lowered.
Ready ==
    /\ step = "unready" /\ step' = "writing"
    /\ \/ kind = "ble" /\ mtu' = 20
       \/ kind = "serial" /\ mtu' = SerialMtu(wire)
       \/ kind = "slow" /\ mtu' = Least(SerialMtu(wire), maxMtu)
    /\ UNCHANGED <<settings, pos, crcSoFar, prnCount, wrote, received, faults>>

\* Of a write over a serial line: the opcode, the bytes, escaped by SLIP, and its END.
Escaped(bytes) == {n \in 1 .. Len(bytes) : bytes[n] \in {192, 219}}
OnTheWire(bytes) ==
    IF kind = "ble" THEN Len(bytes) ELSE 1 + Len(bytes) + Cardinality(Escaped(bytes)) + 1

\* The target's checksum of all it received.
TargetSum == Checksum(received', None)

\* The answer to a checksum request is as expected.
AgreesByOffset(offset, sum) == Len(received') = offset
Agrees(offset, sum) == Len(received') = offset /\ TargetSum = sum

\* The checksum of the pieces so far and of this one.
Anew(piece) == Checksum(piece, None)
Carried(piece) == Checksum(piece, crcSoFar)

ShortOfEnd == Least(mtu, end - pos - 1)
SendLength == Least(mtu, end - pos)

\* What may become of a piece that does not arrive whole: nothing, or another byte in it.
Damaged(piece) == {<<>>} \cup {Struck(piece, {n}) : n \in DOMAIN piece}

\* writeObjectPiece: the piece, a notification if it is due, and what follows.
WriteObjectPiece ==
    /\ step = "writing"
    /\ LET piece == SubSeq(payload, pos + 1, pos + SendLength)
           due == prn > 0 /\ prnCount + 1 >= prn
       IN  /\ pos' = pos + SendLength /\ crcSoFar' = Carried(piece) /\ wrote' = OnTheWire(piece)
           /\ prnCount' = IF prn = 0 \/ due THEN 0 ELSE prnCount + 1
           /\ \/ received' = received \o piece /\ UNCHANGED faults
              \/ /\ \E damaged \in Damaged(piece) : received' = received \o damaged
                 /\ faults < MaxFaults /\ faults' = faults + 1
           /\ step' = IF due /\ ~Agrees(pos', crcSoFar') THEN "mismatch"
                      ELSE IF SendLength < end - pos THEN "writing" ELSE "written"
    /\ UNCHANGED <<settings, mtu>>

\* crcObject(), and the comparison of sendPayloadChunk with the checksum of the chunk.
Verify ==
    /\ step = "written"
    /\ UNCHANGED <<settings, mtu, pos, crcSoFar, prnCount, wrote, received, faults>>
    /\ LET expected == Checksum(SubSeq(payload, start + 1, end), SoFar(payload, start))
       IN  step' = IF Agrees(end, expected) THEN "verified" ELSE "mismatch"

Next == Ready \/ WriteObjectPiece \/ Verify

Spec == Init /\ [][Next]_vars

\* The promises of an operation under way go on.  This is WF_vars(Next) with its ENABLED
\* spelt out, which TLC would look for among the checksums; without an MTU nothing is fair.
Over == step \in {"mismatch", "verified"} \/ (step = "writing" /\ mtu = 0)
FairSpec == Spec /\ ([]<>Over \/ []<><<Next>>_vars)

-----------------------------------------------------------------------------
TypeOK ==
    /\ kind \in {"ble", "serial", "slow"} /\ wire \in Reports /\ maxMtu \in Nat /\ prn \in Nat
    /\ payload \in Payloads /\ start \in 0 .. Len(payload) - 1 /\ end \in start + 1 .. Len(payload)
    /\ mtu \in Nat /\ step \in {"unready", "writing", "written", "mismatch", "verified"}
    /\ pos \in start .. end /\ prnCount \in Nat /\ wrote \in Nat /\ received \in Seq(Bytes)
    /\ faults \in Nat

\* What is written never exceeds what the target can take, whatever bytes have to be
\* escaped: in a frame over a serial line, in a packet over BLE
\* (DfuTransportSerial.js:163-168, DfuTransportNoble.js:68-69).
FitsTheWire == mtu > 0 => wrote <= IF kind = "ble" THEN 20 ELSE wire

\* The target writes whole words to its flash, except for the end of a chunk: no piece
\* begins within a word of the chunk.  A maxMtu that is not a multiple of 4 is not rounded
\* down, and does not keep to it (DfuTransportSerial.js:170-174, DfuTransportSlowSerial.js:73-82).
WordsAreWhole == (kind = "slow" => maxMtu % 4 = 0) /\ step = "writing" => (pos - start) % 4 = 0

\* The checksum went on from one that was 0, which crc32() takes for a new beginning: one of
\* the bytes before the last piece, or of those before the chunk.
ZeroBefore(n) == \E m \in start .. n : SoFar(payload, m) = Zero

\* No chunk that arrived is taken for damaged, unless a checksum was 0 on the way or the
\* pieces are empty (DfuTransportPrn.js:280-286, DfuAbstractTransport.js:188-198, crc32.js:101).
ArrivedIsVerified == mtu > 0 /\ step = "mismatch" /\ faults = 0 => ZeroBefore(pos)

\* A chunk is taken for complete only if the target received each of its bytes and no
\* other, though pieces were lost or damaged (DfuAbstractTransport.js:188-198).
VerifiedIsReceived == step = "verified" => received = SubSeq(payload, 1, end)

\* Each chunk is written to its end or refused.  With an MTU of 0, which a wire MTU below
\* 12 gives, empty pieces are written for ever (DfuTransportPrn.js:260-299).
ChunkEnds == mtu > 0 /\ step = "writing" ~> step # "writing"
=============================================================================
