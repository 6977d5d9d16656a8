---------------------- MODULE DfuTransportPiecesProofs ----------------------
(***************************************************************************)
(* What DfuTransportPieces guarantees for every payload, every reported    *)
(* MTU, every interval of notifications and every checksum that chains.    *)
(*                                                                         *)
(* IInv says what is written at each step (Progress), what the MTU is      *)
(* worth (MtuFits), and what target and host know as long as everything    *)
(* arrived (Known).  Arrived adds what the target has when not everything  *)
(* did: too few bytes, or those of the chunk with no more of them damaged  *)
(* than DetectionAssumption allows for.                                    *)
(***************************************************************************)
EXTENDS DfuTransportPieces, FiniteSetTheorems, SequenceTheorems, TLAPS

\* A piece is written while there is one left; the chunk is verified after its last.
Progress ==
    /\ step \in {"unready", "writing"} => pos < end
    /\ step = "unready" => pos = start /\ mtu = 0 /\ wrote = 0
    /\ step = "written" => pos = end

\* A piece fits in a packet over BLE, and twice, with its frame, in what the wire takes;
\* it is whole words but for a maxMtu that is not.
MtuFits ==
    /\ kind = "ble" /\ step # "unready" => mtu = 20
    /\ kind # "ble" /\ mtu > 0 => 2 * mtu + 4 <= wire
    /\ (kind = "slow" => maxMtu % 4 = 0) => mtu % 4 = 0

\* What arrived is the beginning of the payload, and its checksum is known.
Known ==
    /\ faults = 0 => received = SubSeq(payload, 1, pos)
    /\ mtu > 0 \/ step = "unready" => (~ZeroBefore(pos) => crcSoFar = SoFar(payload, pos))

IInv == TypeOK /\ Progress /\ MtuFits /\ Known /\ FitsTheWire /\ WordsAreWhole /\ ArrivedIsVerified

-----------------------------------------------------------------------------
\* Bytes, and MTUs that are reported, are numbers.
LEMMA Numbers == (\A b \in Bytes : b \in Nat) /\ (\A w \in Reports : w \in Nat) /\ 0 \in Reports
<1>1. ASSUME NEW b \in Bytes PROVE b \in Nat
  BY SMTT(30) DEF Bytes
<1>2. ASSUME NEW w \in Reports PROVE w \in Nat
  BY SMTT(30) DEF Reports
<1>3. 0 \in Reports
  BY DEF Reports
<1> QED BY <1>1, <1>2, <1>3

-----------------------------------------------------------------------------
(* The MTU                                                                 *)

\* Whatever is reported, half of it without the frame, in whole words, is an MTU.
LEMMA SerialMtuFacts ==
    ASSUME NEW w \in Nat
    PROVE  /\ SerialMtu(w) \in Nat /\ SerialMtu(w) % 4 = 0
           /\ SerialMtu(w) > 0 => 2 * SerialMtu(w) + 4 <= w
<1> DEFINE u == (w - 4) \div 2
<1>1. u \in Int /\ 2 * u <= w - 4 /\ u >= -2
  OBVIOUS
<1>2. CASE u >= 0
  <2>1. SerialMtu(w) = u - (u % 4)
    BY <1>2 DEF SerialMtu, WholeWords, Unrounded, JsRemainder
  <2> HIDE DEF u
  <2> QED BY <1>1, <1>2, <2>1
<1>3. CASE u = -1 \/ u = -2
  <2>1. SerialMtu(w) = u + ((-u) % 4)
    BY <1>3 DEF SerialMtu, WholeWords, Unrounded, JsRemainder
  <2> HIDE DEF u
  <2> QED BY <1>3, <2>1
<1> QED BY <1>1, <1>2, <1>3

\* The lesser of two numbers.
LEMMA LeastFacts ==
    ASSUME NEW m \in Nat, NEW n \in Nat
    PROVE  Least(m, n) \in {m, n} /\ Least(m, n) <= m /\ Least(m, n) <= n
BY DEF Least

\* A write takes at most two bytes for each byte of the piece, and two more.
LEMMA OnTheWireFacts ==
    ASSUME NEW bytes \in Seq(Bytes)
    PROVE  /\ OnTheWire(bytes) \in Nat
           /\ OnTheWire(bytes) <= IF kind = "ble" THEN Len(bytes) ELSE 2 * Len(bytes) + 2
<1>1. Len(bytes) \in Nat
  OBVIOUS
<1>2. IsFiniteSet(1 .. Len(bytes)) /\ Cardinality(1 .. Len(bytes)) = Len(bytes)
  BY <1>1, FS_Interval, SMTT(30)
<1>3. Escaped(bytes) \subseteq 1 .. Len(bytes)
  BY DEF Escaped
<1>4. Cardinality(Escaped(bytes)) \in Nat /\ Cardinality(Escaped(bytes)) <= Len(bytes)
  BY <1>2, <1>3, FS_Subset, FS_CardinalityType
<1> HIDE DEF Escaped
<1> QED BY <1>1, <1>4 DEF OnTheWire

-----------------------------------------------------------------------------
(* The bytes                                                               *)

\* The piece after the first n bytes, up to byte m.
LEMMA PieceFacts ==
    ASSUME NEW bytes \in Seq(Bytes), NEW n \in Nat, NEW m \in Nat, n <= m, m <= Len(bytes)
    PROVE  /\ SubSeq(bytes, n + 1, m) \in Seq(Bytes)
           /\ Len(SubSeq(bytes, n + 1, m)) = m - n
           /\ SubSeq(bytes, 1, n) \o SubSeq(bytes, n + 1, m) = SubSeq(bytes, 1, m)
<1>1. /\ SubSeq(bytes, n + 1, m) \in Seq(Bytes)
      /\ Len(SubSeq(bytes, n + 1, m)) = m - n
  BY SubSeqProperties
<1>2. 1 \in 1 .. Len(bytes) + 1 /\ n \in 1 - 1 .. Len(bytes) /\ m \in n .. Len(bytes)
  OBVIOUS
<1>3. SubSeq(bytes, 1, n) \o SubSeq(bytes, n + 1, m) = SubSeq(bytes, 1, m)
  BY <1>2, ConcatAdjacentSubSeq
<1> QED BY <1>1, <1>3

\* The first m bytes.
LEMMA PrefixFacts ==
    ASSUME NEW bytes \in Seq(Bytes), NEW m \in Nat, m <= Len(bytes)
    PROVE  Len(SubSeq(bytes, 1, m)) = m
BY SubSeqProperties

\* Damaged bytes are bytes, too, and as many.
LEMMA StruckFacts ==
    ASSUME NEW bytes \in Seq(Bytes), NEW D
    PROVE  /\ Struck(bytes, D) \in Seq(Bytes) /\ Len(Struck(bytes, D)) = Len(bytes)
           /\ \A n \in 1 .. Len(bytes) :
                Struck(bytes, D)[n] = IF n \in D THEN (bytes[n] + 1) % 256 ELSE bytes[n]
<1>1. \A k \in Bytes : (k + 1) % 256 \in Bytes
  <2>1. \A k \in Nat : (k + 1) % 256 >= 0 /\ (k + 1) % 256 <= 255 /\ (k + 1) % 256 \in Int
    OBVIOUS
  <2>2. \A k \in Int : k >= 0 /\ k <= 255 => k \in Bytes
    BY DEF Bytes
  <2> QED BY <2>1, <2>2, Numbers
<1>2. DOMAIN bytes = 1 .. Len(bytes) /\ Len(bytes) \in Nat
  OBVIOUS
<1>3. \A n \in 1 .. Len(bytes) : bytes[n] \in Bytes
  BY ElementOfSeq
<1> QED BY <1>1, <1>2, <1>3 DEF Struck

\* None is damaged.
LEMMA StruckNowhere ==
    ASSUME NEW bytes \in Seq(Bytes) PROVE Struck(bytes, {}) = bytes
BY StruckFacts, SeqEqual

\* Places in bytes, and those places when the bytes come after n others.
Places(bytes) == SUBSET (1 .. Len(bytes))
Behind(n, E) == {n + k : k \in E}

\* Damage to bytes that come one after the other.
LEMMA StruckEnd ==
    ASSUME NEW s \in Seq(Bytes), NEW t \in Seq(Bytes),
           NEW D \in Places(s), NEW E \in Places(t)
    PROVE  Struck(s \o t, D \cup Behind(Len(s), E)) = Struck(s, D) \o Struck(t, E)
<1> USE DEF Behind, Places
<1> DEFINE F == D \cup Behind(Len(s), E)
<1> DEFINE a == Struck(s, D)
<1> DEFINE b == Struck(t, E)
<1> DEFINE w == s \o t
<1> DEFINE left == a \o b
<1> DEFINE right == Struck(w, F)
<1>1. Len(s) \in Nat /\ Len(t) \in Nat
  OBVIOUS
<1>2. /\ a \in Seq(Bytes) /\ Len(a) = Len(s)
      /\ \A i \in 1 .. Len(s) : a[i] = IF i \in D THEN (s[i] + 1) % 256 ELSE s[i]
  BY StruckFacts
<1>3. /\ b \in Seq(Bytes) /\ Len(b) = Len(t)
      /\ \A i \in 1 .. Len(t) : b[i] = IF i \in E THEN (t[i] + 1) % 256 ELSE t[i]
  BY StruckFacts
<1>4. /\ w \in Seq(Bytes) /\ Len(w) = Len(s) + Len(t)
      /\ \A i \in 1 .. Len(s) + Len(t) : w[i] = IF i <= Len(s) THEN s[i] ELSE t[i - Len(s)]
  BY ConcatProperties
<1> HIDE DEF a, b, w
<1>5. /\ right \in Seq(Bytes) /\ Len(right) = Len(w)
      /\ \A i \in 1 .. Len(w) : right[i] = IF i \in F THEN (w[i] + 1) % 256 ELSE w[i]
  <2> HIDE DEF F
  <2>1. w \in Seq(Bytes)
    BY <1>4
  <2> QED BY <2>1, StruckFacts
<1> HIDE DEF right
<1>6. /\ left \in Seq(Bytes) /\ Len(left) = Len(a) + Len(b)
      /\ \A i \in 1 .. Len(a) + Len(b) : left[i] = IF i <= Len(a) THEN a[i] ELSE b[i - Len(a)]
  <2>1. a \in Seq(Bytes) /\ b \in Seq(Bytes)
    BY <1>2, <1>3
  <2> QED BY <2>1, ConcatProperties, Zenon
<1> HIDE DEF left
<1>7. ASSUME NEW i \in 1 .. Len(left) PROVE left[i] = right[i]
  <2>1. i \in 1 .. Len(s) + Len(t) /\ i \in 1 .. Len(a) + Len(b) /\ i \in 1 .. Len(w)
    BY <1>1, <1>2, <1>3, <1>4, <1>6
  <2>2. CASE i <= Len(s)
    <3>1. i \in 1 .. Len(s) /\ (i \in F <=> i \in D)
      BY <1>1, <2>1, <2>2
    <3>2. left[i] = a[i] /\ w[i] = s[i]
      BY <1>2, <1>4, <1>6, <2>1, <2>2
    <3> HIDE DEF F
    <3> QED BY <1>2, <1>5, <2>1, <3>1, <3>2
  <2>3. CASE ~(i <= Len(s))
    <3>1. i - Len(s) \in 1 .. Len(t) /\ (i \in F <=> i - Len(s) \in E)
      BY <1>1, <2>1, <2>3
    <3>2. left[i] = b[i - Len(s)] /\ w[i] = t[i - Len(s)]
      BY <1>2, <1>4, <1>6, <2>1, <2>3
    <3> HIDE DEF F
    <3> QED BY <1>3, <1>5, <2>1, <3>1, <3>2
  <2> QED BY <2>2, <2>3
<1>8. left = right
  <2>1. Len(left) = Len(right)
    BY <1>1, <1>2, <1>3, <1>4, <1>5, <1>6
  <2> QED BY <1>5, <1>6, <1>7, <2>1, SeqEqual
<1> QED BY <1>8 DEF left, right, a, b, w

\* A damaged piece is bytes, too.
LEMMA DamagedFacts ==
    ASSUME NEW piece \in Seq(Bytes), NEW damaged \in Damaged(piece)
    PROVE  damaged \in Seq(Bytes)
<1>1. CASE damaged = <<>>
  BY <1>1
<1>2. ASSUME NEW n \in DOMAIN piece, damaged = Struck(piece, {n}) PROVE damaged \in Seq(Bytes)
  BY <1>2, StruckFacts
<1> QED BY <1>1, <1>2 DEF Damaged

\* The checksum of the first bytes goes on to the checksum of more, if it is not 0.
LEMMA Chained ==
    ASSUME NEW bytes \in Payloads, NEW n \in Nat, NEW m \in Nat, n < m, m <= Len(bytes),
           SoFar(bytes, n) # Zero
    PROVE  /\ Checksum(SubSeq(bytes, n + 1, m), SoFar(bytes, n)) = SumTo(bytes, m)
           /\ SoFar(bytes, m) = SumTo(bytes, m)
<1>1. bytes \in Seq(Bytes) /\ Len(bytes) \in Nat
  <2>1. bytes \in Seq(Bytes)
    BY PiecesAssumption
  <2> QED BY <2>1
<1>2. n \in 0 .. Len(bytes) /\ m \in n .. Len(bytes)
  BY <1>1
<1>3. SoFar(bytes, m) = SumTo(bytes, m)
  BY DEF SoFar
<1> QED BY <1>2, <1>3, ChainingAssumption

-----------------------------------------------------------------------------
\* A chunk that is sent once the transport is ready, from where the target is.
LEMMA InitInv == Init => IInv
<1> SUFFICES ASSUME Init PROVE IInv
  OBVIOUS
<1>1. payload \in Payloads /\ payload \in Seq(Bytes) /\ prn \in Nat
  BY PiecesAssumption DEF Init
<1>2. Len(payload) \in Nat
  BY <1>1
<1>3. wire \in Reports /\ maxMtu \in Nat /\ kind \in {"ble", "serial", "slow"}
  <2>1. kind \in {"ble", "serial", "slow"}
    BY DEF Init
  <2>2. 0 \in Reports /\ WireMtus \subseteq Reports /\ MaxMtus \subseteq Nat
    BY PiecesAssumption, Numbers
  <2>3. wire \in {0} \cup WireMtus
    BY Zenon DEF Init
  <2>4. maxMtu \in {0} \cup MaxMtus
    BY Zenon DEF Init
  <2> QED BY <2>1, <2>2, <2>3, <2>4
<1>4. start \in 0 .. Len(payload) - 1 /\ end \in start + 1 .. Len(payload) /\ pos = start
  BY DEF Init
<1>5. received = SubSeq(payload, 1, pos) /\ received \in Seq(Bytes)
  BY <1>1, <1>2, <1>4, SubSeqProperties, ElementOfSeq DEF Init
<1>6. TypeOK
  BY <1>1, <1>2, <1>3, <1>4, <1>5 DEF Init, TypeOK
<1>7. Progress /\ MtuFits /\ FitsTheWire /\ WordsAreWhole /\ ArrivedIsVerified
  BY <1>2, <1>3, <1>4 DEF Init, Progress, MtuFits, FitsTheWire, WordsAreWhole, ArrivedIsVerified
<1>8. Known
  BY <1>5 DEF Init, Known
<1> QED BY <1>6, <1>7, <1>8 DEF IInv

\* The MTU of ready() fits the wire.
LEMMA ReadyInv == IInv /\ Ready => IInv'
<1> SUFFICES ASSUME IInv, Ready PROVE IInv'
  OBVIOUS
<1> USE DEF IInv, settings
<1>1. wire \in Reports /\ maxMtu \in Nat /\ kind \in {"ble", "serial", "slow"}
  BY DEF TypeOK
<1>2. /\ SerialMtu(wire) \in Nat /\ SerialMtu(wire) % 4 = 0
      /\ SerialMtu(wire) > 0 => 2 * SerialMtu(wire) + 4 <= wire
  <2>1. wire \in Nat
    BY <1>1, Numbers
  <2> QED BY <2>1, SerialMtuFacts
<1> DEFINE least == Least(SerialMtu(wire), maxMtu)
<1>3. least \in {SerialMtu(wire), maxMtu} /\ least <= SerialMtu(wire)
  BY <1>1, <1>2, LeastFacts
<1>4. /\ mtu' \in Nat
      /\ kind = "ble" => mtu' = 20
      /\ kind # "ble" /\ mtu' > 0 => 2 * mtu' + 4 <= wire
      /\ (kind = "slow" => maxMtu % 4 = 0) => mtu' % 4 = 0
  <2>1. CASE kind = "ble" /\ mtu' = 20
    BY <2>1
  <2>2. CASE kind = "serial" /\ mtu' = SerialMtu(wire)
    BY <1>2, <2>2
  <2>3. CASE kind = "slow" /\ mtu' = least
    <3> HIDE DEF least
    <3>1. CASE least = SerialMtu(wire)
      BY <1>2, <2>3, <3>1
    <3>2. CASE least = maxMtu
      <4>1. maxMtu > 0 => 2 * maxMtu + 4 <= wire
        BY <1>1, <1>2, <1>3, <3>2, Numbers
      <4> QED BY <1>1, <2>3, <3>2, <4>1
    <3> QED BY <1>3, <3>1, <3>2
  <2> QED BY <2>1, <2>2, <2>3 DEF Ready
<1>5. TypeOK' /\ Progress' /\ MtuFits'
  BY <1>1, <1>4 DEF Ready, TypeOK, Progress, MtuFits
<1>6. Known' /\ ArrivedIsVerified'
  BY DEF Ready, Known, ZeroBefore, ArrivedIsVerified
<1>7. FitsTheWire' /\ WordsAreWhole'
  <2>1. wire \in Nat /\ pos = start /\ start \in Int /\ wrote = 0
    BY <1>1, Numbers DEF Ready, TypeOK, Progress
  <2> QED BY <2>1 DEF Ready, FitsTheWire, WordsAreWhole
<1> QED BY <1>5, <1>6, <1>7

\* A piece is written, and its notification is checked if it is due.
LEMMA WriteInv == IInv /\ WriteObjectPiece => IInv'
<1> SUFFICES ASSUME IInv, WriteObjectPiece PROVE IInv'
  OBVIOUS
<1> DEFINE piece == SubSeq(payload, pos + 1, pos + SendLength)
<1> DEFINE due == prn > 0 /\ prnCount + 1 >= prn
<1> HIDE DEF due
<1> USE DEF IInv, settings
<1>1. /\ UNCHANGED <<kind, wire, maxMtu, prn, payload, start, end, mtu>>
      /\ step = "writing" /\ pos' = pos + SendLength /\ crcSoFar' = Carried(piece)
      /\ wrote' = OnTheWire(piece)
  BY DEF WriteObjectPiece
<1>2. prnCount' = IF prn = 0 \/ due THEN 0 ELSE prnCount + 1
  BY DEF WriteObjectPiece, due
<1>3. step' = IF due /\ ~Agrees(pos', crcSoFar') THEN "mismatch"
              ELSE IF SendLength < end - pos THEN "writing" ELSE "written"
  BY DEF WriteObjectPiece, due
<1>4. \/ received' = received \o piece /\ faults' = faults
      \/ \E damaged \in Damaged(piece) : received' = received \o damaged /\ faults' = faults + 1
  BY DEF WriteObjectPiece
<1>5. /\ payload \in Payloads /\ payload \in Seq(Bytes) /\ Len(payload) \in Nat
      /\ start \in Nat /\ end \in Nat /\ pos \in Nat /\ start <= pos /\ pos < end /\ end <= Len(payload)
      /\ mtu \in Nat /\ prn \in Nat /\ prnCount \in Nat /\ faults \in Nat /\ received \in Seq(Bytes)
  <2>1. payload \in Payloads /\ payload \in Seq(Bytes)
    BY PiecesAssumption DEF TypeOK
  <2>2. Len(payload) \in Nat
    BY <2>1
  <2> QED BY <1>1, <2>1, <2>2 DEF TypeOK, Progress
<1>6. /\ SendLength \in Nat /\ SendLength <= mtu /\ SendLength <= end - pos
      /\ SendLength \in {mtu, end - pos}
  BY <1>5, LeastFacts DEF SendLength
<1>7. pos' \in start .. end /\ pos' \in Nat /\ pos' <= Len(payload) /\ pos <= pos'
  <2> HIDE DEF piece
  <2> QED BY <1>1, <1>5, <1>6
<1>8. /\ piece = SubSeq(payload, pos + 1, pos')
      /\ piece \in Seq(Bytes) /\ Len(piece) = SendLength
      /\ SubSeq(payload, 1, pos) \o piece = SubSeq(payload, 1, pos')
  BY <1>1, <1>5, <1>6, <1>7, PieceFacts
<1>9. /\ OnTheWire(piece) \in Nat
      /\ OnTheWire(piece) <= IF kind = "ble" THEN SendLength ELSE 2 * SendLength + 2
  BY <1>8, OnTheWireFacts
<1> HIDE DEF piece
<1>10. received' \in Seq(Bytes) /\ faults' \in Nat
  <2>1. CASE received' = received \o piece /\ faults' = faults
    BY <1>5, <1>8, <2>1, ConcatProperties
  <2>2. ASSUME NEW damaged \in Damaged(piece), received' = received \o damaged, faults' = faults + 1
        PROVE  received' \in Seq(Bytes) /\ faults' \in Nat
    <3>1. damaged \in Seq(Bytes)
      BY <1>8, DamagedFacts
    <3> QED BY <1>5, <2>2, <3>1, ConcatProperties
  <2> QED BY <1>4, <2>1, <2>2
<1>11. prnCount' \in Nat /\ step' \in {"mismatch", "writing", "written"}
  BY <1>2, <1>3, <1>5
<1>12. TypeOK'
  BY <1>1, <1>7, <1>9, <1>10, <1>11 DEF TypeOK
<1>13. Progress'
  BY <1>1, <1>3, <1>5, <1>6, <1>11 DEF Progress
<1>14. MtuFits'
  BY <1>1, <1>11 DEF MtuFits
<1>15. faults' = 0 => received' = SubSeq(payload, 1, pos')
  <2> SUFFICES ASSUME faults' = 0 PROVE received' = SubSeq(payload, 1, pos')
    OBVIOUS
  <2>1. faults' # faults + 1
    BY <1>5
  <2>2. received' = received \o piece /\ faults = 0
    BY <1>4, <2>1
  <2>3. received = SubSeq(payload, 1, pos)
    BY <2>2 DEF Known
  <2> QED BY <1>8, <2>2, <2>3
<1>16. mtu > 0 /\ ~ZeroBefore(pos)' =>
           crcSoFar' = SumTo(payload, pos') /\ SumTo(payload, pos') = SoFar(payload, pos')
  <2> SUFFICES ASSUME mtu > 0, ~ZeroBefore(pos)'
               PROVE  crcSoFar' = SumTo(payload, pos') /\ SumTo(payload, pos') = SoFar(payload, pos')
    OBVIOUS
  <2>1. ~ZeroBefore(pos) /\ SoFar(payload, pos) # Zero
    BY <1>1, <1>5, <1>7 DEF ZeroBefore
  <2>2. crcSoFar = SoFar(payload, pos)
    BY <2>1 DEF Known
  <2>3. pos < pos'
    BY <1>1, <1>5, <1>6
  <2> QED BY <1>1, <1>5, <1>7, <1>8, <2>1, <2>2, <2>3, Chained DEF Carried
<1>17. Known'
  BY <1>1, <1>11, <1>15, <1>16 DEF Known
<1>18. FitsTheWire'
  <2>1. wire \in Nat
    BY Numbers DEF TypeOK
  <2> QED BY <1>1, <1>5, <1>6, <1>9, <2>1 DEF FitsTheWire, MtuFits
<1>19. WordsAreWhole'
  <2> SUFFICES ASSUME kind = "slow" => maxMtu % 4 = 0, step' = "writing" PROVE (pos' - start) % 4 = 0
    BY <1>1 DEF WordsAreWhole
  <2>1. SendLength = mtu
    BY <1>3, <1>5, <1>6
  <2>2. (pos - start) % 4 = 0 /\ mtu % 4 = 0
    BY <1>1 DEF WordsAreWhole, MtuFits
  <2> QED BY <1>1, <1>5, <2>1, <2>2
<1>20. ArrivedIsVerified'
  <2> SUFFICES ASSUME mtu > 0, faults' = 0, ~ZeroBefore(pos)' PROVE step' # "mismatch"
    BY <1>1 DEF ArrivedIsVerified
  <2>1. received' = SubSeq(payload, 1, pos') /\ crcSoFar' = SumTo(payload, pos')
    BY <1>15, <1>16
  <2>2. Len(received') = pos'
    BY <1>5, <1>7, <2>1, PrefixFacts
  <2>3. Agrees(pos', crcSoFar')
    BY <2>1, <2>2 DEF Agrees, TargetSum, SumTo
  <2> QED BY <1>3, <2>3
<1> QED BY <1>12, <1>13, <1>14, <1>17, <1>18, <1>19, <1>20

\* The chunk is verified when all of it is written.
LEMMA VerifyInv == IInv /\ Verify => IInv'
<1> SUFFICES ASSUME IInv, Verify PROVE IInv'
  OBVIOUS
<1> USE DEF IInv, settings
<1> DEFINE expected == Checksum(SubSeq(payload, start + 1, end), SoFar(payload, start))
<1>1. /\ UNCHANGED <<kind, wire, maxMtu, prn, payload, start, end, mtu>>
      /\ UNCHANGED <<pos, crcSoFar, prnCount, wrote, received, faults>>
      /\ step = "written" /\ step' = IF Agrees(end, expected) THEN "verified" ELSE "mismatch"
  BY DEF Verify
<1>2. /\ payload \in Payloads /\ payload \in Seq(Bytes) /\ Len(payload) \in Nat
      /\ start \in Nat /\ end \in Nat /\ pos = end /\ start < end /\ end <= Len(payload)
  <2>1. payload \in Payloads /\ payload \in Seq(Bytes)
    BY PiecesAssumption DEF TypeOK
  <2>2. Len(payload) \in Nat
    BY <2>1
  <2> QED BY <1>1, <2>1, <2>2 DEF TypeOK, Progress
<1>3. TypeOK'
  BY <1>1 DEF TypeOK
<1>4. Progress' /\ MtuFits' /\ FitsTheWire' /\ WordsAreWhole'
  BY <1>1 DEF Progress, MtuFits, FitsTheWire, WordsAreWhole
<1>5. Known'
  BY <1>1 DEF Known, ZeroBefore
<1>6. ArrivedIsVerified'
  <2> SUFFICES ASSUME faults = 0, ~ZeroBefore(pos)' PROVE step' # "mismatch"
    BY <1>1 DEF ArrivedIsVerified
  <2>1. SoFar(payload, start) # Zero
    BY <1>1, <1>2 DEF ZeroBefore
  <2>2. expected = SumTo(payload, end)
    BY <1>2, <2>1, Chained
  <2>3. received' = SubSeq(payload, 1, end) /\ Len(received') = end
    BY <1>1, <1>2, PrefixFacts DEF Known
  <2>4. Agrees(end, expected)
    BY <2>2, <2>3 DEF Agrees, TargetSum, SumTo
  <2> QED BY <1>1, <2>4
<1> QED BY <1>3, <1>4, <1>5, <1>6

-----------------------------------------------------------------------------
\* The inductive invariant.
THEOREM Invariance == Spec => []IInv
<1>1. IInv /\ UNCHANGED vars => IInv'
  BY DEF vars, settings, IInv, TypeOK, Progress, MtuFits, Known, ZeroBefore, FitsTheWire,
         WordsAreWhole, ArrivedIsVerified
<1>2. IInv /\ [Next]_vars => IInv'
  BY <1>1, ReadyInv, WriteInv, VerifyInv DEF Next
<1> QED BY <1>2, InitInv, PTL DEF Spec

\* Every variable keeps its type: no piece is written past the end of the chunk
\* (DfuTransportPrn.js:260-301).
THEOREM TypeCorrect == Spec => []TypeOK
BY Invariance, PTL DEF IInv

\* Whatever MTU the target reports and whatever bytes there are to escape, no write is
\* longer than it can take (DfuTransportSerial.js:163-168).
THEOREM Fitting == Spec => []FitsTheWire
BY Invariance, PTL DEF IInv

\* No piece begins within a word of the chunk, unless maxMtu is not a multiple of 4
\* (DfuTransportSerial.js:170-174, DfuTransportSlowSerial.js:73-82).
THEOREM WholeWordsOnly == Spec => []WordsAreWhole
BY Invariance, PTL DEF IInv

\* A chunk that arrived is not taken for damaged, with any checksum that can be carried on
\* (DfuTransportPrn.js:280-286, DfuAbstractTransport.js:188-198).
THEOREM NoFalseAlarm == Spec => []ArrivedIsVerified
BY Invariance, PTL DEF IInv

-----------------------------------------------------------------------------
(* What is verified                                                        *)

\* Bytes of a lost piece are missing, or those of the chunk arrived, but for some damaged.
Short == Len(received) < pos
Hit(D) ==
    /\ D \subseteq start + 1 .. pos /\ IsFiniteSet(D) /\ Cardinality(D) <= faults
    /\ received = Struck(SubSeq(payload, 1, pos), D)

Arrived == faults <= MaxFaults /\ (Short \/ \E D : Hit(D)) /\ VerifiedIsReceived

\* The target has the bytes before the chunk.
LEMMA InitArrived == Init => Arrived
<1> SUFFICES ASSUME Init PROVE Arrived
  OBVIOUS
<1>1. TypeOK
  BY InitInv DEF IInv
<1>2. pos = start /\ faults = 0 /\ received = SubSeq(payload, 1, pos) /\ received \in Seq(Bytes)
  BY <1>1 DEF Init, TypeOK
<1>3. Hit({})
  <2>1. Struck(received, {}) = received
    BY <1>2, StruckNowhere
  <2>2. {} \subseteq start + 1 .. pos /\ IsFiniteSet({}) /\ Cardinality({}) <= faults
    BY <1>2, FS_EmptySet
  <2> QED BY <1>2, <2>1, <2>2 DEF Hit
<1> QED BY <1>2, <1>3, PiecesAssumption DEF Init, Arrived, VerifiedIsReceived

\* A piece arrives, or it is lost or damaged.
LEMMA WriteArrived == IInv /\ Arrived /\ WriteObjectPiece => Arrived'
<1> SUFFICES ASSUME IInv, Arrived, WriteObjectPiece PROVE Arrived'
  OBVIOUS
<1> DEFINE piece == SubSeq(payload, pos + 1, pos + SendLength)
<1>1. UNCHANGED <<payload, start, end>> /\ pos' = pos + SendLength /\ step' # "verified"
  BY DEF WriteObjectPiece, settings
<1>2. \/ received' = received \o piece /\ faults' = faults
      \/ /\ \E damaged \in Damaged(piece) : received' = received \o damaged
         /\ faults < MaxFaults /\ faults' = faults + 1
  BY DEF WriteObjectPiece
<1>3. /\ payload \in Seq(Bytes) /\ Len(payload) \in Nat /\ MaxFaults \in Nat
      /\ start \in Nat /\ end \in Nat /\ pos \in Nat /\ start <= pos /\ pos <= end /\ end <= Len(payload)
      /\ mtu \in Nat /\ faults \in Nat /\ received \in Seq(Bytes) /\ Len(received) \in Nat
  <2>1. payload \in Seq(Bytes) /\ received \in Seq(Bytes)
    BY PiecesAssumption DEF IInv, TypeOK
  <2>2. Len(payload) \in Nat /\ Len(received) \in Nat
    BY <2>1
  <2> QED BY <2>1, <2>2, PiecesAssumption DEF IInv, TypeOK
<1>4. SendLength \in Nat /\ SendLength <= end - pos
  BY <1>3, LeastFacts DEF SendLength
<1>5. pos' \in Nat /\ pos <= pos' /\ pos' <= Len(payload)
  <2> HIDE DEF piece
  <2> QED BY <1>1, <1>3, <1>4
<1>6. /\ piece \in Seq(Bytes) /\ Len(piece) = SendLength
      /\ SubSeq(payload, 1, pos) \o piece = SubSeq(payload, 1, pos')
      /\ SubSeq(payload, 1, pos) \in Seq(Bytes) /\ Len(SubSeq(payload, 1, pos)) = pos
  <2>1. piece = SubSeq(payload, pos + 1, pos')
    BY <1>1
  <2>2. \A i \in 1 .. pos : payload[i] \in Bytes
    BY <1>3, ElementOfSeq
  <2> QED BY <1>1, <1>3, <1>4, <1>5, <2>1, <2>2, PieceFacts, PrefixFacts, SubSeqProperties
<1>7. faults' \in Nat /\ faults <= faults' /\ faults' <= MaxFaults
  BY <1>2, <1>3 DEF Arrived
<1> HIDE DEF piece
<1>8. /\ Len(received') <= Len(received) + SendLength
      /\ \/ received' = received \o <<>> /\ faults' = faults + 1
         \/ received' = received \o piece /\ faults' = faults
         \/ \E n \in 1 .. SendLength : received' = received \o Struck(piece, {n}) /\ faults' = faults + 1
  <2>1. DOMAIN piece = 1 .. SendLength
    BY <1>6
  <2>2. \A t \in Seq(Bytes) : Len(t) <= SendLength => Len(received \o t) <= Len(received) + SendLength
    <3> SUFFICES ASSUME NEW t \in Seq(Bytes), Len(t) <= SendLength
                 PROVE  Len(received \o t) <= Len(received) + SendLength
      OBVIOUS
    <3>1. Len(received \o t) = Len(received) + Len(t) /\ Len(t) \in Nat
      BY <1>3, ConcatProperties
    <3> QED BY <1>3, <1>4, <3>1
  <2>3. /\ <<>> \in Seq(Bytes) /\ Len(<<>>) <= SendLength /\ SendLength <= SendLength
        /\ \A n : Struck(piece, {n}) \in Seq(Bytes) /\ Len(Struck(piece, {n})) = SendLength
    BY <1>4, <1>6, StruckFacts
  <2>4. CASE received' = received \o piece /\ faults' = faults
    BY <1>3, <1>4, <1>6, <2>2, <2>4
  <2>5. ASSUME NEW n \in 1 .. SendLength, received' = received \o Struck(piece, {n}), faults' = faults + 1
        PROVE  Len(received') <= Len(received) + SendLength
    BY <1>3, <1>4, <2>2, <2>3, <2>5
  <2>6. CASE received' = received \o <<>> /\ faults' = faults + 1
    BY <1>3, <1>4, <2>2, <2>3, <2>6
  <2>7. \A damaged \in Damaged(piece) :
            damaged = <<>> \/ \E n \in 1 .. SendLength : damaged = Struck(piece, {n})
    BY <2>1 DEF Damaged
  <2> QED BY <1>2, <2>4, <2>5, <2>6, <2>7
<1>9. CASE Short
  BY <1>1, <1>3, <1>4, <1>7, <1>8, <1>9 DEF Short, Arrived, VerifiedIsReceived
<1>10. ASSUME NEW D, Hit(D) PROVE Arrived'
  <2>1. /\ D \subseteq start + 1 .. pos /\ IsFiniteSet(D)
        /\ Cardinality(D) <= faults /\ Cardinality(D) \in Nat
        /\ received = Struck(SubSeq(payload, 1, pos), D) /\ Len(received) = pos
    BY <1>6, <1>10, FS_CardinalityType, StruckFacts DEF Hit
  <2>2. D \in SUBSET (1 .. pos)
    BY <1>3, <2>1
  <2>3. \A E \in SUBSET (1 .. SendLength) :
            Struck(SubSeq(payload, 1, pos'), D \cup Behind(pos, E)) = received \o Struck(piece, E)
    <3> DEFINE whole == SubSeq(payload, 1, pos)
    <3>1. /\ whole \in Seq(Bytes) /\ Len(whole) = pos /\ received = Struck(whole, D)
          /\ whole \o piece = SubSeq(payload, 1, pos')
      BY <1>6, <2>1
    <3> HIDE DEF whole
    <3> SUFFICES ASSUME NEW E \in SUBSET (1 .. SendLength)
                 PROVE  Struck(whole \o piece, D \cup Behind(pos, E)) = received \o Struck(piece, E)
      BY <3>1
    <3>2. /\ D \in Places(whole) /\ E \in Places(piece)
          /\ whole \in Seq(Bytes) /\ piece \in Seq(Bytes)
      BY <1>6, <2>2, <3>1 DEF Places
    <3>3. Struck(whole \o piece, D \cup Behind(Len(whole), E)) = Struck(whole, D) \o Struck(piece, E)
      BY <3>2, StruckEnd, ZenonT(30)
    <3> QED BY <3>1, <3>3
  <2>4. CASE received' = received \o piece /\ faults' = faults
    <3>1. received' = Struck(SubSeq(payload, 1, pos'), D)
      <4>1. piece = Struck(piece, {}) /\ D = D \cup Behind(pos, {})
        <5>1. piece = Struck(piece, {})
          BY <1>6, StruckNowhere
        <5>2. D = D \cup Behind(pos, {})
          BY DEF Behind
        <5> QED BY <5>1, <5>2
      <4> QED BY <2>3, <2>4, <4>1
    <3>2. Hit(D)'
      BY <1>1, <1>3, <1>5, <2>1, <2>4, <3>1 DEF Hit
    <3> QED BY <1>1, <1>7, <3>2 DEF Arrived, VerifiedIsReceived
  <2>5. CASE received' = received \o <<>> /\ faults' = faults + 1
    <3>1. received' = received
      BY <1>3, <2>5, ConcatEmptySeq
    <3>2. CASE SendLength = 0
      <4>1. pos' = pos
        BY <1>1, <1>3, <3>2
      <4>2. Hit(D)'
        BY <1>1, <1>3, <2>1, <2>5, <3>1, <4>1 DEF Hit
      <4> QED BY <1>1, <1>7, <4>2 DEF Arrived, VerifiedIsReceived
    <3>3. CASE SendLength > 0
      BY <1>1, <1>3, <1>4, <1>7, <2>1, <3>1, <3>3 DEF Short, Arrived, VerifiedIsReceived
    <3> QED BY <1>4, <3>2, <3>3
  <2>6. ASSUME NEW n \in 1 .. SendLength, received' = received \o Struck(piece, {n}), faults' = faults + 1
        PROVE  Arrived'
    <3> PICK F : F = D \cup {pos + n}
      OBVIOUS
    <3>1. received' = Struck(SubSeq(payload, 1, pos'), F)
      <4>1. {n} \in SUBSET (1 .. SendLength) /\ Behind(pos, {n}) = {pos + n}
        BY DEF Behind
      <4> QED BY <2>3, <2>6, <4>1
    <3>2. IsFiniteSet(F) /\ Cardinality(F) <= faults'
      <4>1. Cardinality(F) = Cardinality(D) \/ Cardinality(F) = Cardinality(D) + 1
        BY <2>1, FS_AddElement
      <4> QED BY <1>3, <2>1, <2>6, <4>1, FS_AddElement
    <3>3. F \subseteq start + 1 .. pos'
      BY <1>1, <1>3, <1>4, <2>1
    <3>4. Hit(F)'
      BY <1>1, <3>1, <3>2, <3>3 DEF Hit
    <3> QED BY <1>1, <1>7, <3>4 DEF Arrived, VerifiedIsReceived
  <2> QED BY <1>8, <2>4, <2>5, <2>6
<1> QED BY <1>9, <1>10 DEF Arrived

\* What agrees with the checksum of the chunk is not damaged.
LEMMA VerifyArrived == IInv /\ Arrived /\ Verify => Arrived'
<1> SUFFICES ASSUME IInv, Arrived, Verify PROVE Arrived'
  OBVIOUS
<1> DEFINE expected == Checksum(SubSeq(payload, start + 1, end), SoFar(payload, start))
<1>1. /\ UNCHANGED <<payload, start, end, pos, received, faults>> /\ pos = end
      /\ step' = IF Agrees(end, expected) THEN "verified" ELSE "mismatch"
  BY DEF Verify, settings, IInv, Progress
<1>2. /\ payload \in Payloads /\ payload \in Seq(Bytes) /\ MaxFaults \in Nat
      /\ start \in Nat /\ end \in Nat /\ start <= end /\ end <= Len(payload) /\ Len(payload) \in Nat
  <2>1. payload \in Payloads /\ payload \in Seq(Bytes)
    BY PiecesAssumption DEF IInv, TypeOK
  <2>2. Len(payload) \in Nat
    BY <2>1
  <2> QED BY <2>1, <2>2, PiecesAssumption DEF IInv, TypeOK
<1>3. ASSUME step' = "verified" PROVE received = SubSeq(payload, 1, end)
  <2>1. Len(received) = end /\ Checksum(received, None) = expected
    BY <1>1, <1>3 DEF Agrees, TargetSum
  <2>2. PICK D : Hit(D)
    BY <1>1, <1>2, <2>1 DEF Arrived, Short
  <2>3. /\ D \in SUBSET (start + 1 .. end) /\ IsFiniteSet(D)
        /\ Cardinality(D) \in Nat /\ Cardinality(D) <= MaxFaults
    BY <1>1, <1>2, <2>2, FS_CardinalityType DEF Hit, Arrived, IInv, TypeOK
  <2>4. Checksum(Struck(SubSeq(payload, 1, end), D), None) = expected
    BY <1>1, <2>1, <2>2 DEF Hit
  <2>5. Cardinality(D) \notin 1 .. MaxFaults
    BY <1>2, <2>3, <2>4, DetectionAssumption
  <2>6. D = {}
    BY <1>2, <2>3, <2>5, FS_EmptySet
  <2>7. SubSeq(payload, 1, end) \in Seq(Bytes)
    <3>1. \A i \in 1 .. end : payload[i] \in Bytes
      BY <1>2, ElementOfSeq
    <3> QED BY <1>2, <3>1, SubSeqProperties
  <2> QED BY <1>1, <2>2, <2>6, <2>7, StruckNowhere DEF Hit
<1> HIDE DEF expected
<1>4. (Short \/ \E D : Hit(D))'
  BY <1>1 DEF Arrived, Short, Hit
<1> QED BY <1>1, <1>3, <1>4 DEF Arrived, VerifiedIsReceived

\* A chunk is taken for complete only if the target received each of its bytes and no
\* other, whatever is lost or, if the checksum finds it out, damaged
\* (DfuAbstractTransport.js:188-198).
THEOREM VerifiedChunks == Spec => []VerifiedIsReceived
<1>1. IInv /\ Arrived /\ Ready => Arrived'
  BY DEF Ready, settings, Arrived, Short, Hit, VerifiedIsReceived
<1>2. IInv /\ Arrived /\ UNCHANGED vars => Arrived'
  BY DEF vars, settings, Arrived, Short, Hit, VerifiedIsReceived
<1>3. IInv /\ Arrived /\ [Next]_vars => Arrived'
  BY <1>1, <1>2, WriteArrived, VerifyArrived DEF Next
<1>4. Arrived => VerifiedIsReceived
  BY DEF Arrived
<1> QED BY <1>3, <1>4, InitArrived, Invariance, PTL DEF Spec
=============================================================================
