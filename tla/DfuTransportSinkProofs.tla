----------------------- MODULE DfuTransportSinkProofs -----------------------
(***************************************************************************)
(* What the sink has taken, for every package, every chunk size and any    *)
(* number of operations that were rejected and started again.              *)
(*                                                                         *)
(* IInv adds where a chunk lies (InImage), which checksum it goes on from  *)
(* (GoesOn), and that it is at most a chunk (OneChunk).                    *)
(***************************************************************************)
EXTENDS DfuTransportSink, TLAPS

\* An operation under way sends an update of the package; a chunk is a part of an image of
\* it, for which an object is selected before it is written.
InImage ==
    /\ pc \notin {"idle", "resolved", "rejected"} => update <= Len(updates)
    /\ pc \in {"create", "write", "crc"} => start < end /\ end <= Length(update, type)
    /\ pc \in {"write", "crc"} => selected = type

\* The checksum before the chunk is of the bytes before it; after it, of those to its end.
GoesOn ==
    /\ pc \in {"create", "write"} =>
            crcSoFar \in {Undefined, Checksum(update, start)} /\ crcSoFar.len = start
    /\ pc = "crc" => crcs[type] = Checksum(update, end)

\* The chunk does not reach into the next, also when it is to be sent again from its start.
OneChunk ==
    pc \in {"create", "crc"} \/ (pc = "write" /\ crcSoFar = crcs[type]) => end <= Continued(start)

IInv == TypeOK /\ TookAPrefix /\ InImage /\ GoesOn /\ OneChunk

-----------------------------------------------------------------------------
\* The remainder of a division.
LEMMA Remainder ==
    ASSUME NEW n \in Nat, NEW d \in Nat \ {0}
    PROVE  n % d \in Nat /\ n % d <= n /\ n % d < d
<1>1. n % d \in 0 .. d - 1
  OBVIOUS
<1>2. CASE n < d
  <2>1. n % d = n
    BY <1>2
  <2> QED BY <1>1, <2>1
<1>3. CASE n >= d
  BY <1>1, <1>3
<1> QED BY <1>2, <1>3

\* The lesser of two numbers.
LEMMA Lesser ==
    ASSUME NEW m \in Nat, NEW n \in Nat
    PROVE  Min({m, n}) \in {m, n} /\ Min({m, n}) <= m /\ Min({m, n}) <= n
<1>1. \E x \in {m, n} : \A y \in {m, n} : x <= y
  OBVIOUS
<1> QED BY <1>1 DEF Min

\* A chunk that begins at n ends behind it, within chunkSize of where it could begin.
LEMMA ChunkEnd ==
    ASSUME TypeOK, NEW n \in Nat
    PROVE  /\ Continued(n) \in Nat /\ n < Continued(n) /\ Continued(n) <= n + chunkSize
           /\ n - (n % chunkSize) \in Nat /\ n - (n % chunkSize) <= n
           /\ Continued(n) = (n - (n % chunkSize)) + chunkSize
<1>1. chunkSize \in Nat \ {0}
  BY SinkAssumption DEF TypeOK, inputs
<1>2. n % chunkSize \in Nat /\ n % chunkSize <= n /\ n % chunkSize < chunkSize
  BY <1>1, Remainder
<1> QED BY <1>1, <1>2 DEF Continued

\* The images of an update of the package have bytes.
LEMMA Lengths ==
    ASSUME TypeOK, update <= Len(updates), NEW t \in Types
    PROVE  Length(update, t) \in Nat \ {0}
<1>1. updates \in Seq([Types -> Nat \ {0}])
  BY SinkAssumption DEF TypeOK, inputs
<1>2. update \in 1 .. Len(updates)
  BY <1>1 DEF TypeOK
<1> QED BY <1>1, <1>2 DEF Length

-----------------------------------------------------------------------------
\* A new sink.
LEMMA InitInv == Init => IInv
<1> SUFFICES ASSUME Init PROVE IInv
  OBVIOUS
<1>1. Undefined \in [of : Nat, len : Nat] /\ Undefined.len = 0
  BY DEF Undefined
<1>2. /\ updates \in Packages /\ updates \in Seq([Types -> Nat \ {0}]) /\ chunkSize \in ChunkSizes
      /\ chunkSize \in Nat
  BY SinkAssumption DEF Init
<1>3. /\ offsets \in [Types -> Nat] /\ crcs \in [Types -> [of : Nat, len : Nat]]
      /\ sizes \in [Types -> Nat] /\ selected \in Types \cup {0}
  BY <1>1 DEF Init
<1>4. update \in 1 .. Len(updates) + 1 /\ end \in start .. start + chunkSize /\ start \in Nat
  BY <1>2 DEF Init
<1>5. inputs \in Packages \X ChunkSizes \X BOOLEAN
  BY <1>2 DEF Init, inputs
<1>6. type \in Types /\ resumed \in BOOLEAN /\ crcSoFar \in [of : Nat, len : Nat] /\ pc = "idle"
  BY <1>1 DEF Init, Types
<1>7. TypeOK
  BY <1>3, <1>4, <1>5, <1>6 DEF TypeOK
<1>8. TookAPrefix
  BY <1>1 DEF Init, TookAPrefix
<1>9. InImage /\ GoesOn /\ OneChunk
  BY <1>6 DEF InImage, GoesOn, OneChunk
<1> QED BY <1>7, <1>8, <1>9 DEF IInv

\* A step that neither writes nor begins a chunk.
LEMMA Elsewhere ==
    ASSUME IInv, UNCHANGED <<inputs, offsets, crcs, chunk>>, sizes' \in [Types -> Nat],
           selected' \in Types \cup {0}, resumed' \in BOOLEAN, type' \in Types,
           pc' \in {"idle", "restart", "select", "finish", "boundary", "resolved", "rejected"},
           update' \in 1 .. Len(updates) + 1, pc' \notin {"resolved", "rejected"} => update' <= Len(updates)
    PROVE  IInv'
<1>1. TypeOK'
  BY DEF IInv, TypeOK, inputs, chunk
<1>2. TookAPrefix'
  BY DEF IInv, TookAPrefix, Length, inputs
<1>3. InImage' /\ GoesOn' /\ OneChunk'
  BY DEF IInv, InImage, GoesOn, OneChunk, inputs
<1> QED BY <1>1, <1>2, <1>3 DEF IInv

\* The next update, or the end of the package.
LEMMA NextUpdateFacts ==
    ASSUME TypeOK, NEW u \in 1 .. Len(updates) + 1, NextUpdate(u)
    PROVE  /\ update' \in 1 .. Len(updates) + 1 /\ type' \in Types
           /\ pc' \in {"resolved", "restart", "select"}
           /\ pc' # "resolved" => update' <= Len(updates)
<1>1. updates \in Seq([Types -> Nat \ {0}]) /\ type \in Types
  BY SinkAssumption DEF TypeOK, inputs
<1>2. Len(updates) \in Nat
  BY <1>1
<1>3. CASE u > Len(updates)
  BY <1>1, <1>3 DEF NextUpdate
<1>4. CASE ~(u > Len(updates))
  <2>1. update' = u /\ type' = 1 /\ pc' = IF forceful THEN "restart" ELSE "select"
    BY <1>4 DEF NextUpdate
  <2> QED BY <1>2, <1>4, <2>1 DEF Types
<1> QED BY <1>3, <1>4

\* A first or a new operation.
LEMMA StartInv == ASSUME IInv, Start PROVE IInv'
<1>1. Len(updates) \in Nat
  BY SinkAssumption DEF IInv, TypeOK, inputs
<1>2. /\ update' \in 1 .. Len(updates) + 1 /\ type' \in Types
      /\ pc' \in {"resolved", "restart", "select"} /\ (pc' # "resolved" => update' <= Len(updates))
  BY <1>1, NextUpdateFacts DEF Start, IInv
<1>3. /\ UNCHANGED <<inputs, offsets, crcs, chunk>> /\ sizes' \in [Types -> Nat]
      /\ selected' \in Types \cup {0} /\ resumed' \in BOOLEAN
  BY DEF Start, IInv, TypeOK, sink
<1> QED BY <1>2, <1>3, Elsewhere

\* An object of restart() is selected.
LEMMA RestartInv == ASSUME IInv, Restart PROVE IInv'
<1>1. sizes' \in [Types -> Nat] /\ selected' \in Types \cup {0}
  BY DEF Restart, CreateObject, RestartSize, IInv, TypeOK, Types
<1>2. update' \in 1 .. Len(updates) + 1 /\ update' <= Len(updates) /\ type' \in Types /\ resumed' \in BOOLEAN
  BY DEF Restart, IInv, TypeOK, InImage
<1>3. UNCHANGED <<inputs, offsets, crcs, chunk>> /\ pc' = "select"
  BY DEF Restart
<1> QED BY <1>1, <1>2, <1>3, Elsewhere

\* The next image, update or the end.
LEMMA FinishInv == ASSUME IInv, Finish PROVE IInv'
<1>1. /\ UNCHANGED <<inputs, offsets, crcs, chunk>> /\ sizes' \in [Types -> Nat]
      /\ selected' \in Types \cup {0}
  BY DEF Finish, IInv, TypeOK, sink
<1>2. update \in 1 .. Len(updates) + 1 /\ update <= Len(updates) /\ Len(updates) \in Nat
  BY SinkAssumption DEF Finish, IInv, TypeOK, InImage, inputs
<1>3. CASE type' = 2 /\ pc' = "select" /\ resumed' = FALSE /\ UNCHANGED update
  BY <1>1, <1>2, <1>3, Elsewhere DEF Types
<1>4. CASE NextUpdate(update + 1) /\ resumed' = FALSE
  <2>1. update + 1 \in 1 .. Len(updates) + 1
    BY <1>2
  <2>2. /\ update' \in 1 .. Len(updates) + 1 /\ type' \in Types
        /\ pc' \in {"resolved", "restart", "select"} /\ (pc' # "resolved" => update' <= Len(updates))
    BY <1>4, <2>1, NextUpdateFacts DEF IInv
  <2> QED BY <1>1, <1>4, <2>2, Elsewhere
<1> QED BY <1>3, <1>4 DEF Finish, PayloadDone

\* Nothing is executed at a boundary.
LEMMA BoundaryInv == ASSUME IInv, Boundary PROVE IInv'
<1>1. /\ UNCHANGED <<inputs, offsets, crcs, chunk>> /\ sizes' \in [Types -> Nat]
      /\ selected' \in Types \cup {0} /\ resumed' \in BOOLEAN
  BY DEF Boundary, IInv, TypeOK, sink
<1>2. update' \in 1 .. Len(updates) + 1 /\ update' <= Len(updates) /\ type' \in Types /\ pc' = "select"
  BY DEF Boundary, IInv, TypeOK, InImage
<1> QED BY <1>1, <1>2, Elsewhere

\* Where to continue: a chunk begins after the bytes the sink has, and is not empty.
LEMMA SelectInv == ASSUME IInv, Select PROVE IInv'
<1> DEFINE offset == offsets[type]
<1> DEFINE length == Length(update, type)
<1> DEFINE same == offset <= length /\ crcs[type] = Checksum(update, offset)
<1>1. pc = "select" /\ selected' = type /\ UNCHANGED <<inputs, offsets, crcs, sizes, update, type, resumed>>
  BY DEF Select
<1>2. /\ update \in 1 .. Len(updates) + 1 /\ update <= Len(updates) /\ type \in Types
      /\ offset \in Nat /\ length \in Nat \ {0} /\ chunkSize \in Nat \ {0}
      /\ sizes \in [Types -> Nat] /\ selected' \in Types \cup {0} /\ resumed \in BOOLEAN /\ update \in Nat
  <2>1. TypeOK /\ chunkSize \in Nat \ {0} /\ update <= Len(updates)
    BY <1>1, SinkAssumption DEF IInv, TypeOK, InImage, inputs
  <2>2. /\ update \in 1 .. Len(updates) + 1 /\ type \in Types /\ offset \in Nat
        /\ sizes \in [Types -> Nat] /\ selected' \in Types \cup {0} /\ resumed \in BOOLEAN
    BY <1>1, <2>1 DEF TypeOK
  <2>3. length \in Nat \ {0}
    BY <2>1, <2>2, Lengths
  <2> QED BY <2>1, <2>2, <2>3
<1>3. CASE pc' \in {"rejected", "finish", "boundary"} /\ UNCHANGED chunk
  BY <1>1, <1>2, <1>3, Elsewhere
<1>4. ASSUME NEW s \in Nat, NEW e \in Nat, NEW crc \in {Undefined, Checksum(update, s)},
             pc' \in {"create", "write"}, ChunkFrom(s, e, crc), crc.len = s,
             s < e, e <= length, e <= Continued(s)
      PROVE  IInv'
  <2>1. start' = s /\ end' = e /\ crcSoFar' = crc
    BY <1>4 DEF ChunkFrom
  <2>2. crc \in [of : Nat, len : Nat]
    BY <1>2 DEF Undefined, Checksum
  <2>3. e \in s .. s + chunkSize
    BY <1>2, <1>4, ChunkEnd, SMTT(30) DEF IInv
  <2>4. TypeOK'
    BY <1>1, <1>2, <1>4, <2>1, <2>2, <2>3 DEF IInv, TypeOK, inputs
  <2>5. TookAPrefix'
    BY <1>1 DEF IInv, TookAPrefix, Length, inputs
  <2>6. InImage'
    BY <1>1, <1>2, <1>4, <2>1 DEF InImage, Length, inputs
  <2>7. GoesOn' /\ OneChunk'
    BY <1>1, <1>4, <2>1 DEF GoesOn, OneChunk, Continued, Checksum, inputs
  <2> QED BY <2>4, <2>5, <2>6, <2>7 DEF IInv
<1>5. CASE offset = 0 /\ pc' = "create" /\ ChunkFrom(0, Min({length, chunkSize}), Undefined)
  <2>1. /\ Min({length, chunkSize}) \in {length, chunkSize}
        /\ Min({length, chunkSize}) <= length /\ Min({length, chunkSize}) <= chunkSize
    BY <1>2, Lesser
  <2>2. 0 % chunkSize = 0 /\ Continued(0) = chunkSize
    BY <1>2, Remainder DEF Continued
  <2>3. Undefined.len = 0
    BY DEF Undefined
  <2> DEFINE e == Min({length, chunkSize})
  <2>4. e \in Nat /\ 0 < e /\ e <= length /\ e <= Continued(0)
    BY <1>2, <2>1, <2>2
  <2> HIDE DEF e
  <2> QED BY <1>4, <1>5, <2>3, <2>4 DEF e
<1>6. CASE /\ same /\ offset # length /\ pc' = "write"
           /\ ChunkFrom(offset, Min({length, Continued(offset)}), Checksum(update, offset))
  <2> DEFINE e == Min({length, Continued(offset)})
  <2>1. Continued(offset) \in Nat /\ offset < Continued(offset)
    BY <1>2, ChunkEnd DEF IInv
  <2>2. e \in {length, Continued(offset)} /\ e <= length /\ e <= Continued(offset)
    BY <1>2, <2>1, Lesser
  <2>3. e \in Nat /\ offset < e
    BY <1>2, <1>6, <2>1, <2>2
  <2>4. Checksum(update, offset).len = offset
    BY DEF Checksum
  <2> HIDE DEF e, offset
  <2> QED BY <1>2, <1>4, <1>6, <2>2, <2>3, <2>4 DEF e
<1> QED BY <1>3, <1>5, <1>6 DEF Select

\* createObject
LEMMA CreateInv == ASSUME IInv, Create PROVE IInv'
<1>1. /\ pc = "create" /\ pc' = "write" /\ selected' = type /\ sizes' = [sizes EXCEPT ![type] = end - start]
      /\ UNCHANGED <<inputs, offsets, crcs, chunk, update, type, resumed>>
  BY DEF Create, CreateObject
<1>2. end - start \in Nat
  BY SinkAssumption DEF IInv, TypeOK, inputs
<1>3. TypeOK'
  BY <1>1, <1>2 DEF IInv, TypeOK, inputs, chunk
<1>4. TookAPrefix' /\ InImage' /\ GoesOn' /\ OneChunk'
  BY <1>1 DEF IInv, TookAPrefix, InImage, GoesOn, OneChunk, Length, Continued, inputs, chunk
<1> QED BY <1>3, <1>4 DEF IInv

\* writeObject, with the checksum of the bytes before the chunk.
LEMMA WriteInv == ASSUME IInv, Write PROVE IInv'
<1>1. pc = "write" /\ selected = type /\ UNCHANGED <<inputs, sizes, selected, chunk, update, type, resumed>>
  BY DEF Write, IInv, InImage
<1>2. /\ update \in 1 .. Len(updates) + 1 /\ update <= Len(updates) /\ type \in Types /\ update \in Nat
      /\ sizes \in [Types -> Nat] /\ selected \in Types \cup {0} /\ resumed \in BOOLEAN
      /\ start \in Nat /\ end \in Nat /\ start < end /\ end <= Length(update, type)
      /\ offsets \in [Types -> Nat] /\ crcs \in [Types -> [of : Nat, len : Nat]]
  <2>1. chunkSize \in Nat \ {0}
    BY SinkAssumption DEF IInv, TypeOK, inputs
  <2> QED BY <1>1, <2>1 DEF IInv, TypeOK, InImage
<1>3. CASE pc' = "rejected" /\ UNCHANGED <<offsets, crcs>>
  BY <1>1, <1>2, <1>3, Elsewhere
<1>4. CASE ~Throws(end - start, crcSoFar) /\ WriteObject(end - start, crcSoFar) /\ pc' = "crc"
  <2>1. crcSoFar = crcs[type] /\ crcSoFar.len = start
    BY <1>1, <1>4 DEF Throws, Expected, IInv, GoesOn
  <2>2. offsets[type] = start
    BY <1>2, <2>1 DEF IInv, TookAPrefix
  <2>3. /\ offsets' = [offsets EXCEPT ![type] = offsets[type] + (end - start)]
        /\ crcs' = [crcs EXCEPT ![type] = Checksum(update, crcSoFar.len + (end - start))]
    BY <1>1, <1>4 DEF WriteObject
  <2>4. offsets[type] + (end - start) = end /\ crcSoFar.len + (end - start) = end
    BY <1>2, <2>1, <2>2
  <2>5. offsets' = [offsets EXCEPT ![type] = end] /\ crcs' = [crcs EXCEPT ![type] = Checksum(update, end)]
    BY <2>3, <2>4
  <2>6. /\ Checksum(update, end) \in [of : Nat, len : Nat]
        /\ Checksum(update, end).of = update /\ Checksum(update, end).len = end
    BY <1>2 DEF Checksum
  <2>7. TypeOK'
    BY <1>1, <1>2, <1>4, <2>5, <2>6 DEF IInv, TypeOK, inputs, chunk
  <2>8. TookAPrefix'
    <3> SUFFICES ASSUME NEW t \in Types
                 PROVE  /\ crcs'[t].len = offsets'[t]
                        /\ crcs'[t] # Undefined => offsets'[t] <= Length(crcs'[t].of, t)
      BY <1>1 DEF TookAPrefix, Length, inputs
    <3>1. CASE t = type
      BY <1>2, <2>5, <2>6, <3>1
    <3>2. CASE t # type
      BY <1>2, <2>5, <3>2 DEF IInv, TookAPrefix
    <3> QED BY <3>1, <3>2
  <2>9. InImage'
    BY <1>1, <1>2, <1>4 DEF InImage, Length, inputs, chunk
  <2>10. GoesOn'
    BY <1>1, <1>2, <1>4, <2>5 DEF GoesOn, Checksum, chunk
  <2>11. OneChunk'
    BY <1>1, <2>1 DEF IInv, OneChunk, Continued, inputs, chunk
  <2> QED BY <2>7, <2>8, <2>9, <2>10, <2>11 DEF IInv
<1> QED BY <1>3, <1>4 DEF Write

\* The catch of sendPayloadChunk: the chunk again, with a checksum that the sink refuses.
LEMMA CrcInv == ASSUME IInv, Crc PROVE IInv'
<1>1. /\ pc = "crc" /\ pc' = "write" /\ selected' = type /\ sizes' = [sizes EXCEPT ![type] = end - start]
      /\ start' = start - (start % chunkSize)
      /\ crcSoFar' = IF start' = 0 THEN Undefined ELSE Checksum(update, start')
      /\ UNCHANGED <<inputs, offsets, crcs, end, update, type, resumed>>
  BY DEF Crc, CreateObject
<1>2. /\ update \in 1 .. Len(updates) + 1 /\ update <= Len(updates) /\ type \in Types /\ update \in Nat
      /\ start \in Nat /\ end \in Nat /\ start < end /\ end <= Length(update, type) /\ chunkSize \in Nat
      /\ crcs[type] = Checksum(update, end) /\ end <= Continued(start)
  <2>1. chunkSize \in Nat \ {0}
    BY SinkAssumption DEF IInv, TypeOK, inputs
  <2> QED BY <1>1, <2>1 DEF IInv, TypeOK, InImage, GoesOn, OneChunk
<1>3. start' \in Nat /\ start' <= start /\ end <= start' + chunkSize
  BY <1>1, <1>2, ChunkEnd DEF IInv
<1>4. crcSoFar' \in {Undefined, Checksum(update, start')} /\ crcSoFar'.len = start'
  BY <1>1, <1>3 DEF Undefined, Checksum
<1>5. crcSoFar' # crcs[type]
  <2>1. Checksum(update, end).len = end
    BY DEF Checksum
  <2> QED BY <1>2, <1>3, <1>4, <2>1
<1>6. crcSoFar' \in [of : Nat, len : Nat] /\ end - start \in Nat
  BY <1>2, <1>3, <1>4 DEF Undefined, Checksum
<1>7. TypeOK'
  <2>1. sizes' \in [Types -> Nat] /\ selected' \in Types \cup {0} /\ chunkSize' = chunkSize
    BY <1>1, <1>2, <1>6 DEF IInv, TypeOK, inputs
  <2>2. end' \in start' .. start' + chunkSize'
    BY <1>1, <1>2, <1>3, <2>1
  <2> QED BY <1>1, <1>2, <1>3, <1>6, <2>1, <2>2 DEF IInv, TypeOK, inputs
<1>8. TookAPrefix'
  BY <1>1 DEF IInv, TookAPrefix, Length, inputs
<1>9. InImage'
  BY <1>1, <1>2, <1>3 DEF InImage, Length, inputs
<1>10. GoesOn' /\ OneChunk'
  BY <1>1, <1>4, <1>5 DEF GoesOn, OneChunk, Checksum
<1> QED BY <1>7, <1>8, <1>9, <1>10 DEF IInv

-----------------------------------------------------------------------------
\* The inductive invariant.
THEOREM Invariance == Spec => []IInv
<1>1. IInv /\ UNCHANGED vars => IInv'
  BY DEF vars, inputs, sink, chunk, IInv, TypeOK, TookAPrefix, InImage, GoesOn, OneChunk, Length,
         Continued, Checksum
<1>2. IInv /\ [Next]_vars => IInv'
  BY <1>1, StartInv, RestartInv, SelectInv, FinishInv, BoundaryInv, CreateInv, WriteInv, CrcInv DEF Next
<1> QED BY <1>2, InitInv, PTL DEF Spec

\* Every variable keeps its type: no chunk is longer than chunkSize, also when it is sent
\* again from where it could begin (DfuAbstractTransport.js:92-133, 204-216).
THEOREM TypeCorrect == Spec => []TypeOK
BY Invariance, PTL DEF IInv

\* However often an operation was started again, the sink has taken the first bytes of an
\* image, in order and once each (DfuTransportSink.js:74-92).
THEOREM Prefixes == Spec => []TookAPrefix
BY Invariance, PTL DEF IInv
=============================================================================
