-------------------------- MODULE DfuTransportSink --------------------------
(***************************************************************************)
(* An operation on the sink, the transport that stands in for a device: it *)
(* counts the bytes it is given and keeps their checksum.  Everything runs *)
(* on one thread of promises; one action is one call of the sink and what  *)
(* the procedure of DfuAbstractTransport does with its result.  An         *)
(* operation that was rejected is followed by a new one on the same sink.  *)
(*                                                                         *)
(* A checksum is the update the bytes are of and how many they are, as the *)
(* sink only ever adds bytes to those its checksum is of.                  *)
(***************************************************************************)
EXTENDS Integers, Sequences, FiniteSetsExt

CONSTANTS
    Packages,       \* sequences of updates; an update is [Types -> length]
    ChunkSizes      \* chunkSize of the constructor

Types == {1, 2}     \* init packet, firmware image

ASSUME SinkAssumption ==
    /\ Packages \subseteq Seq([Types -> Nat \ {0}]) /\ ChunkSizes \subseteq Nat \ {0}

VARIABLES
    updates, chunkSize, forceful,           \* fixed by the constructors
    offsets, crcs, sizes, selected,         \* the sink
    pc, update, type, start, end, crcSoFar, resumed      \* the operation

inputs == <<updates, chunkSize, forceful>>
sink == <<offsets, crcs, sizes, selected>>
chunk == <<start, end, crcSoFar>>
vars == <<inputs, sink, chunk, pc, update, type, resumed>>

Undefined == [of |-> 0, len |-> 0]
Checksum(u, n) == [of |-> u, len |-> n]
Length(u, t) == updates[u][t]

\* The object restart() creates (DfuAbstractTransport.js:60-68).
RestartSize == 16

Init ==
    /\ updates \in Packages /\ chunkSize \in ChunkSizes /\ forceful \in BOOLEAN
    /\ offsets = [t \in Types |-> 0] /\ crcs = [t \in Types |-> Undefined]
    /\ sizes = [t \in Types |-> 0] /\ selected = 0
    /\ pc = "idle" /\ update = 1 /\ type = 1
    /\ start = 0 /\ end = 0 /\ crcSoFar = Undefined /\ resumed = FALSE

-----------------------------------------------------------------------------
\* The sink's methods.

CreateUnsized(t, size) == selected' = t /\ UNCHANGED sizes
CreateObject(t, size) == selected' = t /\ sizes' = [sizes EXCEPT ![t] = size]

Unchecked(t, crc) == TRUE
Expected(t, crc) == crc = crcs[t]

\* Does writeObject throw?
Throws(bytes, crc) == ~Expected(selected, crc) \/ bytes > sizes[selected]

WriteObject(bytes, crc) ==
    /\ offsets' = [offsets EXCEPT ![selected] = @ + bytes]
    /\ crcs' = [crcs EXCEPT ![selected] = Checksum(update, crc.len + bytes)]

-----------------------------------------------------------------------------
\* performNextUpdate()
NextUpdate(u) ==
    /\ update' = u
    /\ IF u > Len(updates) THEN pc' = "resolved" /\ UNCHANGED type
       ELSE pc' = (IF forceful THEN "restart" ELSE "select") /\ type' = 1

\* start() of a first or, after a failure, of a new operation.
Start ==
    /\ pc \in {"idle", "rejected"} /\ NextUpdate(1)
    /\ resumed' = FALSE /\ UNCHANGED <<inputs, sink, chunk>>

Restart ==
    /\ pc = "restart" /\ CreateObject(1, RestartSize)
    /\ pc' = "select" /\ UNCHANGED <<inputs, offsets, crcs, chunk, update, type, resumed>>

\* The image is sent: the next one, or the next update.
PayloadDone ==
    IF type = 1 THEN type' = 2 /\ pc' = "select" /\ resumed' = FALSE /\ UNCHANGED update
    ELSE NextUpdate(update + 1) /\ resumed' = FALSE

ChunkFrom(s, e, crc) == start' = s /\ end' = e /\ crcSoFar' = crc

\* Where the chunk ends that continues at offset.
ContinuedTwice(offset) == (offset + 2 * chunkSize) - (offset % chunkSize)
Continued(offset) == (offset + chunkSize) - (offset % chunkSize)

\* sendPayload: selectObject and the decision where to continue.
Select ==
    /\ pc = "select" /\ selected' = type
    /\ LET offset == offsets[type]
           length == Length(update, type)
           same == offset <= length /\ crcs[type] = Checksum(update, offset) IN
       \/ /\ offset = 0 /\ pc' = "create" /\ ChunkFrom(0, Min({length, chunkSize}), Undefined)
       \/ /\ offset # 0 /\ ~same /\ pc' = "rejected" /\ UNCHANGED chunk
       \/ /\ offset # 0 /\ same /\ offset = length /\ pc' = "finish" /\ UNCHANGED chunk
       \/ /\ offset # 0 /\ same /\ offset # length
          /\ offset % chunkSize = 0 /\ ~resumed /\ pc' = "boundary" /\ UNCHANGED chunk
       \/ /\ offset # 0 /\ same /\ offset # length
          /\ ~(offset % chunkSize = 0 /\ ~resumed) /\ pc' = "write"
          /\ ChunkFrom(offset, Min({length, Continued(offset)}), Checksum(update, offset))
    /\ UNCHANGED <<inputs, offsets, crcs, sizes, update, type, resumed>>

\* executeObject, of an image that is there already.
Finish == pc = "finish" /\ PayloadDone /\ UNCHANGED <<inputs, sink, chunk>>

Boundary ==
    /\ pc = "boundary" /\ pc' = "select" /\ resumed' = TRUE
    /\ UNCHANGED <<inputs, sink, chunk, update, type>>

Create ==
    /\ pc = "create" /\ CreateObject(type, end - start) /\ pc' = "write"
    /\ UNCHANGED <<inputs, offsets, crcs, chunk, update, type, resumed>>

\* What writeObject throws, it throws before its caller has attached its catch.
Write ==
    /\ pc = "write"
    /\ IF Throws(end - start, crcSoFar) THEN pc' = "rejected" /\ UNCHANGED <<offsets, crcs>>
       ELSE WriteObject(end - start, crcSoFar) /\ pc' = "crc"
    /\ UNCHANGED <<inputs, sizes, selected, chunk, update, type, resumed>>

\* crcObject resolves without a value, which sendPayloadChunk cannot take apart, so its
\* catch sends the chunk again in a new object.  It never gets to executeObject, nor to
\* more than one retry, which Write rejects.
Crc ==
    /\ pc = "crc" /\ pc' = "write" /\ CreateObject(type, end - start)
    /\ start' = start - (start % chunkSize)
    /\ crcSoFar' = IF start' = 0 THEN Undefined ELSE Checksum(update, start')
    /\ UNCHANGED <<inputs, offsets, crcs, end, update, type, resumed>>

Next ==
    \/ Start \/ Restart \/ Select \/ Finish \/ Boundary
    \/ Create \/ Write \/ Crc

Spec == Init /\ [][Next]_vars
FairSpec == Spec /\ WF_vars(Next)

-----------------------------------------------------------------------------
TypeOK ==
    /\ inputs \in Packages \X ChunkSizes \X BOOLEAN
    /\ offsets \in [Types -> Nat] /\ crcs \in [Types -> [of : Nat, len : Nat]]
    /\ sizes \in [Types -> Nat] /\ selected \in Types \cup {0}
    /\ pc \in {"idle", "restart", "select", "finish", "boundary", "create", "write", "crc",
               "resolved", "rejected"}
    /\ update \in 1 .. Len(updates) + 1 /\ type \in Types /\ resumed \in BOOLEAN
    /\ start \in Nat /\ end \in start .. start + chunkSize /\ crcSoFar \in [of : Nat, len : Nat]

\* However often an operation was rejected and started again, the sink has taken the
\* bytes of an image in order and once each: its offset and checksum are those of the
\* first bytes of one image (DfuTransportSink.js:74-92).
TookAPrefix ==
    \A t \in Types :
        /\ crcs[t].len = offsets[t]
        /\ crcs[t] # Undefined => offsets[t] <= Length(crcs[t].of, t)

\* A package with one update is taken completely if the operation is started often
\* enough, each time a chunk more (DfuAbstractTransport.js:92-133); not a forceful one
\* whose init packet goes on in an object of restart() that is too small for it.
Fits == chunkSize <= RestartSize \/ Length(1, 1) <= chunkSize
SucceedsInTheEnd ==
    Len(updates) = 1 /\ (forceful => Fits) => <>(pc = "resolved")

\* An operation on a new sink succeeds: spec/dfu-sink-spec.js:27-34 starts one and
\* expects its promise to resolve.
FirstAttemptSucceeds == pc # "rejected"
=============================================================================
