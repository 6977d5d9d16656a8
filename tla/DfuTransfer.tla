---------------------------- MODULE DfuTransfer ----------------------------
(***************************************************************************)
(* A DfuOperation driving a DfuAbstractTransport against a target: which   *)
(* of the five requests is sent next, what is done with its answer, the    *)
(* retry of a chunk and the continuation of an interrupted procedure.      *)
(*                                                                         *)
(* pc names the request whose promise the host is waiting for.  A request  *)
(* either is answered, or fails: the target may have performed it or not,  *)
(* and the promise rejects.  How a transport loses or delays an answer is  *)
(* the matter of other modules; here each failure takes one of MaxFaults.  *)
(* The host may also disappear and start a new operation, and the target   *)
(* may restart, between any two requests.                                  *)
(***************************************************************************)
EXTENDS DfuTarget, Sequences

CONSTANTS
    Packages,   \* DfuUpdates.updates of the packages a user has at hand
    MaxFaults,  \* bound: failing requests and restarts of the target
    MaxStarts   \* bound: operations started

ASSUME TransferAssumption ==
    /\ Packages \subseteq Seq(Images)
    /\ MaxFaults \in Nat
    /\ MaxStarts \in Nat

VARIABLES
    pc,         \* the request under way, or how the operation ended
    package,    \* DfuOperation.updates
    number,     \* updateNumber
    forceful,   \* argument of DfuOperation.start
    type,       \* payload type being sent
    start,      \* the chunk under way is bytes[start, end)
    end,
    retries,    \* of that chunk
    crcSoFar,   \* the prefix of the payload the running checksum covers
    resumed,    \* resumeAtChunkBoundary
    error,      \* code the promise was rejected with
    target,     \* the bootloader
    installed,  \* images the target activated since the operation was created
    faults,     \* failures so far
    starts      \* operations so far

chunkVars == <<start, end, retries, crcSoFar>>
positionVars == <<number, type, resumed>>
argVars == <<package, forceful>>
hostVars == <<pc, package, number, forceful, type, start, end, retries, crcSoFar, resumed, error>>
vars == <<hostVars, target, installed, faults, starts>>

Requests == {"restart", "select", "finish", "boundary", "create", "write",
             "crc", "execute", "recreate"}
Ended == {"idle", "stopped", "resolved", "rejected"}
Running == pc \in Requests

Image == package[number + 1]
PayloadSize == Size[Image][type]
ChunkMax == ChunkSize[type]
MaxRetries == 5

Min(a, b) == IF a <= b THEN a ELSE b

\* The bytes the target has are the leading ones of the payload: the checksum it
\* reports is that of bytes.subarray(0, offset).
MatchesByLength(c) == c.len <= PayloadSize
Matches(c) == c.len <= PayloadSize /\ Holds(c, Image, c.len)

\* Offset and checksum reported after a chunk are what the host expects.
OffsetAsExpected(c) == c.len = end
ChecksumAsExpected(c) == Holds(c, Image, end) /\ crcSoFar = start

\* All the updates of the package have been performed.
AllButOne(updates, n) == Len(updates) <= n + 1
NoneLeft(updates, n) == Len(updates) <= n

\* The first request of an update.
AlwaysRestart(f) == "restart"
FirstRequest(f) == IF f THEN "restart" ELSE "select"

\* The start of the block a failed chunk is in.
SameStart(at) == at
BlockBefore(at) == at - ChunkMax
BlockStart(at) == at - (at % ChunkMax)

\* The count of retries passed on to the next one.
SameCount(r) == r
NextCount(r) == r + 1

-----------------------------------------------------------------------------
Init ==
    /\ pc = "idle" /\ package = <<>> /\ number = 0 /\ forceful = FALSE
    /\ type = Command /\ start = 0 /\ end = 0 /\ retries = 0 /\ crcSoFar = 0
    /\ resumed = FALSE /\ error = "none"
    /\ target = Fresh /\ installed = <<>> /\ faults = 0 /\ starts = 0

\* The chunk that sendAndExecutePayloadChunk is given.
Chunk(from, to) ==
    /\ start' = from /\ end' = to /\ retries' = 0 /\ crcSoFar' = from

\* sendPayload is entered for payload t; it begins with selectObject.
SendPayload(t) ==
    /\ pc' = "select" /\ type' = t /\ resumed' = FALSE /\ Chunk(0, 0)

\* performNextUpdate(n): done, or restart() if forceful, then the init packet.
PerformNextUpdate(updates, n, f) ==
    /\ number' = n /\ type' = Command /\ resumed' = FALSE /\ Chunk(0, 0)
    /\ pc' = IF NoneLeft(updates, n) THEN "resolved" ELSE FirstRequest(f)

\* sendInitPacket is followed by sendFirmwareImage, and that by the next update.
PayloadDone ==
    IF type = Command
    THEN SendPayload(Data) /\ UNCHANGED number
    ELSE PerformNextUpdate(package, number + 1, forceful)

Reject(code) ==
    /\ pc' = "rejected" /\ error' = code /\ UNCHANGED <<chunkVars, positionVars>>

Fault == faults < MaxFaults /\ faults' = faults + 1

Execute ==
    /\ target' = Executed(target)
    /\ installed' = IF \E i \in Images : Completes(target, i)
                    THEN Append(installed, target.stored[Data].src) ELSE installed

\* new DfuOperation(updates, transport).start(forceful).  A second start() of an
\* operation returns the first promise and does nothing.
Start(updates, f) ==
    /\ ~Running /\ starts < MaxStarts
    /\ starts' = starts + 1
    /\ package' = updates /\ forceful' = f /\ error' = "none" /\ installed' = <<>>
    /\ PerformNextUpdate(updates, 0, f)
    /\ UNCHANGED <<target, faults>>

\* restart(): createObject(1, 0x10)
Restart ==
    /\ pc = "restart"
    /\ target' = Created(target, Command, 16)
    /\ pc' = "select"
    /\ UNCHANGED <<chunkVars, positionVars, argVars, error, installed, faults, starts>>

\* The answer to selectObject decides where the payload continues.
Select ==
    /\ pc = "select"
    /\ target' = Selected(target, type)
    /\ LET have == target.stored[type]
           atBoundary == have.len % ChunkMax = 0
           blockEnd == BlockStart(have.len) + ChunkMax
       IN \/ /\ have.len = 0
             /\ pc' = "create" /\ Chunk(0, Min(PayloadSize, ChunkMax))
             /\ UNCHANGED <<positionVars, error>>
          \/ have.len # 0 /\ ~Matches(have) /\ Reject("PRE_DFU_INTERRUPTED")
          \/ /\ have.len # 0 /\ Matches(have)
             /\ IF have.len = PayloadSize
                THEN pc' = "finish" /\ UNCHANGED chunkVars
                ELSE IF atBoundary /\ ~resumed
                THEN pc' = "boundary" /\ UNCHANGED chunkVars
                ELSE pc' = "write" /\ Chunk(have.len, Min(PayloadSize, blockEnd))
             /\ UNCHANGED <<positionVars, error>>
    /\ UNCHANGED <<argVars, installed, faults, starts>>

\* The payload is all there: executeObject "just in case".
Finish ==
    /\ pc = "finish" /\ CanExecute(target)
    /\ Execute /\ PayloadDone
    /\ UNCHANGED <<argVars, error, faults, starts>>

\* Whole chunks are there: execute the last one again, then select again.
Boundary ==
    /\ pc = "boundary" /\ CanExecute(target)
    /\ Execute
    /\ pc' = "select" /\ resumed' = TRUE
    /\ UNCHANGED <<chunkVars, argVars, number, type, error, faults, starts>>

\* createObject(type, end - start) before a chunk other than a resumed one.
Create ==
    /\ pc = "create"
    /\ target' = Created(target, type, end - start)
    /\ pc' = "write"
    /\ UNCHANGED <<chunkVars, positionVars, argVars, error, installed, faults, starts>>

\* The catch of sendPayloadChunk: reject after five retries, else start the
\* chunk over with a new object.
Catch ==
    IF retries >= MaxRetries THEN Reject("TOO_MANY_WRITE_FAILURES")
    ELSE pc' = "recreate" /\ UNCHANGED <<chunkVars, positionVars, error>>

\* writeObject(bytes[start, end)).  The target takes k of the bytes; without a
\* fault it takes them all, if the object has the room.  When bytes are missing
\* or damaged the checksum of a PRN may show it at once.
Write(k, intact) ==
    /\ pc = "write" /\ k <= Room(target)
    /\ target' = Received(target, Image, start, k, intact)
    /\ \/ Fault
       \/ k = end - start /\ intact /\ UNCHANGED faults
       \/ end - start > Room(target) /\ UNCHANGED faults
    /\ \/ pc' = "crc" /\ UNCHANGED <<chunkVars, positionVars, error>>
       \/ (faults' = faults => ~Holds(target'.stored[type], Image, end)) /\ Catch
    /\ UNCHANGED <<argVars, installed, starts>>

\* crcObject(): offset and checksum of the target against those of the host.
Crc ==
    /\ pc = "crc" /\ target.selected # None
    /\ IF ChecksumAsExpected(target.stored[target.selected])
       THEN pc' = "execute" /\ UNCHANGED <<chunkVars, positionVars, error>>
       ELSE Catch
    /\ UNCHANGED <<argVars, target, installed, faults, starts>>

\* Catch, after its createObject(type, end - start): rewind to the block's start.
Recreate ==
    /\ pc = "recreate"
    /\ target' = Created(target, type, end - start)
    /\ start' = BlockStart(start) /\ crcSoFar' = start'
    /\ retries' = NextCount(retries) /\ pc' = "write"
    /\ UNCHANGED <<end, positionVars, argVars, error, installed, faults, starts>>

\* executeObject() after a chunk: then the next chunk, or the payload is done.
ExecuteChunk ==
    /\ pc = "execute" /\ CanExecute(target)
    /\ Execute
    /\ IF end >= PayloadSize THEN PayloadDone
       ELSE /\ pc' = "create" /\ Chunk(end, Min(PayloadSize, end + ChunkMax))
            /\ UNCHANGED positionVars
    /\ UNCHANGED <<argVars, error, faults, starts>>

\* The target answers a request with an error: nothing is selected any more, or
\* the object to execute is not complete.
Refused ==
    /\ \/ pc \in {"finish", "boundary", "execute"} /\ ~CanExecute(target) /\ Reject("REFUSED")
       \/ pc = "crc" /\ target.selected = None /\ Catch
    /\ UNCHANGED <<argVars, target, installed, faults, starts>>

-----------------------------------------------------------------------------
\* What the target does with the request under way, the answer to which is lost.
Performed ==
    \/ pc = "restart" /\ target' = Created(target, Command, 16) /\ UNCHANGED installed
    \/ pc = "select" /\ target' = Selected(target, type) /\ UNCHANGED installed
    \/ pc \in {"create", "recreate"} /\ target' = Created(target, type, end - start)
       /\ UNCHANGED installed
    \/ pc \in {"finish", "boundary", "execute"} /\ CanExecute(target) /\ Execute

\* The promise of a request rejects.  Only those of a write or of the checksum
\* are caught.
Fails ==
    /\ Fault
    /\ \/ pc \in Requests \ {"write", "crc"} /\ Reject("FAILED")
          /\ (Performed \/ UNCHANGED <<target, installed>>)
       \/ pc = "crc" /\ Catch /\ UNCHANGED <<target, installed>>
    /\ UNCHANGED <<argVars, starts>>

\* The target loses power or is reset; the host notices nothing.
TargetReboots ==
    /\ Fault
    /\ target' \in Rebooted(target)
    /\ UNCHANGED <<hostVars, installed, starts>>

\* The host's process ends in the middle of an operation.
HostStops ==
    /\ Running
    /\ pc' = "stopped" /\ error' = "none"
    /\ UNCHANGED <<chunkVars, positionVars, argVars, target, installed, faults, starts>>

WriteChunk == \E k \in 0 .. end - start, intact \in BOOLEAN : Write(k, intact)

HostStep == Restart \/ Select \/ Finish \/ Boundary \/ Create \/ WriteChunk \/ Crc
            \/ Recreate \/ ExecuteChunk \/ Refused

Next ==
    \/ \E updates \in Packages, f \in BOOLEAN : Start(updates, f)
    \/ HostStep
    \/ Fails
    \/ TargetReboots
    \/ HostStops

Spec == Init /\ [][Next]_vars

\* Every request is answered, or its promise rejects by a timeout.
FairSpec == Spec /\ WF_vars(HostStep)

-----------------------------------------------------------------------------
TypeOK ==
    /\ pc \in Requests \cup Ended
    /\ package \in Seq(Images) /\ number \in Nat /\ forceful \in BOOLEAN
    /\ type \in Types /\ start \in Nat /\ end \in Nat /\ retries \in Nat /\ crcSoFar \in Nat
    /\ resumed \in BOOLEAN
    /\ error \in {"none", "PRE_DFU_INTERRUPTED", "TOO_MANY_WRITE_FAILURES", "REFUSED", "FAILED"}
    /\ target \in Targets
    /\ installed \in Seq(Images \cup {Garbled})
    /\ faults \in Nat /\ starts \in Nat

\* Whatever is lost, damaged, refused or interrupted, the host has the target
\* execute nothing but whole leading chunks of one image's payload, and the
\* target activates nothing but images: executeObject is only sent after offset
\* and checksum agreed (DfuAbstractTransport.js:188-198, 97-121).
CommittedIntact ==
    /\ \A t \in Types : LET c == target.committed[t] IN
         c.len > 0 => c.src \in Images /\ c.len <= Size[c.src][t]
    /\ \A n \in DOMAIN installed : installed[n] \in Images

\* Firmware is only ever executed under the init packet it belongs to, although
\* operations with different packages follow each other on a target that kept
\* parts of both objects (DfuOperation.js:109-112, DfuAbstractTransport.js:95-140).
FirmwareUnderItsInitPacket ==
    target.committed[Data].len > 0 =>
        LET i == target.committed[Data].src IN
        i \in Images /\ Holds(target.committed[Command], i, Size[i][Command])

\* An operation that is not forceful never makes the target drop firmware it has
\* executed, except by activating it: "CRC checks are done in order to continue
\* an interrupted transfer" (DfuAbstractTransport.js:60-64).
ContinuationKeepsProgress ==
    [][~forceful' /\ starts' = starts =>
        \/ target'.committed[Data].len >= target.committed[Data].len
        \/ Len(installed') > Len(installed)]_vars

\* The operation keeps the promise of DfuDelivery: updates are activated in order
\* and start() resolves only after the last of them (DfuOperation.js:68-113).
Outcome == IF Running THEN "pending" ELSE IF pc = "resolved" THEN "resolved" ELSE "rejected"
Delivery == INSTANCE DfuDelivery WITH outcome <- Outcome, delivered <- installed
Delivers == Delivery!Spec

\* Every operation comes to an end; the retries of a chunk cannot go on for ever
\* (DfuAbstractTransport.js:199-217).
Settles == Running ~> ~Running

\* What the target holds at the start of an operation belongs to its first image,
\* and no object has been created in which nothing was written yet.
Belongs ==
    \A t \in Types : Holds(target.stored[t], package[1], target.stored[t].len)
NoEmptyObject ==
    \A t \in Types : target.stored[t] = target.committed[t] /\ target.stored[t].len > 0
                       => target.room[t] = 0
\* The target keeps one command object only, which an init packet has to fit.
Sendable == \A n \in DOMAIN package : Size[package[n]][Command] <= ChunkSize[Command]
Begins == pc \in {"restart", "select"} /\ number = 0 /\ type = Command /\ ~resumed
Healthy == faults = MaxFaults

\* From any state an earlier operation left the target in, an operation without
\* failures of its own succeeds: a forceful one always, another one when what the
\* target holds is part of its first image.  Resuming at a chunk boundary or
\* retrying after one needs the retries of sendPayloadChunk even then.
HealthyRunSucceeds ==
    Begins /\ Healthy /\ Sendable /\ (forceful \/ (Belongs /\ NoEmptyObject))
      ~> pc \in {"resolved", "stopped"}

-----------------------------------------------------------------------------
(* What the comments say and the code does not do.                         *)

\* "Allocate space for a new payload chunk" and "Fill the space previously
\* allocated with createObject() with the given bytes", :228 and :234: a chunk
\* that is sent again fits the object created for it.
RetryFitsItsObject ==
    pc = "write" /\ retries > 0 /\ target.selected = type => end - start <= Room(target)

\* "when an exact multiple of the chunk size has been transferred ...  the second
\* [execute] will do nothing and yet receive an OK response code", :110-115: an
\* interrupted procedure can be continued with the package it was begun with.
ContinuationSucceeds ==
    Begins /\ Healthy /\ ~forceful /\ Belongs ~> pc \in {"resolved", "stopped"}
=============================================================================
