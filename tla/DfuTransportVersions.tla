------------------------ MODULE DfuTransportVersions ------------------------
(***************************************************************************)
(* Two callers of one serial transport: an operation, and a program that   *)
(* asks for the versions of protocol, hardware and firmware.  Each waits   *)
(* for its own answers, but they share the mailbox of DfuTransportPrn, one *)
(* packet or one reader; a version query does not wait for ready() either. *)
(* Packets may be truncated on the line, which makes parse() throw.        *)
(*                                                                         *)
(* What the operation does with its answers is in DfuTransfer; here it is  *)
(* a caller that asks for one thing after another.                         *)
(***************************************************************************)
EXTENDS DfuResponse, Sequences

CONSTANTS
    ByteSize,       \* values of a byte: 256
    MaxImages,      \* bound: firmware images on the target
    StrangeImages,  \* those that may be of a type nobody knows
    Indices,        \* asked for with getFirmwareVersion()
    Refusals,       \* result codes, with extended error code, it answers instead
    MaxRequests,    \* bound: requests and queries begun
    MaxFaults       \* bound: packets lost or truncated, and answers later than 5 s

\* With ByteSize images or more, getAllFirmwareVersions() would never be told that there
\* is no image at an index.
ASSUME VersionsAssumption ==
    /\ ByteSize \in Nat \ {0} /\ MaxImages \in 0 .. ByteSize - 1 /\ Indices \subseteq Nat
    /\ Refusals \subseteq (Bytes \ {ERROR_MESSAGE_RSP}) \X (Bytes \cup {Missing})
    /\ MaxRequests \in Nat /\ MaxFaults \in Nat

VARIABLES
    images, strange,    \* the target's firmware images; those of a type nobody knows
    step, asked,    \* of each caller: how far its request is, and what it asked for
    error,          \* of each caller: the code of its last rejection, or 0
    garbled,        \* of each caller: its reader was taken by a packet that made parse() throw
    all, list,      \* of the query: for all images; those it was told of
    stored,         \* lastReceivedPacket
    waiting,        \* whose callback waitingForPacket is
    toTarget, toHost,   \* the two directions of the line
    mixed,          \* both callers had a request under way at once
    unnamed,        \* the target said something that has no name
    requests, faults

targetVars == <<images, strange>>
callerVars == <<step, asked, error, garbled, all, list, mixed>>
mailboxVars == <<stored, waiting>>
vars == <<targetVars, callerVars, mailboxVars, toTarget, toHost, unnamed, requests, faults>>

Callers == {"operation", "query"}
Nobody == "nobody"

\* Opcodes: create stands for the requests of an operation.
Create == 1
ProtocolVersion == 0
HardwareVersion == 10
FirmwareVersion == 11
Opcodes == {Create, ProtocolVersion, HardwareVersion, FirmwareVersion}
Length == [o \in Opcodes |-> IF o = Create THEN 0 ELSE IF o = ProtocolVersion THEN 1
                             ELSE IF o = HardwareVersion THEN 20 ELSE 13]

\* What an idle caller asked for; no firmware image, type 0xFF; and no packet.
Nothing == [opcode |-> Create, index |-> 0]
NoImage == Missing
NoPacket == [start |-> Missing, opcode |-> Missing, result |-> Missing, ext |-> Missing,
             length |-> 0, image |-> NoImage]

Init ==
    /\ images \in 0 .. MaxImages /\ strange \in SUBSET (StrangeImages \cap 0 .. images - 1)
    /\ step = [c \in Callers |-> "idle"]
    /\ asked = [c \in Callers |-> Nothing]
    /\ error = [c \in Callers |-> 0] /\ garbled = [c \in Callers |-> FALSE]
    /\ all = FALSE /\ list = <<>> /\ stored = NoPacket /\ waiting = Nobody
    /\ toTarget = <<>> /\ toHost = <<>> /\ mixed = FALSE /\ unnamed = FALSE
    /\ requests = 0 /\ faults = 0

Fault == faults < MaxFaults /\ faults' = faults + 1

-----------------------------------------------------------------------------
(* The callers                                                             *)

\* The command is written; the index of an image is one byte of it.
Unwrapped(index) == index
AsByte(index) == index % ByteSize
Ask(c, opcode, index) ==
    /\ step' = [step EXCEPT ![c] = "written"]
    /\ asked' = [asked EXCEPT ![c] = [opcode |-> opcode, index |-> index]]
    /\ toTarget' = Append(toTarget, [opcode |-> opcode, index |-> AsByte(index)])

\* A caller begins, when its last request is over.
Begin(c, opcode, index) ==
    /\ step[c] = "idle" /\ requests < MaxRequests /\ requests' = requests + 1
    /\ Ask(c, opcode, index) /\ error' = [error EXCEPT ![c] = 0]
    /\ mixed' = (mixed \/ \E d \in Callers : step[d] # "idle")
    /\ UNCHANGED <<targetVars, garbled, mailboxVars, toHost, unnamed, faults>>

Request == Begin("operation", Create, 0) /\ UNCHANGED <<all, list>>

GetVersion ==
    /\ \/ \E o \in {ProtocolVersion, HardwareVersion} : Begin("query", o, 0) /\ all' = FALSE
       \/ \E index \in Indices : Begin("query", FirmwareVersion, index) /\ all' = FALSE
       \/ Begin("query", FirmwareVersion, 0) /\ all' = TRUE
    /\ list' = <<>>

\* The promise of the request is settled: rejected with a code, or resolved with 0.
Settle(c, code) ==
    /\ step' = [step EXCEPT ![c] = "idle"] /\ error' = [error EXCEPT ![c] = code]
    /\ asked' = [asked EXCEPT ![c] = Nothing] /\ garbled' = [garbled EXCEPT ![c] = FALSE]
    /\ UNCHANGED <<list, toTarget>>

\* getFirmwareVersion(): there is no image, one of an unknown type, for which ErrorCode
\* has no name, or one more, after which getAllFirmwareVersions() asks for the next.
SameIndex(index) == index
NextIndex(index) == index + 1
Image(p) ==
    \/ p.image = NoImage /\ Settle("query", 0)
    \/ p.image \in strange /\ Settle("query", Missing)
    \/ /\ p.image # NoImage /\ p.image \notin strange
       /\ list' = Append(list, p.image) /\ garbled' = [garbled EXCEPT !["query"] = FALSE]
       /\ error' = [error EXCEPT !["query"] = 0]
       /\ IF all THEN Ask("query", FirmwareVersion, NextIndex(asked["query"].index))
          ELSE /\ step' = [step EXCEPT !["query"] = "idle"]
               /\ asked' = [asked EXCEPT !["query"] = Nothing] /\ UNCHANGED toTarget

\* The promise of read() has resolved with the response parsed from packet p.
Resolve(c, p) ==
    LET opcode == asked[c].opcode
        response == AssertPacket(Parse(p), opcode, Length[opcode])
    IN  \/ response.is = "rejected" /\ Settle(c, response.code)
        \/ /\ response.is = "resolved"
           /\ IF opcode = FirmwareVersion THEN Image(p) ELSE Settle(c, 0)

-----------------------------------------------------------------------------
(* The mailbox                                                             *)

\* read(): throws when somebody is waiting already.
Read(c) ==
    /\ step[c] = "written"
    /\ \/ waiting # Nobody /\ Settle(c, ERROR_READ_CONFLICT) /\ UNCHANGED mailboxVars
       \/ /\ waiting = Nobody /\ stored # NoPacket
          /\ stored' = NoPacket /\ Resolve(c, stored) /\ UNCHANGED waiting
       \/ /\ waiting = Nobody /\ stored = NoPacket
          /\ waiting' = c /\ step' = [step EXCEPT ![c] = "reading"]
          /\ UNCHANGED <<asked, error, garbled, list, stored, toTarget>>
    /\ UNCHANGED <<targetVars, all, mixed, toHost, unnamed, requests, faults>>

\* onData(): throws when a packet is unread; so does parse(), after the reader was taken
\* away, whose promise is left to its timeout.
OnData ==
    /\ toHost # <<>> /\ toHost' = Tail(toHost)
    /\ LET p == Head(toHost)
           quiet == UNCHANGED <<step, asked, error, list, toTarget>>
       IN  \/ stored # NoPacket /\ quiet /\ UNCHANGED <<garbled, mailboxVars>>
           \/ /\ stored = NoPacket /\ waiting # Nobody /\ waiting' = Nobody /\ UNCHANGED stored
              /\ IF Parse(p).is = "thrown" THEN quiet /\ garbled' = [garbled EXCEPT ![waiting] = TRUE]
                 ELSE Resolve(waiting, p)
           \/ /\ stored = NoPacket /\ waiting = Nobody /\ quiet /\ UNCHANGED <<garbled, waiting>>
              /\ IF Parse(p).is = "thrown" THEN UNCHANGED stored ELSE stored' = p
    /\ UNCHANGED <<targetVars, all, mixed, unnamed, requests, faults>>

\* The five seconds of c's reader are over, because nothing comes or it comes late.  Its
\* callback is taken away only if it is the one that waits.
TimeoutOfAny(c) == Nobody
TimeoutOf(c) == IF waiting = c THEN Nobody ELSE waiting
TimeoutUnrejected(c) ==
    /\ step[c] = "reading" /\ waiting' = TimeoutOf(c)
    /\ UNCHANGED <<targetVars, callerVars, stored, toTarget, toHost, unnamed, requests, faults>>
Timeout(c) ==
    /\ step[c] = "reading"
    /\ IF waiting = c /\ (toTarget # <<>> \/ toHost # <<>>) THEN Fault ELSE UNCHANGED faults
    /\ waiting' = TimeoutOf(c) /\ Settle(c, ERROR_TIMEOUT_READING_SERIAL)
    /\ UNCHANGED <<targetVars, all, mixed, stored, toHost, unnamed, requests>>

-----------------------------------------------------------------------------
(* The target and the line, which are not part of the library.             *)

Answer(command) ==
    [start |-> 96, opcode |-> command.opcode, result |-> ERROR_MESSAGE_RSP, ext |-> Missing,
     length |-> Length[command.opcode],
     image |-> IF command.opcode = FirmwareVersion /\ command.index < images
               THEN command.index ELSE NoImage]

Refusal(command, code) ==
    [start |-> 96, opcode |-> command.opcode, result |-> code[1], ext |-> code[2],
     length |-> 0, image |-> NoImage]

\* A result code, and an extended error code, that the documentation of the target names.
Named(code) ==
    \/ code[1] # 11 /\ 256 + code[1] \in ResponseErrorMessages
    \/ code[1] = 11 /\ 512 + code[2] \in ExtendedErrorMessages

TargetHandles ==
    /\ toTarget # <<>> /\ toTarget' = Tail(toTarget)
    /\ \/ /\ toHost' = Append(toHost, Answer(Head(toTarget)))
          /\ unnamed' = (unnamed \/ Answer(Head(toTarget)).image \in strange)
       \/ \E code \in Refusals : /\ toHost' = Append(toHost, Refusal(Head(toTarget), code))
                                 /\ unnamed' = (unnamed \/ ~Named(code))
    /\ UNCHANGED <<targetVars, callerVars, mailboxVars, requests, faults>>

Lose ==
    /\ Fault
    /\ \/ toTarget # <<>> /\ toTarget' = Tail(toTarget) /\ UNCHANGED toHost
       \/ toHost # <<>> /\ toHost' = Tail(toHost) /\ UNCHANGED toTarget
    /\ UNCHANGED <<targetVars, callerVars, mailboxVars, unnamed, requests>>

\* What is left of a packet after damage on the line: its first byte or two, ...
Truncate ==
    /\ toHost # <<>> /\ Fault
    /\ toHost' = [toHost EXCEPT ![1] = [NoPacket EXCEPT !.start = 96, !.opcode = Head(toHost).opcode]]
    /\ UNCHANGED <<targetVars, callerVars, mailboxVars, toTarget, unnamed, requests>>

\* ... or not the first.
Behead ==
    /\ toHost # <<>> /\ Fault
    /\ toHost' = [toHost EXCEPT ![1] = [NoPacket EXCEPT !.start = Head(toHost).opcode]]
    /\ UNCHANGED <<targetVars, callerVars, mailboxVars, toTarget, unnamed, requests>>

-----------------------------------------------------------------------------
Next ==
    \/ Request \/ GetVersion
    \/ (\E c \in Callers : Read(c) \/ Timeout(c)) \/ OnData
    \/ TargetHandles \/ Lose \/ Truncate \/ Behead

Spec == Init /\ [][Next]_vars

\* Promise callbacks and timers run, and what is not lost is delivered.
FairSpec ==
    /\ Spec /\ WF_vars(OnData) /\ WF_vars(TargetHandles)
    /\ \A c \in Callers : WF_vars(Read(c)) /\ WF_vars(Timeout(c))

-----------------------------------------------------------------------------
Packets == [start : Bytes \cup {Missing}, opcode : Opcodes \cup {Missing},
            result : Bytes \cup {Missing}, ext : Bytes \cup {Missing},
            length : 0 .. 20, image : 0 .. MaxImages \cup {NoImage}]
Commands == [opcode : Opcodes, index : 0 .. ByteSize - 1]

TypeOK ==
    /\ images \in 0 .. MaxImages /\ strange \subseteq 0 .. images - 1
    /\ step \in [Callers -> {"idle", "written", "reading"}]
    /\ asked \in [Callers -> [opcode : Opcodes, index : Nat]]
    /\ error \in [Callers -> Nat \cup {Missing}] /\ garbled \in [Callers -> BOOLEAN]
    /\ all \in BOOLEAN /\ list \in Seq(0 .. MaxImages)
    /\ stored \in Packets /\ waiting \in Callers \cup {Nobody}
    /\ toTarget \in Seq(Commands) /\ toHost \in Seq(Packets)
    /\ mixed \in BOOLEAN /\ unnamed \in BOOLEAN /\ requests \in Nat /\ faults \in Nat

\* Whoever reads has a callback in the mailbox until its own answer or its own timeout
\* comes: another caller's read(), answer or timeout does not take it away, and only a
\* packet that parse() cannot even reject does so without settling the request; and no
\* packet is left unread while somebody waits (DfuTransportPrn.js:120-169).
ReaderKept ==
    /\ \A c \in Callers : step[c] = "reading" /\ ~garbled[c] => waiting = c
    /\ waiting # Nobody => step[waiting] = "reading" /\ stored = NoPacket

\* As long as the callers take turns and nothing is lost or late, getAllFirmwareVersions()
\* tells of the target's images, in order, and of all when it succeeds.  With both at once
\* it may not: a query rejected by ERROR_READ_CONFLICT leaves an answer behind that a
\* later one takes for its own (DfuTransportSerial.js:233-297, DfuTransportPrn.js:120-123).
VersionsAreTheTargets ==
    ~mixed /\ faults = 0 /\ all =>
        /\ \A n \in DOMAIN list : list[n] = n - 1
        /\ step["query"] = "idle" /\ error["query"] = 0 => Len(list) = images

\* A rejection has a code with a message, unless the target said something that has no
\* name: then the code is undefined, as the codes meant for it are missing from ErrorCode
\* (DfuTransportPrn.js:175-210, DfuTransportSerial.js:264, DfuError.js:45-106).
ErrorsAreNamed == ~unnamed => \A c \in Callers : error[c] = 0 \/ HasMessage(error[c])

\* Every request settles, also if its packet made parse() throw, and every query for all
\* images comes to its end (DfuTransportPrn.js:134-150, DfuTransportSerial.js:288-297).
CallersSettle == \A c \in Callers : step[c] # "idle" ~> step[c] = "idle"
=============================================================================
