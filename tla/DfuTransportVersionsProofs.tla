--------------------- MODULE DfuTransportVersionsProofs ---------------------
(***************************************************************************)
(* What DfuTransportVersions guarantees for every number of images, every  *)
(* refusal and any number of requests, lost, late or damaged packets.      *)
(*                                                                         *)
(* IInv adds to the properties that only a query asks for versions, and    *)
(* that what is on its way to the host has a name as long as the target    *)
(* said nothing that has none (NamedPackets).  InTurn says of two callers  *)
(* that take turns on a line without faults that no more than one request  *)
(* or the reply to it is under way, and none when both are idle: this is   *)
(* what VersionsAreTheTargets rests on.                                    *)
(***************************************************************************)
EXTENDS DfuTransportVersions, SequenceTheorems, TLAPS

\* parse() and getFirmwareVersion() have a message for whatever is wrong with a packet.
Sound == {p \in Packets : /\ p.image \notin strange
                          /\ Parse(p).is = "rejected" => HasMessage(Parse(p).code)}

NamedPackets == ~unnamed => stored \in Sound /\ toHost \in Seq(Sound)

\* The operation does not ask for versions.
OperationAsks == asked["operation"].opcode = Create

IInv == TypeOK /\ OperationAsks /\ ReaderKept /\ NamedPackets /\ ErrorsAreNamed

-----------------------------------------------------------------------------
(* Packets                                                                 *)

\* Of either direction of the line.
LEMMA Taken ==
    ASSUME NEW S, NEW s \in Seq(S), s # <<>>
    PROVE  Head(s) \in S /\ Tail(s) \in Seq(S)
OBVIOUS

\* The first of them changed.
LEMMA Changed ==
    ASSUME NEW S, NEW s \in Seq(S), s # <<>>, NEW e \in S
    PROVE  [s EXCEPT ![1] = e] \in Seq(S)
<1>1. 1 \in 1 .. Len(s)
  OBVIOUS
<1> QED BY <1>1, ExceptSeq

\* The bytes that occur.
LEMMA KnownBytes == 96 \in Bytes /\ ERROR_MESSAGE_RSP \in Bytes /\ Opcodes \subseteq Bytes \ {96}
BY DEF Bytes, ERROR_MESSAGE_RSP, Opcodes, Create, ProtocolVersion, HardwareVersion, FirmwareVersion

\* The codes with a message, of each of the three types.
LEMMA Messages ==
    /\ \A code \in ErrorMessages \cup ResponseErrorMessages \cup ExtendedErrorMessages :
            code \in Nat /\ HasMessage(code)
    /\ {ERROR_READ_CONFLICT, ERROR_TIMEOUT_READING_SERIAL, ERROR_RESPONSE_NOT_START_WITH_0x60,
        ERROR_UNEXPECTED_RESPONSE_OPCODE, ERROR_UNEXPECTED_RESPONSE_BYTES} \subseteq ErrorMessages
<1>1. ASSUME NEW code \in ErrorMessages PROVE code \in Nat /\ HasMessage(code)
  BY DEF ErrorMessages, HasMessage, TypeOf, Missing
<1>2. ASSUME NEW code \in ResponseErrorMessages PROVE code \in Nat /\ HasMessage(code)
  BY DEF ResponseErrorMessages, HasMessage, TypeOf, Missing, ERROR_MESSAGE_RSP
<1>3. ASSUME NEW code \in ExtendedErrorMessages PROVE code \in Nat /\ HasMessage(code)
  BY DEF ExtendedErrorMessages, HasMessage, TypeOf, Missing, ERROR_MESSAGE_EXT
<1>4. {ERROR_READ_CONFLICT, ERROR_TIMEOUT_READING_SERIAL, ERROR_RESPONSE_NOT_START_WITH_0x60,
       ERROR_UNEXPECTED_RESPONSE_OPCODE, ERROR_UNEXPECTED_RESPONSE_BYTES} \subseteq ErrorMessages
  BY DEF ERROR_READ_CONFLICT, ERROR_TIMEOUT_READING_SERIAL, ERROR_RESPONSE_NOT_START_WITH_0x60,
         ERROR_UNEXPECTED_RESPONSE_OPCODE, ERROR_UNEXPECTED_RESPONSE_BYTES, ErrorMessages
<1> QED BY <1>1, <1>2, <1>3, <1>4

\* What parse() may return.
LEMMA ParseFacts ==
    ASSUME NEW p
    PROVE  /\ Parse(p).is \in {"resolved", "rejected", "thrown"}
           /\ Parse(p).code \in Nat \cup {Missing}
<1>1. /\ Throws.is = "thrown" /\ Throws.code = Missing
      /\ Resolves(p).is = "resolved" /\ Resolves(p).code = 0
      /\ \A code : Rejects(code).is = "rejected" /\ Rejects(code).code = code
  BY DEF Throws, Resolves, Rejects
<1>2. ERROR_RESPONSE_NOT_START_WITH_0x60 \in Nat
  BY DEF ERROR_RESPONSE_NOT_START_WITH_0x60
<1>3. CASE Parse(p) \in {Throws, Resolves(p), Rejects(ERROR_RESPONSE_NOT_START_WITH_0x60), Rejects(Missing)}
  BY <1>1, <1>2, <1>3
<1>4. CASE \E code \in ResponseErrorMessages \cup ExtendedErrorMessages : Parse(p) = Rejects(code)
  BY <1>1, <1>4, Messages
<1> QED BY <1>3, <1>4 DEF Parse, Known, Unknown, ERROR_RSP_OPCODE_UNKNOWN, ERROR_EXT_ERROR_CODE_UNKNOWN

\* assertPacket() rejects what parse() rejected, or for a reason of its own.
LEMMA AssertFacts ==
    ASSUME NEW p, NEW opcode, NEW length
    PROVE  LET response == AssertPacket(Parse(p), opcode, length)
           IN  /\ response.is = "rejected" => response.code \in Nat \cup {Missing}
               /\ response.is = "rejected" => response = Parse(p) \/ HasMessage(response.code)
<1> DEFINE response == AssertPacket(Parse(p), opcode, length)
<1>1. \A code : Rejects(code).code = code
  BY DEF Rejects
<1>2. CASE response = Parse(p)
  BY <1>2, ParseFacts
<1>3. CASE response = Rejects(ERROR_UNEXPECTED_RESPONSE_OPCODE)
  BY <1>1, <1>3, Messages
<1>4. CASE response = Rejects(ERROR_UNEXPECTED_RESPONSE_BYTES)
  BY <1>1, <1>4, Messages
<1> QED BY <1>2, <1>3, <1>4 DEF AssertPacket

\* A packet that is not there, or of which a byte or two are left, is one, and is Sound.
LEMMA Remains ==
    ASSUME TypeOK
    PROVE  /\ NoPacket \in Packets /\ NoPacket \in Sound
           /\ \A o \in Bytes \cup {Missing} : [NoPacket EXCEPT !.start = o] \in Packets
           /\ \A o \in Opcodes \cup {Missing} :
                /\ [NoPacket EXCEPT !.start = 96, !.opcode = o] \in Sound
                /\ [NoPacket EXCEPT !.start = o] \in Sound
<1>1. NoImage \notin strange
  BY DEF TypeOK, NoImage, Missing
<1>2. \A o \in Bytes \cup {Missing} : [NoPacket EXCEPT !.start = o] \in Packets
  BY DEF NoPacket, Packets
<1>3. NoPacket \in Packets
  BY DEF NoPacket, Packets
<1>4. \A o \in Opcodes \cup {Missing} : [NoPacket EXCEPT !.start = 96, !.opcode = o] \in Packets
  <2> SUFFICES ASSUME NEW o \in Opcodes \cup {Missing}
               PROVE  [NoPacket EXCEPT !.start = 96, !.opcode = o] \in Packets
    OBVIOUS
  <2> DEFINE q == [NoPacket EXCEPT !.start = 96]
  <2>1. q \in Packets
    BY <1>2, KnownBytes
  <2> HIDE DEF q
  <2>2. [q EXCEPT !.opcode = o] \in Packets
    BY <2>1 DEF Packets
  <2> QED BY <2>2 DEF q
<1>5. \A p : p.start # 96 => HasMessage(Parse(p).code)
  BY Messages DEF Parse, Rejects
<1>6. Missing # 96 /\ \A o \in Opcodes : o # 96 /\ o \in Bytes
  BY KnownBytes DEF Missing
<1>7. \A p : p.start = 96 /\ p.result = Missing => Parse(p).is = "thrown"
  <2>1. /\ Missing # ERROR_MESSAGE_RSP /\ ~Known(ERROR_MESSAGE_RSP, Missing, ResponseErrorMessages)
        /\ Missing # ExtCode
    BY DEF Missing, ERROR_MESSAGE_RSP, Known, ResponseErrorMessages, ExtCode, ERROR_RSP_EXT_ERROR
  <2> QED BY <2>1 DEF Parse, Unknown, Throws
<1>8. NoPacket \in Sound
  <2>1. NoPacket.start = Missing /\ NoPacket.image = NoImage
    BY DEF NoPacket
  <2> QED BY <1>1, <1>3, <1>5, <1>6, <2>1 DEF Sound
<1>9. ASSUME NEW o \in Opcodes \cup {Missing}
      PROVE  /\ [NoPacket EXCEPT !.start = 96, !.opcode = o] \in Sound
             /\ [NoPacket EXCEPT !.start = o] \in Sound
  <2> DEFINE p == [NoPacket EXCEPT !.start = 96, !.opcode = o]
  <2> DEFINE q == [NoPacket EXCEPT !.start = o]
  <2>1. p.start = 96 /\ p.result = Missing /\ p.image = NoImage /\ q.start = o /\ q.image = NoImage
    BY DEF NoPacket
  <2>2. p \in Packets /\ q \in Packets
    BY <1>2, <1>4, <1>6
  <2> HIDE DEF p, q
  <2>3. p \in Sound
    BY <1>1, <1>7, <2>1, <2>2 DEF Sound
  <2>4. q \in Sound
    BY <1>1, <1>5, <1>6, <2>1, <2>2 DEF Sound
  <2> QED BY <2>3, <2>4 DEF p, q
<1> QED BY <1>2, <1>3, <1>8, <1>9

\* Whatever the target is asked, its answer is a packet; if it has a name, a Sound one.
LEMMA AnswerFacts ==
    ASSUME TypeOK, NEW command \in Commands
    PROVE  /\ Answer(command) \in Packets
           /\ Answer(command).image \notin strange => Answer(command) \in Sound
<1>1. command.opcode \in Opcodes /\ command.index \in 0 .. ByteSize - 1
  BY DEF Commands
<1>2. Length[command.opcode] \in 0 .. 20
  BY <1>1 DEF Length
<1>3. Answer(command).image \in 0 .. MaxImages \cup {NoImage}
  BY <1>1, VersionsAssumption DEF Answer, TypeOK
<1>4. Answer(command) \in Packets
  BY <1>1, <1>2, <1>3, KnownBytes DEF Answer, Packets
<1>5. Parse(Answer(command)).is = "resolved"
  BY DEF Answer, Parse, Resolves
<1> QED BY <1>4, <1>5 DEF Sound

\* A refusal is a packet, too; Sound, if what it says has a name.
LEMMA RefusalFacts ==
    ASSUME TypeOK, NEW command \in Commands, NEW code \in Refusals
    PROVE  /\ Refusal(command, code) \in Packets
           /\ Named(code) => Refusal(command, code) \in Sound
<1> DEFINE p == Refusal(command, code)
<1>1. code[1] \in Bytes \ {ERROR_MESSAGE_RSP} /\ code[2] \in Bytes \cup {Missing}
  BY VersionsAssumption
<1>2. /\ p.start = 96 /\ p.result = code[1] /\ p.ext = code[2] /\ p.image = NoImage
      /\ p \in Packets
  BY <1>1, KnownBytes DEF Refusal, Packets, Commands
<1> HIDE DEF p
<1>3. NoImage \notin strange
  BY DEF TypeOK, NoImage, Missing
<1>4. code[1] \in Nat
  BY <1>1 DEF Bytes
<1>5. ASSUME code[1] # 11, 256 + code[1] \in ResponseErrorMessages PROVE p \in Sound
  <2>1. (ERROR_MESSAGE_RSP * 256) + p.result = 256 + code[1]
    BY <1>2, <1>4 DEF ERROR_MESSAGE_RSP
  <2>2. Parse(p).code = 256 + code[1]
    BY <1>1, <1>2, <1>5, <2>1 DEF Parse, Known, Rejects
  <2> QED BY <1>2, <1>3, <1>5, <2>2, Messages DEF Sound
<1>6. ASSUME code[1] = 11, 512 + code[2] \in ExtendedErrorMessages PROVE p \in Sound
  <2>1. code[2] \in Int
    BY <1>1 DEF Bytes, Missing
  <2>2. (ERROR_MESSAGE_EXT * 256) + p.ext = 512 + code[2]
    BY <1>2, <2>1 DEF ERROR_MESSAGE_EXT
  <2>3. (ERROR_MESSAGE_RSP * 256) + p.result \notin ResponseErrorMessages /\ p.result = ExtCode
    BY <1>2, <1>6 DEF ERROR_MESSAGE_RSP, ResponseErrorMessages, ExtCode, ERROR_RSP_EXT_ERROR
  <2>4. Parse(p).code = 512 + code[2]
    BY <1>1, <1>2, <1>6, <2>2, <2>3 DEF Parse, Known, Rejects
  <2> QED BY <1>2, <1>3, <1>6, <2>4, Messages DEF Sound
<1> QED BY <1>2, <1>5, <1>6 DEF Named, p

-----------------------------------------------------------------------------
\* Two idle callers and a silent target.
LEMMA InitInv == Init => IInv
<1> SUFFICES ASSUME Init PROVE IInv
  OBVIOUS
<1>1. images \in 0 .. MaxImages /\ strange \subseteq 0 .. images - 1
  BY DEF Init
<1>2. Nothing \in [opcode : Opcodes, index : Nat] /\ Nothing.opcode = Create
  BY DEF Nothing, Opcodes
<1>3. NoPacket \in Packets
  BY DEF NoPacket, Packets
<1>4. TypeOK
  <2>1. /\ step \in [Callers -> {"idle", "written", "reading"}]
        /\ asked \in [Callers -> [opcode : Opcodes, index : Nat]]
        /\ error \in [Callers -> Nat \cup {Missing}] /\ garbled \in [Callers -> BOOLEAN]
    BY <1>2 DEF Init
  <2>2. list \in Seq(0 .. MaxImages) /\ toTarget \in Seq(Commands) /\ toHost \in Seq(Packets)
    BY DEF Init
  <2>3. stored \in Packets /\ waiting \in Callers \cup {Nobody} /\ requests \in Nat /\ faults \in Nat
    BY <1>3 DEF Init
  <2> QED BY <1>1, <2>1, <2>2, <2>3 DEF Init, TypeOK
<1>5. OperationAsks /\ ReaderKept
  BY <1>2 DEF Init, OperationAsks, ReaderKept, Callers, Nobody
<1>6. NamedPackets /\ ErrorsAreNamed
  <2>1. stored \in Sound /\ toHost \in Seq(Sound)
    <3>1. NoPacket \in Sound
      BY <1>4, Remains
    <3> QED BY <3>1 DEF Init
  <2>2. \A c \in Callers : error[c] = 0
    BY DEF Init
  <2> QED BY <2>1, <2>2 DEF NamedPackets, ErrorsAreNamed
<1> QED BY <1>4, <1>5, <1>6 DEF IInv

-----------------------------------------------------------------------------
(* The callers                                                             *)

\* The request of c is settled or, if all images were asked for, followed by another; other
\* callers are left alone, and a rejection has a message.
Answered(c) ==
    /\ step' \in [Callers -> {"idle", "written", "reading"}]
    /\ step'[c] \in {"idle", "written"} /\ \A d \in Callers \ {c} : step'[d] = step[d]
    /\ asked' \in [Callers -> [opcode : Opcodes, index : Nat]] /\ OperationAsks'
    /\ error' \in [Callers -> Nat \cup {Missing}]
    /\ ~unnamed => \A d \in Callers : error'[d] = 0 \/ HasMessage(error'[d])
    /\ garbled' \in [Callers -> BOOLEAN] /\ \A d \in Callers \ {c} : garbled'[d] = garbled[d]
    /\ list' \in Seq(0 .. MaxImages) /\ toTarget' \in Seq(Commands)

\* What an idle caller asked for.
LEMMA NothingFacts == Nothing \in [opcode : Opcodes, index : Nat] /\ Nothing.opcode = Create
BY DEF Nothing, Opcodes

\* A request that is settled with a code.
LEMMA SettleFacts ==
    ASSUME IInv, NEW c \in Callers, NEW code \in Nat \cup {Missing}, Settle(c, code),
           ~unnamed => code = 0 \/ HasMessage(code)
    PROVE  Answered(c)
<1>1. /\ step' = [step EXCEPT ![c] = "idle"] /\ error' = [error EXCEPT ![c] = code]
      /\ asked' = [asked EXCEPT ![c] = Nothing] /\ garbled' = [garbled EXCEPT ![c] = FALSE]
      /\ list' = list /\ toTarget' = toTarget
  BY DEF Settle
<1>2. /\ step \in [Callers -> {"idle", "written", "reading"}]
      /\ asked \in [Callers -> [opcode : Opcodes, index : Nat]]
      /\ error \in [Callers -> Nat \cup {Missing}] /\ garbled \in [Callers -> BOOLEAN]
      /\ list \in Seq(0 .. MaxImages) /\ toTarget \in Seq(Commands)
  BY DEF IInv, TypeOK
<1>3. /\ step' \in [Callers -> {"idle", "written", "reading"}]
      /\ step'[c] = "idle" /\ \A d \in Callers \ {c} : step'[d] = step[d]
  BY <1>1, <1>2
<1>4. asked' \in [Callers -> [opcode : Opcodes, index : Nat]]
  BY <1>1, <1>2, NothingFacts
<1>5. OperationAsks'
  BY <1>1, <1>2, NothingFacts DEF OperationAsks, IInv, Callers
<1>6. /\ error' \in [Callers -> Nat \cup {Missing}]
      /\ ~unnamed => \A d \in Callers : error'[d] = 0 \/ HasMessage(error'[d])
  BY <1>1, <1>2 DEF IInv, ErrorsAreNamed
<1>7. garbled' \in [Callers -> BOOLEAN] /\ \A d \in Callers \ {c} : garbled'[d] = garbled[d]
  BY <1>1, <1>2
<1> QED BY <1>1, <1>2, <1>3, <1>4, <1>5, <1>6, <1>7 DEF Answered

\* A command that asks for an index of one byte.
LEMMA AskFacts ==
    ASSUME TypeOK, NEW c \in Callers, NEW opcode \in Opcodes, NEW index \in Nat, Ask(c, opcode, index)
    PROVE  /\ step' = [step EXCEPT ![c] = "written"]
           /\ asked' \in [Callers -> [opcode : Opcodes, index : Nat]]
           /\ asked'[c].opcode = opcode /\ \A d \in Callers \ {c} : asked'[d] = asked[d]
           /\ toTarget' \in Seq(Commands)
<1>1. AsByte(index) \in 0 .. ByteSize - 1
  BY VersionsAssumption DEF AsByte
<1>2. [opcode |-> opcode, index |-> AsByte(index)] \in Commands
  BY <1>1 DEF Commands
<1>3. toTarget' \in Seq(Commands)
  BY <1>2 DEF Ask, TypeOK
<1>4. /\ asked' = [asked EXCEPT ![c] = [opcode |-> opcode, index |-> index]]
      /\ step' = [step EXCEPT ![c] = "written"]
  BY DEF Ask
<1>5. asked \in [Callers -> [opcode : Opcodes, index : Nat]]
  BY DEF TypeOK
<1> QED BY <1>3, <1>4, <1>5

\* Whatever a version query makes of a packet of its own.
LEMMA ImageFacts ==
    ASSUME IInv, NEW p \in Packets, ~unnamed => p \in Sound, Image(p)
    PROVE  Answered("query")
<1>1. "query" \in Callers
  BY DEF Callers
<1>2. CASE p.image = NoImage /\ Settle("query", 0)
  BY <1>1, <1>2, SettleFacts
<1>3. CASE p.image \in strange /\ Settle("query", Missing)
  BY <1>1, <1>3, SettleFacts DEF Sound
<1>4. CASE /\ p.image # NoImage /\ p.image \notin strange
           /\ list' = Append(list, p.image) /\ garbled' = [garbled EXCEPT !["query"] = FALSE]
           /\ error' = [error EXCEPT !["query"] = 0]
           /\ IF all THEN Ask("query", FirmwareVersion, NextIndex(asked["query"].index))
              ELSE /\ step' = [step EXCEPT !["query"] = "idle"]
                   /\ asked' = [asked EXCEPT !["query"] = Nothing] /\ UNCHANGED toTarget
  <2>1. /\ step \in [Callers -> {"idle", "written", "reading"}]
        /\ asked \in [Callers -> [opcode : Opcodes, index : Nat]]
        /\ error \in [Callers -> Nat \cup {Missing}] /\ garbled \in [Callers -> BOOLEAN]
        /\ list \in Seq(0 .. MaxImages) /\ toTarget \in Seq(Commands)
    BY DEF IInv, TypeOK
  <2>2. p.image \in 0 .. MaxImages
    BY <1>4 DEF Packets
  <2>3. list' \in Seq(0 .. MaxImages)
    BY <1>4, <2>1, <2>2
  <2>4. garbled' \in [Callers -> BOOLEAN] /\ \A d \in Callers \ {"query"} : garbled'[d] = garbled[d]
    BY <1>4, <2>1
  <2>5. /\ error' \in [Callers -> Nat \cup {Missing}]
        /\ ~unnamed => \A d \in Callers : error'[d] = 0 \/ HasMessage(error'[d])
    BY <1>4, <2>1 DEF IInv, ErrorsAreNamed
  <2>6. CASE all
    <3>1. FirmwareVersion \in Opcodes /\ NextIndex(asked["query"].index) \in Nat
      BY <1>1, <2>1 DEF Opcodes, NextIndex
    <3>2. /\ step' = [step EXCEPT !["query"] = "written"]
          /\ asked' \in [Callers -> [opcode : Opcodes, index : Nat]]
          /\ \A d \in Callers \ {"query"} : asked'[d] = asked[d]
          /\ toTarget' \in Seq(Commands)
      BY <1>1, <1>4, <2>6, <3>1, AskFacts DEF IInv
    <3>3. OperationAsks'
      BY <3>2 DEF OperationAsks, IInv, Callers
    <3> QED BY <1>1, <2>1, <2>3, <2>4, <2>5, <3>2, <3>3 DEF Answered
  <2>7. CASE ~all
    <3>1. /\ step' = [step EXCEPT !["query"] = "idle"] /\ asked' = [asked EXCEPT !["query"] = Nothing]
          /\ toTarget' = toTarget
      BY <1>4, <2>7
    <3>2. OperationAsks' /\ asked' \in [Callers -> [opcode : Opcodes, index : Nat]]
      BY <2>1, <3>1, NothingFacts DEF OperationAsks, IInv, Callers
    <3> QED BY <1>1, <2>1, <2>3, <2>4, <2>5, <3>1, <3>2 DEF Answered
  <2> QED BY <2>6, <2>7
<1> QED BY <1>2, <1>3, <1>4 DEF Image

\* Whatever c makes of a packet.
LEMMA ResolveFacts ==
    ASSUME IInv, NEW c \in Callers, NEW p \in Packets, ~unnamed => p \in Sound, Resolve(c, p)
    PROVE  Answered(c)
<1> DEFINE response == AssertPacket(Parse(p), asked[c].opcode, Length[asked[c].opcode])
<1>1. CASE response.is = "rejected" /\ Settle(c, response.code)
  <2>1. response.code \in Nat \cup {Missing} /\ (response = Parse(p) \/ HasMessage(response.code))
    BY <1>1, AssertFacts
  <2>2. ~unnamed => HasMessage(response.code)
    BY <1>1, <2>1 DEF Sound
  <2> HIDE DEF response
  <2> QED BY <1>1, <2>1, <2>2, SettleFacts
<1>2. CASE asked[c].opcode = FirmwareVersion /\ Image(p)
  <2>1. c = "query"
    BY <1>2 DEF IInv, OperationAsks, Create, FirmwareVersion, Callers
  <2> QED BY <1>2, <2>1, ImageFacts
<1>3. CASE Settle(c, 0)
  BY <1>3, SettleFacts
<1> QED BY <1>1, <1>2, <1>3 DEF Resolve

-----------------------------------------------------------------------------
(* The steps                                                               *)

\* A caller begins.
LEMMA BeginInv ==
    ASSUME IInv, NEW c \in Callers, NEW opcode \in Opcodes, NEW index \in Nat, Begin(c, opcode, index),
           all' \in BOOLEAN, list' \in Seq(0 .. MaxImages), c = "operation" => opcode = Create
    PROVE  IInv'
<1>1. /\ Ask(c, opcode, index) /\ step[c] = "idle" /\ requests' = requests + 1
      /\ error' = [error EXCEPT ![c] = 0] /\ mixed' \in BOOLEAN
      /\ UNCHANGED <<targetVars, garbled, mailboxVars, toHost, unnamed, faults>>
  BY DEF Begin
<1>2. /\ step' = [step EXCEPT ![c] = "written"]
      /\ asked' \in [Callers -> [opcode : Opcodes, index : Nat]]
      /\ asked'[c].opcode = opcode /\ \A d \in Callers \ {c} : asked'[d] = asked[d]
      /\ toTarget' \in Seq(Commands)
  BY <1>1, AskFacts DEF IInv
<1>3. /\ step \in [Callers -> {"idle", "written", "reading"}] /\ error \in [Callers -> Nat \cup {Missing}]
  BY DEF IInv, TypeOK
<1>4. TypeOK'
  <2>1. step' \in [Callers -> {"idle", "written", "reading"}] /\ error' \in [Callers -> Nat \cup {Missing}]
    BY <1>1, <1>2, <1>3
  <2>2. requests' \in Nat
    BY <1>1 DEF IInv, TypeOK
  <2> QED BY <1>1, <1>2, <2>1, <2>2 DEF IInv, TypeOK, targetVars, mailboxVars
<1>5. OperationAsks'
  BY <1>2 DEF IInv, OperationAsks, Callers
<1>6. ReaderKept'
  <2>1. waiting' = waiting /\ stored' = stored /\ garbled' = garbled /\ waiting \in Callers \cup {Nobody}
    BY <1>1 DEF mailboxVars, IInv, TypeOK
  <2>2. step'[c] = "written" /\ \A d \in Callers \ {c} : step'[d] = step[d]
    BY <1>2, <1>3
  <2> QED BY <1>1, <2>1, <2>2 DEF IInv, ReaderKept
<1>7. NamedPackets'
  BY <1>1 DEF IInv, NamedPackets, Sound, targetVars, mailboxVars
<1>8. ErrorsAreNamed'
  BY <1>1, <1>3 DEF IInv, ErrorsAreNamed
<1> QED BY <1>4, <1>5, <1>6, <1>7, <1>8 DEF IInv

\* The operation asks for something.
LEMMA RequestInv == ASSUME IInv, Request PROVE IInv'
<1>1. Begin("operation", Create, 0) /\ UNCHANGED <<all, list>>
  BY DEF Request
<1>2. all \in BOOLEAN /\ list \in Seq(0 .. MaxImages) /\ "operation" \in Callers /\ Create \in Opcodes
  BY DEF IInv, TypeOK, Callers, Opcodes
<1> QED BY <1>1, <1>2, BeginInv

\* The query asks for a version.
LEMMA GetVersionInv == ASSUME IInv, GetVersion PROVE IInv'
<1>1. PICK o \in Opcodes, index \in Nat : Begin("query", o, index) /\ all' \in BOOLEAN
  BY VersionsAssumption DEF GetVersion, Opcodes
<1>2. list' \in Seq(0 .. MaxImages) /\ "query" \in Callers
  BY DEF GetVersion, Callers
<1> QED BY <1>1, <1>2, BeginInv

\* A caller whose request was answered leaves the invariant to the mailbox.
LEMMA AnsweredInv ==
    ASSUME IInv, NEW c \in Callers, Answered(c),
           UNCHANGED <<targetVars, all, mixed, unnamed, requests>>, faults' \in Nat,
           stored' \in Packets, waiting' \in Callers \cup {Nobody}, toHost' \in Seq(Packets),
           ReaderKept', NamedPackets'
    PROVE  IInv'
<1>1. TypeOK'
  BY DEF IInv, TypeOK, Answered, targetVars
<1>2. OperationAsks' /\ ErrorsAreNamed'
  BY DEF Answered, ErrorsAreNamed
<1> QED BY <1>1, <1>2 DEF IInv

\* read()
LEMMA ReadInv == ASSUME IInv, NEW c \in Callers, Read(c) PROVE IInv'
<1>1. step[c] = "written" /\ UNCHANGED <<targetVars, all, mixed, toHost, unnamed, requests, faults>>
  BY DEF Read
<1>2. /\ stored \in Packets /\ waiting \in Callers \cup {Nobody} /\ toHost \in Seq(Packets) /\ faults \in Nat
      /\ step \in [Callers -> {"idle", "written", "reading"}] /\ garbled \in [Callers -> BOOLEAN]
      /\ NoPacket \in Packets
  BY Remains DEF IInv, TypeOK
<1>3. CASE waiting # Nobody /\ Settle(c, ERROR_READ_CONFLICT) /\ UNCHANGED mailboxVars
  <2>1. ERROR_READ_CONFLICT \in Nat /\ HasMessage(ERROR_READ_CONFLICT)
    BY Messages
  <2>2. Answered(c)
    BY <1>3, <2>1, SettleFacts
  <2>3. ReaderKept'
    BY <1>1, <1>2, <1>3, <2>2 DEF ReaderKept, IInv, Answered, mailboxVars
  <2>4. NamedPackets'
    BY <1>1, <1>3 DEF NamedPackets, IInv, Sound, mailboxVars, targetVars
  <2> QED BY <1>1, <1>2, <1>3, <2>2, <2>3, <2>4, AnsweredInv DEF mailboxVars
<1>4. CASE /\ waiting = Nobody /\ stored # NoPacket
           /\ stored' = NoPacket /\ Resolve(c, stored) /\ UNCHANGED waiting
  <2>1. ~unnamed => stored \in Sound
    BY DEF IInv, NamedPackets
  <2>2. Answered(c)
    BY <1>2, <1>4, <2>1, ResolveFacts
  <2>3. ReaderKept'
    BY <1>1, <1>2, <1>4, <2>2 DEF ReaderKept, IInv, Answered
  <2>4. NamedPackets'
    <3>1. Sound' = Sound
      BY <1>1 DEF Sound, targetVars
    <3>2. NoPacket \in Sound
      BY Remains DEF IInv
    <3> QED BY <1>1, <1>4, <3>1, <3>2 DEF NamedPackets, IInv
  <2> QED BY <1>1, <1>2, <1>4, <2>2, <2>3, <2>4, AnsweredInv
<1>5. CASE /\ waiting = Nobody /\ stored = NoPacket
           /\ waiting' = c /\ step' = [step EXCEPT ![c] = "reading"]
           /\ UNCHANGED <<asked, error, garbled, list, stored, toTarget>>
  <2>1. step' \in [Callers -> {"idle", "written", "reading"}]
    BY <1>2, <1>5
  <2>2. TypeOK'
    BY <1>1, <1>5, <2>1 DEF IInv, TypeOK, targetVars
  <2>3. ReaderKept'
    <3>1. Nobody \notin Callers
      BY DEF Nobody, Callers
    <3> QED BY <1>1, <1>2, <1>5, <3>1 DEF ReaderKept, IInv
  <2>4. NamedPackets' /\ ErrorsAreNamed' /\ OperationAsks'
    BY <1>1, <1>5 DEF NamedPackets, ErrorsAreNamed, OperationAsks, IInv, Sound, targetVars
  <2> QED BY <2>2, <2>3, <2>4 DEF IInv
<1> QED BY <1>3, <1>4, <1>5 DEF Read

\* The five seconds are over.
LEMMA TimeoutInv == ASSUME IInv, NEW c \in Callers, Timeout(c) PROVE IInv'
<1>1. /\ step[c] = "reading" /\ waiting' = TimeoutOf(c) /\ Settle(c, ERROR_TIMEOUT_READING_SERIAL)
      /\ UNCHANGED <<targetVars, all, mixed, stored, toHost, unnamed, requests>>
  BY DEF Timeout
<1>2. /\ stored \in Packets /\ waiting \in Callers \cup {Nobody} /\ toHost \in Seq(Packets)
      /\ step \in [Callers -> {"idle", "written", "reading"}] /\ garbled \in [Callers -> BOOLEAN]
  BY DEF IInv, TypeOK
<1>3. faults' \in Nat
  BY DEF Timeout, Fault, IInv, TypeOK
<1>4. Answered(c)
  <2>1. ERROR_TIMEOUT_READING_SERIAL \in Nat /\ HasMessage(ERROR_TIMEOUT_READING_SERIAL)
    BY Messages
  <2> QED BY <1>1, <2>1, SettleFacts
<1>5. ReaderKept'
  BY <1>1, <1>2, <1>4 DEF ReaderKept, IInv, Answered, TimeoutOf
<1>6. NamedPackets'
  BY <1>1 DEF NamedPackets, IInv, Sound, targetVars
<1> QED BY <1>1, <1>2, <1>3, <1>4, <1>5, <1>6, AnsweredInv DEF TimeoutOf

\* onData()
LEMMA OnDataInv == ASSUME IInv, OnData PROVE IInv'
<1> DEFINE p == Head(toHost)
<1> DEFINE quiet == UNCHANGED <<step, asked, error, list, toTarget>>
<1>1. /\ toHost # <<>> /\ toHost' = Tail(toHost)
      /\ UNCHANGED <<targetVars, all, mixed, unnamed, requests, faults>>
  BY DEF OnData
<1>2. /\ stored \in Packets /\ waiting \in Callers \cup {Nobody} /\ toHost \in Seq(Packets) /\ faults \in Nat
      /\ step \in [Callers -> {"idle", "written", "reading"}] /\ garbled \in [Callers -> BOOLEAN]
      /\ Nobody \notin Callers
  BY DEF IInv, TypeOK, Nobody, Callers
<1>3. p \in Packets /\ toHost' \in Seq(Packets)
  BY <1>1, <1>2, Taken
<1>4. ~unnamed => p \in Sound /\ toHost' \in Seq(Sound)
  BY <1>1, Taken DEF IInv, NamedPackets
<1>5. Sound' = Sound
  BY <1>1 DEF Sound, targetVars
<1>6. CASE stored = NoPacket /\ waiting # Nobody /\ waiting' = Nobody /\ UNCHANGED stored /\ Resolve(waiting, p)
  <2>1. waiting \in Callers
    BY <1>2, <1>6
  <2>2. Answered(waiting)
    BY <1>3, <1>4, <1>6, <2>1, ResolveFacts
  <2>3. ReaderKept'
    BY <1>2, <1>6, <2>1, <2>2 DEF ReaderKept, IInv, Answered
  <2>4. NamedPackets'
    BY <1>1, <1>4, <1>5, <1>6 DEF NamedPackets, IInv
  <2> QED BY <1>1, <1>2, <1>3, <1>6, <2>1, <2>2, <2>3, <2>4, AnsweredInv
<1>7. CASE /\ quiet /\ stored' \in {stored, p} /\ garbled' \in [Callers -> BOOLEAN]
           /\ \/ waiting' = waiting /\ garbled' = garbled /\ (stored' # stored => waiting = Nobody)
              \/ waiting # Nobody /\ waiting' = Nobody /\ garbled' = [garbled EXCEPT ![waiting] = TRUE]
  <2>1. TypeOK'
    BY <1>1, <1>2, <1>3, <1>7 DEF IInv, TypeOK, targetVars
  <2>2. ReaderKept'
    <3>1. CASE waiting' = waiting /\ garbled' = garbled /\ (stored' # stored => waiting = Nobody)
      BY <1>2, <1>7, <3>1 DEF ReaderKept, IInv
    <3>2. CASE waiting # Nobody /\ waiting' = Nobody /\ garbled' = [garbled EXCEPT ![waiting] = TRUE]
      BY <1>2, <1>7, <3>2 DEF ReaderKept, IInv
    <3> QED BY <1>7, <3>1, <3>2
  <2>3. NamedPackets'
    BY <1>1, <1>4, <1>5, <1>7 DEF NamedPackets, IInv
  <2>4. ErrorsAreNamed' /\ OperationAsks'
    BY <1>1, <1>7 DEF ErrorsAreNamed, OperationAsks, IInv
  <2> QED BY <2>1, <2>2, <2>3, <2>4 DEF IInv
<1>8. CASE stored # NoPacket /\ quiet /\ UNCHANGED <<garbled, mailboxVars>>
  BY <1>2, <1>7, <1>8 DEF mailboxVars
<1>9. CASE /\ stored = NoPacket /\ waiting # Nobody /\ waiting' = Nobody /\ UNCHANGED stored
           /\ quiet /\ garbled' = [garbled EXCEPT ![waiting] = TRUE]
  BY <1>2, <1>7, <1>9
<1>10. CASE /\ stored = NoPacket /\ waiting = Nobody /\ quiet /\ UNCHANGED <<garbled, waiting>>
            /\ stored' \in {stored, p}
  BY <1>2, <1>7, <1>10
<1> QED BY <1>6, <1>8, <1>9, <1>10 DEF OnData

\* The target answers.
LEMMA TargetInv == ASSUME IInv, TargetHandles PROVE IInv'
<1> DEFINE c == Head(toTarget)
<1>1. /\ toTarget # <<>> /\ toTarget' = Tail(toTarget)
      /\ UNCHANGED <<targetVars, callerVars, mailboxVars, requests, faults>>
  BY DEF TargetHandles
<1>2. c \in Commands /\ toTarget' \in Seq(Commands)
  BY <1>1, Taken DEF IInv, TypeOK
<1>3. Sound' = Sound
  BY <1>1 DEF Sound, targetVars
<1>4. \E p \in Packets : /\ toHost' = Append(toHost, p) /\ unnamed' \in BOOLEAN
                         /\ ~unnamed' => ~unnamed /\ p \in Sound
  <2>1. CASE /\ toHost' = Append(toHost, Answer(c))
             /\ unnamed' = (unnamed \/ Answer(c).image \in strange)
    <3>1. /\ Answer(c) \in Packets
          /\ Answer(c).image \notin strange => Answer(c) \in Sound
      BY <1>2, AnswerFacts DEF IInv
    <3> QED BY <2>1, <3>1, Zenon
  <2>2. ASSUME NEW code \in Refusals, toHost' = Append(toHost, Refusal(c, code)),
               unnamed' = (unnamed \/ ~Named(code))
        PROVE  \E p \in Packets : /\ toHost' = Append(toHost, p) /\ unnamed' \in BOOLEAN
                                  /\ ~unnamed' => ~unnamed /\ p \in Sound
    <3>1. /\ Refusal(c, code) \in Packets
          /\ Named(code) => Refusal(c, code) \in Sound
      BY <1>2, RefusalFacts DEF IInv
    <3> QED BY <2>2, <3>1, Zenon
  <2> QED BY <2>1, <2>2 DEF TargetHandles
<1>5. PICK p \in Packets : /\ toHost' = Append(toHost, p) /\ unnamed' \in BOOLEAN
                           /\ ~unnamed' => ~unnamed /\ p \in Sound
  BY <1>4
<1>6. TypeOK'
  BY <1>1, <1>2, <1>5 DEF IInv, TypeOK, targetVars, callerVars, mailboxVars
<1>7. ReaderKept' /\ OperationAsks'
  BY <1>1 DEF IInv, ReaderKept, OperationAsks, callerVars, mailboxVars
<1>8. NamedPackets'
  BY <1>1, <1>3, <1>5 DEF IInv, NamedPackets, mailboxVars
<1>9. ErrorsAreNamed'
  BY <1>1, <1>5 DEF IInv, ErrorsAreNamed, callerVars
<1> QED BY <1>6, <1>7, <1>8, <1>9 DEF IInv

\* What the line does to packets leaves them Sound, if they were.
LEMMA LineInv ==
    ASSUME IInv, Lose \/ Truncate \/ Behead
    PROVE  IInv'
<1>1. /\ UNCHANGED <<targetVars, callerVars, mailboxVars, unnamed, requests>> /\ faults' \in Nat
  BY DEF Lose, Truncate, Behead, Fault, IInv, TypeOK
<1>2. toTarget' \in Seq(Commands)
  <2>1. toTarget \in Seq(Commands)
    BY DEF IInv, TypeOK
  <2>2. toTarget' = toTarget \/ (toTarget # <<>> /\ toTarget' = Tail(toTarget))
    BY DEF Lose, Truncate, Behead
  <2> QED BY <2>1, <2>2, Taken
<1>3. Sound' = Sound
  BY <1>1 DEF Sound, targetVars
<1>4. toHost' \in Seq(Packets) /\ (~unnamed => toHost' \in Seq(Sound))
  <2>1. toHost \in Seq(Packets) /\ (~unnamed => toHost \in Seq(Sound))
    BY DEF IInv, TypeOK, NamedPackets
  <2>2. CASE toHost' = toHost
    BY <2>1, <2>2
  <2>3. CASE toHost # <<>> /\ toHost' = Tail(toHost)
    BY <2>1, <2>3, Taken
  <2>4. CASE Truncate \/ Behead
    <3>1. toHost # <<>> /\ Head(toHost).opcode \in Opcodes \cup {Missing}
      <4>1. toHost # <<>>
        BY <2>4 DEF Truncate, Behead
      <4>2. Head(toHost) \in Packets
        BY <2>1, <4>1, Taken
      <4> QED BY <4>1, <4>2 DEF Packets
    <3>2. PICK p \in Sound : toHost' = [toHost EXCEPT ![1] = p]
      BY <2>4, <3>1, Remains DEF Truncate, Behead, IInv
    <3>3. p \in Packets
      BY DEF Sound
    <3> QED BY <2>1, <3>1, <3>2, <3>3, Changed
  <2> QED BY <2>2, <2>3, <2>4 DEF Lose
<1>5. TypeOK'
  BY <1>1, <1>2, <1>4 DEF IInv, TypeOK, targetVars, callerVars, mailboxVars
<1>6. ReaderKept' /\ OperationAsks' /\ ErrorsAreNamed'
  BY <1>1 DEF IInv, ReaderKept, OperationAsks, ErrorsAreNamed, callerVars, mailboxVars
<1>7. NamedPackets'
  BY <1>1, <1>3, <1>4 DEF IInv, NamedPackets, mailboxVars
<1> QED BY <1>5, <1>6, <1>7 DEF IInv

-----------------------------------------------------------------------------
\* The inductive invariant.
THEOREM Invariance == Spec => []IInv
<1>1. IInv /\ UNCHANGED vars => IInv'
  BY DEF vars, targetVars, callerVars, mailboxVars, IInv, TypeOK, OperationAsks, ReaderKept,
         NamedPackets, Sound, ErrorsAreNamed
<1>2. IInv /\ [Next]_vars => IInv'
  BY <1>1, RequestInv, GetVersionInv, ReadInv, TimeoutInv, OnDataInv, TargetInv, LineInv DEF Next
<1> QED BY <1>2, InitInv, PTL DEF Spec

\* Every variable keeps its type: the index of an image fits in its byte, and every code is
\* a number or undefined (DfuTransportSerial.js:233-297).
THEOREM TypeCorrect == Spec => []TypeOK
BY Invariance, PTL DEF IInv

\* A caller that reads keeps its callback until its own answer or timeout, whatever the
\* other caller does (DfuTransportPrn.js:120-169).
THEOREM ReadersAreKept == Spec => []ReaderKept
BY Invariance, PTL DEF IInv

\* Whatever is refused, lost or damaged, a rejection has a message unless the target said
\* something that has no name (DfuTransportPrn.js:175-210, DfuError.js:45-106).
THEOREM RejectionsAreNamed == Spec => []ErrorsAreNamed
BY Invariance, PTL DEF IInv

-----------------------------------------------------------------------------
(* The list of images, while the callers take turns                        *)

\* The line and the mailbox are empty.
Empty == toTarget = <<>> /\ toHost = <<>> /\ stored = NoPacket

\* What c asked, as it was written; what the target may say to it.
Command(c) == [opcode |-> asked[c].opcode, index |-> AsByte(asked[c].index)]
Reply(c, p) == p = Answer(Command(c)) \/ (p.start = 96 /\ p.result \notin {ERROR_MESSAGE_RSP, Missing})

\* What c asked is on its way to the target, or the reply to it on its way back or unread.
Underway(c) ==
    \/ toTarget = <<Command(c)>> /\ toHost = <<>> /\ stored = NoPacket
    \/ toTarget = <<>> /\ stored = NoPacket /\ \E p \in Packets : toHost = <<p>> /\ Reply(c, p)
    \/ toTarget = <<>> /\ toHost = <<>> /\ Reply(c, stored) /\ step[c] = "written"

OneAtATime == \A c, d \in Callers : step[c] # "idle" /\ step[d] # "idle" => c = d

\* The query for all images was told of the first of them, and asks for the next.
ListSoFar ==
    /\ Len(list) <= images /\ \A n \in DOMAIN list : list[n] = n - 1
    /\ step["query"] # "idle" => asked["query"] = [opcode |-> FirmwareVersion, index |-> Len(list)]
    /\ step["query"] = "idle" /\ error["query"] = 0 => Len(list) = images

Turns ==
    /\ OneAtATime
    /\ (\A c \in Callers : step[c] = "idle") => Empty
    /\ \A c \in Callers : step[c] # "idle" => Empty \/ Underway(c)
    /\ \A c \in Callers : garbled[c] => step[c] = "reading" /\ Empty
    /\ all => ListSoFar

InTurn == ~mixed /\ faults = 0 => Turns

\* assertPacket() rejects with a code other than 0, and what the target refused.
LEMMA RejectionCodes ==
    ASSUME NEW p, NEW opcode, NEW length
    PROVE  LET response == AssertPacket(Parse(p), opcode, length)
           IN  /\ response.is = "rejected" => response.code # 0
               /\ response.is = "resolved" => p.start = 96 /\ p.result = ERROR_MESSAGE_RSP
<1> DEFINE response == AssertPacket(Parse(p), opcode, length)
<1>1. /\ \A code : Rejects(code).is = "rejected" /\ Rejects(code).code = code
      /\ Throws.is = "thrown" /\ Resolves(p).is = "resolved"
  BY DEF Rejects, Throws, Resolves
<1>2. /\ ERROR_RESPONSE_NOT_START_WITH_0x60 # 0 /\ ERROR_UNEXPECTED_RESPONSE_OPCODE # 0
      /\ ERROR_UNEXPECTED_RESPONSE_BYTES # 0 /\ Missing # 0
      /\ 0 \notin ResponseErrorMessages \cup ExtendedErrorMessages
  BY DEF ERROR_RESPONSE_NOT_START_WITH_0x60, ERROR_UNEXPECTED_RESPONSE_OPCODE,
         ERROR_UNEXPECTED_RESPONSE_BYTES, Missing, ResponseErrorMessages, ExtendedErrorMessages
<1>3. /\ Parse(p).is = "rejected" => Parse(p).code # 0
      /\ Parse(p).is = "resolved" => p.start = 96 /\ p.result = ERROR_MESSAGE_RSP
  BY <1>1, <1>2 DEF Parse, Known, Unknown, ERROR_RSP_OPCODE_UNKNOWN, ERROR_EXT_ERROR_CODE_UNKNOWN
<1>4. CASE response = Parse(p)
  BY <1>3, <1>4
<1>5. CASE response \in {Rejects(ERROR_UNEXPECTED_RESPONSE_OPCODE), Rejects(ERROR_UNEXPECTED_RESPONSE_BYTES)}
  BY <1>1, <1>2, <1>5
<1> QED BY <1>4, <1>5 DEF AssertPacket

\* When the request of c is over, nothing is left of it.
LEMMA OverTurns ==
    ASSUME IInv, Turns, NEW c \in Callers, step[c] # "idle",
           step' = [step EXCEPT ![c] = "idle"], garbled' = [garbled EXCEPT ![c] = FALSE],
           Empty', UNCHANGED all, all => ListSoFar'
    PROVE  Turns'
<1>1. /\ step \in [Callers -> {"idle", "written", "reading"}] /\ garbled \in [Callers -> BOOLEAN]
  BY DEF IInv, TypeOK
<1>2. \A d \in Callers : step'[d] = "idle"
  BY <1>1 DEF Turns, OneAtATime
<1>3. \A d \in Callers : ~garbled'[d]
  BY <1>1 DEF Turns, OneAtATime
<1> QED BY <1>2, <1>3 DEF Turns, OneAtATime

\* So it is when a request is settled; a query for all images was told of all or is rejected.
LEMMA SettleTurns ==
    ASSUME IInv, Turns, NEW c \in Callers, step[c] # "idle", NEW code, Settle(c, code),
           Empty', UNCHANGED <<targetVars, all>>,
           all /\ c = "query" /\ code = 0 => Len(list) = images
    PROVE  Turns'
<1>1. /\ step' = [step EXCEPT ![c] = "idle"] /\ error' = [error EXCEPT ![c] = code]
      /\ garbled' = [garbled EXCEPT ![c] = FALSE] /\ list' = list /\ images' = images
  BY DEF Settle, targetVars
<1>2. step \in [Callers -> {"idle", "written", "reading"}] /\ error \in [Callers -> Nat \cup {Missing}]
  BY DEF IInv, TypeOK
<1>3. "query" \in Callers /\ step'["query"] = "idle"
  BY <1>1, <1>2 DEF Turns, OneAtATime, Callers
<1>4. ASSUME all PROVE ListSoFar'
  <2>1. CASE c = "query"
    BY <1>1, <1>2, <1>3, <1>4, <2>1 DEF Turns, ListSoFar
  <2>2. CASE c # "query"
    <3>1. step["query"] = "idle" /\ error'["query"] = error["query"]
      BY <1>1, <1>2, <1>3, <2>2 DEF Turns, OneAtATime
    <3> QED BY <1>1, <1>3, <1>4, <3>1 DEF Turns, ListSoFar
  <2> QED BY <2>1, <2>2
<1> QED BY <1>1, <1>4, OverTurns

\* An index that is one of an image, or the first that is not, fits in its byte.
LEMMA IndexFits ==
    ASSUME IInv, all, ListSoFar, step["query"] # "idle"
    PROVE  Command("query") = [opcode |-> FirmwareVersion, index |-> Len(list)]
<1>1. Len(list) \in 0 .. images /\ images \in 0 .. ByteSize - 1
  BY VersionsAssumption DEF ListSoFar, IInv, TypeOK
<1>2. AsByte(Len(list)) = Len(list)
  BY <1>1, VersionsAssumption DEF AsByte
<1> QED BY <1>2 DEF Command, ListSoFar

\* The target told of the image that the query asked for, and it asks for the next.
LEMMA AskTurns ==
    ASSUME IInv, Turns, NEW p \in Packets, p = Answer(Command("query")), p.image # NoImage, all,
           step["query"] # "idle", list' = Append(list, p.image),
           garbled' = [garbled EXCEPT !["query"] = FALSE],
           Ask("query", FirmwareVersion, NextIndex(asked["query"].index)),
           toTarget = <<>>, toHost' = <<>>, stored' = NoPacket, UNCHANGED <<targetVars, all>>
    PROVE  Turns'
<1>1. "query" \in Callers /\ "query" # "operation" /\ Callers = {"operation", "query"}
  BY DEF Callers
<1>2. /\ step \in [Callers -> {"idle", "written", "reading"}] /\ garbled \in [Callers -> BOOLEAN]
      /\ asked \in [Callers -> [opcode : Opcodes, index : Nat]]
      /\ list \in Seq(0 .. MaxImages) /\ images \in Nat
  BY DEF IInv, TypeOK
<1>3. asked["query"].index = Len(list) /\ Command("query") = [opcode |-> FirmwareVersion, index |-> Len(list)]
  BY IndexFits DEF Turns, ListSoFar
<1>4. p.image = Len(list) /\ Len(list) < images
  BY <1>3 DEF Answer
<1>5. /\ step' = [step EXCEPT !["query"] = "written"]
      /\ asked' = [asked EXCEPT !["query"] = [opcode |-> FirmwareVersion, index |-> Len(list) + 1]]
      /\ toTarget' = <<[opcode |-> FirmwareVersion, index |-> AsByte(Len(list) + 1)]>>
  BY <1>3 DEF Ask, NextIndex
<1>6. /\ step'["query"] = "written" /\ step'["operation"] = "idle"
      /\ asked'["query"] = [opcode |-> FirmwareVersion, index |-> Len(list) + 1]
      /\ ~garbled'["query"] /\ ~garbled'["operation"]
  BY <1>1, <1>2, <1>5 DEF Turns, OneAtATime
<1>7. toTarget' = <<Command("query")'>>
  BY <1>5, <1>6 DEF Command, AsByte
<1>8. ListSoFar'
  <2>1. Len(list') = Len(list) + 1 /\ images' = images
    BY <1>2 DEF targetVars
  <2>2. \A n \in DOMAIN list' : list'[n] = n - 1
    <3> SUFFICES ASSUME NEW n \in DOMAIN list' PROVE list'[n] = n - 1
      OBVIOUS
    <3>1. n \in 1 .. Len(list) + 1
      BY <1>2, <2>1
    <3>2. CASE n = Len(list) + 1
      BY <1>2, <1>4, <3>2
    <3>3. CASE n \in DOMAIN list
      BY <1>2, <3>3 DEF Turns, ListSoFar
    <3> QED BY <1>2, <3>1, <3>2, <3>3
  <2> QED BY <1>2, <1>4, <1>6, <2>1, <2>2 DEF ListSoFar
<1> QED BY <1>1, <1>6, <1>7, <1>8 DEF Turns, OneAtATime, Underway

\* Whatever c makes of the reply to it.
LEMMA ResolveTurns ==
    ASSUME IInv, Turns, NEW c \in Callers, step[c] # "idle", NEW p \in Packets, Reply(c, p), Resolve(c, p),
           toTarget = <<>>, toHost' = <<>>, stored' = NoPacket, UNCHANGED <<targetVars, all>>
    PROVE  Turns'
<1> DEFINE opcode == asked[c].opcode
<1> DEFINE response == AssertPacket(Parse(p), opcode, Length[opcode])
<1>1. \A code : Settle(c, code) => Empty'
  BY DEF Settle, Empty
<1>2. CASE response.is = "rejected" /\ Settle(c, response.code)
  <2>1. response.code # 0
    BY <1>2, RejectionCodes
  <2> HIDE DEF response
  <2> QED BY <1>1, <1>2, <2>1, SettleTurns
<1>3. CASE response.is = "resolved" /\ opcode # FirmwareVersion /\ Settle(c, 0)
  <2>1. ~(all /\ c = "query")
    BY <1>3 DEF Turns, ListSoFar
  <2> QED BY <1>1, <1>3, <2>1, SettleTurns
<1>4. CASE response.is = "resolved" /\ opcode = FirmwareVersion /\ Image(p)
  <2>1. c = "query"
    BY <1>4 DEF IInv, OperationAsks, Create, FirmwareVersion, Callers
  <2>2. p = Answer(Command("query"))
    BY <1>4, <2>1, RejectionCodes DEF Reply
  <2>3. CASE p.image = NoImage /\ Settle("query", 0)
    <3>1. ASSUME all PROVE Len(list) = images
      <4>1. Command("query") = [opcode |-> FirmwareVersion, index |-> Len(list)] /\ Len(list) <= images
        BY <2>1, <3>1, IndexFits DEF Turns, ListSoFar
      <4>2. ~(Len(list) < images)
        BY <2>2, <2>3, <4>1 DEF Answer, NoImage, Missing
      <4>3. Len(list) \in Nat /\ images \in Nat
        BY DEF IInv, TypeOK
      <4> QED BY <4>1, <4>2, <4>3
    <3> QED BY <1>1, <2>1, <2>3, <3>1, SettleTurns
  <2>4. CASE p.image \in strange /\ Settle("query", Missing)
    BY <1>1, <2>1, <2>4, SettleTurns DEF Missing
  <2>5. CASE /\ p.image # NoImage /\ list' = Append(list, p.image)
             /\ garbled' = [garbled EXCEPT !["query"] = FALSE]
             /\ IF all THEN Ask("query", FirmwareVersion, NextIndex(asked["query"].index))
                ELSE step' = [step EXCEPT !["query"] = "idle"] /\ UNCHANGED toTarget
    <3>1. CASE all
      BY <2>1, <2>2, <2>5, <3>1, AskTurns
    <3>2. CASE ~all
      <4>1. Empty'
        BY <2>5, <3>2 DEF Empty
      <4> QED BY <2>1, <2>5, <3>2, <4>1, OverTurns
    <3> QED BY <3>1, <3>2
  <2> QED BY <1>4, <2>3, <2>4, <2>5 DEF Image
<1> QED BY <1>2, <1>3, <1>4 DEF Resolve

\* Two idle callers, an empty line.
LEMMA InitTurns == Init => InTurn
<1>1. Init => Empty /\ (\A c \in Callers : step[c] = "idle" /\ ~garbled[c]) /\ ~all
  BY DEF Init, Empty
<1> QED BY <1>1 DEF InTurn, Turns, OneAtATime

\* A caller begins when nobody else has.
LEMMA BeginTurns ==
    ASSUME IInv, InTurn, NEW c \in Callers, NEW opcode \in Opcodes, NEW index \in Nat,
           Begin(c, opcode, index),
           all' => \/ list' = <<>> /\ opcode = FirmwareVersion /\ index = 0 /\ c = "query"
                   \/ UNCHANGED <<all, list>> /\ c = "operation"
    PROVE  InTurn'
<1> SUFFICES ASSUME ~mixed', faults' = 0 PROVE Turns'
  BY DEF InTurn
<1>1. /\ ~mixed /\ faults = 0 /\ \A d \in Callers : step[d] = "idle"
      /\ Ask(c, opcode, index) /\ error' = [error EXCEPT ![c] = 0]
      /\ UNCHANGED <<targetVars, garbled, mailboxVars, toHost>>
  BY DEF Begin
<1>2. Turns /\ Empty
  BY <1>1 DEF InTurn, Turns
<1>3. /\ step \in [Callers -> {"idle", "written", "reading"}] /\ garbled \in [Callers -> BOOLEAN]
      /\ asked \in [Callers -> [opcode : Opcodes, index : Nat]] /\ error \in [Callers -> Nat \cup {Missing}]
      /\ images \in Nat
  BY DEF IInv, TypeOK
<1>4. /\ step' = [step EXCEPT ![c] = "written"]
      /\ asked' = [asked EXCEPT ![c] = [opcode |-> opcode, index |-> index]]
      /\ toTarget' = <<[opcode |-> opcode, index |-> AsByte(index)]>>
  BY <1>1, <1>2 DEF Ask, Empty
<1>5. /\ step'[c] = "written" /\ \A d \in Callers \ {c} : step'[d] = "idle"
      /\ asked'[c] = [opcode |-> opcode, index |-> index]
  BY <1>1, <1>3, <1>4
<1>6. \A d \in Callers : ~garbled'[d]
  BY <1>1, <1>2 DEF Turns
<1>7. toTarget' = <<Command(c)'>> /\ toHost' = <<>> /\ stored' = NoPacket
  BY <1>1, <1>2, <1>4, <1>5 DEF Command, AsByte, Empty, mailboxVars
<1>8. ASSUME all' PROVE ListSoFar'
  <2>1. CASE list' = <<>> /\ opcode = FirmwareVersion /\ index = 0 /\ c = "query"
    BY <1>1, <1>3, <1>5, <2>1 DEF ListSoFar, targetVars
  <2>2. CASE UNCHANGED <<all, list>> /\ c = "operation"
    <3>1. "query" \in Callers \ {c} /\ error'["query"] = error["query"]
      BY <1>1, <1>3, <2>2 DEF Callers
    <3> QED BY <1>1, <1>2, <1>5, <1>8, <2>2, <3>1 DEF Turns, ListSoFar, targetVars
  <2> QED BY <1>8, <2>1, <2>2
<1> QED BY <1>5, <1>6, <1>7, <1>8 DEF Turns, OneAtATime, Underway

\* The operation asks for something, or the query for a version.
LEMMA CallTurns == ASSUME IInv, InTurn, Request \/ GetVersion PROVE InTurn'
<1>1. CASE Request
  <2>1. Begin("operation", Create, 0) /\ UNCHANGED <<all, list>>
    BY <1>1 DEF Request
  <2>2. "operation" \in Callers /\ Create \in Opcodes
    BY DEF Callers, Opcodes
  <2> QED BY <2>1, <2>2, BeginTurns
<1>2. CASE GetVersion
  <2>1. PICK o \in Opcodes, index \in Nat :
            Begin("query", o, index) /\ (all' = FALSE \/ (o = FirmwareVersion /\ index = 0))
    <3>1. /\ 0 \in Nat /\ Indices \subseteq Nat
          /\ {ProtocolVersion, HardwareVersion, FirmwareVersion} \subseteq Opcodes
      BY VersionsAssumption DEF Opcodes
    <3>2. CASE \E o \in {ProtocolVersion, HardwareVersion} : Begin("query", o, 0) /\ all' = FALSE
      BY <3>1, <3>2
    <3>3. CASE \E index \in Indices : Begin("query", FirmwareVersion, index) /\ all' = FALSE
      BY <3>1, <3>3
    <3>4. CASE Begin("query", FirmwareVersion, 0) /\ all' = TRUE
      BY <3>1, <3>4
    <3> QED BY <1>2, <3>2, <3>3, <3>4 DEF GetVersion
  <2>2. list' = <<>> /\ "query" \in Callers
    BY <1>2 DEF GetVersion, Callers
  <2> QED BY <2>1, <2>2, BeginTurns
<1> QED BY <1>1, <1>2

\* read()
LEMMA ReadTurns == ASSUME IInv, InTurn, NEW c \in Callers, Read(c) PROVE InTurn'
<1> SUFFICES ASSUME ~mixed', faults' = 0 PROVE Turns'
  BY DEF InTurn
<1>1. /\ step[c] = "written" /\ step[c] # "idle" /\ Turns
      /\ UNCHANGED <<targetVars, all, toHost>>
  BY DEF Read, InTurn
<1>2. /\ step \in [Callers -> {"idle", "written", "reading"}] /\ garbled \in [Callers -> BOOLEAN]
      /\ stored \in Packets
  BY DEF IInv, TypeOK
<1>3. waiting = Nobody
  <2>1. waiting # Nobody => waiting \in Callers /\ step[waiting] = "reading"
    BY DEF IInv, TypeOK, ReaderKept
  <2> QED BY <1>1, <2>1 DEF Turns, OneAtATime
<1>4. CASE stored # NoPacket /\ stored' = NoPacket /\ Resolve(c, stored)
  <2>1. toTarget = <<>> /\ toHost = <<>> /\ Reply(c, stored)
    BY <1>1, <1>4 DEF Turns, Empty, Underway
  <2> QED BY <1>1, <1>2, <1>4, <2>1, ResolveTurns
<1>5. CASE /\ stored = NoPacket /\ step' = [step EXCEPT ![c] = "reading"]
           /\ UNCHANGED <<asked, error, garbled, list, stored, toTarget>>
  <2>1. /\ step'[c] = "reading" /\ \A d \in Callers \ {c} : step'[d] = "idle"
        /\ step["query"] = "idle" <=> step'["query"] = "idle"
    BY <1>1, <1>2, <1>5 DEF Turns, OneAtATime, Callers
  <2>2. Empty => Empty'
    BY <1>1, <1>5 DEF Empty
  <2>3. all => ListSoFar'
    BY <1>1, <1>5, <2>1 DEF Turns, ListSoFar, targetVars
  <2>4. Empty' \/ Underway(c)'
    <3>1. NoPacket.start # 96 /\ \A q : Answer(q).start = 96
      BY DEF NoPacket, Answer, Missing
    <3>2. ~Reply(c, NoPacket)
      BY <3>1 DEF Reply
    <3>3. Command(c)' = Command(c) /\ \A p : Reply(c, p) => Reply(c, p)'
      BY <1>1, <1>5 DEF Command, Reply, Answer, targetVars, AsByte
    <3> QED BY <1>1, <1>5, <2>2, <3>2, <3>3 DEF Turns, Underway
  <2>5. \A d \in Callers : ~garbled'[d]
    BY <1>1, <1>5, <1>2 DEF Turns, OneAtATime
  <2> QED BY <1>1, <2>1, <2>3, <2>4, <2>5 DEF Turns, OneAtATime
<1> QED BY <1>3, <1>4, <1>5 DEF Read

\* The five seconds are over: nothing is left on the line, or it is late.
LEMMA TimeoutTurns == ASSUME IInv, InTurn, NEW c \in Callers, Timeout(c) PROVE InTurn'
<1> SUFFICES ASSUME ~mixed', faults' = 0 PROVE Turns'
  BY DEF InTurn
<1>1. /\ step[c] = "reading" /\ step[c] # "idle" /\ Settle(c, ERROR_TIMEOUT_READING_SERIAL)
      /\ UNCHANGED <<targetVars, all, mixed, stored, toHost>>
  BY DEF Timeout
<1>2. ~(waiting = c /\ (toTarget # <<>> \/ toHost # <<>>)) /\ faults = 0
  BY DEF Timeout, Fault, IInv, TypeOK
<1>3. Turns
  BY <1>1, <1>2 DEF InTurn
<1>4. Empty
  <2>1. CASE garbled[c]
    BY <1>3, <2>1 DEF Turns
  <2>2. CASE ~garbled[c]
    <3>1. waiting = c /\ stored = NoPacket
      BY <1>1, <2>2 DEF IInv, ReaderKept, Nobody, Callers
    <3> QED BY <1>2, <3>1 DEF Empty
  <2> QED BY <2>1, <2>2
<1>5. Empty' /\ ERROR_TIMEOUT_READING_SERIAL # 0
  BY <1>1, <1>4 DEF Empty, Settle, ERROR_TIMEOUT_READING_SERIAL
<1> QED BY <1>1, <1>3, <1>5, SettleTurns

\* onData()
LEMMA OnDataTurns == ASSUME IInv, InTurn, OnData PROVE InTurn'
<1> SUFFICES ASSUME ~mixed', faults' = 0 PROVE Turns'
  BY DEF InTurn
<1> DEFINE p == Head(toHost)
<1>1. /\ toHost # <<>> /\ toHost' = Tail(toHost) /\ Turns
      /\ UNCHANGED <<targetVars, all>>
  BY DEF OnData, InTurn
<1>2. /\ step \in [Callers -> {"idle", "written", "reading"}] /\ garbled \in [Callers -> BOOLEAN]
      /\ waiting \in Callers \cup {Nobody}
  BY DEF IInv, TypeOK
<1>3. PICK c \in Callers : step[c] # "idle" /\ \A d \in Callers \ {c} : step[d] = "idle"
  BY <1>1 DEF Turns, OneAtATime, Empty
<1>4. toTarget = <<>> /\ stored = NoPacket /\ p \in Packets /\ Reply(c, p) /\ toHost' = <<>>
  BY <1>1, <1>3 DEF Turns, Empty, Underway
<1>5. \A d \in Callers : ~garbled[d]
  BY <1>1 DEF Turns, Empty
<1>6. waiting # Nobody => waiting = c /\ step[c] = "reading"
  BY <1>2, <1>3 DEF IInv, ReaderKept
<1>7. CASE waiting # Nobody /\ UNCHANGED stored /\ Resolve(waiting, p)
  BY <1>1, <1>3, <1>4, <1>6, <1>7, ResolveTurns
<1>8. CASE /\ UNCHANGED <<step, asked, error, list, toTarget>>
           /\ \/ waiting # Nobody /\ UNCHANGED stored /\ garbled' = [garbled EXCEPT ![waiting] = TRUE]
              \/ waiting = Nobody /\ UNCHANGED garbled /\ stored' \in {stored, p}
  <2>1. all => ListSoFar'
    BY <1>1, <1>8 DEF Turns, ListSoFar, targetVars
  <2>2. CASE waiting # Nobody /\ UNCHANGED stored /\ garbled' = [garbled EXCEPT ![waiting] = TRUE]
    <3>1. Empty' /\ step'[c] = "reading" /\ \A d \in Callers : garbled'[d] => d = c
      BY <1>2, <1>4, <1>5, <1>6, <1>8, <2>2 DEF Empty
    <3> QED BY <1>1, <1>3, <1>8, <2>1, <3>1 DEF Turns, OneAtATime
  <2>3. CASE waiting = Nobody /\ UNCHANGED garbled /\ stored' \in {stored, p}
    <3>1. step[c] = "written"
      BY <1>2, <1>3, <1>5, <2>3 DEF IInv, ReaderKept, Nobody, Callers
    <3>2. Empty' \/ Underway(c)'
      <4>1. CASE stored' = stored
        BY <1>4, <1>8, <4>1 DEF Empty
      <4>2. CASE stored' = p
        <5>1. Reply(c, stored)'
          BY <1>1, <1>4, <1>8, <4>2 DEF Reply, Command, Answer, targetVars, AsByte
        <5> QED BY <1>4, <1>8, <3>1, <5>1 DEF Underway
      <4> QED BY <2>3, <4>1, <4>2
    <3> QED BY <1>1, <1>3, <1>5, <1>8, <2>1, <2>3, <3>2 DEF Turns, OneAtATime
  <2> QED BY <1>8, <2>2, <2>3
<1> QED BY <1>4, <1>7, <1>8 DEF OnData

\* The target replies to what it was asked.
LEMMA TargetTurns == ASSUME IInv, InTurn, TargetHandles PROVE InTurn'
<1> SUFFICES ASSUME ~mixed', faults' = 0 PROVE Turns'
  BY DEF InTurn
<1>1. /\ toTarget # <<>> /\ toTarget' = Tail(toTarget) /\ Turns
      /\ UNCHANGED <<targetVars, callerVars, mailboxVars>>
  BY DEF TargetHandles, InTurn, callerVars
<1>2. PICK c \in Callers : step[c] # "idle" /\ \A d \in Callers \ {c} : step[d] = "idle"
  BY <1>1 DEF Turns, OneAtATime, Empty
<1>3. toTarget = <<Command(c)>> /\ toHost = <<>> /\ stored = NoPacket
  BY <1>1, <1>2 DEF Turns, Empty, Underway
<1>4. \E p \in Packets : toHost' = <<p>> /\ Reply(c, p)
  <2> DEFINE q == Head(toTarget)
  <2>1. q = Command(c) /\ q \in Commands
    BY <1>1, <1>3, Taken DEF IInv, TypeOK
  <2> HIDE DEF q
  <2>2. Answer(q) \in Packets /\ \A code \in Refusals : Refusal(q, code) \in Packets
    BY <2>1, AnswerFacts, RefusalFacts DEF IInv
  <2>3. CASE toHost' = Append(toHost, Answer(q))
    BY <1>3, <2>1, <2>2, <2>3 DEF Reply
  <2>4. ASSUME NEW code \in Refusals, toHost' = Append(toHost, Refusal(q, code))
        PROVE  \E p \in Packets : toHost' = <<p>> /\ Reply(c, p)
    <3>1. code[1] \in Bytes \ {ERROR_MESSAGE_RSP}
      BY VersionsAssumption
    <3>2. Refusal(q, code).start = 96 /\ Refusal(q, code).result \notin {ERROR_MESSAGE_RSP, Missing}
      BY <3>1 DEF Refusal, Bytes, Missing
    <3> QED BY <1>3, <2>2, <2>4, <3>2 DEF Reply
  <2> QED BY <2>3, <2>4 DEF TargetHandles, q
<1>5. Underway(c)'
  <2>1. toTarget' = <<>> /\ stored' = NoPacket
    BY <1>1, <1>3 DEF mailboxVars
  <2>2. \A p : Reply(c, p) => Reply(c, p)'
    BY <1>1 DEF Reply, Command, Answer, targetVars, callerVars, AsByte
  <2> QED BY <1>4, <2>1, <2>2 DEF Underway, Packets
<1>6. \A d \in Callers : ~garbled'[d]
  BY <1>1 DEF Turns, Empty, callerVars
<1>7. all' => ListSoFar'
  BY <1>1 DEF Turns, ListSoFar, targetVars, callerVars
<1> QED BY <1>1, <1>2, <1>5, <1>6, <1>7 DEF Turns, OneAtATime, callerVars

\* As long as the callers take turns and nothing is lost or late, the query for all images
\* is told of the target's images, in order, and of all when it succeeds: what it reads
\* replies to what it asked, and an index fits in its byte (DfuTransportSerial.js:233-297).
THEOREM ListsTheImages == Spec => []VersionsAreTheTargets
<1>1. IInv /\ InTurn /\ [Next]_vars => InTurn'
  <2> SUFFICES ASSUME IInv, InTurn, [Next]_vars PROVE InTurn'
    OBVIOUS
  <2>1. CASE UNCHANGED vars
    BY <2>1 DEF vars, targetVars, callerVars, mailboxVars, InTurn, Turns, OneAtATime, Empty, Underway,
                Command, Reply, Answer, AsByte, ListSoFar
  <2>2. CASE Lose \/ Truncate \/ Behead
    BY <2>2 DEF Lose, Truncate, Behead, Fault, IInv, TypeOK, InTurn
  <2> QED BY <2>1, <2>2, CallTurns, ReadTurns, TimeoutTurns, OnDataTurns, TargetTurns DEF Next
<1>2. InTurn => VersionsAreTheTargets
  BY DEF InTurn, Turns, ListSoFar, VersionsAreTheTargets
<1> QED BY <1>1, <1>2, InitTurns, Invariance, PTL DEF Spec
=============================================================================
