---------------------------- MODULE DfuResponse ----------------------------
(***************************************************************************)
(* What the library makes of a packet it received: parse() and             *)
(* assertPacket() of DfuTransportPrn, and the error codes and messages of  *)
(* DfuError.  A byte the packet does not have is Missing, as is the code   *)
(* of an error whose name ErrorCode does not define: both are undefined in *)
(* the code.  Of a payload only the length matters here.                   *)
(***************************************************************************)
EXTENDS Integers

Missing == -1
Bytes == 0 .. 255

\* The codes of ErrorCode that are used here.
ERROR_READ_CONFLICT == 18
ERROR_TIMEOUT_READING_SERIAL == 19
ERROR_RESPONSE_NOT_START_WITH_0x60 == 21
ERROR_UNEXPECTED_RESPONSE_OPCODE == 23
ERROR_UNEXPECTED_RESPONSE_BYTES == 24
ERROR_MESSAGE_RSP == 1
ERROR_MESSAGE_EXT == 2
ERROR_RSP_EXT_ERROR == 267
ERROR_RSP_OPCODE_UNKNOWN == Missing
ERROR_EXT_ERROR_CODE_UNKNOWN == Missing

\* The codes that have a message, of each of the three types.
ErrorMessages == 0 .. 4 \cup 16 .. 24 \cup 49 .. 52 \cup 81 .. 83 \cup 113 .. 114
ResponseErrorMessages == {256, 258, 259, 260, 261, 263, 264, 266}
ExtendedErrorMessages == 512 .. 526

\* DfuError.getErrorMessage(): the type of an undefined code is 0, too.
TypeOf(code) == IF code = Missing THEN 0 ELSE code \div 256
HasMessage(code) ==
    \/ TypeOf(code) = 0 /\ code \in ErrorMessages
    \/ TypeOf(code) = ERROR_MESSAGE_RSP /\ code \in ResponseErrorMessages
    \/ TypeOf(code) = ERROR_MESSAGE_EXT /\ code \in ExtendedErrorMessages

-----------------------------------------------------------------------------
Packet == [start : Bytes \cup {Missing}, opcode : Bytes \cup {Missing},
           result : Bytes \cup {Missing}, ext : Bytes \cup {Missing}, length : Nat]

Resolves(p) == [is |-> "resolved", code |-> 0, opcode |-> p.opcode, length |-> p.length]
Rejects(code) == [is |-> "rejected", code |-> code, opcode |-> Missing, length |-> 0]
Throws == [is |-> "thrown", code |-> Missing, opcode |-> Missing, length |-> 0]

\* An error code is looked for among the messages of its type.  The number that is not
\* found is printed, and printing a byte that is not there throws.
Known(type, byte, messages) == (type * 256) + byte \in messages
Unknown(byte, code) == IF byte = Missing THEN Throws ELSE Rejects(code)

\* The result code that says that the extended error code follows.
WholeCode == ERROR_RSP_EXT_ERROR
ExtCode == ERROR_RSP_EXT_ERROR - (ERROR_MESSAGE_RSP * 256)

Parse(p) ==
    IF p.start # 96 THEN Rejects(ERROR_RESPONSE_NOT_START_WITH_0x60)
    ELSE IF p.result = ERROR_MESSAGE_RSP THEN Resolves(p)
    ELSE IF Known(ERROR_MESSAGE_RSP, p.result, ResponseErrorMessages)
         THEN Rejects((ERROR_MESSAGE_RSP * 256) + p.result)
    ELSE IF p.result # ExtCode THEN Unknown(p.result, ERROR_RSP_OPCODE_UNKNOWN)
    ELSE IF Known(ERROR_MESSAGE_EXT, p.ext, ExtendedErrorMessages)
         THEN Rejects((ERROR_MESSAGE_EXT * 256) + p.ext)
    ELSE Unknown(p.ext, ERROR_EXT_ERROR_CODE_UNKNOWN)

\* assertPacket(opcode, length) of what parse() returned.
AssertPacket(response, opcode, length) ==
    IF response.is = "rejected" THEN response
    ELSE IF response.opcode # opcode THEN Rejects(ERROR_UNEXPECTED_RESPONSE_OPCODE)
    ELSE IF response.length # length THEN Rejects(ERROR_UNEXPECTED_RESPONSE_BYTES)
    ELSE response
=============================================================================
