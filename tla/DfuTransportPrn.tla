-------------------------- MODULE DfuTransportPrn --------------------------
(***************************************************************************)
(* The requests of DfuTransportPrn over a link that carries commands,      *)
(* pieces of data, answers and packet receipt notifications (PRN) without  *)
(* numbering them.  The host keeps one unread packet or one reader, gives  *)
(* up reading after five seconds, and has nothing but the opcode to tell   *)
(* whose answer a packet is.                                               *)
(*                                                                         *)
(* The connection is set up (ready() has resolved).  The caller is         *)
(* DfuAbstractTransport sending one chunk of Pieces packets again and      *)
(* again: it asks for one thing at a time and goes on as its code does,    *)
(* except that it may give up retrying at any time.                        *)
(***************************************************************************)
EXTENDS Integers, Sequences

CONSTANTS
    Pieces,         \* packets of mtu bytes in the chunk
    Prns,           \* values of packetReceiveNotification; 0 switches it off
    MaxRequests,    \* bound: requests sent
    MaxFaults       \* bound: packets lost or damaged, and answers later than 5 s

ASSUME PrnAssumption ==
    Pieces \in Nat \ {0} /\ Prns \subseteq Nat /\ MaxRequests \in Nat /\ MaxFaults \in Nat

VARIABLES
    prn,        \* fixed by the constructor; the target was told it by ready()
    next,       \* what the caller may ask for next
    op,         \* the request under way
    step,       \* how far it is
    pos,        \* pieces of the chunk written: newOffsetSoFar
    prnCount,   \* pieces since the last notification was read
    stored,     \* lastReceivedPacket
    waiting,    \* waitingForPacket is set
    toTarget, toHost,   \* the two directions of the link
    held, good, \* pieces in the target's object; they are those of the chunk
    notified,   \* pieces the target received since its last notification
    alive,      \* the target is in bootloader mode
    requests, faults, aborted

callerVars == <<next, op, step, pos, prnCount, aborted>>
mailboxVars == <<stored, waiting>>
targetVars == <<held, good, notified, alive>>
vars == <<prn, callerVars, mailboxVars, targetVars, toTarget, toHost, requests, faults>>

Ops == {"restart", "create", "write", "crc", "execute", "select"}
NoPacket == [op |-> "none", ok |-> FALSE, at |-> 0, good |-> FALSE, id |-> 0]
Packets == [op : Ops, ok : BOOLEAN, at : 0 .. Pieces, good : BOOLEAN, id : 0 .. MaxRequests]
Commands == [op : Ops \cup {"abort"}, at : 0 .. Pieces, id : 0 .. MaxRequests]

\* The opcode a request reads; restart() is a createObject.
Opcode(o) == IF o = "restart" THEN "create" ELSE IF o = "write" THEN "crc" ELSE o

\* A new operation, after the last one ended.
Anew == {"select", "restart"}

\* A piece more makes a notification due.
DueLate(count) == prn > 0 /\ count > prn
Due(count) == prn > 0 /\ count >= prn

-----------------------------------------------------------------------------
Init ==
    /\ prn \in Prns
    /\ next = Anew /\ op = "select" /\ step = "idle" /\ pos = 0 /\ prnCount = 0
    /\ stored = NoPacket /\ waiting = FALSE /\ toTarget = <<>> /\ toHost = <<>>
    /\ held \in 0 .. Pieces /\ good = TRUE /\ notified = 0 /\ alive = TRUE
    /\ requests = 0 /\ faults = 0 /\ aborted = FALSE

Fault == faults < MaxFaults /\ faults' = faults + 1

\* The caller's promise is settled; then it asks for one of the requests in follow.
Settle(follow) == step' = "idle" /\ next' = follow

\* A failed write or checksum is retried with a new object, any other ends the
\* operation.
Fail == Settle(IF op \in {"write", "crc"} THEN {"create"} \cup Anew ELSE Anew)

\* createObject, crcObject, executeObject, selectObject: write the command, then
\* read.
Request(o) ==
    /\ step = "idle" /\ o \in next \ {"write"} /\ requests < MaxRequests
    /\ op' = o /\ step' = "written" /\ requests' = requests + 1
    /\ toTarget' = Append(toTarget, [op |-> o, at |-> 0, id |-> requests'])
    /\ UNCHANGED <<prn, next, pos, prnCount, aborted, mailboxVars, targetVars, toHost, faults>>

\* writeObject: the chunk, from where the target's object ends.
WriteObjectCounting ==
    /\ step = "idle" /\ "write" \in next /\ requests < MaxRequests
    /\ op' = "write" /\ step' = "sending" /\ requests' = requests + 1
    /\ UNCHANGED <<prn, next, pos, prnCount, aborted, mailboxVars, targetVars, toTarget, toHost, faults>>
WriteObject ==
    /\ step = "idle" /\ "write" \in next /\ requests < MaxRequests
    /\ op' = "write" /\ step' = "sending" /\ requests' = requests + 1 /\ prnCount' = 0
    /\ UNCHANGED <<prn, next, pos, aborted, mailboxVars, targetVars, toTarget, toHost, faults>>

\* After a piece, and the notification if one was due.
NextPieceLate(sent) ==
    IF sent <= Pieces THEN step' = "sending" /\ UNCHANGED next ELSE Settle({"crc"})
NextPiece(sent) ==
    IF sent < Pieces THEN step' = "sending" /\ UNCHANGED next ELSE Settle({"crc"})

\* writeObjectPiece
WriteObjectPiece ==
    /\ step = "sending"
    /\ toTarget' = Append(toTarget, [op |-> "write", at |-> pos, id |-> requests])
    /\ pos' = pos + 1
    /\ IF Due(prnCount + 1)
       THEN prnCount' = 0 /\ step' = "written" /\ UNCHANGED next
       ELSE prnCount' = prnCount + 1 /\ NextPiece(pos')
    /\ UNCHANGED <<prn, op, aborted, mailboxVars, targetVars, toHost, requests, faults>>

\* abort(): a command without an answer.
Abort ==
    /\ step = "idle" /\ ~aborted
    /\ aborted' = TRUE /\ next' = Anew
    /\ toTarget' = Append(toTarget, [op |-> "abort", at |-> 0, id |-> 0])
    /\ UNCHANGED <<prn, op, step, pos, prnCount, mailboxVars, targetVars, toHost, requests, faults>>

\* The promise of read() has resolved with packet p: parse, assertPacket, and what
\* the request and its caller make of it.
VerifiedByOffset(p, expected) == p.at = expected
Verified(p, expected) == p.at = expected /\ p.good
Resolve(p) ==
    \/ (p.op # Opcode(op) \/ ~p.ok) /\ Fail /\ UNCHANGED pos
    \/ /\ p.op = Opcode(op) /\ p.ok
       /\ \/ op = "restart" /\ Settle({"select"}) /\ UNCHANGED pos
          \/ op = "create" /\ Settle({"write"}) /\ pos' = 0
          \/ op = "execute" /\ Settle(Anew) /\ UNCHANGED pos
          \/ op = "select" /\ pos' = p.at
             /\ Settle(IF p.at = 0 THEN {"create"} ELSE IF ~p.good THEN Anew
                       ELSE IF p.at = Pieces THEN {"execute"} ELSE {"write"})
          \/ op = "crc" /\ UNCHANGED pos
             /\ IF Verified(p, Pieces) THEN Settle({"execute"}) ELSE Fail
          \/ op = "write" /\ UNCHANGED pos
             /\ IF Verified(p, pos) THEN NextPiece(pos) ELSE Fail

\* read(): ERROR_READ_CONFLICT, the stored packet, or a reader.
Read ==
    /\ step = "written"
    /\ IF waiting THEN Fail /\ UNCHANGED <<mailboxVars, pos>>
       ELSE IF stored # NoPacket
       THEN stored' = NoPacket /\ UNCHANGED waiting /\ Resolve(stored)
       ELSE waiting' = TRUE /\ step' = "reading" /\ UNCHANGED <<stored, next, pos>>
    /\ UNCHANGED <<prn, op, prnCount, aborted, targetVars, toTarget, toHost, requests, faults>>

\* The five seconds are over: because there is nothing to come, or it comes late.
KeptReader == waiting
NoReader == FALSE
TimeoutUnrejected ==
    /\ step = "reading" /\ waiting /\ waiting' = FALSE
    /\ UNCHANGED <<prn, callerVars, stored, targetVars, toTarget, toHost, requests, faults>>
Timeout ==
    /\ step = "reading"
    /\ \/ toTarget = <<>> /\ toHost = <<>> /\ UNCHANGED faults
       \/ (toTarget # <<>> \/ toHost # <<>>) /\ Fault
    /\ waiting' = NoReader /\ Fail
    /\ UNCHANGED <<prn, op, pos, prnCount, aborted, stored, targetVars, toTarget, toHost, requests>>

\* onData(): throws when a packet is unread already, and the new one is lost.
OnData ==
    /\ toHost # <<>>
    /\ toHost' = Tail(toHost)
    /\ \/ stored # NoPacket /\ UNCHANGED <<mailboxVars, next, step, pos>>
       \/ stored = NoPacket /\ waiting /\ waiting' = FALSE /\ Resolve(Head(toHost))
          /\ UNCHANGED stored
       \/ stored = NoPacket /\ ~waiting /\ stored' = Head(toHost)
          /\ UNCHANGED <<waiting, next, step, pos>>
    /\ UNCHANGED <<prn, op, prnCount, aborted, targetVars, toTarget, requests, faults>>

-----------------------------------------------------------------------------
(* The target and the link, which are not part of the library.             *)

TargetDue(count) == prn > 0 /\ count = prn

Answer(o, ok, id) ==
    toHost' = Append(toHost, [op |-> Opcode(o), ok |-> ok, at |-> held', good |-> good', id |-> id])

\* A piece is added to the object if there is room; a notification is sent after
\* every prn pieces.
Receive(c) ==
    /\ c.op = "write"
    /\ IF held = Pieces
       THEN /\ UNCHANGED <<held, good, notified>>
            /\ toHost' = Append(toHost, [op |-> "write", ok |-> FALSE, at |-> held,
                                         good |-> good, id |-> c.id])
       ELSE /\ held' = held + 1
            /\ \/ good' = (good /\ c.at = held) /\ UNCHANGED faults
               \/ good' = FALSE /\ Fault
            /\ IF TargetDue(notified + 1) THEN notified' = 0 /\ Answer("write", TRUE, c.id)
               ELSE notified' = notified + 1 /\ UNCHANGED toHost

TargetHandles ==
    /\ toTarget # <<>> /\ toTarget' = Tail(toTarget)
    /\ LET c == Head(toTarget) IN
       \/ ~alive /\ UNCHANGED <<targetVars, toHost, faults>>
       \/ alive /\ c.op \in {"restart", "create"} /\ UNCHANGED <<alive, faults>>
          /\ held' = 0 /\ good' = TRUE /\ notified' = 0 /\ Answer(c.op, TRUE, c.id)
       \/ alive /\ Receive(c) /\ UNCHANGED alive /\ (held = Pieces => UNCHANGED faults)
       \/ alive /\ c.op \in {"crc", "select"} /\ UNCHANGED <<targetVars, faults>>
          /\ Answer(c.op, TRUE, c.id)
       \/ alive /\ c.op = "execute" /\ UNCHANGED <<notified, alive, faults>>
          /\ IF held = Pieces THEN held' = 0 /\ good' = TRUE /\ Answer(c.op, TRUE, c.id)
             ELSE UNCHANGED <<held, good>> /\ Answer(c.op, FALSE, c.id)
       \/ alive /\ c.op = "abort" /\ alive' = FALSE /\ UNCHANGED <<held, good, notified, toHost, faults>>
    /\ UNCHANGED <<prn, callerVars, mailboxVars, requests>>

Lose ==
    /\ Fault
    /\ \/ toTarget # <<>> /\ toTarget' = Tail(toTarget) /\ UNCHANGED toHost
       \/ toHost # <<>> /\ toHost' = Tail(toHost) /\ UNCHANGED toTarget
    /\ UNCHANGED <<prn, callerVars, mailboxVars, targetVars, requests>>

-----------------------------------------------------------------------------
Next ==
    \/ \E o \in Ops : Request(o)
    \/ WriteObject \/ WriteObjectPiece \/ Abort
    \/ Read \/ Timeout \/ OnData
    \/ TargetHandles \/ Lose

Spec == Init /\ [][Next]_vars

\* Promise callbacks and timers run, and what is not lost is delivered.
FairSpec == Spec /\ WF_vars(WriteObjectPiece) /\ WF_vars(Read) /\ WF_vars(Timeout)
                 /\ WF_vars(OnData) /\ WF_vars(TargetHandles)

-----------------------------------------------------------------------------
TypeOK ==
    /\ prn \in Prns /\ next \subseteq Ops /\ op \in Ops /\ step \in {"idle", "sending", "written", "reading"}
    /\ pos \in 0 .. Pieces /\ prnCount \in 0 .. Pieces
    /\ stored \in Packets \cup {NoPacket} /\ waiting \in BOOLEAN
    /\ toTarget \in Seq(Commands) /\ toHost \in Seq(Packets)
    /\ held \in 0 .. Pieces /\ good \in BOOLEAN /\ notified \in Nat /\ alive \in BOOLEAN
    /\ requests \in Nat /\ faults \in Nat /\ aborted \in BOOLEAN

\* There is a reader exactly while a request is reading, and never a reader and an
\* unread packet at once: read() cannot find another one waiting
\* (ERROR_READ_CONFLICT), and no packet is left lying while someone waits for it
\* (DfuTransportPrn.js:116-169).
MailboxConsistent ==
    /\ waiting <=> step = "reading"
    /\ waiting => stored = NoPacket

\* Whatever packets of earlier requests are still about, a chunk goes on to be executed
\* only when the target has it all: the checksum it was verified with is current
\* (DfuAbstractTransport.js:183-198, DfuTransportPrn.js:280-286, 330-339).  As packets are
\* not numbered this is so with one packet lost, damaged or late, ...
VerifiedIsHeld ==
    faults <= 1 /\ step = "idle" /\ next = {"execute"} /\ op = "crc" => held = Pieces /\ good

\* ... and with two when a notification is due within the chunk.  One more, and the late
\* answer to an earlier checksum request for the same data passes for the current one.
VerifiedWithNotifications ==
    faults <= 2 /\ prn \in 1 .. Pieces /\ step = "idle" /\ next = {"execute"} /\ op = "crc" =>
        held = Pieces /\ good

\* As long as nothing was lost or late and the target was not sent away, each request
\* finds its own answer and none is left over: host and target count the pieces
\* between notifications alike, also when an object is continued in its middle
\* (DfuTransportPrn.js:260-301).
InStep ==
    faults = 0 /\ ~aborted =>
        /\ stored # NoPacket => stored.id = requests
        /\ \A n \in DOMAIN toHost : toHost[n].id = requests
        /\ step = "idle" /\ next # {"crc"} => stored = NoPacket /\ toHost = <<>> /\ toTarget = <<>>

\* The caller need not know of the link: its requests are those of DfuRequests, performed
\* and answered one by one, and after a fault still never verify what the target does not
\* have (DfuAbstractTransport.js:102-197, DfuTransportPrn.js:234-350).
Phase ==
    IF step = "idle" THEN "idle"
    ELSE IF op # "write" /\ toTarget = <<>> THEN "performed" ELSE "asked"
Requests == INSTANCE DfuRequests WITH phase <- Phase, mishaps <- faults
ServesRequests == Requests!Spec

\* Every request settles, with the answer or by the timeout of read()
\* (DfuTransportPrn.js:134-150).
RequestSettles == step # "idle" ~> step = "idle"
=============================================================================
