----------------------- MODULE DfuTransportPrnProofs -----------------------
(***************************************************************************)
(* What DfuTransportPrn guarantees for every length of a chunk, every      *)
(* interval of notifications and any number of lost or late packets.       *)
(*                                                                         *)
(* IInv adds to the types what the pieces and the bounds need: a write is  *)
(* asked for, and goes on, only while there is a piece left (PieceLeft).   *)
(* Flow says what is under way on a link without faults: the pieces still  *)
(* on their way follow on those the target has, and their number, with     *)
(* those it counted, is what the host counts; at most one request is       *)
(* behind them, or its answer on its way back.                             *)
(*                                                                         *)
(* With a fault commands and packets may be missing, or packets left over  *)
(* for later requests.  OneFault then speaks of the state in which the     *)
(* commands on their way will leave the target (Leads), with the packets   *)
(* it will have sent and the caller not taken: Lag bounds how many of      *)
(* these there are beyond the answer to the request under way (one for     *)
(* each fault) and says whose they can be.                                 *)
(***************************************************************************)
EXTENDS DfuTransportPrn, TLAPS

\* writeObjectPiece() has a piece to write, and counts no more of them than there are.
PieceLeft ==
    /\ step = "idle" /\ "write" \in next => pos < Pieces
    /\ step = "sending" => pos < Pieces /\ op = "write"
    /\ step # "idle" /\ op = "write" => prnCount <= pos

IInv ==
    /\ TypeOK
    /\ requests <= MaxRequests
    /\ MailboxConsistent
    /\ PieceLeft

-----------------------------------------------------------------------------
(* Sequences                                                               *)

\* Of the two directions of the link.
LEMMA Taken ==
    ASSUME NEW S, NEW s \in Seq(S), s # <<>>
    PROVE  Head(s) \in S /\ Tail(s) \in Seq(S)
OBVIOUS

-----------------------------------------------------------------------------
\* A connection that was just set up.
LEMMA InitInv == Init => IInv
<1> SUFFICES ASSUME Init PROVE IInv
  OBVIOUS
<1>1. /\ prn \in Prns /\ next \subseteq Ops /\ op \in Ops /\ step \in {"idle", "sending", "written", "reading"}
      /\ pos \in 0 .. Pieces /\ prnCount \in 0 .. Pieces /\ requests \in Nat /\ faults \in Nat
  BY PrnAssumption DEF Init, Ops, Anew
<1>2. /\ stored \in Packets \cup {NoPacket} /\ waiting \in BOOLEAN /\ alive \in BOOLEAN
      /\ good \in BOOLEAN /\ aborted \in BOOLEAN
  BY DEF Init
<1>3. /\ toTarget \in Seq(Commands) /\ toHost \in Seq(Packets)
      /\ held \in 0 .. Pieces /\ notified \in Nat
  BY DEF Init
<1>4. requests <= MaxRequests /\ MailboxConsistent /\ PieceLeft
  BY PrnAssumption DEF Init, MailboxConsistent, PieceLeft, Anew
<1> QED BY <1>1, <1>2, <1>3, <1>4 DEF IInv, TypeOK

\* A settled request leaves the caller idle, with what it may ask for next.
LEMMA FailFacts ==
    ASSUME Fail PROVE step' = "idle" /\ next' \subseteq Ops \ {"write"}
BY DEF Fail, Settle, Anew, Ops

\* A notification, or a piece without one, is followed by the next piece or by the end.
LEMMA NextPieceFacts ==
    ASSUME NEW sent \in 0 .. Pieces, next \subseteq Ops, NextPiece(sent)
    PROVE  /\ next' \subseteq Ops
           /\ \/ step' = "sending" /\ next' = next /\ sent < Pieces
              \/ step' = "idle" /\ next' = {"crc"}
<1>1. CASE sent < Pieces
  <2>1. step' = "sending" /\ next' = next
    BY <1>1 DEF NextPiece
  <2> QED BY <1>1, <2>1
<1>2. CASE ~(sent < Pieces)
  BY <1>2 DEF NextPiece, Settle, Ops
<1> QED BY <1>1, <1>2

\* Whatever packet is taken for the answer, the request goes on or settles, and a write is
\* asked for next only with a piece left.
LEMMA ResolveFacts ==
    ASSUME IInv, step \in {"written", "reading"}, NEW p \in Packets, Resolve(p)
    PROVE  /\ step' \in {"idle", "sending"} /\ next' \subseteq Ops /\ pos' \in 0 .. Pieces
           /\ step' = "idle" /\ "write" \in next' => pos' < Pieces
           /\ step' = "sending" => pos' < Pieces /\ op = "write"
           /\ op = "write" => pos' = pos
<1>1. pos \in 0 .. Pieces /\ next \subseteq Ops /\ op \in Ops /\ Pieces \in Nat \ {0} /\ p.at \in 0 .. Pieces
  BY PrnAssumption DEF IInv, TypeOK, Packets
<1>2. CASE Fail /\ UNCHANGED pos
  BY <1>1, <1>2, FailFacts
<1>3. CASE op = "write" /\ UNCHANGED pos /\ NextPiece(pos)
  BY <1>1, <1>3, NextPieceFacts
<1>4. CASE op = "select" /\ pos' = p.at
           /\ Settle(IF p.at = 0 THEN {"create"} ELSE IF ~p.good THEN Anew
                     ELSE IF p.at = Pieces THEN {"execute"} ELSE {"write"})
  BY <1>1, <1>4 DEF Settle, Ops, Anew
<1>5. CASE op = "create" /\ Settle({"write"}) /\ pos' = 0
  BY <1>1, <1>5 DEF Settle, Ops
<1>6. CASE (Settle({"select"}) \/ Settle(Anew) \/ Settle({"execute"})) /\ UNCHANGED pos
  BY <1>1, <1>6 DEF Settle, Ops, Anew
<1> QED BY <1>2, <1>3, <1>4, <1>5, <1>6 DEF Resolve

-----------------------------------------------------------------------------
\* Every step preserves the invariant.
LEMMA Inductive == IInv /\ [Next]_vars => IInv'
<1> SUFFICES ASSUME IInv, [Next]_vars PROVE IInv'
  OBVIOUS
<1> USE PrnAssumption DEF IInv, TypeOK, MailboxConsistent, PieceLeft
<1> USE DEF callerVars, mailboxVars, targetVars
<1>1. ASSUME NEW o \in Ops, Request(o) PROVE IInv'
  <2>1. [op |-> o, at |-> 0, id |-> requests'] \in Commands
    BY <1>1 DEF Request, Commands
  <2> QED BY <1>1, <2>1 DEF Request
<1>2. CASE WriteObject
  BY <1>2 DEF WriteObject, Ops
<1>3. CASE WriteObjectPiece
  <2>1. [op |-> "write", at |-> pos, id |-> requests] \in Commands
    BY <1>3 DEF WriteObjectPiece, Commands, Ops
  <2>2. pos' \in 0 .. Pieces /\ pos' = pos + 1
    BY <1>3 DEF WriteObjectPiece
  <2>3. CASE prnCount' = 0 /\ step' = "written" /\ UNCHANGED next
    BY <1>3, <2>1, <2>2, <2>3 DEF WriteObjectPiece
  <2>4. CASE prnCount' = prnCount + 1 /\ NextPiece(pos')
    BY <1>3, <2>1, <2>2, <2>4, NextPieceFacts DEF WriteObjectPiece
  <2> QED BY <1>3, <2>3, <2>4 DEF WriteObjectPiece
<1>4. CASE Abort
  <2>1. [op |-> "abort", at |-> 0, id |-> 0] \in Commands
    BY DEF Commands
  <2> QED BY <1>4, <2>1 DEF Abort, Anew, Ops
<1>5. CASE Read
  <2>1. CASE Fail /\ UNCHANGED <<mailboxVars, pos>>
    BY <1>5, <2>1, FailFacts DEF Read
  <2>2. CASE stored # NoPacket /\ stored' = NoPacket /\ UNCHANGED waiting /\ Resolve(stored)
    BY <1>5, <2>2, ResolveFacts DEF Read
  <2>3. CASE stored = NoPacket /\ waiting' = TRUE /\ step' = "reading" /\ UNCHANGED <<stored, next, pos>>
    BY <1>5, <2>3 DEF Read
  <2> QED BY <1>5, <2>1, <2>2, <2>3 DEF Read
<1>6. CASE Timeout
  <2>1. step' = "idle" /\ next' \subseteq Ops \ {"write"} /\ waiting' = FALSE
    BY <1>6, FailFacts DEF Timeout, NoReader
  <2>2. faults' \in Nat
    BY <1>6 DEF Timeout, Fault
  <2> QED BY <1>6, <2>1, <2>2 DEF Timeout
<1>7. CASE OnData
  <2>1. Head(toHost) \in Packets /\ Tail(toHost) \in Seq(Packets)
    BY <1>7, Taken DEF OnData
  <2>2. CASE stored = NoPacket /\ waiting /\ waiting' = FALSE /\ Resolve(Head(toHost)) /\ UNCHANGED stored
    BY <1>7, <2>1, <2>2, ResolveFacts DEF OnData
  <2>3. CASE /\ UNCHANGED <<waiting, next, step, pos>> /\ stored' \in {stored, Head(toHost)}
             /\ (stored' # stored => ~waiting)
    BY <1>7, <2>1, <2>3 DEF OnData
  <2> QED BY <1>7, <2>1, <2>2, <2>3 DEF OnData
<1>8. CASE TargetHandles
  <2>1. /\ held' \in 0 .. Pieces /\ good' \in BOOLEAN /\ notified' \in Nat
        /\ alive' \in BOOLEAN /\ faults' \in Nat /\ toHost' \in Seq(Packets)
    <3> DEFINE c == Head(toTarget)
    <3>1. c \in Commands
      BY <1>8, Taken DEF TargetHandles
    <3>2. c.op \in Ops \cup {"abort"} /\ c.id \in 0 .. MaxRequests
      BY <3>1 DEF Commands
    <3>3. CASE ~alive /\ UNCHANGED <<targetVars, toHost, faults>>
      BY <3>3
    <3>4. CASE /\ UNCHANGED <<alive, faults>> /\ held' = 0 /\ good' = TRUE /\ notified' = 0
               /\ Answer(c.op, TRUE, c.id) /\ c.op \in {"restart", "create"}
      BY <3>2, <3>4 DEF Answer, Packets, Opcode, Ops
    <3>5. CASE Receive(c) /\ UNCHANGED alive /\ (held = Pieces => UNCHANGED faults)
      <4>1. CASE held = Pieces
        <5>1. [op |-> "write", ok |-> FALSE, at |-> held, good |-> good, id |-> c.id] \in Packets
          BY <3>2 DEF Packets, Ops
        <5> QED BY <3>5, <4>1, <5>1, SMTT(30) DEF Receive
      <4>2. CASE held # Pieces
        <5>1. held' \in 0 .. Pieces /\ good' \in BOOLEAN /\ faults' \in Nat
          <6>1. held' = held + 1 /\ held < Pieces
            BY PrnAssumption, <3>5, <4>2 DEF Receive
          <6>2. \/ good' = (good /\ c.at = held) /\ faults' = faults
                \/ good' = FALSE /\ faults' = faults + 1
            BY <3>5, <4>2, Zenon DEF Receive, Fault
          <6>3. good' \in BOOLEAN /\ (faults' = faults \/ faults' = faults + 1)
            BY <6>2, Zenon
          <6> QED BY <6>1, <6>3
        <5>2. [op |-> Opcode("write"), ok |-> TRUE, at |-> held', good |-> good', id |-> c.id] \in Packets
          BY <3>2, <5>1 DEF Packets, Opcode, Ops
        <5>3. CASE TargetDue(notified + 1)
          <6>1. notified' = 0 /\ Answer("write", TRUE, c.id)
            BY <3>5, <4>2, <5>3 DEF Receive
          <6> QED BY <3>5, <5>1, <5>2, <6>1 DEF Answer
        <5>4. CASE ~TargetDue(notified + 1)
          BY <3>5, <4>2, <5>1, <5>4 DEF Receive
        <5> QED BY <5>3, <5>4
      <4> QED BY <4>1, <4>2
    <3>6. CASE c.op \in {"crc", "select"} /\ UNCHANGED <<targetVars, faults>> /\ Answer(c.op, TRUE, c.id)
      BY <3>2, <3>6 DEF Answer, Packets, Opcode, Ops
    <3>7. CASE /\ c.op = "execute" /\ UNCHANGED <<notified, alive, faults>>
               /\ IF held = Pieces THEN held' = 0 /\ good' = TRUE /\ Answer(c.op, TRUE, c.id)
                  ELSE UNCHANGED <<held, good>> /\ Answer(c.op, FALSE, c.id)
      <4>1. held' \in 0 .. Pieces /\ good' \in BOOLEAN /\ \E ok \in BOOLEAN : Answer(c.op, ok, c.id)
        <5>1. CASE held = Pieces
          <6>1. held' = 0 /\ good' = TRUE /\ Answer(c.op, TRUE, c.id)
            BY <3>7, <5>1
          <6>2. 0 \in 0 .. Pieces
            BY PrnAssumption
          <6> QED BY <6>1, <6>2, Zenon
        <5>2. CASE held # Pieces
          BY <3>7, <5>2
        <5> QED BY <5>1, <5>2
      <4>2. \A ok \in BOOLEAN :
              [op |-> Opcode(c.op), ok |-> ok, at |-> held', good |-> good', id |-> c.id] \in Packets
        BY <3>2, <3>7, <4>1 DEF Packets, Opcode, Ops
      <4> QED BY <3>7, <4>1, <4>2 DEF Answer
    <3>8. CASE alive' = FALSE /\ UNCHANGED <<held, good, notified, toHost, faults>>
      BY <3>8
    <3> QED BY <1>8, <3>3, <3>4, <3>5, <3>6, <3>7, <3>8 DEF TargetHandles
  <2>2. toTarget' \in Seq(Commands)
    BY <1>8, Taken DEF TargetHandles
  <2> QED BY <1>8, <2>1, <2>2 DEF TargetHandles
<1>9. CASE Lose
  <2>1. toTarget' \in Seq(Commands) /\ toHost' \in Seq(Packets)
    BY <1>9, Taken DEF Lose
  <2> QED BY <1>9, <2>1 DEF Lose, Fault
<1>10. CASE UNCHANGED vars
  BY <1>10 DEF vars
<1> QED BY <1>1, <1>2, <1>3, <1>4, <1>5, <1>6, <1>7, <1>8, <1>9, <1>10 DEF Next

\* The inductive invariant.
THEOREM Invariance == Spec => []IInv
BY InitInv, Inductive, PTL DEF Spec

\* Every variable keeps its type; no piece is written past the end of a chunk, however
\* notifications and answers are confused (DfuTransportPrn.js:258-301).
THEOREM TypeCorrect == Spec => []TypeOK
BY Invariance, PTL DEF IInv

\* There is a reader exactly while a request is reading, and never an unread packet beside
\* it, whatever is lost or late (DfuTransportPrn.js:116-169).
THEOREM OneReader == Spec => []MailboxConsistent
BY Invariance, PTL DEF IInv

-----------------------------------------------------------------------------
(* Host and target in step: nothing was lost or late, and no operation     *)
(* aborted.                                                                *)

Faultless == faults = 0 /\ ~aborted

\* The first n commands on their way are the pieces that follow on those the target has.
Following(n) == \A i \in 1 .. n : toTarget[i].op = "write" /\ toTarget[i].at = held + i - 1

\* Pieces are written, or all of the chunk is: none of them is answered yet.
Streaming ==
    /\ toHost = <<>> /\ stored = NoPacket
    /\ Following(Len(toTarget)) /\ held + Len(toTarget) = pos
    /\ prn > 0 => notified + Len(toTarget) = prnCount /\ prnCount < prn
    /\ step = "idle" => pos = Pieces

\* The last request is over, and nothing is on its way.
Ready ==
    /\ toHost = <<>> /\ stored = NoPacket /\ toTarget = <<>>
    /\ "crc" \notin next
    /\ "write" \in next => held = pos /\ notified = 0
    /\ "execute" \in next => held = Pieces
    /\ "select" \in next => held = 0 \/ notified = 0

\* A request is on its way behind the pieces, or the last of these is it.
Asked ==
    /\ toHost = <<>> /\ stored = NoPacket /\ toTarget # <<>>
    /\ toTarget[Len(toTarget)].id = requests
    /\ op = "write" => /\ Following(Len(toTarget)) /\ held + Len(toTarget) = pos
                       /\ prn > 0 /\ notified + Len(toTarget) = prn /\ prnCount = 0
    /\ op # "write" => toTarget[Len(toTarget)].op = op
    /\ op = "crc" => /\ Following(Len(toTarget) - 1) /\ held + Len(toTarget) - 1 = Pieces
                     /\ prn > 0 => notified + Len(toTarget) - 1 < prn
    /\ op \notin {"write", "crc"} => Len(toTarget) = 1
    /\ op = "execute" => held = Pieces
    /\ op = "select" => held = 0 \/ notified = 0

\* The request has its answer, and the target did what it asked for.
Own(p) == p.op = Opcode(op) /\ p.ok /\ p.at = held /\ p.good /\ p.id = requests
Answered ==
    /\ toTarget = <<>>
    /\ \/ Own(stored) /\ toHost = <<>>
       \/ stored = NoPacket /\ Len(toHost) = 1 /\ Own(toHost[1])
    /\ op = "write" => held = pos /\ notified = 0 /\ prnCount = 0
    /\ op = "crc" => held = Pieces
    /\ op \in {"restart", "create", "execute"} => held = 0
    /\ op = "create" => notified = 0
    /\ op = "select" => held = 0 \/ notified = 0

\* Each of these, at its step.
Aligned ==
    /\ alive /\ good
    /\ step = "idle" /\ next # {"crc"} => Ready
    /\ step = "sending" \/ (step = "idle" /\ next = {"crc"}) => Streaming
    /\ step \in {"written", "reading"} => Asked \/ Answered

Flow == Faultless => Aligned

\* A command is sent, ...
LEMMA Appended ==
    ASSUME NEW S, NEW s \in Seq(S), NEW e \in S
    PROVE  /\ Append(s, e) # <<>> /\ Len(Append(s, e)) = Len(s) + 1
           /\ Append(s, e)[Len(s) + 1] = e
           /\ \A i \in 1 .. Len(s) : Append(s, e)[i] = s[i]
OBVIOUS

\* ... and taken.
LEMMA HeadTail ==
    ASSUME NEW S, NEW s \in Seq(S), s # <<>>
    PROVE  /\ Len(s) \in Nat \ {0} /\ Head(s) = s[1] /\ Tail(s) \in Seq(S) /\ Len(Tail(s)) = Len(s) - 1
           /\ \A i \in 1 .. Len(s) - 1 : Tail(s)[i] = s[i + 1]
           /\ Len(s) = 1 => Tail(s) = <<>>
OBVIOUS

\* A new connection has nothing on its way.
LEMMA InitFlow == Init => Flow
BY PrnAssumption DEF Init, Flow, Aligned, Ready, Anew

\* The answer to a request leaves nothing on its way, and what is next fits the target.
LEMMA ResolveAligned ==
    ASSUME IInv, Aligned, step \in {"written", "reading"}, Answered,
           NEW p \in Packets, Own(p), Resolve(p),
           toTarget' = <<>>, toHost' = <<>>, stored' = NoPacket,
           UNCHANGED <<prn, op, prnCount, held, good, notified, alive>>
    PROVE  Aligned'
<1> USE PrnAssumption DEF IInv, TypeOK
<1>1. /\ p.op = Opcode(op) /\ p.ok /\ p.at = held /\ p.good /\ alive' /\ good'
      /\ ~(p.op # Opcode(op) \/ ~p.ok)
  BY DEF Own, Aligned
<1>2. CASE op = "restart"
  <2>1. Settle({"select"})
    BY <1>1, <1>2 DEF Resolve
  <2> QED BY <1>1, <1>2, <2>1 DEF Settle, Aligned, Ready, Answered
<1>3. CASE op = "create"
  <2>1. Settle({"write"}) /\ pos' = 0
    BY <1>1, <1>3 DEF Resolve
  <2> QED BY <1>1, <1>3, <2>1 DEF Settle, Aligned, Ready, Answered
<1>4. CASE op = "execute"
  <2>1. Settle(Anew)
    BY <1>1, <1>4 DEF Resolve
  <2> QED BY <1>1, <1>4, <2>1 DEF Settle, Aligned, Ready, Answered, Anew
<1>5. CASE op = "select"
  <2>1. pos' = p.at /\ Settle(IF p.at = 0 THEN {"create"} ELSE IF ~p.good THEN Anew
                       ELSE IF p.at = Pieces THEN {"execute"} ELSE {"write"})
    BY <1>1, <1>5 DEF Resolve
  <2> QED BY <1>1, <1>5, <2>1 DEF Settle, Aligned, Ready, Answered, Anew
<1>6. CASE op = "crc"
  <2>1. Verified(p, Pieces)
    BY <1>1, <1>6 DEF Verified, Answered
  <2>2. Settle({"execute"})
    BY <1>1, <1>6, <2>1 DEF Resolve
  <2> QED BY <1>1, <1>6, <2>2 DEF Settle, Aligned, Ready, Answered
<1>7. CASE op = "write"
  <2>1. Verified(p, pos)
    BY <1>1, <1>7 DEF Verified, Answered
  <2>2. NextPiece(pos) /\ pos' = pos
    BY <1>1, <1>7, <2>1 DEF Resolve
  <2>3. held' + Len(toTarget') = pos' /\ Following(Len(toTarget))'
    BY <1>7, <2>2 DEF Answered, Following
  <2>4. prn' > 0 => notified' + Len(toTarget') = prnCount' /\ prnCount' < prn'
    BY <1>7 DEF Answered
  <2>5. CASE pos < Pieces
    BY <1>1, <2>2, <2>3, <2>4, <2>5 DEF NextPiece, Aligned, Streaming
  <2>6. CASE ~(pos < Pieces)
    BY <1>1, <2>2, <2>3, <2>4, <2>6 DEF NextPiece, Settle, Aligned, Streaming
  <2> QED BY <2>5, <2>6
<1> QED BY <1>2, <1>3, <1>4, <1>5, <1>6, <1>7 DEF Ops

\* The pieces behind the first follow on it.
LEMMA FollowTail ==
    ASSUME NEW s, NEW t, NEW n \in Nat, NEW h \in Nat,
           \A i \in 1 .. n + 1 : s[i].op = "write" /\ s[i].at = h + i - 1,
           \A i \in 1 .. n : t[i] = s[i + 1]
    PROVE  \A i \in 1 .. n : t[i].op = "write" /\ t[i].at = (h + 1) + i - 1
<1> TAKE i \in 1 .. n
<1>1. i + 1 \in 1 .. n + 1
  OBVIOUS
<1>2. t[i] = s[i + 1] /\ s[i + 1].op = "write" /\ s[i + 1].at = h + (i + 1) - 1
  BY <1>1
<1> QED BY <1>2

\* The target handles a command without a fault.
LEMMA TargetFaults ==
    ASSUME IInv, TargetHandles, Faultless'
    PROVE  Faultless /\ faults' = faults
<1>1. faults' = faults \/ faults' = faults + 1
  BY Zenon DEF TargetHandles, Receive, Fault
<1> QED BY <1>1 DEF Faultless, IInv, TypeOK, TargetHandles, callerVars

\* A piece that follows on those the target has.
LEMMA TakesPiece ==
    ASSUME IInv, TargetHandles, Faultless', alive, good, Head(toTarget).op = "write",
           Head(toTarget).at = held, held < Pieces
    PROVE  /\ held' = held + 1 /\ good' /\ alive'
           /\ ~TargetDue(notified + 1) => notified' = notified + 1 /\ toHost' = toHost
           /\ TargetDue(notified + 1) =>
                notified' = 0 /\ toHost' = Append(toHost, [op |-> "crc", ok |-> TRUE, at |-> held',
                                             good |-> good', id |-> Head(toTarget).id])
<1> DEFINE c == Head(toTarget)
<1>1. Receive(c) /\ UNCHANGED alive
  BY DEF TargetHandles
<1>2. held # Pieces
  BY PrnAssumption DEF IInv, TypeOK
<1>3. UNCHANGED faults
  BY TargetFaults
<1>4. ~Fault
  BY <1>3 DEF Fault, IInv, TypeOK
<1>5. held' = held + 1 /\ good' = (good /\ c.at = held)
  BY <1>1, <1>2, <1>4 DEF Receive
<1> QED BY <1>1, <1>2, <1>5 DEF Receive, Answer, Opcode

\* Every step keeps to the flow.
LEMMA FlowStep == IInv /\ Flow /\ [Next]_vars => Flow'
<1> SUFFICES ASSUME IInv, Flow, [Next]_vars, Faultless' PROVE Aligned'
  BY DEF Flow
<1> USE PrnAssumption DEF IInv, TypeOK
<1> USE DEF callerVars, mailboxVars, targetVars
<1>1. ASSUME NEW o \in Ops, Request(o) PROVE Aligned'
  <2>1. Aligned /\ step = "idle" /\ step' = "written" /\ o \in next /\ o # "write"
    BY <1>1 DEF Flow, Faultless, Request
  <2>2. toTarget \in Seq(Commands) /\ [op |-> o, at |-> 0, id |-> requests'] \in Commands
    BY <1>1 DEF Request, Commands
  <2>3. /\ toTarget' # <<>> /\ Len(toTarget') = Len(toTarget) + 1
        /\ toTarget'[Len(toTarget')] = [op |-> o, at |-> 0, id |-> requests']
        /\ \A i \in 1 .. Len(toTarget) : toTarget'[i] = toTarget[i]
    BY <1>1, <2>2, Appended DEF Request
  <2>4. op' = o /\ UNCHANGED <<prn, prnCount, pos, stored, held, good, notified, alive, toHost>>
    BY <1>1 DEF Request
  <2>5. CASE next # {"crc"}
    <3>1. Ready /\ o # "crc"
      BY <2>1, <2>5 DEF Aligned, Ready
    <3>2. Asked'
      BY <2>1, <2>3, <2>4, <3>1 DEF Ready, Asked
    <3> QED BY <2>1, <2>4, <3>2 DEF Aligned
  <2>6. CASE next = {"crc"}
    <3>1. Streaming /\ o = "crc" /\ pos = Pieces
      BY <2>1, <2>6 DEF Aligned, Streaming
    <3>2. Following(Len(toTarget) - 1)'
      <4>1. Len(toTarget') - 1 = Len(toTarget)
        BY <2>2, <2>3
      <4> QED BY <2>3, <2>4, <3>1, <4>1 DEF Streaming, Following
    <3>3. Asked'
      BY <2>1, <2>3, <2>4, <3>1, <3>2 DEF Streaming, Asked
    <3> QED BY <2>1, <2>4, <3>3 DEF Aligned
  <2> QED BY <2>5, <2>6
<1>2. CASE WriteObject
  <2>1. Aligned /\ step = "idle" /\ step' = "sending" /\ "write" \in next /\ next # {"crc"}
    BY <1>2 DEF Flow, Faultless, WriteObject
  <2>2. Ready
    BY <2>1 DEF Aligned
  <2>3. Streaming'
    BY <1>2, <2>1, <2>2 DEF WriteObject, Ready, Streaming, Following
  <2> QED BY <1>2, <2>1, <2>3 DEF WriteObject, Aligned
<1>3. CASE WriteObjectPiece
  <2>1. Aligned /\ step = "sending" /\ Streaming /\ pos < Pieces /\ op = "write"
    BY <1>3 DEF Flow, Faultless, WriteObjectPiece, Aligned, PieceLeft
  <2> DEFINE c == [op |-> "write", at |-> pos, id |-> requests]
  <2>2. toTarget \in Seq(Commands) /\ c \in Commands
    BY <1>3 DEF WriteObjectPiece, Commands, Ops
  <2>3. /\ toTarget' # <<>> /\ Len(toTarget') = Len(toTarget) + 1
        /\ toTarget'[Len(toTarget')] = c
        /\ \A i \in 1 .. Len(toTarget) : toTarget'[i] = toTarget[i]
    BY <1>3, <2>2, Appended DEF WriteObjectPiece
  <2>4. pos' = pos + 1 /\ UNCHANGED <<prn, op, stored, held, good, notified, alive, toHost, requests>>
    BY <1>3 DEF WriteObjectPiece
  <2>5. Following(Len(toTarget))' /\ held' + Len(toTarget') = pos'
    <3>1. c.op = "write" /\ c.at = held + Len(toTarget)
      BY <2>1 DEF Streaming
    <3>2. \A i \in 1 .. Len(toTarget) : toTarget'[i].op = "write" /\ toTarget'[i].at = held + i - 1
      BY <2>1, <2>3 DEF Streaming, Following
    <3> HIDE DEF c
    <3>3. ASSUME NEW i \in 1 .. Len(toTarget')
          PROVE  toTarget'[i].op = "write" /\ toTarget'[i].at = held' + i - 1
      <4>1. CASE i \in 1 .. Len(toTarget)
        BY <2>4, <3>2, <4>1
      <4>2. CASE i = Len(toTarget')
        BY <2>2, <2>3, <2>4, <3>1, <4>2
      <4> QED BY <2>2, <2>3, <4>1, <4>2
    <3>4. held' + Len(toTarget') = pos'
      BY <2>1, <2>2, <2>3, <2>4 DEF Streaming
    <3> QED BY <3>3, <3>4 DEF Following
  <2>6. prn > 0 => notified + Len(toTarget') = prnCount + 1 /\ prnCount + 1 <= prn
    BY <2>1, <2>2, <2>3 DEF Streaming
  <2>7. CASE Due(prnCount + 1)
    <3>1. prnCount' = 0 /\ step' = "written" /\ prn > 0 /\ prnCount + 1 >= prn
      BY <1>3, <2>7 DEF WriteObjectPiece, Due
    <3>2. toTarget'[Len(toTarget')].id = requests'
      BY <2>3, <2>4
    <3>3. toHost' = <<>> /\ stored' = NoPacket
      BY <2>1, <2>4 DEF Streaming
    <3>4. notified' + Len(toTarget') = prn'
      BY <2>4, <2>6, <3>1
    <3>5. Asked'
      BY <2>1, <2>3, <2>4, <2>5, <3>1, <3>2, <3>3, <3>4 DEF Asked
    <3> QED BY <2>1, <2>4, <3>1, <3>5 DEF Aligned
  <2>8. CASE ~Due(prnCount + 1)
    <3>1. prnCount' = prnCount + 1 /\ NextPiece(pos') /\ (prn > 0 => prnCount + 1 < prn)
      BY <1>3, <2>8 DEF WriteObjectPiece, Due
    <3>2. toHost' = <<>> /\ stored' = NoPacket /\ good' /\ alive'
      BY <2>1, <2>4 DEF Streaming, Aligned
    <3>3. prn' > 0 => notified' + Len(toTarget') = prnCount' /\ prnCount' < prn'
      BY <2>4, <2>6, <3>1
    <3>4. CASE pos' < Pieces
      <4>1. step' = "sending"
        BY <3>1, <3>4 DEF NextPiece
      <4> QED BY <2>5, <3>2, <3>3, <4>1 DEF Streaming, Aligned
    <3>5. CASE ~(pos' < Pieces)
      <4>1. step' = "idle" /\ next' = {"crc"} /\ pos' = Pieces
        BY <2>1, <2>4, <3>1, <3>5 DEF NextPiece, Settle
      <4> QED BY <2>5, <3>2, <3>3, <4>1 DEF Streaming, Aligned
    <3> QED BY <3>4, <3>5
  <2> QED BY <2>7, <2>8
<1>4. CASE Abort
  BY <1>4 DEF Abort, Faultless
<1>5. CASE Read
  <2>1. Aligned /\ step = "written" /\ ~waiting /\ (Asked \/ Answered)
    BY <1>5 DEF Flow, Faultless, Read, Aligned, MailboxConsistent
  <2>2. UNCHANGED <<prn, op, prnCount, held, good, notified, alive, toTarget, toHost, requests>>
    BY <1>5 DEF Read
  <2>3. CASE stored # NoPacket
    <3>1. Answered /\ Own(stored) /\ toHost = <<>> /\ stored \in Packets
      BY <2>1, <2>3 DEF Asked, Answered
    <3>2. stored' = NoPacket /\ Resolve(stored)
      BY <1>5, <2>1, <2>3 DEF Read
    <3>3. toTarget' = <<>> /\ toHost' = <<>>
      BY <2>2, <3>1 DEF Answered
    <3> QED BY <2>1, <2>2, <3>1, <3>2, <3>3, ResolveAligned
  <2>4. CASE stored = NoPacket
    <3>1. step' = "reading" /\ UNCHANGED <<stored, next, pos>>
      BY <1>5, <2>1, <2>4 DEF Read
    <3>2. Asked => Asked'
      BY <2>2, <3>1 DEF Asked, Following
    <3>3. Answered => Answered'
      BY <2>2, <3>1 DEF Answered, Own, Opcode
    <3> QED BY <2>1, <2>2, <3>1, <3>2, <3>3 DEF Aligned
  <2> QED BY <2>3, <2>4
<1>6. CASE Timeout
  <2>1. faults' = faults /\ toTarget = <<>> /\ toHost = <<>>
    BY <1>6 DEF Timeout, Fault, Faultless
  <2>2. Aligned /\ step = "reading" /\ (Asked \/ Answered) /\ stored = NoPacket
    BY <1>6, <2>1 DEF Flow, Faultless, Timeout, Aligned, MailboxConsistent
  <2> QED BY <2>1, <2>2 DEF Asked, Answered, Own, NoPacket
<1>7. CASE OnData
  <2>1. Aligned /\ toHost # <<>>
    BY <1>7 DEF Flow, Faultless, OnData
  <2>2. step \in {"written", "reading"} /\ Answered
    BY <2>1 DEF Aligned, Ready, Streaming, Asked
  <2>3. /\ stored = NoPacket /\ Own(Head(toHost)) /\ Head(toHost) \in Packets
        /\ Tail(toHost) = <<>> /\ toTarget = <<>>
    BY <2>1, <2>2, HeadTail, Taken DEF Answered
  <2>4. /\ UNCHANGED <<prn, op, prnCount, held, good, notified, alive, toTarget, requests>>
        /\ toHost' = <<>>
    BY <1>7, <2>3 DEF OnData
  <2>5. CASE waiting
    <3>1. Resolve(Head(toHost)) /\ stored' = NoPacket
      BY <1>7, <2>3, <2>5 DEF OnData
    <3> QED BY <2>1, <2>2, <2>3, <2>4, <3>1, ResolveAligned
  <2>6. CASE ~waiting
    <3>1. stored' = Head(toHost) /\ UNCHANGED <<step, next, pos>>
      BY <1>7, <2>3, <2>6 DEF OnData
    <3>2. Own(stored)'
      BY <2>3, <2>4, <3>1 DEF Own, Opcode
    <3>3. Answered'
      BY <2>2, <2>3, <2>4, <3>1, <3>2 DEF Answered, Own
    <3> QED BY <2>1, <2>2, <2>4, <3>1, <3>3 DEF Aligned
  <2> QED BY <2>5, <2>6
<1>8. CASE TargetHandles
  <2>1. Aligned /\ toTarget # <<>> /\ toTarget' = Tail(toTarget) /\ toTarget \in Seq(Commands)
    BY <1>8, TargetFaults DEF Flow, Faultless, TargetHandles
  <2>2. PICK n \in Nat : /\ Len(toTarget) = n + 1 /\ Head(toTarget) = toTarget[1] /\ Len(toTarget') = n
                         /\ \A i \in 1 .. n : toTarget'[i] = toTarget[i + 1]
                         /\ n = 0 => toTarget' = <<>>
    BY <2>1, HeadTail, SMTT(30)
  <2>3. /\ UNCHANGED <<prn, op, step, next, pos, prnCount, stored, waiting, requests>>
        /\ faults' = faults /\ alive /\ good
    BY <1>8, <2>1, TargetFaults DEF TargetHandles, Aligned, Faultless
  <2> DEFINE c == Head(toTarget)
  <2>4. CASE step = "sending" \/ (step = "idle" /\ next = {"crc"})
    <3>0. Streaming
      BY <2>1, <2>4 DEF Aligned
    <3>1. c.op = "write" /\ c.at = held /\ held < Pieces
      BY <2>2, <3>0 DEF Streaming, Following
    <3>2. ~TargetDue(notified + 1)
      BY <2>2, <3>0 DEF Streaming, TargetDue
    <3>3. /\ held' = held + 1 /\ good' /\ alive' /\ notified' = notified + 1 /\ toHost' = toHost
      BY <1>8, <2>1, <2>3, <3>1, <3>2, TakesPiece
    <3>4. Following(Len(toTarget))'
      <4>1. \A i \in 1 .. n + 1 : toTarget[i].op = "write" /\ toTarget[i].at = held + i - 1
        BY <2>2, <3>0 DEF Streaming, Following
      <4>2. \A i \in 1 .. n : toTarget'[i].op = "write" /\ toTarget'[i].at = (held + 1) + i - 1
        BY <2>2, <4>1, FollowTail
      <4> QED BY <2>2, <3>3, <4>2 DEF Following
    <3>5. held' + Len(toTarget') = pos' /\ (prn' > 0 => notified' + Len(toTarget') = prnCount')
      BY <2>2, <2>3, <3>0, <3>3 DEF Streaming
    <3>6. Streaming'
      BY <2>3, <3>0, <3>3, <3>4, <3>5 DEF Streaming
    <3> QED BY <2>3, <2>4, <3>3, <3>6 DEF Aligned
  <2>5. CASE step \in {"written", "reading"} /\ Asked /\ op = "write"
    <3>1. c.op = "write" /\ c.at = held /\ held < Pieces
      BY <2>2, <2>5 DEF Asked, Following
    <3>2. TargetDue(notified + 1) <=> n = 0
      BY <2>2, <2>5 DEF Asked, TargetDue
    <3>3. held' = held + 1 /\ good' /\ alive'
      BY <1>8, <2>3, <3>1, TakesPiece
    <3>4. held' + Len(toTarget') = pos'
      BY <2>2, <2>3, <2>5, <3>3 DEF Asked
    <3>5. CASE n = 0
      <4> DEFINE p == [op |-> "crc", ok |-> TRUE, at |-> held', good |-> good', id |-> c.id]
      <4>1. notified' = 0 /\ toHost' = Append(toHost, p)
        BY <1>8, <2>3, <3>1, <3>2, <3>5, TakesPiece
      <4>2. toHost' = <<p>> /\ c.id = requests
        BY <2>2, <2>5, <3>5, <4>1 DEF Asked
      <4>3. Len(toHost') = 1 /\ Own(toHost[1])'
        BY <2>3, <2>5, <3>3, <4>2 DEF Own, Opcode
      <4>4. toTarget' = <<>> /\ held' = pos' /\ prnCount' = 0 /\ stored' = NoPacket
        BY <2>2, <2>3, <2>5, <3>3, <3>4, <3>5 DEF Asked
      <4>5. Answered'
        BY <2>3, <2>5, <4>1, <4>3, <4>4 DEF Answered
      <4> QED BY <2>3, <2>5, <3>3, <4>5 DEF Aligned
    <3>6. CASE n # 0
      <4>1. notified' = notified + 1 /\ toHost' = toHost
        BY <1>8, <2>3, <3>1, <3>2, <3>6, TakesPiece
      <4>2. Following(Len(toTarget))'
        BY <2>2, <2>5, <3>3, SMTT(30) DEF Asked, Following
      <4>3. toTarget' # <<>> /\ toTarget'[Len(toTarget')] = toTarget[Len(toTarget)]
        BY <2>2, <3>6
      <4>4. notified' + Len(toTarget') = prn'
        BY <2>2, <2>3, <2>5, <4>1 DEF Asked
      <4>5. Asked'
        BY <2>3, <2>5, <3>4, <4>1, <4>2, <4>3, <4>4 DEF Asked
      <4> QED BY <2>3, <2>5, <3>3, <4>5 DEF Aligned
    <3> QED BY <3>5, <3>6
  <2>6. CASE step \in {"written", "reading"} /\ Asked /\ op = "crc" /\ n # 0
    <3>1. c.op = "write" /\ c.at = held /\ held < Pieces
      BY <2>2, <2>6 DEF Asked, Following
    <3>2. ~TargetDue(notified + 1)
      BY <2>2, <2>6 DEF Asked, TargetDue
    <3>3. held' = held + 1 /\ good' /\ alive' /\ notified' = notified + 1 /\ toHost' = toHost
      BY <1>8, <2>3, <3>1, <3>2, TakesPiece
    <3>4. Following(Len(toTarget) - 1)'
      <4>1. \A i \in 1 .. n : toTarget[i].op = "write" /\ toTarget[i].at = held + i - 1
        BY <2>2, <2>6 DEF Asked, Following
      <4>2. \A i \in 1 .. n - 1 : toTarget'[i].op = "write" /\ toTarget'[i].at = held' + i - 1
        BY <2>2, <3>3, <4>1, SMTT(30)
      <4> QED BY <2>2, <4>2 DEF Following
    <3>5. toTarget' # <<>> /\ toTarget'[Len(toTarget')] = toTarget[Len(toTarget)]
      BY <2>2, <2>6
    <3>6. held' + Len(toTarget') - 1 = Pieces /\ (prn' > 0 => notified' + Len(toTarget') - 1 < prn')
      BY <2>2, <2>3, <2>6, <3>3 DEF Asked
    <3>7. Asked'
      BY <2>3, <2>6, <3>3, <3>4, <3>5, <3>6 DEF Asked
    <3> QED BY <2>3, <2>6, <3>3, <3>7 DEF Aligned
  <2>7. CASE /\ step \in {"written", "reading"} /\ Asked /\ op # "write"
             /\ (op = "crc" => n = 0)
    <3>1. /\ n = 0 /\ c.op = op /\ c.id = requests /\ toTarget' = <<>>
          /\ toHost = <<>> /\ stored' = NoPacket
      BY <2>2, <2>3, <2>7 DEF Asked
    <3> DEFINE p == [op |-> Opcode(op), ok |-> TRUE, at |-> held', good |-> good', id |-> requests]
    <3>2. toHost' = <<p>> /\ alive' /\ good'
      <4>1. c.op \in Ops \ {"write"} /\ (c.op = "execute" => held = Pieces)
        BY <2>7, <3>1 DEF Asked
      <4>2. c.op \in {"restart", "create"} => Answer(c.op, TRUE, c.id) /\ alive' /\ good'
        BY <1>8, <2>3 DEF TargetHandles, Receive
      <4>3. c.op \in {"crc", "select"} => Answer(c.op, TRUE, c.id) /\ alive' /\ good'
        BY <1>8, <2>3 DEF TargetHandles, Receive
      <4>4. c.op = "execute" => Answer(c.op, TRUE, c.id) /\ alive' /\ good'
        BY <1>8, <2>3, <4>1 DEF TargetHandles, Receive
      <4>5. Answer(c.op, TRUE, c.id) /\ alive' /\ good'
        BY <4>1, <4>2, <4>3, <4>4 DEF Ops
      <4>6. toHost' = Append(<<>>, p)
        BY <3>1, <4>5 DEF Answer
      <4> HIDE DEF p
      <4>7. Append(<<>>, p) = <<p>>
        OBVIOUS
      <4> QED BY <4>5, <4>6, <4>7
    <3>3. Len(toHost') = 1 /\ Own(toHost[1])'
      BY <2>3, <3>2 DEF Own, Opcode
    <3>4. op \in {"restart", "create", "execute"} => held' = 0
      BY <1>8, <2>3, <2>7, <3>1 DEF TargetHandles, Receive, Asked
    <3>5. op = "create" => notified' = 0
      BY <1>8, <2>3, <2>7, <3>1 DEF TargetHandles, Receive
    <3>6. op \in {"crc", "select"} => UNCHANGED <<held, notified>>
      BY <1>8, <2>3, <2>7, <3>1 DEF TargetHandles, Receive
    <3>7. Answered'
      BY <2>2, <2>3, <2>7, <3>1, <3>3, <3>4, <3>5, <3>6 DEF Asked, Answered
    <3> QED BY <2>3, <2>7, <3>2, <3>7 DEF Aligned
  <2> QED BY <2>1, <2>4, <2>5, <2>6, <2>7 DEF Aligned, Ready, Answered
<1>9. CASE Lose
  BY <1>9 DEF Lose, Fault, Faultless
<1>10. CASE UNCHANGED vars
  <2>1. Aligned
    BY <1>10 DEF vars, Flow, Faultless
  <2> QED BY <1>10, <2>1 DEF vars, Aligned, Ready, Streaming, Asked, Answered, Own, Opcode, Following
<1> QED BY <1>1, <1>2, <1>3, <1>4, <1>5, <1>6, <1>7, <1>8, <1>9, <1>10 DEF Next

\* The flow is an invariant together with IInv.
LEMMA StepFlow == Spec => []Flow
<1>1. Spec => [](IInv /\ Flow)
  BY InitInv, Inductive, InitFlow, FlowStep, PTL DEF Spec
<1> QED BY <1>1, PTL

\* As long as nothing was lost or late and no operation aborted, each request finds its own
\* answer, none is left over, and host and target agree when a notification is due, for
\* every length of a chunk and every interval (DfuTransportPrn.js:260-301).
THEOREM KeepsInStep == Spec => []InStep
<1>1. IInv /\ Flow => InStep
  <2> SUFFICES ASSUME IInv, Flow, Faultless
               PROVE  /\ stored # NoPacket => stored.id = requests
                      /\ \A n \in DOMAIN toHost : toHost[n].id = requests
                      /\ step = "idle" /\ next # {"crc"} =>
                            stored = NoPacket /\ toHost = <<>> /\ toTarget = <<>>
    BY DEF InStep, Faultless
  <2>1. Aligned /\ toHost \in Seq(Packets) /\ step \in {"idle", "sending", "written", "reading"}
    BY DEF Flow, IInv, TypeOK
  <2>2. CASE Answered
    BY <2>1, <2>2 DEF Answered, Own, Aligned, Ready
  <2>3. CASE ~Answered
    BY <2>1, <2>3 DEF Aligned, Ready, Streaming, Asked
  <2> QED BY <2>2, <2>3
<1> QED BY <1>1, Invariance, StepFlow, PTL

-----------------------------------------------------------------------------
(* One packet lost, damaged or late: what the target and the line to the   *)
(* host will be when the target has handled the commands on their way.     *)

\* After the last request the caller asks for one of these.
NextForms ==
    next \in {Anew, {"create"} \cup Anew, {"select"}, {"create"}, {"write"}, {"crc"}, {"execute"}}

\* Of a packet, what a damaged piece does not change.
Brief(p) == [op |-> p.op, at |-> p.at, id |-> p.id]
Briefs == [op : Ops, at : 0 .. Pieces, id : 0 .. MaxRequests]
TargetStates == [held : 0 .. Pieces, notified : Nat, alive : BOOLEAN, out : Seq(Briefs)]

\* A target in state s that handles command c (k is prn): the pieces it has and counts
\* then, and the packet it sends.
Notifies(k, s) == k > 0 /\ s.notified + 1 = k
HeldBy(s, c) ==
    IF c.op \in {"restart", "create"} \/ (c.op = "execute" /\ s.held = Pieces) THEN 0
    ELSE IF c.op = "write" /\ s.held # Pieces THEN s.held + 1 ELSE s.held
CountBy(k, s, c) ==
    IF c.op \in {"restart", "create"} THEN 0
    ELSE IF c.op = "write" /\ s.held # Pieces
    THEN IF Notifies(k, s) THEN 0 ELSE s.notified + 1
    ELSE s.notified
Sends(k, s, c) == c.op # "abort" /\ (c.op = "write" => s.held = Pieces \/ Notifies(k, s))
Sent(s, c) ==
    [op |-> IF c.op = "write" /\ s.held = Pieces THEN "write" ELSE Opcode(c.op),
     at |-> HeldBy(s, c), id |-> c.id]
Moved(k, s, c) ==
    IF s.alive
    THEN [held |-> HeldBy(s, c), notified |-> CountBy(k, s, c), alive |-> c.op # "abort",
          out |-> IF Sends(k, s, c) THEN Append(s.out, Sent(s, c)) ELSE s.out]
    ELSE s

\* The commands lead the target from one state to another; what it sent stays sent.
Extends(a, b) == Len(a) <= Len(b) /\ \A m \in 1 .. Len(a) : b[m] = a[m]
Path(k, q, commands, from, to) ==
    /\ q \in [1 .. Len(commands) + 1 -> TargetStates]
    /\ q[1] = from /\ q[Len(commands) + 1] = to
    /\ \A i \in 1 .. Len(commands) : q[i + 1] = Moved(k, q[i], commands[i])
    /\ \A i, j \in 1 .. Len(commands) + 1 : i <= j => Extends(q[i].out, q[j].out)
Leads(k, commands, from, to) == \E q : Path(k, q, commands, from, to)

\* The target as it is, with the packets that are on their way from it or unread.
Unread == IF stored = NoPacket THEN 0 ELSE 1
Line == [i \in 1 .. Unread + Len(toHost) |-> IF i <= Unread THEN stored ELSE toHost[i - Unread]]
Here == [held |-> held, notified |-> notified, alive |-> alive,
         out |-> [i \in 1 .. Unread + Len(toHost) |-> Brief(Line[i])]]

Pending == step \in {"written", "reading"}
Writing == step = "sending" \/ (step = "idle" /\ next = {"crc"})
InChunk == (step = "idle" /\ next \in {{"write"}, {"crc"}}) \/ (step # "idle" /\ op \in {"write", "crc"})

\* The target will notify again when a whole interval of pieces was written.
Even(t) == prn > 0 => t.held \in {0, Pieces} \/ t.notified = 0
Current(t) == \A m \in 1 .. Len(t.out) : t.out[m].op = "select" => t.out[m].at = t.held

\* There are not more packets than one for the request under way and one for each fault,
\* the last of them its own.
Few(t) == Len(t.out) <= (IF Pending THEN faults + 1 ELSE faults)
Known(t) ==
    \A m \in 1 .. Len(t.out) :
        t.out[m].id <= requests /\ (t.out[m].id = requests => t.out[m].op = Opcode(op))
Own1(t) == faults = 0 => ~aborted /\ \A m \in 1 .. Len(t.out) : t.out[m].id = requests
Own2(t) == Pending /\ Len(t.out) = 2 => t.out[2].id = requests /\ t.out[1].id # requests
Bounded(t) == Few(t) /\ Known(t) /\ Own1(t) /\ Own2(t) /\ (prn > 0 => t.notified < prn)

\* What a request finds when it is sent, ...
IdleLag(t) ==
    /\ step = "idle" /\ next # {"crc"} /\ Len(t.out) = faults => Even(t) /\ Current(t)
    /\ step = "idle" /\ next = {"write"} =>
         /\ t.held = pos
         /\ Len(t.out) = faults =>
              (prn > 0 => t.notified = 0) /\ \A m \in 1 .. Len(t.out) : t.out[m].op # "crc"

\* ... between pieces, ...
WritingLag(t) ==
    Writing =>
        /\ t.held <= pos /\ (step = "idle" => pos = Pieces)
        /\ prn > 0 => prnCount < prn /\ (t.held < pos => t.notified < prnCount)
        /\ Len(t.out) = faults => t.held = pos /\ (prn > 0 => t.notified <= prnCount)
        /\ \A m \in 1 .. Len(t.out) :
             IF t.out[m].id = requests
             THEN t.out[m].at <= t.held /\ (prn > 0 => t.notified < prnCount)
             ELSE t.out[m].op # "crc"

\* ... and when it reads.
WriteLag(t) ==
    /\ t.held <= pos /\ prnCount = 0 /\ prn > 0
    /\ Len(t.out) = faults + 1 => t.notified = 0
    /\ \A m \in 1 .. Len(t.out) :
         IF t.out[m].id = requests THEN t.out[m].at <= t.held ELSE t.out[m].op # "crc"
CrcLag(t) ==
    /\ Len(t.out) = faults + 1 => t.held = Pieces
    /\ \A m \in 1 .. Len(t.out) : t.out[m].id < requests - 1 => t.out[m].op # "crc"
NewLag(t) == t.out # <<>> => t.held = 0 /\ t.notified = 0
PendingLag(t) ==
    Pending =>
        /\ op = "write" => WriteLag(t)
        /\ op = "crc" => CrcLag(t)
        /\ op \in {"restart", "create"} => NewLag(t)
        /\ op \in {"select", "execute"} => (Len(t.out) = faults + 1 => Even(t))
        /\ op = "select" => Current(t)

\* A target that was sent away answers no more, and no chunk is under way.
LateLag(t) == Len(t.out) <= faults /\ (InChunk => t.out = <<>>)

Lag(t) ==
    IF t.alive THEN Bounded(t) /\ IdleLag(t) /\ WritingLag(t) /\ PendingLag(t) ELSE LateLag(t)

OneFault == faults <= 1 => \E t \in TargetStates : Leads(prn, toTarget, Here, t) /\ Lag(t)

\* The target counts up to the interval.
CountBelow == prn > 0 => notified < prn

\* The target is being sent away, and nothing went wrong: it will not answer what is behind.
Leaving ==
    faults = 0 /\ aborted /\ alive =>
        /\ stored = NoPacket /\ toHost = <<>>
        /\ \E a \in 1 .. Len(toTarget) :
             /\ toTarget[a].op = "abort" /\ \A i \in 1 .. a - 1 : toTarget[i].op = "write"
             /\ held + a - 1 <= Pieces /\ (prn > 0 => notified + a - 1 < prn)
             /\ \/ a = Len(toTarget) /\ step = "idle" /\ next = Anew
                \/ /\ a = Len(toTarget) - 1 /\ Pending /\ op \in {"restart", "select"}
                   /\ toTarget[a + 1].op = op /\ toTarget[a + 1].id = requests

\* Packets and commands are in the order of their requests, and the last request is the
\* one under way; a checksum is asked for after a write.
Ordered ==
    \A i \in 1 .. Len(toTarget) : toTarget[i].op # "abort" =>
        /\ toTarget[i].id <= requests
        /\ toTarget[i].id = requests => toTarget[i].op = op
        /\ toTarget[i].id = requests - 1 /\ op = "crc" => toTarget[i].op = "write"
        /\ \A j \in i .. Len(toTarget) : toTarget[j].op # "abort" => toTarget[i].id <= toTarget[j].id
Before(p) ==
    /\ p.id <= requests /\ (p.id = requests /\ p.op = "crc" => op \in {"crc", "write"})
    /\ \A i \in 1 .. Len(toTarget) : toTarget[i].op # "abort" => p.id <= toTarget[i].id

\* A checksum over the whole chunk that belongs to this attempt at it is that of the object.
Recent(p) == (op = "write" /\ p.id = requests) \/ (op = "crc" /\ p.id >= requests - 1)
Truthful(p) == p.op = "crc" /\ p.at = Pieces /\ p.good /\ Recent(p) => held = Pieces /\ good

\* The packets that the target sent and the caller did not take.
Arrived == {toHost[i] : i \in 1 .. Len(toHost)} \cup (IF stored = NoPacket THEN {} ELSE {stored})

InOrder ==
    /\ Ordered /\ (step = "idle" /\ next = {"crc"} => op = "write")
    /\ \A p \in Arrived : Before(p) /\ Truthful(p)

\* A chunk is verified: the target has it, and keeps it.
Verifying ==
    faults <= 1 /\ step = "idle" /\ next = {"execute"} /\ op = "crc" =>
        /\ held = Pieces /\ good
        /\ \A i \in 1 .. Len(toTarget) : toTarget[i].op # "abort" => toTarget[i].id >= requests - 1

-----------------------------------------------------------------------------
(* Where commands lead the target.                                         *)
-----------------------------------------------------------------------------
\* A command leaves the target in a state, and what it sent before stays sent.
LEMMA MovedTyped ==
    ASSUME NEW k \in Nat, NEW s \in TargetStates, NEW c \in Commands
    PROVE  Moved(k, s, c) \in TargetStates /\ Extends(s.out, Moved(k, s, c).out)
<1>1. /\ s.held \in 0 .. Pieces /\ s.notified \in Nat /\ s.alive \in BOOLEAN /\ s.out \in Seq(Briefs)
      /\ c.op \in Ops \cup {"abort"} /\ c.id \in 0 .. MaxRequests /\ Pieces \in Nat \ {0}
  BY PrnAssumption DEF TargetStates, Commands
<1>2. CASE ~s.alive
  BY <1>1, <1>2 DEF Moved, Extends
<1>3. CASE s.alive
  <2>1. HeldBy(s, c) \in 0 .. Pieces /\ CountBy(k, s, c) \in Nat
    BY <1>1 DEF HeldBy, CountBy
  <2>2. CASE ~Sends(k, s, c)
    <3>1. Moved(k, s, c) = [held |-> HeldBy(s, c), notified |-> CountBy(k, s, c),
                            alive |-> c.op # "abort", out |-> s.out]
      BY <1>3, <2>2 DEF Moved
    <3> QED BY <1>1, <2>1, <3>1 DEF TargetStates, Extends
  <2>3. CASE Sends(k, s, c)
    <3>1. Sent(s, c) \in Briefs
      BY <1>1, <2>1, <2>3 DEF Sent, Sends, Briefs, Opcode, Ops
    <3>2. /\ Append(s.out, Sent(s, c)) \in Seq(Briefs)
          /\ Len(Append(s.out, Sent(s, c))) = Len(s.out) + 1
          /\ \A m \in 1 .. Len(s.out) : Append(s.out, Sent(s, c))[m] = s.out[m]
      BY <1>1, <3>1, Appended
    <3>3. Moved(k, s, c) = [held |-> HeldBy(s, c), notified |-> CountBy(k, s, c),
                            alive |-> c.op # "abort", out |-> Append(s.out, Sent(s, c))]
      BY <1>3, <2>3 DEF Moved
    <3>4. Len(s.out) \in Nat
      BY <1>1
    <3> QED BY <1>1, <2>1, <3>2, <3>3, <3>4 DEF TargetStates, Extends
  <2> QED BY <2>2, <2>3
<1> QED BY <1>1, <1>2, <1>3

\* Without commands the target stays where it is.
LEMMA LeadsNowhere ==
    ASSUME NEW k \in Nat, NEW s \in TargetStates
    PROVE  Leads(k, <<>>, s, s) /\ \A t : Leads(k, <<>>, s, t) => t = s
<1>1. Leads(k, <<>>, s, s)
  <2> DEFINE q == [i \in 1 .. 1 |-> s]
  <2>1. Extends(s.out, s.out)
    BY DEF Extends, TargetStates
  <2>2. Path(k, q, <<>>, s, s)
    BY <2>1 DEF Path
  <2> QED BY <2>2 DEF Leads
<1> QED BY <1>1 DEF Leads, Path

\* Where commands lead, the target is in a state, and what it sent stays sent.
LEMMA LeadsFacts ==
    ASSUME NEW k \in Nat, NEW cs \in Seq(Commands), NEW s, NEW t, Leads(k, cs, s, t)
    PROVE  s \in TargetStates /\ t \in TargetStates /\ Extends(s.out, t.out)
<1>1. PICK q : Path(k, q, cs, s, t)
  BY DEF Leads
<1>2. 1 \in 1 .. Len(cs) + 1 /\ Len(cs) + 1 \in 1 .. Len(cs) + 1 /\ 1 <= Len(cs) + 1
  OBVIOUS
<1> QED BY <1>1, <1>2 DEF Path

\* One more command is handled last.
LEMMA LeadsAppend ==
    ASSUME NEW k \in Nat, NEW cs \in Seq(Commands), NEW s, NEW t, Leads(k, cs, s, t),
           NEW c \in Commands
    PROVE  Leads(k, Append(cs, c), s, Moved(k, t, c))
<1>1. PICK q : Path(k, q, cs, s, t)
  BY DEF Leads
<1> DEFINE n == Len(cs)
           d == Append(cs, c)
           u == Moved(k, t, c)
           r == [i \in 1 .. n + 2 |-> IF i <= n + 1 THEN q[i] ELSE u]
<1>2. n \in Nat /\ Len(d) = n + 1 /\ d[n + 1] = c /\ \A i \in 1 .. n : d[i] = cs[i]
  BY Appended
<1>3. /\ q \in [1 .. n + 1 -> TargetStates] /\ q[1] = s /\ q[n + 1] = t
      /\ \A i \in 1 .. n : q[i + 1] = Moved(k, q[i], cs[i])
      /\ \A i, j \in 1 .. n + 1 : i <= j => Extends(q[i].out, q[j].out)
  BY <1>1 DEF Path
<1>4. t \in TargetStates
  BY <1>2, <1>3
<1>5. u \in TargetStates /\ Extends(t.out, u.out)
  BY <1>4, MovedTyped
<1> HIDE DEF n, d, u
<1>6. r \in [1 .. n + 2 -> TargetStates] /\ r[1] = s /\ r[n + 2] = u
  BY <1>2, <1>3, <1>5
<1>7. ASSUME NEW i \in 1 .. n + 1 PROVE r[i + 1] = Moved(k, r[i], d[i])
  <2>1. CASE i = n + 1
    BY <1>2, <1>3, <2>1 DEF u
  <2>2. CASE i # n + 1
    BY <1>2, <1>3, <2>2
  <2> QED BY <2>1, <2>2
<1>8. ASSUME NEW i \in 1 .. n + 2, NEW j \in 1 .. n + 2, i <= j PROVE Extends(r[i].out, r[j].out)
  <2>1. CASE j <= n + 1
    BY <1>2, <1>3, <1>8, <2>1
  <2>2. CASE i = n + 2
    <3>1. u.out \in Seq(Briefs)
      BY <1>5 DEF TargetStates
    <3>2. Extends(u.out, u.out)
      BY <3>1 DEF Extends
    <3>3. r[i] = u /\ r[j] = u
      BY <1>2, <1>8, <2>2
    <3> QED BY <3>2, <3>3
  <2>3. CASE i <= n + 1 /\ j = n + 2
    <3>1. r[i] = q[i] /\ r[j] = u /\ q[i] \in TargetStates /\ Extends(q[i].out, t.out)
      BY <1>2, <1>3, <2>3
    <3>2. q[i].out \in Seq(Briefs) /\ t.out \in Seq(Briefs) /\ u.out \in Seq(Briefs)
      BY <1>4, <1>5, <3>1 DEF TargetStates
    <3>3. Extends(q[i].out, u.out)
      BY <1>5, <3>1, <3>2, SMTT(30) DEF Extends
    <3> QED BY <3>1, <3>3
  <2> QED BY <1>2, <1>8, <2>1, <2>2, <2>3
<1>9. Path(k, r, d, s, u)
  <2>1. Len(d) + 1 = n + 2 /\ Len(d) = n + 1
    BY <1>2
  <2> HIDE DEF r
  <2> QED BY <1>6, <1>7, <1>8, <2>1 DEF Path
<1> QED BY <1>9 DEF Leads, d, u

\* The first command is handled first.
LEMMA LeadsTail ==
    ASSUME NEW k \in Nat, NEW cs \in Seq(Commands), cs # <<>>, NEW s, NEW t, Leads(k, cs, s, t)
    PROVE  Leads(k, Tail(cs), Moved(k, s, Head(cs)), t)
<1>1. PICK q : Path(k, q, cs, s, t)
  BY DEF Leads
<1>2. PICK n \in Nat : /\ Len(cs) = n + 1 /\ Head(cs) = cs[1] /\ Len(Tail(cs)) = n
                       /\ \A i \in 1 .. n : Tail(cs)[i] = cs[i + 1]
  BY HeadTail
<1>3. /\ q \in [1 .. n + 2 -> TargetStates] /\ q[1] = s /\ q[n + 2] = t
      /\ \A i \in 1 .. n + 1 : q[i + 1] = Moved(k, q[i], cs[i])
      /\ \A i, j \in 1 .. n + 2 : i <= j => Extends(q[i].out, q[j].out)
  BY <1>1, <1>2 DEF Path
<1> DEFINE r == [i \in 1 .. n + 1 |-> q[i + 1]]
           d == Tail(cs)
<1>4. r \in [1 .. n + 1 -> TargetStates] /\ r[1] = Moved(k, s, cs[1]) /\ r[n + 1] = t
  BY <1>3
<1>5. \A i \in 1 .. n : r[i + 1] = Moved(k, r[i], d[i])
  BY <1>2, <1>3
<1>6. \A i, j \in 1 .. n + 1 : i <= j => Extends(r[i].out, r[j].out)
  BY <1>3
<1>7. Path(k, r, d, Moved(k, s, cs[1]), t)
  <2> HIDE DEF r
  <2> QED BY <1>2, <1>4, <1>5, <1>6 DEF Path
<1> QED BY <1>2, <1>7 DEF Leads

\* A packet is taken from those sent to the host: it makes no difference to what the
\* target does.
Without(out, d) == [m \in 1 .. Len(out) - 1 |-> IF m < d THEN out[m] ELSE out[m + 1]]
\* ... from the target's state.
Removed(s, d) == [held |-> s.held, notified |-> s.notified, alive |-> s.alive, out |-> Without(s.out, d)]

\* What is left of them, ...
LEMMA WithoutFacts ==
    ASSUME NEW S, NEW out \in Seq(S), NEW d \in 1 .. Len(out)
    PROVE  /\ Without(out, d) \in Seq(S) /\ Len(Without(out, d)) = Len(out) - 1
           /\ \A m \in 1 .. Len(out) - 1 : Without(out, d)[m] = (IF m < d THEN out[m] ELSE out[m + 1])
<1>1. /\ Len(out) \in Nat /\ Len(out) - 1 \in Nat
      /\ \A m \in 1 .. Len(out) - 1 : (IF m < d THEN out[m] ELSE out[m + 1]) \in S
  OBVIOUS
<1> QED BY <1>1 DEF Without

\* ... and that it is a state of the target.
LEMMA RemovedTyped ==
    ASSUME NEW s \in TargetStates, NEW d \in 1 .. Len(s.out)
    PROVE  Removed(s, d) \in TargetStates
<1>1. s.out \in Seq(Briefs)
  BY DEF TargetStates
<1>2. Without(s.out, d) \in Seq(Briefs)
  BY <1>1, WithoutFacts
<1> QED BY <1>2 DEF Removed, TargetStates

\* What was sent since stays behind the rest, ...
LEMMA WithoutExtends ==
    ASSUME NEW a \in Seq(Briefs), NEW b \in Seq(Briefs), Extends(a, b), NEW d \in 1 .. Len(a)
    PROVE  Extends(Without(a, d), Without(b, d))
<1>1. d \in 1 .. Len(b) /\ Len(a) \in Nat /\ Len(b) \in Nat /\ Len(a) <= Len(b)
  BY DEF Extends
<1>2. /\ Len(Without(a, d)) = Len(a) - 1 /\ Len(Without(b, d)) = Len(b) - 1
      /\ \A m \in 1 .. Len(a) - 1 : Without(a, d)[m] = (IF m < d THEN a[m] ELSE a[m + 1])
      /\ \A m \in 1 .. Len(b) - 1 : Without(b, d)[m] = (IF m < d THEN b[m] ELSE b[m + 1])
  BY <1>1, WithoutFacts
<1>3. \A m \in 1 .. Len(a) : b[m] = a[m]
  BY DEF Extends
<1>4. ASSUME NEW m \in 1 .. Len(a) - 1 PROVE Without(b, d)[m] = Without(a, d)[m]
  <2>1. m \in 1 .. Len(a) /\ m + 1 \in 1 .. Len(a) /\ m \in 1 .. Len(b) - 1
    BY <1>1
  <2>2. b[m] = a[m] /\ b[m + 1] = a[m + 1]
    BY <1>3, <2>1
  <2> QED BY <1>2, <2>1, <2>2
<1>5. Len(Without(a, d)) <= Len(Without(b, d))
  BY <1>1, <1>2
<1> QED BY <1>2, <1>4, <1>5 DEF Extends

\* ... and what is sent next.
LEMMA WithoutAppend ==
    ASSUME NEW out \in Seq(Briefs), NEW y \in Briefs, NEW d \in 1 .. Len(out)
    PROVE  Without(Append(out, y), d) = Append(Without(out, d), y)
<1> DEFINE n == Len(out)
           a == Without(Append(out, y), d)
           b == Append(Without(out, d), y)
<1>1. /\ n \in Nat /\ Append(out, y) \in Seq(Briefs) /\ Len(Append(out, y)) = n + 1
      /\ Append(out, y)[n + 1] = y /\ \A i \in 1 .. n : Append(out, y)[i] = out[i]
  BY Appended
<1>2. /\ a \in Seq(Briefs) /\ Len(a) = n
      /\ \A m \in 1 .. n : a[m] = (IF m < d THEN Append(out, y)[m] ELSE Append(out, y)[m + 1])
  <2> DEFINE z == Append(out, y)
  <2>1. z \in Seq(Briefs) /\ Len(z) = n + 1 /\ d \in 1 .. Len(z) /\ Len(z) - 1 = n
    BY <1>1
  <2> HIDE DEF z
  <2>2. /\ Without(z, d) \in Seq(Briefs) /\ Len(Without(z, d)) = Len(z) - 1
        /\ \A m \in 1 .. Len(z) - 1 : Without(z, d)[m] = (IF m < d THEN z[m] ELSE z[m + 1])
    BY <2>1, WithoutFacts
  <2> QED BY <2>1, <2>2 DEF z
<1>3. /\ Without(out, d) \in Seq(Briefs) /\ Len(Without(out, d)) = n - 1
      /\ \A m \in 1 .. n - 1 : Without(out, d)[m] = (IF m < d THEN out[m] ELSE out[m + 1])
  BY WithoutFacts
<1>4. /\ b \in Seq(Briefs) /\ Len(b) = n /\ b[n] = y
      /\ \A m \in 1 .. n - 1 : b[m] = Without(out, d)[m]
  <2> DEFINE w == Without(out, d)
  <2>1. w \in Seq(Briefs) /\ Len(w) = n - 1
    BY <1>3
  <2> HIDE DEF w
  <2>2. /\ Append(w, y) \in Seq(Briefs) /\ Len(Append(w, y)) = n /\ Append(w, y)[n] = y
        /\ \A m \in 1 .. n - 1 : Append(w, y)[m] = w[m]
    BY <1>1, <2>1, Appended
  <2> QED BY <2>2 DEF w
<1>5. ASSUME NEW m \in 1 .. n PROVE a[m] = b[m]
  <2>1. CASE m = n
    BY <1>1, <1>2, <1>4, <2>1
  <2>2. CASE m # n
    BY <1>1, <1>2, <1>3, <1>4, <2>2
  <2> QED BY <2>1, <2>2
<1> HIDE DEF a, b, n
<1>6. a = b
  BY <1>2, <1>4, <1>5
<1> QED BY <1>6 DEF a, b

\* The target handles a command whatever was taken of its packets, ...
LEMMA MovedRemoved ==
    ASSUME NEW k \in Nat, NEW s \in TargetStates, NEW c \in Commands, NEW d \in 1 .. Len(s.out)
    PROVE  Moved(k, Removed(s, d), c) = Removed(Moved(k, s, c), d)
<1> DEFINE r == Removed(s, d)
<1>1. /\ r.held = s.held /\ r.notified = s.notified /\ r.alive = s.alive /\ r.out = Without(s.out, d)
  BY DEF Removed
<1>2. /\ HeldBy(r, c) = HeldBy(s, c) /\ CountBy(k, r, c) = CountBy(k, s, c)
      /\ Sends(k, r, c) = Sends(k, s, c) /\ Sent(r, c) = Sent(s, c)
  BY <1>1 DEF HeldBy, CountBy, Sends, Sent, Notifies
<1>3. CASE ~s.alive
  BY <1>1, <1>3 DEF Moved
<1> HIDE DEF r
<1>4. CASE s.alive /\ ~Sends(k, s, c)
  <2>1. Moved(k, s, c) = [held |-> HeldBy(s, c), notified |-> CountBy(k, s, c),
                          alive |-> c.op # "abort", out |-> s.out]
    BY <1>4 DEF Moved
  <2>2. Moved(k, r, c) = [held |-> HeldBy(s, c), notified |-> CountBy(k, s, c),
                          alive |-> c.op # "abort", out |-> Without(s.out, d)]
    BY <1>1, <1>2, <1>4 DEF Moved
  <2> QED BY <2>1, <2>2 DEF Removed, r
<1>5. CASE s.alive /\ Sends(k, s, c)
  <2>1. Moved(k, s, c) = [held |-> HeldBy(s, c), notified |-> CountBy(k, s, c),
                          alive |-> c.op # "abort", out |-> Append(s.out, Sent(s, c))]
    BY <1>5 DEF Moved
  <2>2. Moved(k, r, c) = [held |-> HeldBy(s, c), notified |-> CountBy(k, s, c),
                          alive |-> c.op # "abort", out |-> Append(Without(s.out, d), Sent(s, c))]
    BY <1>1, <1>2, <1>5 DEF Moved
  <2>3. s.out \in Seq(Briefs) /\ Sent(s, c) \in Briefs
    <3>1. /\ s.held \in 0 .. Pieces /\ s.out \in Seq(Briefs)
          /\ c.op \in Ops \cup {"abort"} /\ c.id \in 0 .. MaxRequests /\ Pieces \in Nat \ {0}
      BY PrnAssumption DEF TargetStates, Commands
    <3>2. HeldBy(s, c) \in 0 .. Pieces
      BY <3>1 DEF HeldBy
    <3> QED BY <1>5, <3>1, <3>2 DEF Sent, Sends, Briefs, Opcode, Ops
  <2>4. Without(Append(s.out, Sent(s, c)), d) = Append(Without(s.out, d), Sent(s, c))
    BY <2>3, WithoutAppend
  <2>5. PICK m : m = Moved(k, s, c)
    OBVIOUS
  <2>6. /\ m.held = HeldBy(s, c) /\ m.notified = CountBy(k, s, c) /\ m.alive = (c.op # "abort")
        /\ m.out = Append(s.out, Sent(s, c))
    BY <2>1, <2>5
  <2>7. Removed(m, d) = [held |-> HeldBy(s, c), notified |-> CountBy(k, s, c),
                         alive |-> c.op # "abort", out |-> Append(Without(s.out, d), Sent(s, c))]
    BY <2>4, <2>6 DEF Removed
  <2> QED BY <2>2, <2>5, <2>7 DEF r
<1> QED BY <1>3, <1>4, <1>5 DEF r

\* ... and so all of them.
LEMMA LeadsRemoved ==
    ASSUME NEW k \in Nat, NEW cs \in Seq(Commands), NEW s, NEW t, Leads(k, cs, s, t),
           NEW d \in 1 .. Len(s.out)
    PROVE  d \in 1 .. Len(t.out) /\ Leads(k, cs, Removed(s, d), Removed(t, d))
<1>1. PICK q : Path(k, q, cs, s, t)
  BY DEF Leads
<1> DEFINE n == Len(cs)
           r == [i \in 1 .. n + 1 |-> Removed(q[i], d)]
<1>2. /\ q \in [1 .. n + 1 -> TargetStates] /\ q[1] = s /\ q[n + 1] = t /\ n \in Nat
      /\ \A i \in 1 .. n : q[i + 1] = Moved(k, q[i], cs[i])
      /\ \A i, j \in 1 .. n + 1 : i <= j => Extends(q[i].out, q[j].out)
  BY <1>1 DEF Path
<1>3. \A i \in 1 .. n + 1 : q[i] \in TargetStates /\ q[i].out \in Seq(Briefs)
  BY <1>2 DEF TargetStates
<1>4. \A i \in 1 .. n + 1 : d \in 1 .. Len(q[i].out)
  <2>1. \A i \in 1 .. n + 1 : Extends(q[1].out, q[i].out) /\ q[1].out \in Seq(Briefs)
    BY <1>2, <1>3
  <2> QED BY <1>2, <1>3, <2>1 DEF Extends
<1> HIDE DEF n
<1>5. r \in [1 .. n + 1 -> TargetStates] /\ r[1] = Removed(s, d) /\ r[n + 1] = Removed(t, d)
  BY <1>2, <1>3, <1>4, RemovedTyped
<1>6. ASSUME NEW i \in 1 .. n PROVE r[i + 1] = Moved(k, r[i], cs[i])
  <2>1. i \in 1 .. n + 1 /\ i + 1 \in 1 .. n + 1 /\ cs[i] \in Commands
    BY <1>2 DEF n
  <2>2. Moved(k, Removed(q[i], d), cs[i]) = Removed(Moved(k, q[i], cs[i]), d)
    BY <1>3, <1>4, <2>1, MovedRemoved
  <2> QED BY <1>2, <2>1, <2>2
<1>7. ASSUME NEW i \in 1 .. n + 1, NEW j \in 1 .. n + 1, i <= j PROVE Extends(r[i].out, r[j].out)
  <2>1. Extends(Without(q[i].out, d), Without(q[j].out, d))
    BY <1>2, <1>3, <1>4, <1>7, WithoutExtends
  <2>2. r[i].out = Without(q[i].out, d) /\ r[j].out = Without(q[j].out, d)
    BY DEF Removed
  <2> QED BY <2>1, <2>2
<1>8. Path(k, r, cs, Removed(s, d), Removed(t, d))
  <2> HIDE DEF r
  <2> QED BY <1>5, <1>6, <1>7 DEF Path, n
<1>9. d \in 1 .. Len(t.out)
  BY <1>2, <1>4
<1> QED BY <1>8, <1>9 DEF Leads

\* A target that was sent away ignores what follows.
LEMMA LeadsLate ==
    ASSUME NEW k \in Nat, NEW cs \in Seq(Commands), NEW s \in TargetStates, ~s.alive
    PROVE  Leads(k, cs, s, s)
<1> DEFINE q == [i \in 1 .. Len(cs) + 1 |-> s]
<1>1. Extends(s.out, s.out)
  BY DEF Extends, TargetStates
<1>2. Path(k, q, cs, s, s)
  BY <1>1 DEF Path, Moved
<1> QED BY <1>2 DEF Leads

\* Pieces for which there is room, and none of which makes a notification due.
LEMMA LeadsPieces ==
    ASSUME NEW k \in Nat, NEW cs \in Seq(Commands), NEW s \in TargetStates, s.alive,
           \A i \in 1 .. Len(cs) : cs[i].op = "write",
           s.held + Len(cs) <= Pieces, k > 0 => s.notified + Len(cs) < k
    PROVE  Leads(k, cs, s, [held |-> s.held + Len(cs), notified |-> s.notified + Len(cs),
                            alive |-> TRUE, out |-> s.out])
<1> DEFINE n == Len(cs)
           At(i) == [held |-> s.held + i - 1, notified |-> s.notified + i - 1, alive |-> TRUE, out |-> s.out]
           q == [i \in 1 .. n + 1 |-> At(i)]
<1>1. /\ n \in Nat /\ s.held \in 0 .. Pieces /\ s.notified \in Nat /\ s.out \in Seq(Briefs)
      /\ Pieces \in Nat \ {0}
      /\ s = [held |-> s.held, notified |-> s.notified, alive |-> TRUE, out |-> s.out]
  BY PrnAssumption DEF TargetStates
<1>2. \A i \in 1 .. n + 1 : At(i) \in TargetStates
  BY <1>1 DEF TargetStates
<1>3. ASSUME NEW i \in 1 .. n PROVE At(i + 1) = Moved(k, At(i), cs[i])
  <2>1. cs[i].op = "write" /\ At(i).held = s.held + i - 1 /\ At(i).notified = s.notified + i - 1
        /\ At(i).alive = TRUE /\ At(i).out = s.out /\ s.held + i - 1 < Pieces
    BY <1>1
  <2>2. k > 0 => s.notified + i - 1 + 1 < k
    BY <1>1
  <2> HIDE DEF At
  <2>3. /\ HeldBy(At(i), cs[i]) = s.held + i /\ CountBy(k, At(i), cs[i]) = s.notified + i
        /\ ~Sends(k, At(i), cs[i])
    BY <1>1, <2>1, <2>2, SMTT(30) DEF HeldBy, CountBy, Sends, Notifies
  <2>4. Moved(k, At(i), cs[i]) =
          [held |-> s.held + i, notified |-> s.notified + i, alive |-> TRUE, out |-> s.out]
    BY <2>1, <2>3 DEF Moved
  <2>5. At(i + 1) = [held |-> s.held + i, notified |-> s.notified + i, alive |-> TRUE, out |-> s.out]
    <3>1. s.held + (i + 1) - 1 = s.held + i /\ s.notified + (i + 1) - 1 = s.notified + i
      BY <1>1
    <3> QED BY <3>1, Zenon DEF At
  <2> QED BY <2>4, <2>5
<1>4. Extends(s.out, s.out)
  BY <1>1 DEF Extends
<1>5. /\ q \in [1 .. n + 1 -> TargetStates] /\ q[1] = At(1) /\ q[n + 1] = At(n + 1)
      /\ \A i \in 1 .. n + 1 : q[i] = At(i) /\ q[i].out = s.out
  BY <1>1, <1>2
<1>6. At(1) = s /\ At(n + 1) = [held |-> s.held + n, notified |-> s.notified + n, alive |-> TRUE, out |-> s.out]
  BY <1>1
<1> HIDE DEF q, At, n
<1>7. \A i \in 1 .. n : q[i + 1] = Moved(k, q[i], cs[i])
  BY <1>1, <1>3, <1>5
<1>8. Path(k, q, cs, s, At(n + 1))
  BY <1>1, <1>4, <1>5, <1>6, <1>7 DEF Path, n
<1> QED BY <1>6, <1>8 DEF Leads, n

-----------------------------------------------------------------------------
(* The line to the host.                                                   *)
-----------------------------------------------------------------------------
(* The target as it is.                                                    *)

\* What Here is made of.
LineFacts ==
    /\ Here \in TargetStates /\ Here.out \in Seq(Briefs) /\ Len(Here.out) = Unread + Len(toHost)
    /\ Here.held = held /\ Here.notified = notified /\ Here.alive = alive
    /\ \A m \in 1 .. Unread + Len(toHost) : Here.out[m] = Brief(Line[m])
    /\ \A m \in 1 .. Unread + Len(toHost) : Line[m] = (IF m <= Unread THEN stored ELSE toHost[m - Unread])
    /\ Unread \in 0 .. 1 /\ toHost \in Seq(Packets) /\ Len(toHost) \in Nat

\* It is a state of the target.
LEMMA HereFacts == IInv => LineFacts
<1> SUFFICES ASSUME IInv PROVE LineFacts
  OBVIOUS
<1>1. /\ toHost \in Seq(Packets) /\ Len(toHost) \in Nat /\ Unread \in 0 .. 1
      /\ Unread = 1 => stored \in Packets
      /\ held \in 0 .. Pieces /\ notified \in Nat /\ alive \in BOOLEAN
  BY DEF IInv, TypeOK, Unread
<1> DEFINE n == Unread + Len(toHost)
<1>2. n \in Nat /\ \A m \in 1 .. n : ~(m <= Unread) => m - Unread \in 1 .. Len(toHost)
  BY <1>1
<1>3. \A m \in 1 .. n : Line[m] = (IF m <= Unread THEN stored ELSE toHost[m - Unread])
  BY DEF Line
<1>4. \A m \in 1 .. n : Line[m] \in Packets
  <2> TAKE m \in 1 .. n
  <2>1. CASE m <= Unread
    BY <1>1, <1>2, <1>3, <2>1
  <2>2. CASE ~(m <= Unread)
    <3>1. m - Unread \in 1 .. Len(toHost)
      BY <1>2, <2>2
    <3>2. toHost[m - Unread] \in Packets
      BY <1>1, <3>1
    <3> QED BY <1>3, <2>2, <3>2
  <2> QED BY <2>1, <2>2
<1>5. \A p \in Packets : Brief(p) \in Briefs
  BY DEF Packets, Brief, Briefs
<1> DEFINE o == [m \in 1 .. n |-> Brief(Line[m])]
<1>6. o \in Seq(Briefs) /\ Len(o) = n /\ \A m \in 1 .. n : o[m] = Brief(Line[m])
  <2> HIDE DEF n
  <2>1. \A m \in 1 .. n : Brief(Line[m]) \in Briefs
    BY <1>4, <1>5
  <2> QED BY <1>2, <2>1
<1>7. Here = [held |-> held, notified |-> notified, alive |-> alive, out |-> o]
  BY DEF Here
<1> HIDE DEF o, n
<1> QED BY <1>1, <1>3, <1>6, <1>7 DEF TargetStates, n, LineFacts

\* Two states of the target with the same fields are the same.
LEMMA SameState ==
    ASSUME NEW s \in TargetStates, NEW t \in TargetStates,
           s.held = t.held, s.notified = t.notified, s.alive = t.alive, Len(s.out) = Len(t.out),
           \A m \in 1 .. Len(s.out) : s.out[m] = t.out[m]
    PROVE  s = t
<1>1. s.out \in Seq(Briefs) /\ t.out \in Seq(Briefs)
  BY DEF TargetStates
<1>2. s.out = t.out
  BY <1>1
<1>3. /\ s = [held |-> s.held, notified |-> s.notified, alive |-> s.alive, out |-> s.out]
      /\ t = [held |-> t.held, notified |-> t.notified, alive |-> t.alive, out |-> t.out]
  BY DEF TargetStates
<1> QED BY <1>2, <1>3

\* A packet is taken from the line, ...
LEMMA TakenFromLine ==
    ASSUME IInv, IInv', UNCHANGED <<held, notified, alive>>,
           NEW d \in 1 .. Unread + Len(toHost),
           \/ /\ stored' = NoPacket /\ toHost' = Tail(toHost) /\ stored = NoPacket /\ toHost # <<>> /\ d = 1
           \/ /\ stored' = NoPacket /\ toHost' = toHost /\ stored # NoPacket /\ d = 1
           \/ /\ stored' = stored /\ toHost' = Tail(toHost) /\ stored # NoPacket /\ toHost # <<>> /\ d = 2
    PROVE  Here' = Removed(Here, d)
<1> USE DEF LineFacts
<1>1. LineFacts
  BY HereFacts
<1>2. LineFacts'
  BY HereFacts, PTL
<1>3. /\ Removed(Here, d) \in TargetStates /\ Len(Removed(Here, d).out) = Unread + Len(toHost) - 1
      /\ Removed(Here, d).held = held /\ Removed(Here, d).notified = notified /\ Removed(Here, d).alive = alive
      /\ \A m \in 1 .. Unread + Len(toHost) - 1 :
           Removed(Here, d).out[m] = (IF m < d THEN Here.out[m] ELSE Here.out[m + 1])
  <2>1. d \in 1 .. Len(Here.out)
    BY <1>1
  <2>2. /\ Len(Without(Here.out, d)) = Len(Here.out) - 1
        /\ \A m \in 1 .. Len(Here.out) - 1 :
             Without(Here.out, d)[m] = (IF m < d THEN Here.out[m] ELSE Here.out[m + 1])
    BY <1>1, <2>1, WithoutFacts
  <2>3. /\ Removed(Here, d).out = Without(Here.out, d)
        /\ Removed(Here, d).held = held /\ Removed(Here, d).notified = notified /\ Removed(Here, d).alive = alive
    BY <1>1 DEF Removed
  <2> QED BY <1>1, <2>1, <2>2, <2>3, RemovedTyped
<1>4. toHost # <<>> => /\ Len(toHost) > 0 /\ Len(Tail(toHost)) = Len(toHost) - 1
                       /\ \A i \in 1 .. Len(toHost) - 1 : Tail(toHost)[i] = toHost[i + 1]
  BY <1>1, HeadTail
<1>5. /\ Unread' + Len(toHost') = Unread + Len(toHost) - 1
      /\ \A m \in 1 .. Unread + Len(toHost) - 1 :
           Line'[m] = (IF m < d THEN Line[m] ELSE Line[m + 1])
  <2>1. CASE stored' = NoPacket /\ toHost' = Tail(toHost) /\ stored = NoPacket /\ toHost # <<>> /\ d = 1
    <3>1. Unread = 0 /\ Unread' = 0
      BY <2>1 DEF Unread
    <3>2. Len(toHost') = Len(toHost) - 1
      BY <1>4, <2>1
    <3>3. ASSUME NEW m \in 1 .. Unread + Len(toHost) - 1 PROVE Line'[m] = Line[m + 1]
      <4>1. /\ m \in 1 .. Len(toHost) - 1 /\ ~(m <= 0) /\ m - 0 = m /\ ~(m + 1 <= 0) /\ m + 1 - 0 = m + 1
            /\ m \in 1 .. Unread' + Len(toHost') /\ m + 1 \in 1 .. Unread + Len(toHost)
        BY <1>1, <3>1, <3>2
      <4>2. Line'[m] = toHost'[m] /\ Line[m + 1] = toHost[m + 1]
        BY <1>1, <1>2, <3>1, <4>1
      <4> QED BY <1>4, <2>1, <4>1, <4>2
    <3> QED BY <1>1, <2>1, <3>1, <3>2, <3>3
  <2>2. CASE stored' = NoPacket /\ toHost' = toHost /\ stored # NoPacket /\ d = 1
    BY <1>1, <1>2, <2>2 DEF Unread
  <2>3. CASE stored' = stored /\ toHost' = Tail(toHost) /\ stored # NoPacket /\ toHost # <<>> /\ d = 2
    BY <1>1, <1>2, <1>4, <2>3 DEF Unread
  <2> QED BY <2>1, <2>2, <2>3
<1>6. \A m \in 1 .. Unread + Len(toHost) - 1 : Here'.out[m] = Removed(Here, d).out[m]
  <2> TAKE m \in 1 .. Unread + Len(toHost) - 1
  <2>1. Here'.out[m] = Brief(IF m < d THEN Line[m] ELSE Line[m + 1])
    BY <1>2, <1>5
  <2>2. m \in 1 .. Unread + Len(toHost) /\ m + 1 \in 1 .. Unread + Len(toHost) /\ Unread \in Nat
    BY <1>1 DEF Unread
  <2> QED BY <1>1, <1>3, <2>1, <2>2
<1> QED BY <1>2, <1>3, <1>5, <1>6, SameState

\* ... is kept unread, ...
LEMMA KeptOnLine ==
    ASSUME IInv, IInv', UNCHANGED <<held, notified, alive>>,
           stored = NoPacket, toHost # <<>>, stored' = Head(toHost), toHost' = Tail(toHost)
    PROVE  Here' = Here
<1> USE DEF LineFacts
<1>1. LineFacts
  BY HereFacts
<1>2. LineFacts'
  BY HereFacts, PTL
<1>3. /\ Len(toHost) > 0 /\ Len(Tail(toHost)) = Len(toHost) - 1 /\ Head(toHost) = toHost[1]
      /\ \A i \in 1 .. Len(toHost) - 1 : Tail(toHost)[i] = toHost[i + 1]
  BY <1>1, HeadTail
<1>4. stored' # NoPacket
  <2>1. Head(toHost) \in Packets
    BY <1>1, Taken
  <2> QED BY <2>1 DEF Packets, NoPacket, Ops
<1>5. Unread = 0 /\ Unread' = 1 /\ Unread' + Len(toHost') = Unread + Len(toHost)
  BY <1>1, <1>3, <1>4 DEF Unread
<1>6. ASSUME NEW m \in 1 .. Unread + Len(toHost) PROVE Line'[m] = Line[m]
  <2>1. Line[m] = toHost[m]
    <3>1. ~(m <= 0) /\ m - 0 = m
      BY <1>1
    <3> QED BY <1>1, <1>5, <3>1
  <2>2. CASE m = 1
    <3>1. m \in 1 .. Unread' + Len(toHost') /\ m <= Unread'
      BY <1>5, <2>2
    <3> QED BY <1>2, <1>3, <2>1, <2>2, <3>1
  <2>3. CASE m # 1
    <3>1. /\ m \in 1 .. Unread' + Len(toHost') /\ ~(m <= Unread') /\ m - Unread' = m - 1
          /\ m - 1 \in 1 .. Len(toHost) - 1 /\ (m - 1) + 1 = m
      BY <1>1, <1>5, <2>3
    <3>2. Line'[m] = toHost'[m - 1]
      BY <1>2, <3>1
    <3> QED BY <1>3, <2>1, <3>1, <3>2
  <2> QED BY <2>2, <2>3
<1>7. \A m \in 1 .. Unread + Len(toHost) : Here'.out[m] = Here.out[m]
  BY <1>1, <1>2, <1>5, <1>6
<1> QED BY <1>1, <1>2, <1>5, <1>7, SameState

\* ... or sent.
LEMMA SentOnLine ==
    ASSUME IInv, IInv', UNCHANGED stored, NEW p \in Packets, toHost' = Append(toHost, p),
           NEW u \in TargetStates, u.held = held', u.notified = notified', u.alive = alive',
           u.out = Append(Here.out, Brief(p))
    PROVE  Here' = u
<1> USE DEF LineFacts
<1>1. LineFacts
  BY HereFacts
<1>2. LineFacts'
  BY HereFacts, PTL
<1>3. /\ Len(toHost') = Len(toHost) + 1 /\ toHost'[Len(toHost) + 1] = p
      /\ \A i \in 1 .. Len(toHost) : toHost'[i] = toHost[i]
  BY <1>1, Appended
<1>4. Unread' = Unread /\ Unread' + Len(toHost') = Unread + Len(toHost) + 1
  BY <1>1, <1>3 DEF Unread
<1>5. /\ Len(u.out) = Unread + Len(toHost) + 1 /\ u.out[Unread + Len(toHost) + 1] = Brief(p)
      /\ \A m \in 1 .. Unread + Len(toHost) : u.out[m] = Here.out[m]
  <2>1. Brief(p) \in Briefs
    BY DEF Packets, Brief, Briefs
  <2> QED BY <1>1, <2>1, Appended
<1>6. ASSUME NEW m \in 1 .. Unread + Len(toHost) + 1 PROVE Here'.out[m] = u.out[m]
  <2>1. m \in 1 .. Unread' + Len(toHost') /\ Here'.out[m] = Brief(Line'[m])
    BY <1>2, <1>4
  <2>2. CASE m <= Unread
    <3>1. Line'[m] = stored /\ Line[m] = stored /\ m \in 1 .. Unread + Len(toHost)
      BY <1>1, <1>2, <1>4, <2>1, <2>2
    <3> QED BY <1>1, <1>5, <2>1, <3>1
  <2>3. CASE ~(m <= Unread)
    <3>1. Line'[m] = toHost'[m - Unread]
      BY <1>2, <1>4, <2>1, <2>3
    <3>2. CASE m = Unread + Len(toHost) + 1
      <4>1. m - Unread = Len(toHost) + 1
        BY <1>1, <3>2
      <4> QED BY <1>3, <1>5, <2>1, <3>1, <3>2, <4>1
    <3>3. CASE m # Unread + Len(toHost) + 1
      <4>1. m \in 1 .. Unread + Len(toHost) /\ m - Unread \in 1 .. Len(toHost)
        BY <1>1, <2>3, <3>3
      <4>2. Line[m] = toHost[m - Unread]
        BY <1>1, <2>3, <4>1
      <4> QED BY <1>1, <1>3, <1>5, <2>1, <3>1, <4>1, <4>2
    <3> QED BY <3>2, <3>3
  <2> QED BY <2>2, <2>3
<1>7. Len(Here'.out) = Unread + Len(toHost) + 1 /\ Here' \in TargetStates
  BY <1>2, <1>4
<1>8. \A m \in 1 .. Len(Here'.out) : Here'.out[m] = u.out[m]
  BY <1>6, <1>7
<1>9. Here'.held = u.held /\ Here'.notified = u.notified /\ Here'.alive = u.alive
  BY <1>2
<1> QED BY <1>5, <1>7, <1>8, <1>9, SameState

\* Of the target nothing changes but the pieces it has and counts.
LEMMA NotSent ==
    ASSUME IInv, IInv', UNCHANGED <<stored, toHost>>, NEW u \in TargetStates,
           u.held = held', u.notified = notified', u.alive = alive', u.out = Here.out
    PROVE  Here' = u
<1>1. /\ Here' = [held |-> held', notified |-> notified', alive |-> alive',
                 out |-> [i \in 1 .. Unread' + Len(toHost') |-> Brief(Line'[i])]]
      /\ Here.out = [i \in 1 .. Unread + Len(toHost) |-> Brief(Line[i])]
  BY DEF Here
<1>2. Unread' = Unread /\ Line' = Line
  BY DEF Unread, Line
<1>3. Here' = [held |-> held', notified |-> notified', alive |-> alive', out |-> Here.out]
  BY <1>1, <1>2
<1>4. u = [held |-> u.held, notified |-> u.notified, alive |-> u.alive, out |-> u.out]
  BY DEF TargetStates
<1> QED BY <1>3, <1>4

\* The target handles a command as Moved says, also when a piece is damaged.
LEMMA Handled ==
    ASSUME IInv, IInv', TargetHandles
    PROVE  Here' = Moved(prn, Here, Head(toTarget))
<1> DEFINE c == Head(toTarget)
           u == Moved(prn, Here, c)
<1>1. c \in Commands /\ c.op \in Ops \cup {"abort"} /\ c.id \in 0 .. MaxRequests
  <2>1. c \in Commands
    BY Taken DEF TargetHandles, IInv, TypeOK
  <2> QED BY <2>1 DEF Commands
<1>2. LineFacts /\ prn \in Nat /\ held \in 0 .. Pieces /\ held' \in 0 .. Pieces /\ good' \in BOOLEAN
  BY PrnAssumption, HereFacts DEF IInv, TypeOK
<1>3. u \in TargetStates
  BY <1>1, <1>2, MovedTyped DEF LineFacts
<1>4. Here.held = held /\ Here.notified = notified /\ Here.alive = alive
  BY <1>2 DEF LineFacts
<1>5. UNCHANGED stored
  BY DEF TargetHandles, mailboxVars
<1> SUFFICES Here' = u
  OBVIOUS
<1> HIDE DEF c, u
<1>6. CASE ~alive
  <2>1. u = Here /\ UNCHANGED <<held, notified, alive, toHost>>
    BY <1>4, <1>6 DEF TargetHandles, targetVars, Moved, u
  <2> QED BY <1>3, <1>4, <1>5, <2>1, NotSent
<1>7. ASSUME alive, Sends(prn, Here, c), NEW p \in Packets, toHost' = Append(toHost, p),
             held' = HeldBy(Here, c), notified' = CountBy(prn, Here, c), alive', Brief(p) = Sent(Here, c)
      PROVE  Here' = u
  <2>1. u = [held |-> HeldBy(Here, c), notified |-> CountBy(prn, Here, c),
             alive |-> c.op # "abort", out |-> Append(Here.out, Sent(Here, c))]
    BY <1>4, <1>7 DEF Moved, u
  <2>2. u.held = held' /\ u.notified = notified' /\ u.alive = alive' /\ u.out = Append(Here.out, Brief(p))
    BY <1>2, <1>7, <2>1 DEF Sends, IInv, TypeOK
  <2> QED BY <1>3, <1>5, <1>7, <2>2, SentOnLine
<1>8. ASSUME alive, ~Sends(prn, Here, c), UNCHANGED toHost,
             held' = HeldBy(Here, c), notified' = CountBy(prn, Here, c), alive' = (c.op # "abort")
      PROVE  Here' = u
  <2>1. u = [held |-> HeldBy(Here, c), notified |-> CountBy(prn, Here, c),
             alive |-> c.op # "abort", out |-> Here.out]
    BY <1>4, <1>8 DEF Moved, u
  <2> QED BY <1>3, <1>5, <1>8, <2>1, NotSent
<1>9. CASE alive /\ c.op # "write"
  <2> DEFINE p(ok) == [op |-> Opcode(c.op), ok |-> ok, at |-> held', good |-> good', id |-> c.id]
  <2>1. CASE c.op = "abort"
    <3>1. UNCHANGED <<held, notified, toHost>> /\ alive' = FALSE
      BY <1>9, <2>1 DEF TargetHandles, Receive, c
    <3> QED BY <1>4, <1>8, <1>9, <2>1, <3>1 DEF Sends, HeldBy, CountBy
  <2>2. CASE c.op # "abort"
    <3>1. \A ok \in BOOLEAN : p(ok) \in Packets
      BY <1>1, <1>2, <1>9, <2>2 DEF Packets, Opcode, Ops
    <3>2. held' = HeldBy(Here, c) /\ notified' = CountBy(prn, Here, c) /\ alive'
          /\ \E ok \in BOOLEAN : Answer(c.op, ok, c.id)
      <4>1. CASE c.op \in {"restart", "create"}
        BY <1>4, <1>9, <4>1 DEF TargetHandles, Receive, HeldBy, CountBy, c
      <4>2. CASE c.op \in {"crc", "select"}
        BY <1>4, <1>9, <4>2 DEF TargetHandles, Receive, HeldBy, CountBy, c, targetVars
      <4>3. CASE c.op = "execute"
        <5>1. notified' = notified /\ alive' /\ CountBy(prn, Here, c) = notified
          BY <1>4, <1>9, <4>3 DEF TargetHandles, Receive, CountBy, c
        <5>2. CASE held = Pieces
          BY <1>4, <1>9, <4>3, <5>1, <5>2 DEF TargetHandles, Receive, HeldBy, c
        <5>3. CASE held # Pieces
          BY <1>4, <1>9, <4>3, <5>1, <5>3 DEF TargetHandles, Receive, HeldBy, c
        <5> QED BY <5>2, <5>3
      <4> QED BY <1>1, <1>9, <2>2, <4>1, <4>2, <4>3 DEF Ops
    <3>3. PICK ok \in BOOLEAN : toHost' = Append(toHost, p(ok))
      BY <3>2 DEF Answer
    <3>4. Sends(prn, Here, c) /\ Brief(p(ok)) = Sent(Here, c)
      BY <1>9, <2>2, <3>2 DEF Sends, Brief, Sent
    <3> HIDE DEF p
    <3> QED BY <1>7, <1>9, <3>1, <3>2, <3>3, <3>4
  <2> QED BY <2>1, <2>2
<1>10. CASE alive /\ c.op = "write"
  <2>1. Receive(c) /\ alive'
    BY <1>10 DEF TargetHandles, c
  <2>2. CASE held = Pieces
    <3> DEFINE p == [op |-> "write", ok |-> FALSE, at |-> held, good |-> good, id |-> c.id]
    <3>1. p \in Packets
      BY <1>1, <1>2 DEF Packets, Ops, IInv, TypeOK
    <3>2. UNCHANGED <<held, good, notified>> /\ toHost' = Append(toHost, p)
      BY <2>1, <2>2 DEF Receive
    <3>3. /\ held' = HeldBy(Here, c) /\ notified' = CountBy(prn, Here, c)
          /\ Sends(prn, Here, c) /\ Brief(p) = Sent(Here, c)
      BY <1>4, <1>10, <2>2, <3>2 DEF HeldBy, CountBy, Sends, Brief, Sent
    <3> HIDE DEF p
    <3> QED BY <1>7, <1>10, <2>1, <3>1, <3>2, <3>3
  <2>3. CASE held # Pieces
    <3>1. held' = held + 1 /\ held' = HeldBy(Here, c)
      BY <1>4, <1>10, <2>1, <2>3 DEF Receive, HeldBy
    <3>2. TargetDue(notified + 1) <=> Notifies(prn, Here)
      BY <1>4 DEF TargetDue, Notifies
    <3>3. CASE TargetDue(notified + 1)
      <4> DEFINE p == [op |-> "crc", ok |-> TRUE, at |-> held', good |-> good', id |-> c.id]
      <4>1. p \in Packets
        BY <1>1, <1>2 DEF Packets, Ops
      <4>2. notified' = 0 /\ toHost' = Append(toHost, p)
        BY <2>1, <2>3, <3>3 DEF Receive, Answer, Opcode
      <4>3. notified' = CountBy(prn, Here, c) /\ Sends(prn, Here, c) /\ Brief(p) = Sent(Here, c)
        BY <1>4, <1>10, <2>3, <3>1, <3>2, <3>3, <4>2 DEF CountBy, Sends, Brief, Sent, Opcode
      <4> HIDE DEF p
      <4> QED BY <1>7, <1>10, <2>1, <3>1, <4>1, <4>2, <4>3
    <3>4. CASE ~TargetDue(notified + 1)
      <4>1. notified' = notified + 1 /\ UNCHANGED toHost
        BY <2>1, <2>3, <3>4 DEF Receive
      <4>2. notified' = CountBy(prn, Here, c) /\ ~Sends(prn, Here, c)
        BY <1>4, <1>10, <2>3, <3>2, <3>4, <4>1 DEF CountBy, Sends
      <4> QED BY <1>8, <1>10, <2>1, <3>1, <4>1, <4>2
    <3> QED BY <3>3, <3>4
  <2> QED BY <2>2, <2>3
<1> QED BY <1>2, <1>6, <1>9, <1>10 DEF IInv, TypeOK, u, c

-----------------------------------------------------------------------------
(* What the caller may ask for next.                                       *)
-----------------------------------------------------------------------------
(* What the caller asks for next.                                          *)

\* What is made of the packet that is taken for the answer.
Continues(p) ==
    \/ /\ step' = "idle" /\ next' \in {Anew, {"create"} \cup Anew, {"select"}, {"create"}, {"execute"}}
       /\ next' = {"execute"} /\ op = "crc" => p.op = "crc" /\ p.at = Pieces /\ p.good
    \/ /\ step' = "idle" /\ next' = {"write"} /\ p.op = Opcode(op)
       /\ \/ op = "create" /\ pos' = 0
          \/ op = "select" /\ pos' = p.at /\ p.at # 0 /\ p.at # Pieces
    \/ /\ op = "write" /\ p.op = "crc" /\ p.at = pos /\ pos' = pos
       /\ \/ step' = "sending" /\ next' = next /\ pos < Pieces
          \/ step' = "idle" /\ next' = {"crc"} /\ pos = Pieces

\* Each answer leads to one of these.
LEMMA ResolveContinues ==
    ASSUME IInv, NEW p \in Packets, Resolve(p)
    PROVE  Continues(p)
<1>1. CASE Fail
  BY <1>1 DEF Fail, Settle, Continues, Anew
<1>2. CASE p.op = Opcode(op) /\ op = "restart" /\ Settle({"select"})
  BY <1>2 DEF Settle, Continues
<1>3. CASE p.op = Opcode(op) /\ op = "create" /\ Settle({"write"}) /\ pos' = 0
  BY <1>3 DEF Settle, Continues
<1>4. CASE op = "execute" /\ Settle(Anew)
  BY <1>4 DEF Settle, Continues
<1>5. CASE /\ p.op = Opcode(op) /\ op = "select" /\ pos' = p.at
           /\ Settle(IF p.at = 0 THEN {"create"} ELSE IF ~p.good THEN Anew
                     ELSE IF p.at = Pieces THEN {"execute"} ELSE {"write"})
  BY <1>5 DEF Settle, Continues
<1>6. CASE p.op = Opcode(op) /\ op = "crc" /\ Verified(p, Pieces) /\ Settle({"execute"})
  BY <1>6 DEF Settle, Continues, Verified, Opcode
<1>7. CASE p.op = Opcode(op) /\ op = "write" /\ UNCHANGED pos /\ Verified(p, pos) /\ NextPiece(pos)
  <2>1. p.op = "crc" /\ p.at = pos /\ pos' = pos /\ pos \in 0 .. Pieces /\ Pieces \in Nat
    BY PrnAssumption, <1>7 DEF Verified, Opcode, IInv, TypeOK
  <2>2. CASE pos < Pieces
    BY <1>7, <2>1, <2>2 DEF NextPiece, Continues
  <2>3. CASE ~(pos < Pieces)
    BY <1>7, <2>1, <2>3 DEF NextPiece, Settle, Continues
  <2> QED BY <2>2, <2>3
<1> QED BY <1>1, <1>2, <1>3, <1>4, <1>5, <1>6, <1>7 DEF Resolve

\* A new connection waits for an operation.
LEMMA InitNext == Init => NextForms
BY DEF Init, NextForms

\* What the caller may ask for next is always one of the forms.
LEMMA NextStep == IInv /\ NextForms /\ [Next]_vars => NextForms'
<1> SUFFICES ASSUME IInv, NextForms, [Next]_vars PROVE NextForms'
  OBVIOUS
<1> USE DEF callerVars, mailboxVars, targetVars
<1>1. ASSUME NEW p \in Packets, Resolve(p) PROVE NextForms'
  BY <1>1, ResolveContinues DEF Continues, NextForms
<1>2. CASE Fail
  BY <1>2 DEF Fail, Settle, NextForms
<1>3. CASE UNCHANGED next
  BY <1>3 DEF NextForms
<1>4. CASE WriteObjectPiece
  <2>1. CASE UNCHANGED next
    BY <1>3, <2>1
  <2>2. CASE NextPiece(pos')
    BY <2>2 DEF NextPiece, Settle, NextForms
  <2> QED BY <1>4, <2>1, <2>2 DEF WriteObjectPiece
<1>5. CASE Abort
  BY <1>5 DEF Abort, NextForms
<1>6. CASE Read
  <2>1. stored # NoPacket => stored \in Packets
    BY DEF IInv, TypeOK
  <2> QED BY <1>1, <1>2, <1>3, <1>6, <2>1 DEF Read
<1>7. CASE OnData
  <2>1. Head(toHost) \in Packets
    BY <1>7, Taken DEF OnData, IInv, TypeOK
  <2> QED BY <1>1, <1>3, <1>7, <2>1 DEF OnData
<1>8. ASSUME NEW o \in Ops, Request(o) PROVE NextForms'
  BY <1>3, <1>8 DEF Request
<1> QED BY <1>2, <1>3, <1>4, <1>5, <1>6, <1>7, <1>8
        DEF Next, WriteObject, Timeout, TargetHandles, Lose, vars

-----------------------------------------------------------------------------
(* The order of packets and commands, and what their checksums say.        *)
-----------------------------------------------------------------------------
(* The order of packets and commands, whatever is lost or late.            *)

\* What becomes of the packets that arrived.
LEMMA ArrivedFacts ==
    ASSUME IInv
    PROVE  /\ Arrived \subseteq Packets
           /\ stored' = NoPacket /\ toHost' = toHost => Arrived' \subseteq Arrived
           /\ stored' = stored /\ toHost' = toHost => Arrived' = Arrived
           /\ toHost # <<>> /\ toHost' = Tail(toHost) /\ stored' \in {stored, Head(toHost)} =>
                Arrived' \subseteq Arrived
           /\ stored # NoPacket => stored \in Arrived
           /\ toHost # <<>> => Head(toHost) \in Arrived
<1>1. toHost \in Seq(Packets) /\ stored \in Packets \cup {NoPacket}
  BY DEF IInv, TypeOK
<1>2. Arrived \subseteq Packets
  BY <1>1 DEF Arrived
<1>3. (stored' = NoPacket \/ stored' = stored) /\ toHost' = toHost => Arrived' \subseteq Arrived
  BY DEF Arrived
<1>4. stored' = stored /\ toHost' = toHost => Arrived' = Arrived
  BY DEF Arrived
<1>5. ASSUME toHost # <<>> PROVE Head(toHost) \in Arrived
  <2>1. Head(toHost) = toHost[1] /\ 1 \in 1 .. Len(toHost)
    BY <1>1, <1>5
  <2> QED BY <2>1 DEF Arrived
<1>6. ASSUME toHost # <<>>, toHost' = Tail(toHost), stored' \in {stored, Head(toHost)}
      PROVE  Arrived' \subseteq Arrived
  <2>1. PICK n \in Nat : Len(toHost) = n + 1 /\ Len(toHost') = n /\ \A i \in 1 .. n : toHost'[i] = toHost[i + 1]
    BY <1>1, <1>6, HeadTail
  <2>2. \A i \in 1 .. Len(toHost') : toHost'[i] \in Arrived
    <3> TAKE i \in 1 .. Len(toHost')
    <3>1. toHost'[i] = toHost[i + 1] /\ i + 1 \in 1 .. Len(toHost)
      BY <2>1
    <3> QED BY <3>1 DEF Arrived
  <2>3. stored' # NoPacket => stored' \in Arrived
    BY <1>5, <1>6 DEF Arrived
  <2> QED BY <2>2, <2>3 DEF Arrived
<1> QED BY <1>2, <1>3, <1>4, <1>5, <1>6 DEF Arrived

\* Nothing is sent, and the request goes on.
LEMMA OrderKept ==
    ASSUME IInv, InOrder, UNCHANGED <<op, requests, held, good>>,
           toTarget' \in {toTarget, Tail(toTarget)}, toTarget' # toTarget => toTarget # <<>>,
           Arrived' \subseteq Arrived,
           step' = "idle" /\ next' = {"crc"} => op = "write"
    PROVE  InOrder'
<1>1. toTarget \in Seq(Commands)
  BY DEF IInv, TypeOK
<1>2. PICK d \in 0 .. 1 : /\ Len(toTarget) = Len(toTarget') + d /\ Len(toTarget') \in Nat
                          /\ \A i \in 1 .. Len(toTarget') : toTarget'[i] = toTarget[i + d]
  <2>1. CASE toTarget' = toTarget
    <3>1. Len(toTarget) = Len(toTarget') + 0 /\ Len(toTarget') \in Nat
      BY <1>1, <2>1
    <3>2. \A i \in 1 .. Len(toTarget') : toTarget'[i] = toTarget[i + 0]
      BY <1>1, <2>1
    <3> QED BY <3>1, <3>2
  <2>2. CASE toTarget' # toTarget
    <3>1. /\ Len(toTarget) \in Nat \ {0} /\ Len(toTarget') = Len(toTarget) - 1
          /\ \A i \in 1 .. Len(toTarget) - 1 : toTarget'[i] = toTarget[i + 1]
      BY <1>1, <2>2, HeadTail
    <3> QED BY <3>1
  <2> QED BY <2>1, <2>2
<1>3. \A i \in 1 .. Len(toTarget') : i + d \in 1 .. Len(toTarget)
  BY <1>2
<1>4. Ordered'
  <2> SUFFICES ASSUME NEW i \in 1 .. Len(toTarget'), toTarget'[i].op # "abort"
               PROVE  /\ toTarget'[i].id <= requests
                      /\ toTarget'[i].id = requests => toTarget'[i].op = op
                      /\ toTarget'[i].id = requests - 1 /\ op = "crc" => toTarget'[i].op = "write"
                      /\ \A j \in i .. Len(toTarget') :
                           toTarget'[j].op # "abort" => toTarget'[i].id <= toTarget'[j].id
    BY DEF Ordered
  <2>1. i + d \in 1 .. Len(toTarget) /\ toTarget'[i] = toTarget[i + d]
    BY <1>2, <1>3
  <2>2. \A j \in i .. Len(toTarget') : j + d \in i + d .. Len(toTarget) /\ toTarget'[j] = toTarget[j + d]
    BY <1>2
  <2> QED BY <2>1, <2>2 DEF InOrder, Ordered
<1>5. ASSUME NEW p \in Arrived' PROVE Before(p)' /\ Truthful(p)'
  <2>1. Before(p) /\ Truthful(p)
    BY <1>5 DEF InOrder
  <2>2. Truthful(p)'
    BY <2>1 DEF Truthful, Recent
  <2>3. Before(p)'
    BY <1>2, <1>3, <2>1 DEF Before
  <2> QED BY <2>2, <2>3
<1> QED BY <1>4, <1>5 DEF InOrder

\* A command is sent, for the request under way or a new one.
LEMMA OrderAppended ==
    ASSUME IInv, InOrder, NEW c \in Commands, toTarget' = Append(toTarget, c),
           requests' \in {requests, requests + 1}, UNCHANGED <<stored, toHost>>,
           c.op # "abort" => c.id = requests' /\ c.op = op',
           op' = "crc" => (requests' = requests + 1 /\ op = "write") \/ (requests' = requests /\ op = "crc"),
           requests' = requests => op' = op,
           \A p \in Arrived : Truthful(p) => Truthful(p)',
           ~(step' = "idle" /\ next' = {"crc"}) \/ op' = "write"
    PROVE  InOrder'
<1>1. /\ toTarget \in Seq(Commands) /\ requests \in Nat
      /\ \A i \in 1 .. Len(toTarget) : toTarget[i].id \in Nat
  <2>1. toTarget \in Seq(Commands) /\ requests \in Nat
    BY DEF IInv, TypeOK
  <2>2. \A e \in Commands : e.id \in Nat
    BY PrnAssumption DEF Commands
  <2> QED BY <2>1, <2>2
<1>2. /\ Len(toTarget') = Len(toTarget) + 1 /\ toTarget'[Len(toTarget) + 1] = c /\ Len(toTarget) \in Nat
      /\ \A i \in 1 .. Len(toTarget) : toTarget'[i] = toTarget[i]
  BY <1>1, Appended
<1>3. ASSUME NEW i \in 1 .. Len(toTarget'), toTarget'[i].op # "abort"
      PROVE  /\ toTarget'[i].id <= requests'
             /\ toTarget'[i].id = requests' => toTarget'[i].op = op'
             /\ toTarget'[i].id = requests' - 1 /\ op' = "crc" => toTarget'[i].op = "write"
             /\ \A j \in i .. Len(toTarget') :
                  toTarget'[j].op # "abort" => toTarget'[i].id <= toTarget'[j].id
  <2>1. CASE i = Len(toTarget) + 1
    <3>1. toTarget'[i] = c /\ c.id = requests' /\ requests' \in Nat
      BY <1>1, <1>2, <1>3, <2>1
    <3>2. \A j \in i .. Len(toTarget') : j = i
      BY <1>2, <2>1
    <3> QED BY <1>3, <3>1, <3>2
  <2>2. CASE i # Len(toTarget) + 1
    <3>1. i \in 1 .. Len(toTarget) /\ toTarget'[i] = toTarget[i]
      BY <1>2, <2>2
    <3>2. /\ toTarget[i].id <= requests /\ toTarget[i].id \in Nat
          /\ toTarget[i].id = requests => toTarget[i].op = op
          /\ toTarget[i].id = requests - 1 /\ op = "crc" => toTarget[i].op = "write"
          /\ \A j \in i .. Len(toTarget) : toTarget[j].op # "abort" => toTarget[i].id <= toTarget[j].id
      BY <1>1, <1>3, <3>1 DEF InOrder, Ordered
    <3>3. ASSUME NEW j \in i .. Len(toTarget'), toTarget'[j].op # "abort"
          PROVE  toTarget'[i].id <= toTarget'[j].id
      <4>1. CASE j = Len(toTarget) + 1
        BY <1>1, <1>2, <3>1, <3>2, <3>3, <4>1
      <4>2. CASE j # Len(toTarget) + 1
        <5>1. j \in i .. Len(toTarget) /\ j \in 1 .. Len(toTarget) /\ toTarget'[j] = toTarget[j]
          BY <1>2, <4>2
        <5> QED BY <3>1, <3>2, <3>3, <5>1
      <4> QED BY <4>1, <4>2
    <3>4. toTarget'[i].id <= requests' /\ (toTarget'[i].id = requests' => toTarget'[i].op = op')
      BY <1>1, <3>1, <3>2
    <3>5. ASSUME toTarget'[i].id = requests' - 1, op' = "crc" PROVE toTarget'[i].op = "write"
      <4>1. CASE requests' = requests + 1 /\ op = "write"
        BY <1>1, <3>1, <3>2, <3>5, <4>1
      <4>2. CASE requests' = requests /\ op = "crc"
        BY <1>1, <3>1, <3>2, <3>5, <4>2
      <4> QED BY <3>5, <4>1, <4>2
    <3> QED BY <3>3, <3>4, <3>5
  <2> QED BY <2>1, <2>2
<1>4. Arrived' = Arrived /\ Arrived \subseteq Packets
  BY ArrivedFacts
<1>5. ASSUME NEW p \in Arrived PROVE Before(p)'
  <2>1. Before(p) /\ p.id \in Nat
    BY <1>4, PrnAssumption DEF InOrder, Packets
  <2>2. p.id <= requests' /\ (p.id = requests' /\ p.op = "crc" => op' \in {"crc", "write"})
    BY <1>1, <2>1 DEF Before
  <2>3. \A i \in 1 .. Len(toTarget') : toTarget'[i].op # "abort" => p.id <= toTarget'[i].id
    <3> TAKE i \in 1 .. Len(toTarget')
    <3>1. CASE i = Len(toTarget) + 1
      BY <1>2, <2>2, <3>1
    <3>2. CASE i # Len(toTarget) + 1
      <4>1. i \in 1 .. Len(toTarget)
        BY <1>2, <3>2
      <4> QED BY <1>2, <2>1, <4>1 DEF Before
    <3> QED BY <3>1, <3>2
  <2> QED BY <2>2, <2>3 DEF Before
<1> QED BY <1>3, <1>4, <1>5 DEF InOrder, Ordered

\* A whole object stays what it is when a piece or a checksum request comes.
LEMMA KeepsWhole ==
    ASSUME IInv, TargetHandles, held = Pieces, Head(toTarget).op \in {"write", "crc", "abort"}
    PROVE  UNCHANGED <<held, good, faults>>
<1>1. CASE Head(toTarget).op = "write"
  BY <1>1 DEF TargetHandles, Receive, targetVars
<1>2. CASE Head(toTarget).op = "crc"
  BY <1>2 DEF TargetHandles, Receive, targetVars
<1>3. CASE Head(toTarget).op = "abort"
  BY <1>3 DEF TargetHandles, Receive, targetVars
<1> QED BY <1>1, <1>2, <1>3

\* The packet that the target sends belongs to the command, and a checksum is that of the
\* object it then has.
LEMMA HandledSends ==
    ASSUME IInv, TargetHandles, toHost' # toHost
    PROVE  \E p \in Packets :
             /\ toHost' = Append(toHost, p) /\ p.id = Head(toTarget).id /\ Head(toTarget).op # "abort"
             /\ p.op = "crc" => Head(toTarget).op \in {"write", "crc"} /\ p.at = held' /\ p.good = good'
<1> DEFINE c == Head(toTarget)
<1>1. c \in Commands /\ c.op \in Ops \cup {"abort"} /\ c.id \in 0 .. MaxRequests
  <2>1. c \in Commands
    BY Taken DEF TargetHandles, IInv, TypeOK
  <2> QED BY <2>1 DEF Commands
<1>2. alive /\ held' \in 0 .. Pieces /\ good' \in BOOLEAN
  <2>1. alive
    BY DEF TargetHandles
  <2>2. IInv'
    BY Inductive DEF Next
  <2> QED BY <2>1, <2>2 DEF IInv, TypeOK
<1>3. CASE c.op # "write"
  <2> DEFINE p(ok) == [op |-> Opcode(c.op), ok |-> ok, at |-> held', good |-> good', id |-> c.id]
  <2>1. c.op # "abort"
    BY <1>2, <1>3 DEF TargetHandles, Receive
  <2>2. \E ok \in BOOLEAN : Answer(c.op, ok, c.id)
    <3>1. CASE c.op \in {"restart", "create"}
      BY <1>2, <3>1 DEF TargetHandles, Receive
    <3>2. CASE c.op \in {"crc", "select"}
      BY <1>2, <3>2 DEF TargetHandles, Receive
    <3>3. CASE c.op = "execute"
      BY <1>2, <3>3 DEF TargetHandles, Receive
    <3> QED BY <1>1, <1>3, <2>1, <3>1, <3>2, <3>3 DEF Ops
  <2>3. PICK ok \in BOOLEAN : toHost' = Append(toHost, p(ok))
    BY <2>2 DEF Answer
  <2>4. p(ok) \in Packets
    BY <1>1, <1>2, <1>3, <2>1 DEF Packets, Opcode, Ops
  <2>5. p(ok).op = "crc" => c.op = "crc"
    BY <1>3 DEF Opcode
  <2>6. p(ok).id = c.id /\ p(ok).at = held' /\ p(ok).good = good'
    OBVIOUS
  <2> HIDE DEF p, c
  <2> QED BY <2>1, <2>3, <2>4, <2>5, <2>6 DEF c
<1>4. CASE c.op = "write"
  <2>1. Receive(c)
    BY <1>2, <1>4 DEF TargetHandles
  <2>2. CASE held = Pieces
    <3> DEFINE p == [op |-> "write", ok |-> FALSE, at |-> held, good |-> good, id |-> c.id]
    <3>1. p \in Packets /\ toHost' = Append(toHost, p) /\ p.op # "crc" /\ p.id = c.id
      BY <1>1, <2>1, <2>2 DEF Packets, Ops, IInv, TypeOK, Receive
    <3> QED BY <1>4, <3>1
  <2>3. CASE held # Pieces
    <3> DEFINE p == [op |-> "crc", ok |-> TRUE, at |-> held', good |-> good', id |-> c.id]
    <3>1. p \in Packets /\ p.id = c.id /\ p.at = held' /\ p.good = good'
      BY <1>1, <1>2 DEF Packets, Ops
    <3>2. toHost' = Append(toHost, p)
      BY <2>1, <2>3 DEF Receive, Answer, Opcode
    <3> QED BY <1>4, <3>1, <3>2
  <2> QED BY <2>2, <2>3
<1> QED BY <1>3, <1>4

\* What the target sends is in order.
LEMMA OrderHandled ==
    ASSUME IInv, InOrder, TargetHandles
    PROVE  InOrder'
<1> DEFINE c == Head(toTarget)
<1>1. PICK n \in Nat : /\ Len(toTarget) = n + 1 /\ c = toTarget[1] /\ Len(toTarget') = n
                       /\ \A i \in 1 .. n : toTarget'[i] = toTarget[i + 1]
  <2>1. toTarget \in Seq(Commands) /\ toTarget # <<>> /\ toTarget' = Tail(toTarget)
    BY DEF IInv, TypeOK, TargetHandles
  <2> QED BY <2>1, HeadTail
<1>2. /\ c.op # "abort" => /\ c.id <= requests /\ (c.id = requests => c.op = op)
                           /\ c.id = requests - 1 /\ op = "crc" => c.op = "write"
                           /\ \A i \in 1 .. n : toTarget'[i].op # "abort" => c.id <= toTarget'[i].id
      /\ c.id \in Nat /\ c \in Commands /\ requests \in Nat
  <2>1. 1 \in 1 .. Len(toTarget) /\ \A i \in 1 .. n : i + 1 \in 1 .. Len(toTarget)
    BY <1>1
  <2>2. c \in Commands
    BY <1>1, <2>1 DEF IInv, TypeOK
  <2>3. c.id \in Nat
    BY PrnAssumption, <2>2 DEF Commands
  <2>4. requests \in Nat
    BY DEF IInv, TypeOK
  <2> QED BY <1>1, <2>1, <2>2, <2>3, <2>4 DEF InOrder, Ordered
<1>3. UNCHANGED <<op, requests, step, next, stored>>
  BY DEF TargetHandles, callerVars, mailboxVars
<1> HIDE DEF c
<1>4. Ordered'
  <2> SUFFICES ASSUME NEW i \in 1 .. n, toTarget'[i].op # "abort"
               PROVE  /\ toTarget'[i].id <= requests
                      /\ toTarget'[i].id = requests => toTarget'[i].op = op
                      /\ toTarget'[i].id = requests - 1 /\ op = "crc" => toTarget'[i].op = "write"
                      /\ \A j \in i .. n : toTarget'[j].op # "abort" => toTarget'[i].id <= toTarget'[j].id
    BY <1>1, <1>3 DEF Ordered
  <2>1. i + 1 \in 1 .. Len(toTarget) /\ toTarget'[i] = toTarget[i + 1]
    BY <1>1
  <2>2. \A j \in i .. n : j + 1 \in i + 1 .. Len(toTarget) /\ toTarget'[j] = toTarget[j + 1]
    BY <1>1
  <2> QED BY <2>1, <2>2 DEF InOrder, Ordered
<1>5. ASSUME NEW p \in Arrived PROVE Before(p)' /\ Truthful(p)'
  <2>1. Before(p) /\ Truthful(p) /\ p \in Packets /\ p.id \in Nat
    <3>1. p \in Packets
      BY ArrivedFacts
    <3> QED BY PrnAssumption, <3>1 DEF InOrder, Packets
  <2>2. Before(p)'
    BY <1>1, <1>3, <2>1 DEF Before
  <2>3. ASSUME p.op = "crc", p.at = Pieces, p.good, Recent(p)
        PROVE  held' = Pieces /\ good'
    <3>1. held = Pieces /\ good
      BY <2>1, <2>3 DEF Truthful
    <3>2. c.op # "abort" => p.id <= c.id
      BY <1>1, <2>1 DEF Before
    <3>3. c.op \in {"write", "crc", "abort"}
      BY <1>2, <2>1, <2>3, <3>2 DEF Recent, Before
    <3> QED BY <3>1, <3>3, KeepsWhole DEF c
  <2>4. Truthful(p)'
    BY <1>3, <2>3 DEF Truthful, Recent
  <2> QED BY <2>2, <2>4
<1>6. CASE toHost' = toHost
  <2>1. Arrived' = Arrived
    BY <1>3, <1>6, ArrivedFacts
  <2> QED BY <1>3, <1>4, <1>5, <2>1 DEF InOrder
<1>7. CASE toHost' # toHost
  <2>1. PICK p \in Packets :
          /\ toHost' = Append(toHost, p) /\ p.id = c.id /\ c.op # "abort"
          /\ p.op = "crc" => c.op \in {"write", "crc"} /\ p.at = held' /\ p.good = good'
    BY <1>7, HandledSends DEF c
  <2>2. Arrived' \subseteq Arrived \cup {p}
    <3>1. toHost \in Seq(Packets)
      BY DEF IInv, TypeOK
    <3>2. /\ Len(toHost') = Len(toHost) + 1 /\ Len(toHost) \in Nat /\ toHost'[Len(toHost) + 1] = p
          /\ \A i \in 1 .. Len(toHost) : toHost'[i] = toHost[i]
      BY <2>1, <3>1, Appended
    <3>3. \A i \in 1 .. Len(toHost') : toHost'[i] \in Arrived \cup {p}
      <4> TAKE i \in 1 .. Len(toHost')
      <4>1. i \in 1 .. Len(toHost) \/ i = Len(toHost) + 1
        BY <3>2
      <4>2. i \in 1 .. Len(toHost) => toHost'[i] \in Arrived
        BY <3>2 DEF Arrived
      <4> QED BY <3>2, <4>1, <4>2
    <3>4. stored' # NoPacket => stored' \in Arrived
      BY <1>3 DEF Arrived
    <3> QED BY <3>3, <3>4 DEF Arrived
  <2>3. Before(p)'
    BY <1>1, <1>2, <1>3, <2>1 DEF Before
  <2>4. Truthful(p)'
    BY <2>1 DEF Truthful
  <2> QED BY <1>3, <1>4, <1>5, <2>2, <2>3, <2>4 DEF InOrder
<1> QED BY <1>6, <1>7

\* Nothing is on its way at first.
LEMMA InitOrder == Init => InOrder
<1> SUFFICES ASSUME Init PROVE InOrder
  OBVIOUS
<1>1. toTarget = <<>> /\ toHost = <<>> /\ stored = NoPacket /\ next = Anew
  BY DEF Init
<1>2. Arrived = {}
  BY <1>1 DEF Arrived
<1> QED BY <1>1, <1>2 DEF InOrder, Ordered, Anew

\* Packets and commands stay in order, and checksums of this attempt true.
LEMMA OrderStep == IInv /\ NextForms /\ InOrder /\ [Next]_vars => InOrder'
<1> SUFFICES ASSUME IInv, NextForms, InOrder, [Next]_vars PROVE InOrder'
  OBVIOUS
<1> USE DEF callerVars, mailboxVars, targetVars
<1>0. /\ requests \in Nat /\ op \in Ops /\ (step = "idle" /\ next = {"crc"} => op = "write")
      /\ \A p \in Arrived : p \in Packets /\ p.id \in Nat /\ p.id <= requests
  <2>1. \A p \in Packets : p.id \in Nat
    BY PrnAssumption DEF Packets
  <2> QED BY <2>1, ArrivedFacts DEF InOrder, Before, IInv, TypeOK
<1>1. ASSUME NEW o \in Ops, Request(o) PROVE InOrder'
  <2> DEFINE c == [op |-> o, at |-> 0, id |-> requests']
  <2>1. /\ toTarget' = Append(toTarget, c) /\ requests' = requests + 1 /\ op' = o /\ step' = "written"
        /\ step = "idle" /\ o \in next /\ UNCHANGED <<stored, toHost, held, good>>
    BY <1>1 DEF Request
  <2>2. c \in Commands /\ c.id = requests' /\ c.op = op'
    BY <1>1, <2>1, Inductive DEF Commands, Next, IInv, TypeOK, Request
  <2>3. o = "crc" => op = "write"
    BY <1>0, <2>1 DEF NextForms, Anew
  <2>4. \A p \in Arrived : Truthful(p) => Truthful(p)'
    <3> SUFFICES ASSUME NEW p \in Arrived, Truthful(p), p.op = "crc", p.at = Pieces, p.good, Recent(p)'
                 PROVE  held' = Pieces /\ good'
      BY DEF Truthful
    <3>1. p.id \in Nat /\ p.id <= requests /\ requests' = requests + 1
      BY <1>0, <2>1
    <3>2. Recent(p)
      BY <1>0, <2>1, <2>3, <3>1 DEF Recent
    <3> QED BY <2>1, <3>2 DEF Truthful
  <2> HIDE DEF c
  <2> QED BY <1>0, <2>1, <2>2, <2>3, <2>4, OrderAppended
<1>2. CASE WriteObject
  <2>1. /\ requests' = requests + 1 /\ op' = "write" /\ step' = "sending"
        /\ UNCHANGED <<stored, toHost, toTarget, held, good>>
    BY <1>2 DEF WriteObject
  <2>2. Arrived' = Arrived
    BY <2>1, ArrivedFacts
  <2>3. \A i \in 1 .. Len(toTarget) : toTarget[i].id \in Nat
    <3>1. \A e \in Commands : e.id \in Nat
      BY PrnAssumption DEF Commands
    <3>2. toTarget \in Seq(Commands)
      BY DEF IInv, TypeOK
    <3> QED BY <3>1, <3>2
  <2>4. Ordered'
    BY <1>0, <2>1, <2>3 DEF InOrder, Ordered
  <2>5. \A p \in Arrived : Before(p)' /\ Truthful(p)'
    BY <1>0, <2>1 DEF InOrder, Before, Truthful, Recent
  <2> QED BY <2>1, <2>2, <2>4, <2>5 DEF InOrder
<1>3. CASE WriteObjectPiece
  <2> DEFINE c == [op |-> "write", at |-> pos, id |-> requests]
  <2>1. /\ toTarget' = Append(toTarget, c) /\ op = "write" /\ pos < Pieces
        /\ UNCHANGED <<op, requests, stored, toHost, held, good>>
    BY <1>3 DEF WriteObjectPiece, IInv, PieceLeft
  <2>2. c \in Commands /\ c.id = requests' /\ c.op = op'
    BY <2>1 DEF Commands, IInv, TypeOK
  <2>3. \A p \in Arrived : Truthful(p) => Truthful(p)'
    BY <2>1 DEF Truthful, Recent
  <2> HIDE DEF c
  <2> QED BY <1>0, <2>1, <2>2, <2>3, OrderAppended
<1>4. CASE Abort
  <2> DEFINE c == [op |-> "abort", at |-> 0, id |-> 0]
  <2>1. /\ toTarget' = Append(toTarget, c) /\ next' = Anew
        /\ UNCHANGED <<op, requests, stored, toHost, held, good>>
    BY <1>4 DEF Abort
  <2>2. c \in Commands /\ c.op = "abort"
    BY PrnAssumption DEF Commands
  <2>3. \A p \in Arrived : Truthful(p) => Truthful(p)'
    BY <2>1 DEF Truthful, Recent
  <2>4. next' # {"crc"}
    BY <2>1 DEF Anew
  <2> HIDE DEF c
  <2> QED BY <1>0, <2>1, <2>2, <2>3, <2>4, OrderAppended
<1>5. ASSUME NEW p \in Packets, Resolve(p) PROVE step' = "idle" /\ next' = {"crc"} => op = "write"
  BY <1>5, ResolveContinues DEF Continues, Anew
<1>6. ASSUME Fail PROVE next' # {"crc"}
  BY <1>6 DEF Fail, Settle, Anew
<1>7. CASE Read
  <2>1. /\ UNCHANGED <<op, requests, held, good, toTarget, toHost>>
        /\ stored' \in {stored, NoPacket}
    BY <1>7 DEF Read
  <2>2. Arrived' \subseteq Arrived
    BY <2>1, ArrivedFacts
  <2>3. stored # NoPacket => stored \in Packets
    BY DEF IInv, TypeOK
  <2>4. step' = "idle" /\ next' = {"crc"} => op = "write"
    BY <1>5, <1>6, <1>7, <2>3 DEF Read
  <2> QED BY <2>1, <2>2, <2>4, OrderKept
<1>8. CASE Timeout
  <2>1. /\ UNCHANGED <<op, requests, held, good, toTarget, toHost, stored>> /\ Fail
    BY <1>8 DEF Timeout
  <2>2. Arrived' \subseteq Arrived
    BY <2>1, ArrivedFacts
  <2> QED BY <1>6, <2>1, <2>2, OrderKept
<1>9. CASE OnData
  <2>1. /\ UNCHANGED <<op, requests, held, good, toTarget>> /\ toHost # <<>> /\ toHost' = Tail(toHost)
        /\ stored' \in {stored, Head(toHost)}
    BY <1>9 DEF OnData
  <2>2. Arrived' \subseteq Arrived
    BY <2>1, ArrivedFacts
  <2>3. Head(toHost) \in Packets
    BY <2>1, Taken DEF IInv, TypeOK
  <2>4. step' = "idle" /\ next' = {"crc"} => op = "write"
    BY <1>0, <1>5, <1>9, <2>3 DEF OnData
  <2> QED BY <2>1, <2>2, <2>4, OrderKept
<1>10. CASE TargetHandles
  BY <1>10, OrderHandled
<1>11. CASE Lose
  <2>1. /\ UNCHANGED <<op, requests, held, good, stored, step, next>>
        /\ \/ toTarget # <<>> /\ toTarget' = Tail(toTarget) /\ toHost' = toHost
           \/ toHost # <<>> /\ toHost' = Tail(toHost) /\ toTarget' = toTarget
    BY <1>11 DEF Lose
  <2>2. Arrived' \subseteq Arrived
    BY <2>1, ArrivedFacts
  <2> QED BY <1>0, <2>1, <2>2, OrderKept
<1>12. CASE UNCHANGED vars
  <2>1. /\ UNCHANGED <<op, requests, held, good, stored, step, next, toTarget, toHost>>
    BY <1>12 DEF vars
  <2>2. Arrived' \subseteq Arrived
    BY <2>1, ArrivedFacts
  <2> QED BY <1>0, <2>1, <2>2, OrderKept
<1> QED BY <1>1, <1>2, <1>3, <1>4, <1>7, <1>8, <1>9, <1>10, <1>11, <1>12 DEF Next

-----------------------------------------------------------------------------
(* What the fault costs: the caller's steps, and the losses.               *)
-----------------------------------------------------------------------------
(* What a step does to the lag of the target's answers.                    *)

\* The types behind Lag.
LEMMA StateFacts ==
    ASSUME IInv, NEW t \in TargetStates
    PROVE  /\ t.held \in 0 .. Pieces /\ t.notified \in Nat /\ t.alive \in BOOLEAN
           /\ t.out \in Seq(Briefs) /\ Len(t.out) \in Nat
           /\ \A m \in 1 .. Len(t.out) :
                t.out[m].id \in Nat /\ t.out[m].at \in 0 .. Pieces /\ t.out[m].op \in Ops
           /\ Pieces \in Nat \ {0} /\ prn \in Nat /\ pos \in 0 .. Pieces /\ prnCount \in Nat
           /\ requests \in Nat /\ requests <= MaxRequests /\ MaxRequests \in Nat /\ faults \in Nat
           /\ op \in Ops /\ step \in {"idle", "sending", "written", "reading"}
<1>1. /\ t.held \in 0 .. Pieces /\ t.notified \in Nat /\ t.alive \in BOOLEAN
      /\ t.out \in Seq(Briefs) /\ Len(t.out) \in Nat
  BY DEF TargetStates
<1>2. /\ Pieces \in Nat \ {0} /\ prn \in Nat /\ pos \in 0 .. Pieces /\ prnCount \in Nat
      /\ requests \in Nat /\ requests <= MaxRequests /\ MaxRequests \in Nat /\ faults \in Nat
      /\ op \in Ops /\ step \in {"idle", "sending", "written", "reading"}
  BY PrnAssumption DEF IInv, TypeOK
<1>3. \A y \in Briefs : y.id \in Nat /\ y.at \in 0 .. Pieces /\ y.op \in Ops
  BY <1>2 DEF Briefs
<1>4. \A m \in 1 .. Len(t.out) : t.out[m] \in Briefs
  BY <1>1
<1> QED BY <1>1, <1>2, <1>3, <1>4

\* Something goes wrong that neither caller nor target notices.
LEMMA FaultLag ==
    ASSUME IInv, NEW t \in TargetStates, Lag(t), faults = 0, faults' = 1,
           UNCHANGED <<prn, callerVars, requests>>
    PROVE  Lag(t)'
<1>1. /\ Len(t.out) \in Nat /\ UNCHANGED <<prn, next, op, step, pos, prnCount, aborted, requests>>
  BY StateFacts DEF callerVars
<1>2. CASE ~t.alive
  BY <1>1, <1>2 DEF Lag, LateLag, InChunk
<1>3. CASE t.alive
  <2>1. Bounded(t) /\ IdleLag(t) /\ WritingLag(t) /\ PendingLag(t)
    BY <1>3 DEF Lag
  <2>2. Len(t.out) <= 1 /\ (~Pending => Len(t.out) = 0)
    BY <1>1, <2>1 DEF Bounded, Few
  <2>3. Bounded(t)'
    BY <1>1, <2>1, <2>2 DEF Bounded, Few, Known, Own1, Own2, Pending
  <2>4. IdleLag(t)'
    BY <1>1, <2>1, <2>2 DEF IdleLag, Even, Current, Pending
  <2>5. WritingLag(t)'
    BY <1>1, <2>1, <2>2 DEF WritingLag, Writing, Pending
  <2>6. PendingLag(t)'
    <3>1. Len(t.out) # faults' + 1
      BY <1>1, <2>2, SMTT(30)
    <3>2. WriteLag(t) => WriteLag(t)'
      BY <1>1, <3>1 DEF WriteLag
    <3>3. (CrcLag(t) => CrcLag(t)') /\ (NewLag(t) => NewLag(t)') /\ (Current(t) => Current(t)')
      BY <1>1, <3>1 DEF CrcLag, NewLag, Current
    <3> QED BY <1>1, <2>1, <3>1, <3>2, <3>3 DEF PendingLag, Pending
  <2> QED BY <1>3, <2>3, <2>4, <2>5, <2>6 DEF Lag
<1> QED BY <1>2, <1>3

\* The only packet is lost.
LEMMA EmptyLag ==
    ASSUME IInv, NEW t \in TargetStates, Lag(t), faults = 0, faults' = 1,
           UNCHANGED <<prn, callerVars, requests>>,
           NEW u, u.held = t.held, u.notified = t.notified, u.alive = t.alive, u.out = <<>>
    PROVE  Lag(u)'
<1>1. Len(u.out) = 0 /\ Len(t.out) \in Nat
  BY StateFacts
<1>2. Lag(t)'
  BY FaultLag
<1>3. CASE ~t.alive
  BY <1>1, <1>2, <1>3 DEF Lag, LateLag
<1>4. CASE t.alive
  <2>1. Bounded(t)' /\ IdleLag(t)' /\ WritingLag(t)' /\ PendingLag(t)'
    BY <1>2, <1>4 DEF Lag
  <2>2. Bounded(u)'
    BY <1>1, <2>1 DEF Bounded, Few, Known, Own1, Own2
  <2>3. IdleLag(u)'
    BY <1>1, <2>1 DEF IdleLag
  <2>4. WritingLag(u)'
    BY <1>1, <2>1 DEF WritingLag
  <2>5. PendingLag(u)'
    BY <1>1, <2>1 DEF PendingLag, WriteLag, CrcLag, NewLag, Current
  <2> QED BY <1>4, <2>2, <2>3, <2>4, <2>5 DEF Lag
<1> QED BY <1>3, <1>4

\* The answer comes behind another packet, and is lost.
LEMMA DroppedLag ==
    ASSUME IInv, NEW t \in TargetStates, Lag(t), faults <= 1, 2 <= Len(t.out)
    PROVE  Lag(Removed(t, 2))
<1> DEFINE u == Removed(t, 2)
<1>1. /\ Len(t.out) \in Nat /\ t.out \in Seq(Briefs) /\ faults \in Nat
  BY StateFacts
<1>2. t.alive /\ Bounded(t) /\ IdleLag(t) /\ WritingLag(t) /\ PendingLag(t)
  BY <1>1 DEF Lag, LateLag
<1>3. Pending /\ faults = 1 /\ Len(t.out) = 2
  <2>1. Few(t)
    BY <1>2 DEF Bounded
  <2>2. Len(t.out) \in Nat /\ faults \in Nat
    BY <1>1
  <2>3. \A n, f \in Nat : f <= 1 /\ 2 <= n => ~(n <= f) /\ (n <= f + 1 => f = 1 /\ n = 2)
    OBVIOUS
  <2> QED BY <2>1, <2>2, <2>3 DEF Few
<1>4. /\ u.held = t.held /\ u.notified = t.notified /\ u.alive = t.alive
      /\ Len(u.out) = 1 /\ u.out[1] = t.out[1]
  <2>1. /\ Len(Without(t.out, 2)) = 1 /\ Without(t.out, 2)[1] = t.out[1]
    <3> DEFINE o == t.out
    <3>1. o \in Seq(Briefs) /\ Len(o) = 2 /\ 2 \in 1 .. Len(o)
      BY <1>1, <1>3
    <3> HIDE DEF o
    <3>2. /\ Len(Without(o, 2)) = Len(o) - 1
          /\ \A m \in 1 .. Len(o) - 1 : Without(o, 2)[m] = (IF m < 2 THEN o[m] ELSE o[m + 1])
      BY <3>1, WithoutFacts
    <3> QED BY <3>1, <3>2 DEF o
  <2> QED BY <2>1 DEF Removed
<1> HIDE DEF u
<1>5. \A m \in 1 .. Len(u.out) : m \in 1 .. Len(t.out) /\ u.out[m] = t.out[m]
  BY <1>3, <1>4
<1>6. Bounded(u)
  BY <1>2, <1>3, <1>4, <1>5 DEF Bounded, Few, Known, Own1, Own2
<1>7. IdleLag(u) /\ WritingLag(u)
  BY <1>3 DEF IdleLag, WritingLag, Pending, Writing
<1>8. PendingLag(u)
  <2>1. t.out # <<>>
    BY <1>1, <1>3
  <2>2. op = "select" => Current(u)
    BY <1>2, <1>3, <1>4, <1>5 DEF PendingLag, Current
  <2>3. WriteLag(t) => WriteLag(u)
    BY <1>3, <1>4, <1>5 DEF WriteLag
  <2>4. (CrcLag(t) => CrcLag(u)) /\ (NewLag(t) => NewLag(u))
    BY <1>3, <1>4, <1>5, <2>1 DEF CrcLag, NewLag
  <2> QED BY <1>2, <1>3, <1>4, <2>2, <2>3, <2>4 DEF PendingLag
<1>9. Lag(u)
  BY <1>2, <1>4, <1>6, <1>7, <1>8 DEF Lag
<1> QED BY <1>9 DEF u

\* The caller takes the first packet for the answer.
LEMMA TakenLag ==
    ASSUME IInv, NextForms, NEW t \in TargetStates, Lag(t), faults <= 1, Pending, 1 <= Len(t.out),
           NEW p \in Packets, Brief(p) = t.out[1], Resolve(p),
           UNCHANGED <<prn, op, prnCount, aborted, requests, faults>>
    PROVE  Lag(Removed(t, 1))'
<1> DEFINE u == Removed(t, 1)
<1>1. /\ Len(t.out) \in Nat /\ t.out \in Seq(Briefs) /\ faults \in Nat /\ requests \in Nat
      /\ t.held \in 0 .. Pieces /\ t.notified \in Nat /\ prn \in Nat /\ pos \in 0 .. Pieces
      /\ Pieces \in Nat \ {0} /\ op \in Ops /\ step \in {"idle", "sending", "written", "reading"}
      /\ \A m \in 1 .. Len(t.out) : t.out[m].id \in Nat /\ t.out[m].at \in 0 .. Pieces
  BY StateFacts
<1>2. /\ u.held = t.held /\ u.notified = t.notified /\ u.alive = t.alive
      /\ Len(u.out) = Len(t.out) - 1 /\ \A m \in 1 .. Len(u.out) : u.out[m] = t.out[m + 1]
  <2>1. /\ Len(Without(t.out, 1)) = Len(t.out) - 1
        /\ \A m \in 1 .. Len(t.out) - 1 : Without(t.out, 1)[m] = t.out[m + 1]
    <3> DEFINE o == t.out
    <3>1. o \in Seq(Briefs) /\ 1 \in 1 .. Len(o) /\ Len(o) \in Nat
      BY <1>1
    <3> HIDE DEF o
    <3>2. /\ Len(Without(o, 1)) = Len(o) - 1
          /\ \A m \in 1 .. Len(o) - 1 : Without(o, 1)[m] = (IF m < 1 THEN o[m] ELSE o[m + 1])
      BY <3>1, WithoutFacts
    <3> QED BY <3>1, <3>2 DEF o
  <2> QED BY <2>1 DEF Removed
<1>3. Continues(p) /\ p.op = t.out[1].op /\ p.at = t.out[1].at /\ p.id = t.out[1].id
  BY ResolveContinues DEF Brief
<1> HIDE DEF u
<1>4. step' \in {"idle", "sending"}
  BY <1>3 DEF Continues
<1>5. CASE ~t.alive
  <2>1. Len(t.out) = 1 /\ faults = 1
    <3>1. Len(t.out) <= faults
      BY <1>5 DEF Lag, LateLag
    <3>2. Len(t.out) \in Nat /\ faults \in Nat
      BY <1>1
    <3>3. \A n, f \in Nat : n <= f /\ f <= 1 /\ 1 <= n => n = 1 /\ f = 1
      OBVIOUS
    <3> QED BY <3>1, <3>2, <3>3
  <2>2. Len(u.out) = 0 /\ u.out = <<>>
    <3>1. Len(u.out) = 0 /\ u.out \in Seq(Briefs)
      <4>1. u \in TargetStates
        BY <1>1, RemovedTyped DEF u
      <4> QED BY <1>2, <2>1, <4>1 DEF TargetStates
    <3> QED BY <3>1
  <2> QED BY <1>2, <1>5, <2>1, <2>2 DEF Lag, LateLag, u
<1>6. CASE t.alive
  <2>1. Bounded(t) /\ PendingLag(t)
    BY <1>6 DEF Lag
  <2>2. Len(t.out) <= faults + 1 /\ Len(t.out) \in 1 .. 2
    <3>1. Few(t)
      BY <2>1 DEF Bounded
    <3>2. Len(t.out) \in Nat /\ faults \in Nat
      BY <1>1
    <3>3. \A n, f \in Nat : n <= f + 1 /\ f <= 1 /\ 1 <= n => n \in 1 .. 2
      OBVIOUS
    <3>4. Pending /\ Len(t.out) <= faults + 1
      BY <3>1 DEF Few
    <3> QED BY <3>2, <3>3, <3>4
  <2>3. \A m \in 1 .. Len(u.out) : m = 1 /\ Len(t.out) = 2 /\ u.out[m] = t.out[2]
    BY <1>2, <2>2
  <2>4. \A m \in 1 .. Len(u.out) : u.out[m].id = requests /\ u.out[m].op = Opcode(op)
    BY <2>1, <2>2, <2>3 DEF Bounded, Known, Own2
  <2>5. Bounded(u)'
    BY <1>1, <1>2, <1>4, <2>1, <2>2, <2>4 DEF Bounded, Few, Known, Own1, Own2, Pending
  <2>6. PendingLag(u)'
    BY <1>4 DEF PendingLag, Pending
  <2>7. Len(u.out) = faults => Even(t)
    BY <1>1, <1>2, <2>1, <2>2 DEF PendingLag, WriteLag, CrcLag, NewLag, Even, Ops
  <2>8. Current(u)
    <3>1. op = "select" => Current(t)
      BY <2>1 DEF PendingLag
    <3>2. op # "select" => Opcode(op) # "select"
      BY DEF Opcode
    <3> QED BY <1>2, <2>3, <2>4, <3>1, <3>2 DEF Current
  <2>9. IdleLag(u)'
    <3>1. Len(u.out) = faults => (Even(u) /\ Current(u))'
      BY <1>2, <2>7, <2>8 DEF Even, Current
    <3>2. ASSUME step' = "idle", next' = {"write"}
          PROVE  /\ u.held = pos'
                 /\ Len(u.out) = faults =>
                      (prn > 0 => u.notified = 0) /\ \A m \in 1 .. Len(u.out) : u.out[m].op # "crc"
      <4>1. /\ p.op = Opcode(op)
            /\ \/ op = "create" /\ pos' = 0
               \/ op = "select" /\ pos' = p.at /\ p.at # 0 /\ p.at # Pieces
        BY <1>3, <3>2 DEF Continues, Anew
      <4>2. CASE op = "create" /\ pos' = 0
        <5>1. t.held = 0 /\ t.notified = 0
          BY <1>1, <2>1, <2>2, <4>2 DEF PendingLag, NewLag
        <5> QED BY <1>2, <2>4, <4>2, <5>1 DEF Opcode
      <4>3. CASE op = "select" /\ pos' = p.at /\ p.at # 0 /\ p.at # Pieces
        <5>1. t.held = p.at
          <6>1. Current(t) /\ 1 \in 1 .. Len(t.out) /\ t.out[1].op = "select"
            BY <1>1, <1>3, <2>1, <4>1, <4>3 DEF PendingLag, Opcode
          <6> QED BY <1>3, <6>1 DEF Current
        <5> QED BY <1>2, <2>4, <2>7, <4>3, <5>1 DEF Even, Opcode
      <4> QED BY <4>1, <4>2, <4>3
    <3> QED BY <3>1, <3>2 DEF IdleLag
  <2>10. WritingLag(u)'
    <3>1. SUFFICES ASSUME Writing' PROVE WritingLag(u)'
      BY DEF WritingLag
    <3>2. /\ op = "write" /\ p.op = "crc" /\ p.at = pos /\ pos' = pos
          /\ step' = "idle" => pos = Pieces
      BY <1>3, <3>1 DEF Writing, Continues, Anew
    <3>3. t.held <= pos /\ prnCount = 0 /\ prn > 0 /\ (Len(t.out) = faults + 1 => t.notified = 0)
      BY <2>1, <3>2 DEF PendingLag, WriteLag
    <3>4. p.id = requests /\ p.at <= t.held
      <4>1. WriteLag(t) /\ 1 \in 1 .. Len(t.out)
        BY <1>1, <2>1, <3>2 DEF PendingLag
      <4> QED BY <1>3, <3>2, <4>1 DEF WriteLag
    <3>5. t.held = pos /\ Len(t.out) = 1
      BY <1>1, <1>3, <2>1, <2>2, <3>2, <3>3, <3>4 DEF Bounded, Own2
    <3>6. \A m \in 1 .. Len(u.out) : FALSE
      BY <2>3, <3>5
    <3>7. u.held = pos' /\ prnCount' = 0 /\ prn' > 0 /\ (Len(u.out) = faults' => u.notified = 0)
      BY <1>1, <1>2, <3>2, <3>3, <3>5
    <3> QED BY <1>1, <3>2, <3>6, <3>7 DEF WritingLag
  <2> QED BY <1>2, <1>6, <2>5, <2>6, <2>9, <2>10 DEF Lag, u
<1> QED BY <1>1, <1>5, <1>6

\* Where a command leads a target in bootloader mode.
LEMMA MovedFacts ==
    ASSUME NEW k \in Nat, NEW t \in TargetStates, t.alive, NEW c \in Commands
    PROVE  /\ Moved(k, t, c).held = HeldBy(t, c) /\ Moved(k, t, c).notified = CountBy(k, t, c)
           /\ Moved(k, t, c).alive = (c.op # "abort")
           /\ ~Sends(k, t, c) => Moved(k, t, c).out = t.out
           /\ Sends(k, t, c) =>
                /\ Len(Moved(k, t, c).out) = Len(t.out) + 1
                /\ Moved(k, t, c).out[Len(t.out) + 1] = Sent(t, c)
                /\ \A m \in 1 .. Len(t.out) : Moved(k, t, c).out[m] = t.out[m]
<1>1. Moved(k, t, c) = [held |-> HeldBy(t, c), notified |-> CountBy(k, t, c), alive |-> c.op # "abort",
                        out |-> IF Sends(k, t, c) THEN Append(t.out, Sent(t, c)) ELSE t.out]
  BY DEF Moved
<1>2. CASE ~Sends(k, t, c)
  BY <1>1, <1>2
<1>3. CASE Sends(k, t, c)
  <2>1. t.out \in Seq(Briefs) /\ Sent(t, c) \in Briefs
    <3>1. /\ t.held \in 0 .. Pieces /\ t.out \in Seq(Briefs)
          /\ c.op \in Ops \cup {"abort"} /\ c.id \in 0 .. MaxRequests /\ Pieces \in Nat \ {0}
      BY PrnAssumption DEF TargetStates, Commands
    <3>2. HeldBy(t, c) \in 0 .. Pieces
      BY <3>1 DEF HeldBy
    <3> QED BY <1>3, <3>1, <3>2 DEF Sent, Sends, Briefs, Opcode, Ops
  <2>2. /\ Len(Append(t.out, Sent(t, c))) = Len(t.out) + 1
        /\ Append(t.out, Sent(t, c))[Len(t.out) + 1] = Sent(t, c)
        /\ \A m \in 1 .. Len(t.out) : Append(t.out, Sent(t, c))[m] = t.out[m]
    BY <2>1, Appended
  <2> QED BY <1>1, <1>3, <2>2
<1> QED BY <1>2, <1>3

\* A request is sent.
LEMMA AskedLag ==
    ASSUME IInv, NextForms, NEW t \in TargetStates, Lag(t), faults <= 1, NEW o \in Ops, Request(o),
           NEW c \in Commands, c.op = o, c.id = requests + 1, NEW u, u = Moved(prn, t, c)
    PROVE  Lag(u)'
<1> DEFINE n == Len(t.out)
<1>1. /\ n \in Nat /\ t.out \in Seq(Briefs) /\ faults \in Nat /\ requests \in Nat
      /\ t.held \in 0 .. Pieces /\ t.notified \in Nat /\ prn \in Nat /\ pos \in 0 .. Pieces
      /\ Pieces \in Nat \ {0}
      /\ \A m \in 1 .. n : t.out[m].id \in Nat /\ t.out[m].at \in 0 .. Pieces
  BY StateFacts
<1>2. /\ step = "idle" /\ o \in next /\ o # "write" /\ step' = "written" /\ op' = o /\ requests' = requests + 1
      /\ UNCHANGED <<prn, next, pos, prnCount, aborted, faults>>
  BY DEF Request
<1>3. o = "crc" => next = {"crc"}
  BY <1>2 DEF NextForms, Anew
<1>4. next = {"crc"} => o = "crc"
  BY <1>2
<1>5. CASE ~t.alive
  <2>1. u = t /\ LateLag(t)
    BY <1>5 DEF Moved, Lag
  <2>2. InChunk' => InChunk
    BY <1>2, <1>3 DEF InChunk
  <2>3. LateLag(t)'
    BY <1>2, <2>1, <2>2 DEF LateLag
  <2> QED BY <1>2, <1>5, <2>1, <2>3 DEF Lag
<1>6. CASE t.alive
  <2>1. Bounded(t) /\ IdleLag(t) /\ WritingLag(t)
    BY <1>6 DEF Lag
  <2> DEFINE y == Sent(t, c)
  <2>2. /\ Sends(prn, t, c) <=> o # "abort"
        /\ y.op = Opcode(o) /\ y.at = HeldBy(t, c) /\ y.id = requests + 1
    BY <1>2 DEF Sends, Sent
  <2>3. /\ u.held = HeldBy(t, c) /\ u.notified = CountBy(prn, t, c) /\ u.alive
        /\ Len(u.out) = n + 1 /\ u.out[n + 1] = y /\ \A m \in 1 .. n : u.out[m] = t.out[m]
    <3>1. o # "abort" /\ prn \in Nat
      BY <1>1 DEF Ops
    <3>2. Sends(prn, t, c)
      BY <2>2, <3>1
    <3> HIDE DEF y
    <3> QED BY <1>6, <3>1, <3>2, MovedFacts DEF y
  <2> HIDE DEF y, n
  <2>4. n <= faults /\ (\A m \in 1 .. n : t.out[m].id <= requests) /\ (prn > 0 => t.notified < prn)
    BY <1>2, <2>1 DEF Bounded, Few, Known, Pending, n
  <2>5. \A m \in 1 .. Len(u.out) : m \in 1 .. n \/ m = n + 1
    BY <1>1, <2>3
  <2>6. Bounded(u)'
    <3>1. Few(u)'
      BY <1>1, <1>2, <2>3, <2>4 DEF Few, Pending
    <3>2. Known(u)'
      BY <1>1, <1>2, <2>2, <2>3, <2>4, <2>5, SMTT(30) DEF Known
    <3>3. Own1(u)'
      <4>1. SUFFICES ASSUME faults = 0 PROVE ~aborted /\ \A m \in 1 .. Len(u.out) : u.out[m].id = requests + 1
        BY <1>2 DEF Own1
      <4>2. n = 0
        BY <1>1, <2>4, <4>1
      <4> QED BY <2>1, <2>2, <2>3, <2>5, <4>1, <4>2 DEF Bounded, Own1
    <3>4. Own2(u)'
      <4>1. SUFFICES ASSUME Len(u.out) = 2 PROVE u.out[2].id = requests + 1 /\ u.out[1].id # requests + 1
        BY <1>2 DEF Own2
      <4>2. n = 1
        <5>1. n + 1 = 2 /\ n \in Nat
          BY <1>1, <2>3, <4>1
        <5> QED BY <5>1
      <4>3. t.out[1].id <= requests /\ t.out[1].id \in Nat /\ u.out[1] = t.out[1] /\ u.out[2] = y
        BY <1>1, <2>3, <2>4, <4>2
      <4> QED BY <1>1, <2>2, <4>3
    <3>5. prn > 0 => u.notified < prn
      BY <1>1, <1>2, <2>3, <2>4 DEF CountBy
    <3> QED BY <1>2, <3>1, <3>2, <3>3, <3>4, <3>5 DEF Bounded
  <2>7. IdleLag(u)' /\ WritingLag(u)'
    BY <1>2 DEF IdleLag, WritingLag, Writing
  <2>8. next # {"crc"} /\ n = faults => Even(t) /\ Current(t)
    BY <1>2, <2>1 DEF IdleLag, n
  <2>9. CASE o = "crc"
    <3>1. u.held = t.held /\ Writing
      BY <1>2, <1>3, <2>3, <2>9 DEF HeldBy, Writing
    <3>2. n = faults => t.held = Pieces
      BY <1>2, <2>1, <3>1 DEF WritingLag, n
    <3>3. \A m \in 1 .. n : t.out[m].id < requests => t.out[m].op # "crc"
      BY <1>1, <2>1, <3>1, SMTT(30) DEF WritingLag, n
    <3>4. \A m \in 1 .. Len(u.out) : u.out[m].id < requests' - 1 => u.out[m].op # "crc"
      <4> TAKE m \in 1 .. Len(u.out)
      <4>1. CASE m \in 1 .. n
        BY <1>1, <1>2, <2>3, <3>3, <4>1, SMTT(30)
      <4>2. CASE m = n + 1
        BY <1>1, <1>2, <2>2, <2>3, <4>2
      <4> QED BY <2>5, <4>1, <4>2
    <3>5. CrcLag(u)'
      BY <1>1, <1>2, <2>3, <3>1, <3>2, <3>4 DEF CrcLag
    <3> QED BY <1>2, <2>3, <2>6, <2>7, <2>9, <3>5 DEF Lag, PendingLag
  <2>10. CASE o \in {"restart", "create"}
    <3>1. NewLag(u)'
      BY <2>3, <2>10 DEF NewLag, HeldBy, CountBy
    <3> QED BY <1>2, <2>3, <2>6, <2>7, <2>10, <3>1 DEF Lag, PendingLag
  <2>11. CASE o \in {"select", "execute"}
    <3>1. next # {"crc"}
      BY <1>4, <2>11
    <3>2. Len(u.out) = faults + 1 => Even(u)
      <4>1. Len(u.out) = faults + 1 => Even(t)
        BY <1>1, <2>3, <2>8, <3>1
      <4> QED BY <2>3, <2>11, <4>1 DEF Even, HeldBy, CountBy
    <3>3. o = "select" => Current(u)
      <4>1. SUFFICES ASSUME o = "select", NEW m \in 1 .. Len(u.out), u.out[m].op = "select"
                     PROVE  u.out[m].at = u.held
        BY DEF Current
      <4>2. u.held = t.held /\ y.at = t.held
        BY <2>2, <2>3, <4>1 DEF HeldBy
      <4>3. CASE m \in 1 .. n
        <5>1. n = faults
          BY <1>1, <2>4, <4>3
        <5> QED BY <2>3, <2>8, <3>1, <4>1, <4>2, <4>3, <5>1 DEF Current, n
      <4>4. CASE m = n + 1
        BY <2>3, <4>2, <4>4
      <4> QED BY <2>5, <4>3, <4>4
    <3>4. (Len(u.out) = faults + 1 => Even(u))' /\ (o = "select" => Current(u))'
      BY <1>2, <3>2, <3>3 DEF Even, Current
    <3> QED BY <1>2, <2>3, <2>6, <2>7, <2>11, <3>4 DEF Lag, PendingLag
  <2> QED BY <1>2, <2>9, <2>10, <2>11 DEF Ops
<1> QED BY <1>1, <1>5, <1>6

\* The first piece is going to be written.
LEMMA StartedLag ==
    ASSUME IInv, NextForms, NEW t \in TargetStates, Lag(t), faults <= 1, WriteObject
    PROVE  Lag(t)'
<1>1. /\ Len(t.out) \in Nat /\ faults \in Nat /\ requests \in Nat /\ prn \in Nat /\ t.notified \in Nat
      /\ t.held \in 0 .. Pieces /\ pos \in 0 .. Pieces
      /\ \A m \in 1 .. Len(t.out) : t.out[m].id \in Nat
  BY StateFacts
<1>2. /\ step = "idle" /\ "write" \in next /\ step' = "sending" /\ op' = "write" /\ requests' = requests + 1
      /\ prnCount' = 0 /\ UNCHANGED <<prn, next, pos, aborted, faults>>
  BY DEF WriteObject
<1>3. next = {"write"}
  BY <1>2 DEF NextForms, Anew
<1>4. CASE ~t.alive
  <2>1. LateLag(t) /\ InChunk
    BY <1>2, <1>3, <1>4 DEF Lag, InChunk
  <2> QED BY <1>2, <1>4, <2>1 DEF Lag, LateLag
<1>5. CASE t.alive
  <2>1. Bounded(t) /\ IdleLag(t)
    BY <1>5 DEF Lag
  <2>2. Len(t.out) <= faults /\ (\A m \in 1 .. Len(t.out) : t.out[m].id < requests')
    BY <1>1, <1>2, <2>1 DEF Bounded, Few, Known, Pending
  <2>3. Bounded(t)'
    <3>1. Few(t)' /\ Known(t)' /\ Own2(t)'
      BY <1>1, <1>2, <2>2 DEF Few, Known, Own2, Pending
    <3>2. Own1(t)'
      <4>1. faults = 0 => Len(t.out) = 0
        BY <1>1, <2>2
      <4> QED BY <1>2, <2>1, <4>1 DEF Bounded, Own1
    <3> QED BY <1>2, <2>1, <3>1, <3>2 DEF Bounded
  <2>4. t.held = pos /\ (Len(t.out) = faults =>
          (prn > 0 => t.notified = 0) /\ \A m \in 1 .. Len(t.out) : t.out[m].op # "crc")
    BY <1>2, <1>3, <2>1 DEF IdleLag
  <2>5. \A m \in 1 .. Len(t.out) : t.out[m].op # "crc" /\ t.out[m].id # requests'
    <3> TAKE m \in 1 .. Len(t.out)
    <3>1. Len(t.out) = faults
      BY <1>1, <2>2
    <3> QED BY <1>1, <1>2, <2>2, <2>4, <3>1
  <2>6. WritingLag(t)'
    BY <1>1, <1>2, <2>4, <2>5 DEF WritingLag
  <2>7. IdleLag(t)' /\ PendingLag(t)'
    BY <1>2 DEF IdleLag, PendingLag, Pending
  <2> QED BY <1>5, <2>3, <2>6, <2>7 DEF Lag
<1> QED BY <1>4, <1>5

\* The target is going to be sent away.
LEMMA AbortedLag ==
    ASSUME IInv, NEW t \in TargetStates, Lag(t), faults <= 1, Abort,
           NEW u, ~u.alive, u.out = t.out
    PROVE  Lag(u)'
<1>1. step = "idle" /\ step' = "idle" /\ next' = Anew /\ UNCHANGED faults
  BY DEF Abort
<1>2. Len(t.out) <= faults
  BY <1>1 DEF Lag, LateLag, Bounded, Few, Pending
<1>3. ~InChunk'
  BY <1>1 DEF InChunk, Anew
<1> QED BY <1>1, <1>2, <1>3 DEF Lag, LateLag

\* The caller gives up reading, while an answer is on its way or lost.
LEMMA LateTimeoutLag ==
    ASSUME IInv, NEW t \in TargetStates, Lag(t), Pending, Fail,
           UNCHANGED <<prn, op, pos, prnCount, aborted, requests>>,
           \/ faults = 0 /\ faults' = 1
           \/ faults = 1 /\ faults' = 1 /\ Len(t.out) = 0
    PROVE  Lag(t)'
<1>1. /\ Len(t.out) \in Nat /\ faults \in Nat /\ requests \in Nat /\ prn \in Nat /\ op \in Ops
  BY StateFacts
<1>2. /\ step' = "idle" /\ next' \in {Anew, {"create"} \cup Anew}
  BY DEF Fail, Settle
<1>3. next' # {"write"} /\ next' # {"crc"}
  BY <1>2 DEF Anew
<1>4. CASE ~t.alive
  <2>1. Len(t.out) <= faults /\ ~InChunk'
    BY <1>2, <1>3, <1>4 DEF Lag, LateLag, InChunk
  <2>2. Len(t.out) <= faults'
    BY <1>1, <2>1
  <2> QED BY <1>4, <2>1, <2>2 DEF Lag, LateLag
<1>5. CASE t.alive
  <2>1. Bounded(t) /\ PendingLag(t)
    BY <1>5 DEF Lag
  <2>2. Len(t.out) <= 1 /\ (faults = 1 => Len(t.out) = 0)
    BY <1>1, <2>1 DEF Bounded, Few
  <2>3. Bounded(t)'
    <3>1. Few(t)' /\ Known(t)' /\ Own1(t)' /\ Own2(t)'
      BY <1>1, <1>2, <2>1, <2>2 DEF Bounded, Few, Known, Own1, Own2, Pending
    <3> QED BY <2>1, <3>1 DEF Bounded
  <2>4. ASSUME Len(t.out) = faults' PROVE (Even(t) /\ Current(t))'
    <3>1. faults = 0 /\ Len(t.out) = faults + 1 /\ Len(t.out) = 1
      BY <1>1, <2>2, <2>4
    <3>2. t.out # <<>>
      BY <3>1
    <3>3. Even(t)
      BY <1>1, <2>1, <3>1, <3>2 DEF PendingLag, WriteLag, CrcLag, NewLag, Even, Ops
    <3>4. Current(t)
      <4>1. op = "select" => Current(t)
        BY <2>1 DEF PendingLag
      <4>2. t.out[1].op = Opcode(op)
        BY <2>1, <3>1 DEF Bounded, Known, Own1
      <4>3. op # "select" => Opcode(op) # "select"
        BY DEF Opcode
      <4>4. \A m \in 1 .. Len(t.out) : m = 1
        BY <3>1
      <4> QED BY <4>1, <4>2, <4>3, <4>4 DEF Current
    <3> QED BY <3>3, <3>4 DEF Even, Current
  <2>5. IdleLag(t)'
    BY <1>3, <2>4 DEF IdleLag
  <2>6. WritingLag(t)' /\ PendingLag(t)'
    BY <1>2, <1>3 DEF WritingLag, PendingLag, Writing, Pending
  <2> QED BY <1>5, <2>3, <2>5, <2>6 DEF Lag
<1> QED BY <1>4, <1>5

\* A piece is written, and when a notification is due it is read next.
LEMMA PieceLag ==
    ASSUME IInv, NEW t \in TargetStates, Lag(t), faults <= 1, WriteObjectPiece,
           NEW c \in Commands, c.op = "write", c.id = requests, NEW u, u = Moved(prn, t, c)
    PROVE  Lag(u)'
<1> DEFINE n == Len(t.out)
<1>1. /\ n \in Nat /\ t.out \in Seq(Briefs) /\ faults \in Nat /\ requests \in Nat
      /\ t.held \in 0 .. Pieces /\ t.notified \in Nat /\ prn \in Nat /\ pos \in 0 .. Pieces
      /\ Pieces \in Nat \ {0} /\ prnCount \in Nat
      /\ \A m \in 1 .. n : t.out[m].id \in Nat /\ t.out[m].at \in 0 .. Pieces
  BY StateFacts
<1>2. /\ step = "sending" /\ op = "write" /\ pos < Pieces /\ pos' = pos + 1
      /\ UNCHANGED <<prn, op, aborted, requests, faults>>
  BY DEF WriteObjectPiece, IInv, PieceLeft
<1>3. \/ Due(prnCount + 1) /\ prnCount' = 0 /\ step' = "written"
      \/ /\ ~Due(prnCount + 1) /\ prnCount' = prnCount + 1
         /\ step' \in {"sending", "idle"} /\ (step' = "idle" => next' = {"crc"} /\ pos' = Pieces)
  <2>1. CASE Due(prnCount + 1)
    BY <2>1 DEF WriteObjectPiece
  <2>2. CASE ~Due(prnCount + 1)
    <3>1. prnCount' = prnCount + 1 /\ NextPiece(pos') /\ pos' \in Nat /\ pos' <= Pieces
      BY <1>1, <1>2, <2>2 DEF WriteObjectPiece
    <3>2. CASE pos' < Pieces
      BY <2>2, <3>1, <3>2 DEF NextPiece
    <3>3. CASE ~(pos' < Pieces)
      <4>1. pos' = Pieces
        BY <1>1, <3>1, <3>3
      <4> QED BY <2>2, <3>1, <3>3, <4>1 DEF NextPiece, Settle
    <3> QED BY <3>2, <3>3
  <2> QED BY <2>1, <2>2
<1>4. CASE ~t.alive
  <2>1. u = t /\ LateLag(t) /\ InChunk
    BY <1>2, <1>4 DEF Moved, Lag, InChunk
  <2> QED BY <1>2, <1>4, <2>1 DEF Lag, LateLag
<1>5. CASE t.alive
  <2>1. Bounded(t) /\ WritingLag(t) /\ Writing /\ ~Pending
    BY <1>2, <1>5 DEF Lag, Writing, Pending
  <2>2. /\ n <= faults /\ (prn > 0 => t.notified < prn)
        /\ faults = 0 => ~aborted
        /\ \A m \in 1 .. n : t.out[m].id <= requests /\ (t.out[m].id = requests => t.out[m].op = Opcode(op))
    BY <2>1 DEF Bounded, Few, Known, Own1
  <2>3. /\ t.held <= pos
        /\ prn > 0 => prnCount < prn /\ (t.held < pos => t.notified < prnCount)
        /\ n = faults => t.held = pos /\ (prn > 0 => t.notified <= prnCount)
        /\ \A m \in 1 .. n : IF t.out[m].id = requests
                             THEN t.out[m].at <= t.held /\ (prn > 0 => t.notified < prnCount)
                             ELSE t.out[m].op # "crc"
    BY <2>1 DEF WritingLag
  <2>4. u.alive /\ u.held = t.held + 1 /\ u.held <= pos' /\ u.held \in Nat
    <3>1. t.held # Pieces
      BY <1>1, <1>2, <2>3
    <3>2. u.held = HeldBy(t, c) /\ u.alive
      BY <1>1, <1>5, MovedFacts
    <3>3. HeldBy(t, c) = t.held + 1
      BY <3>1 DEF HeldBy
    <3> QED BY <1>1, <1>2, <2>3, <3>2, <3>3
  <2>5. faults = 0 => n = 0
    BY <1>1, <2>2
  <2>6. CASE ~Notifies(prn, t)
    <3>1. u.notified = t.notified + 1 /\ u.out = t.out
      <4>1. CountBy(prn, t, c) = t.notified + 1 /\ ~Sends(prn, t, c)
        BY <1>1, <1>2, <2>3, <2>6 DEF CountBy, Sends
      <4> QED BY <1>1, <1>5, <4>1, MovedFacts
    <3>2. prn > 0 => u.notified < prn
      BY <1>1, <2>2, <2>6, <3>1 DEF Notifies
    <3>3. Bounded(u)'
      <4>1. Few(u)' /\ Known(u)'
        BY <1>1, <1>2, <2>2, <3>1 DEF Few, Known, n
      <4>2. Own1(u)'
        BY <1>2, <2>1, <3>1 DEF Bounded, Own1
      <4>3. Own2(u)'
        <5>1. n <= 1
          BY <1>1, <2>2
        <5> QED BY <3>1, <5>1 DEF Own2
      <4> QED BY <1>2, <3>2, <4>1, <4>2, <4>3 DEF Bounded
    <3>4. \A m \in 1 .. n : IF t.out[m].id = requests
                            THEN t.out[m].at <= u.held /\ (prn > 0 => u.notified < prnCount + 1)
                            ELSE t.out[m].op # "crc"
      <4> TAKE m \in 1 .. n
      <4>1. CASE t.out[m].id = requests
        <5>1. t.out[m].at <= t.held /\ (prn > 0 => t.notified < prnCount) /\ t.out[m].at \in Nat
          BY <1>1, <2>3, <4>1
        <5> QED BY <1>1, <2>4, <3>1, <4>1, <5>1, SMTT(30)
      <4>2. CASE t.out[m].id # requests
        BY <2>3, <4>2
      <4> QED BY <4>1, <4>2
    <3>5. CASE Due(prnCount + 1)
      <4>1. prnCount' = 0 /\ step' = "written" /\ prn > 0
        BY <1>3, <3>5 DEF Due
      <4>2. Len(u.out) # faults + 1
        BY <1>1, <2>2, <3>1
      <4>3. WriteLag(u)'
        BY <1>2, <2>4, <3>1, <3>4, <4>1, <4>2 DEF WriteLag
      <4> QED BY <1>2, <2>4, <3>3, <4>1, <4>3 DEF Lag, IdleLag, WritingLag, Writing, PendingLag
    <3>6. CASE ~Due(prnCount + 1)
      <4>1. prnCount' = prnCount + 1 /\ step' \in {"sending", "idle"}
            /\ (step' = "idle" => next' = {"crc"} /\ pos' = Pieces)
        BY <1>3, <3>6
      <4>2. /\ prn > 0 => prnCount' < prn /\ (u.held < pos' => u.notified < prnCount')
            /\ Len(u.out) = faults => u.held = pos' /\ (prn > 0 => u.notified <= prnCount')
        BY <1>1, <1>2, <2>3, <2>4, <3>1, <3>6, <4>1, SMTT(30) DEF Due
      <4>3. WritingLag(u)'
        BY <1>2, <2>4, <3>1, <3>4, <4>1, <4>2 DEF WritingLag
      <4>4. IdleLag(u)' /\ PendingLag(u)'
        BY <4>1 DEF IdleLag, PendingLag, Pending
      <4> QED BY <2>4, <3>3, <4>3, <4>4 DEF Lag
    <3> QED BY <3>5, <3>6
  <2>7. CASE Notifies(prn, t)
    <3> DEFINE y == Sent(t, c)
    <3>1. prn > 0 /\ t.notified + 1 = prn
      BY <2>7 DEF Notifies
    <3>2. t.held = pos /\ prnCount < prn
      BY <1>1, <2>3, <3>1
    <3>3. /\ y.op = "crc" /\ y.at = u.held /\ y.id = requests
      <4>1. t.held # Pieces
        BY <1>1, <1>2, <2>3
      <4> QED BY <1>1, <2>4, <4>1 DEF Sent, HeldBy, Opcode
    <3>4. /\ u.notified = 0 /\ Len(u.out) = n + 1 /\ u.out[n + 1] = y
          /\ \A m \in 1 .. n : u.out[m] = t.out[m]
      <4>1. CountBy(prn, t, c) = 0 /\ Sends(prn, t, c)
        BY <1>1, <1>2, <2>3, <2>7 DEF CountBy, Sends
      <4> HIDE DEF y
      <4> QED BY <1>1, <1>5, <4>1, MovedFacts DEF y
    <3> HIDE DEF y, n
    <3>5. \A m \in 1 .. Len(u.out) : m \in 1 .. n \/ m = n + 1
      BY <1>1, <3>4
    <3>6. \A m \in 1 .. n : t.out[m].id # requests
      <4> TAKE m \in 1 .. n
      <4>1. SUFFICES ASSUME t.out[m].id = requests PROVE FALSE
        OBVIOUS
      <4>2. t.notified < prnCount
        BY <2>3, <3>1, <4>1
      <4> QED BY <1>1, <3>1, <3>2, <4>2
    <3>7. Known(u)'
      BY <1>1, <1>2, <2>2, <3>3, <3>4, <3>5 DEF Known, Opcode
    <3>8. Own1(u)'
      <4>1. CASE faults = 0
        <5>1. n = 0 /\ ~aborted
          BY <2>2, <2>5, <4>1
        <5> QED BY <1>2, <3>3, <3>4, <3>5, <5>1 DEF Own1
      <4>2. CASE faults # 0
        BY <1>2, <4>2 DEF Own1
      <4> QED BY <4>1, <4>2
    <3>9. Own2(u)'
      <4>1. SUFFICES ASSUME Len(u.out) = 2 PROVE u.out[2].id = requests /\ u.out[1].id # requests
        BY <1>2 DEF Own2
      <4>2. n = 1
        <5>1. n + 1 = 2 /\ n \in Nat
          BY <1>1, <3>4, <4>1
        <5> QED BY <5>1
      <4> QED BY <3>3, <3>4, <3>6, <4>2
    <3>10. \A m \in 1 .. Len(u.out) : IF u.out[m].id = requests THEN u.out[m].at <= u.held ELSE u.out[m].op # "crc"
      <4> TAKE m \in 1 .. Len(u.out)
      <4>1. CASE m \in 1 .. n
        BY <2>3, <3>4, <3>6, <4>1
      <4>2. CASE m = n + 1
        BY <2>4, <3>3, <3>4, <4>2
      <4> QED BY <3>5, <4>1, <4>2
    <3>11. CASE Due(prnCount + 1)
      <4>1. prnCount' = 0 /\ step' = "written"
        BY <1>3, <3>11
      <4>2. Bounded(u)'
        <5>1. Few(u)'
          BY <1>1, <1>2, <2>2, <3>4, <4>1 DEF Few, Pending
        <5> QED BY <1>2, <3>1, <3>4, <3>7, <3>8, <3>9, <5>1 DEF Bounded
      <4>3. WriteLag(u)'
        BY <1>2, <2>4, <3>1, <3>4, <3>10, <4>1 DEF WriteLag
      <4> QED BY <1>2, <2>4, <4>1, <4>2, <4>3 DEF Lag, IdleLag, WritingLag, Writing, PendingLag
    <3>12. CASE ~Due(prnCount + 1)
      <4>1. prnCount' = prnCount + 1 /\ step' \in {"sending", "idle"}
            /\ (step' = "idle" => next' = {"crc"} /\ pos' = Pieces)
        BY <1>3, <3>12
      <4>2. prnCount + 1 < prn
        BY <1>1, <3>1, <3>12 DEF Due
      <4>3. n # faults
        BY <1>1, <2>3, <3>1, <4>2
      <4>4. n = 0 /\ faults = 1
        <5>1. \A a, b \in Nat : a <= b /\ b <= 1 /\ a # b => a = 0 /\ b = 1
          OBVIOUS
        <5> QED BY <1>1, <2>2, <4>3, <5>1
      <4>5. Bounded(u)'
        <5>1. Few(u)'
          BY <1>2, <3>4, <4>1, <4>4 DEF Few, Pending
        <5> QED BY <1>2, <3>1, <3>4, <3>7, <3>8, <3>9, <5>1 DEF Bounded
      <4>6. WritingLag(u)'
        <5>1. u.held = pos' /\ u.notified = 0 /\ prnCount' \in Nat /\ 0 < prnCount' /\ prnCount' < prn
          BY <1>1, <1>2, <2>4, <3>2, <3>4, <4>1, <4>2
        <5> QED BY <1>1, <1>2, <2>4, <3>10, <4>1, <5>1 DEF WritingLag
      <4>7. IdleLag(u)' /\ PendingLag(u)'
        BY <4>1 DEF IdleLag, PendingLag, Pending
      <4> QED BY <2>4, <4>5, <4>6, <4>7 DEF Lag
    <3> QED BY <3>11, <3>12
  <2> QED BY <2>6, <2>7
<1> QED BY <1>1, <1>4, <1>5

-----------------------------------------------------------------------------
(* The target counts, and is sent away.                                    *)
\* The target counts up to the interval, whatever is lost.
LEMMA CountStep == IInv /\ CountBelow /\ [Next]_vars => CountBelow'
<1> SUFFICES ASSUME IInv, CountBelow, [Next]_vars PROVE CountBelow'
  OBVIOUS
<1>1. CASE TargetHandles
  <2> DEFINE c == Head(toTarget)
  <2>1. IInv' /\ Here' = Moved(prn, Here, c) /\ UNCHANGED prn
    BY <1>1, Inductive, Handled DEF Next, TargetHandles
  <2>2. LineFacts /\ LineFacts'
    BY <2>1, HereFacts, PTL
  <2>3. c \in Commands /\ prn \in Nat /\ notified \in Nat
    BY <1>1, Taken, PrnAssumption DEF TargetHandles, IInv, TypeOK
  <2>4. CASE ~alive
    <3>1. Here' = Here
      BY <2>1, <2>2, <2>4 DEF LineFacts, Moved
    <3> QED BY <2>1, <2>2, <3>1 DEF LineFacts, CountBelow
  <2>5. CASE alive
    <3>1. notified' = CountBy(prn, Here, c)
      <4>1. Here \in TargetStates /\ Here.alive
        BY <2>2, <2>5 DEF LineFacts
      <4>2. Moved(prn, Here, c).notified = CountBy(prn, Here, c)
        BY <2>3, <4>1, MovedFacts
      <4>3. Here'.notified = notified'
        BY <2>2 DEF LineFacts
      <4> QED BY <2>1, <4>2, <4>3
    <3>2. Here.notified = notified
      BY <2>2 DEF LineFacts
    <3> QED BY <2>1, <2>3, <3>1, <3>2 DEF CountBelow, CountBy, Notifies
  <2> QED BY <2>3, <2>4, <2>5 DEF IInv, TypeOK
<1>2. CASE UNCHANGED <<prn, notified>>
  BY <1>2 DEF CountBelow
<1> QED BY <1>1, <1>2
        DEF Next, Request, WriteObject, WriteObjectPiece, Abort, Read, Timeout, OnData, Lose, vars,
            targetVars, callerVars, mailboxVars

\* Commands are all but the last, and the last.
LEMMA LastOf ==
    ASSUME NEW cs \in Seq(Commands), cs # <<>>
    PROVE  \E f \in Seq(Commands) :
             /\ cs = Append(f, cs[Len(cs)]) /\ Len(f) = Len(cs) - 1 /\ cs[Len(cs)] \in Commands
             /\ \A i \in 1 .. Len(f) : f[i] = cs[i]
<1> DEFINE n == Len(cs)
           f == [i \in 1 .. n - 1 |-> cs[i]]
<1>1. n \in Nat \ {0} /\ \A i \in 1 .. n : cs[i] \in Commands
  OBVIOUS
<1>2. f \in Seq(Commands) /\ Len(f) = n - 1 /\ \A i \in 1 .. n - 1 : f[i] = cs[i]
  BY <1>1
<1> HIDE DEF f
<1>3. /\ Append(f, cs[n]) \in Seq(Commands) /\ Len(Append(f, cs[n])) = n
      /\ \A i \in 1 .. n : Append(f, cs[n])[i] = cs[i]
  <2>1. /\ Append(f, cs[n]) \in Seq(Commands) /\ Len(Append(f, cs[n])) = Len(f) + 1
        /\ Append(f, cs[n])[Len(f) + 1] = cs[n]
        /\ \A i \in 1 .. Len(f) : Append(f, cs[n])[i] = f[i]
    BY <1>1, <1>2, Appended
  <2> QED BY <1>1, <1>2, <2>1
<1>4. Append(f, cs[n]) = cs
  BY <1>1, <1>3
<1> QED BY <1>1, <1>2, <1>4

\* Nothing is sent to the host, and the caller does not write.
LEMMA FreshLag ==
    ASSUME NEW u, u.alive, u.out = <<>>, faults' = 1, UNCHANGED prn, prn > 0 => u.notified < prn,
           \/ Pending' /\ op' # "write"
           \/ step' = "idle" /\ next' = Anew
    PROVE  Lag(u)'
<1>1. Len(u.out) = 0
  OBVIOUS
<1>2. Bounded(u)'
  BY <1>1 DEF Bounded, Few, Known, Own1, Own2
<1>3. IdleLag(u)' /\ WritingLag(u)'
  BY <1>1 DEF IdleLag, WritingLag, Writing, Pending, Anew
<1>4. PendingLag(u)'
  BY <1>1 DEF PendingLag, CrcLag, NewLag, Current, Pending
<1> QED BY <1>2, <1>3, <1>4 DEF Lag

\* A piece was lost: the target will have one piece less.
LEMMA ShortLag ==
    ASSUME IInv, NEW u \in TargetStates, u.alive, u.out = <<>>, faults' = 1,
           UNCHANGED <<prn, callerVars, requests>>,
           u.held < pos, prn > 0 => u.notified < prn,
           \/ Writing /\ (step = "idle" => pos = Pieces) /\ (prn > 0 => prnCount < prn /\ u.notified < prnCount)
           \/ Pending /\ op = "write" /\ prnCount = 0 /\ prn > 0
    PROVE  Lag(u)'
<1>1. /\ Len(u.out) = 0 /\ u.held \in Nat /\ pos \in Nat
      /\ UNCHANGED <<next, op, step, pos, prnCount, aborted>>
  <2>1. u.held \in 0 .. Pieces /\ pos \in 0 .. Pieces
    BY StateFacts
  <2> QED BY <2>1 DEF callerVars
<1>2. u.held <= pos
  BY <1>1
<1>3. Bounded(u)'
  BY <1>1 DEF Bounded, Few, Known, Own1, Own2, Pending
<1>4. IdleLag(u)'
  BY <1>1 DEF IdleLag, Writing, Pending
<1>5. WritingLag(u)'
  BY <1>1, <1>2 DEF WritingLag, Writing, Pending
<1>6. PendingLag(u)'
  BY <1>1, <1>2 DEF PendingLag, WriteLag, Pending, Writing
<1> QED BY <1>3, <1>4, <1>5, <1>6 DEF Lag

\* The first command is lost, nothing went wrong before, and the target was not sent away.
LEMMA LostAligned ==
    ASSUME IInv, Aligned, CountBelow, faults = 0, faults' = 1, toTarget # <<>>,
           UNCHANGED <<prn, callerVars, requests>>
    PROVE  \E u \in TargetStates : Leads(prn, Tail(toTarget), Here, u) /\ Lag(u)'
<1>1. LineFacts /\ prn \in Nat /\ toTarget \in Seq(Commands) /\ requests \in Nat /\ alive
      /\ step \in {"idle", "sending", "written", "reading"} /\ pos \in 0 .. Pieces /\ Pieces \in Nat \ {0}
      /\ held \in 0 .. Pieces /\ notified \in Nat /\ prnCount \in Nat /\ op \in Ops
  BY HereFacts, PrnAssumption DEF IInv, TypeOK, Aligned
<1> DEFINE d == Tail(toTarget)
<1>2. PICK n \in Nat : /\ Len(toTarget) = n + 1 /\ d \in Seq(Commands) /\ Len(d) = n
                       /\ \A i \in 1 .. n : d[i] = toTarget[i + 1]
  BY <1>1, HeadTail
<1>3. UNCHANGED <<next, op, step, pos, prnCount>>
  BY DEF callerVars
<1> HIDE DEF d
<1>4. Streaming \/ (Pending /\ Asked)
  BY <1>1 DEF Aligned, Ready, Answered, Pending
<1>5. /\ stored = NoPacket /\ toHost = <<>> /\ Here.out = <<>> /\ Here \in TargetStates /\ Here.alive
      /\ Here.held = held /\ Here.notified = notified
  <2>1. stored = NoPacket /\ toHost = <<>>
    BY <1>4 DEF Streaming, Asked
  <2>2. Unread = 0 /\ Len(toHost) = 0
    BY <2>1 DEF Unread
  <2>3. Len(Here.out) = 0 /\ Here.out \in Seq(Briefs)
    BY <1>1, <2>2 DEF LineFacts
  <2> QED BY <1>1, <2>1, <2>3 DEF LineFacts
<1>6. ASSUME NEW f \in Seq(Commands), NEW k \in Nat, Len(f) = k, \A i \in 1 .. k : f[i].op = "write",
             held + k <= Pieces, prn > 0 => notified + k < prn
      PROVE  \E u \in TargetStates : /\ Leads(prn, f, Here, u) /\ u.held = held + k
                                     /\ u.notified = notified + k /\ u.alive /\ u.out = <<>>
  <2> DEFINE u == [held |-> held + k, notified |-> notified + k, alive |-> TRUE, out |-> <<>>]
  <2>1. Leads(prn, f, Here, u)
    BY <1>1, <1>5, <1>6, LeadsPieces
  <2>2. u \in TargetStates
    BY <1>1, <1>6 DEF TargetStates
  <2> QED BY <2>1, <2>2
<1>7. ASSUME Following(n + 1), held + n + 1 = pos, prn > 0 => notified + n < prn,
             \/ Writing /\ (step = "idle" => pos = Pieces)
                        /\ (prn > 0 => prnCount < prn /\ notified + n < prnCount)
             \/ Pending /\ op = "write" /\ prnCount = 0 /\ prn > 0
      PROVE  \E u \in TargetStates : Leads(prn, d, Here, u) /\ Lag(u)'
  <2>1. \A i \in 1 .. n : d[i].op = "write"
    <3>1. \A i \in 1 .. n + 1 : toTarget[i].op = "write"
      BY <1>7 DEF Following
    <3> QED BY <1>2, <3>1
  <2>2. held + n <= Pieces /\ held + n < pos
    BY <1>1, <1>7
  <2>3. PICK u \in TargetStates : /\ Leads(prn, d, Here, u) /\ u.held = held + n
                                  /\ u.notified = notified + n /\ u.alive /\ u.out = <<>>
    BY <1>2, <1>6, <1>7, <2>1, <2>2
  <2>4. Lag(u)'
    BY <1>7, <2>2, <2>3, ShortLag
  <2> QED BY <2>3, <2>4
<1>8. CASE Streaming /\ Writing
  <2>1. Following(n + 1) /\ held + n + 1 = pos /\ (step = "idle" => pos = Pieces)
        /\ (prn > 0 => notified + n + 1 = prnCount /\ prnCount < prn)
    BY <1>1, <1>2, <1>8 DEF Streaming
  <2>2. prn > 0 => notified + n < prn /\ notified + n < prnCount
    BY <1>1, <1>2, <2>1
  <2> QED BY <1>7, <1>8, <2>1, <2>2 DEF d
<1>9. CASE Pending /\ Asked /\ op = "write"
  <2>1. Following(n + 1) /\ held + n + 1 = pos /\ prn > 0 /\ notified + n + 1 = prn /\ prnCount = 0
    BY <1>1, <1>2, <1>9 DEF Asked
  <2>2. notified + n < prn
    BY <1>1, <1>2, <2>1
  <2> QED BY <1>7, <1>9, <2>1, <2>2 DEF d
<1>10. CASE Pending /\ Asked /\ op # "write" /\ n = 0
  <2>1. Leads(prn, d, Here, Here)
    <3>1. d = <<>>
      BY <1>2, <1>10
    <3> QED BY <1>1, <1>5, <3>1, LeadsNowhere
  <2>2. PICK u : u = Here
    OBVIOUS
  <2>3. prn > 0 => u.notified < prn
    BY <1>5, <2>2 DEF CountBelow
  <2>4. Lag(u)'
    BY <1>3, <1>5, <1>10, <2>2, <2>3, FreshLag DEF Pending
  <2> QED BY <1>5, <2>1, <2>2, <2>4 DEF d
<1>11. CASE Pending /\ Asked /\ op = "crc" /\ n # 0
  <2>1. /\ toTarget[n + 1].id = requests /\ toTarget[n + 1].op = "crc"
        /\ Following(n) /\ held + n = Pieces /\ (prn > 0 => notified + n < prn)
    BY <1>1, <1>2, <1>11 DEF Asked
  <2>2. PICK f \in Seq(Commands) : /\ d = Append(f, d[n]) /\ Len(f) = n - 1 /\ d[n] \in Commands
                                   /\ \A i \in 1 .. n - 1 : f[i] = d[i]
    <3>1. d # <<>>
      BY <1>2, <1>11
    <3> QED BY <1>2, <3>1, LastOf
  <2>3. d[n].op = "crc" /\ d[n].id = requests
    BY <1>2, <1>11, <2>1
  <2>4. \A i \in 1 .. n - 1 : f[i].op = "write"
    <3>1. \A i \in 1 .. n : toTarget[i].op = "write"
      BY <2>1 DEF Following
    <3> TAKE i \in 1 .. n - 1
    <3>2. i \in 1 .. n /\ i + 1 \in 1 .. n
      BY <1>2
    <3>3. f[i] = toTarget[i + 1]
      BY <1>2, <2>2, <3>2
    <3> QED BY <3>1, <3>2, <3>3
  <2>5. PICK v \in TargetStates : /\ Leads(prn, f, Here, v) /\ v.held = held + (n - 1)
                                  /\ v.notified = notified + (n - 1) /\ v.alive /\ v.out = <<>>
    <3>1. n - 1 \in Nat /\ held + (n - 1) <= Pieces /\ (prn > 0 => notified + (n - 1) < prn)
      BY <1>1, <1>11, <2>1
    <3> QED BY <1>6, <2>2, <2>4, <3>1
  <2>6. PICK u : u = Moved(prn, v, d[n])
    OBVIOUS
  <2>7. u \in TargetStates /\ Leads(prn, d, Here, u)
    <3>1. u \in TargetStates
      BY <1>1, <2>2, <2>5, <2>6, MovedTyped
    <3>2. Leads(prn, Append(f, d[n]), Here, u)
      BY <1>1, <2>2, <2>5, <2>6, LeadsAppend
    <3> QED BY <2>2, <3>1, <3>2
  <2>8. /\ u.alive /\ u.notified = notified + (n - 1) /\ Len(u.out) = 1
        /\ u.out[1].op = "crc" /\ u.out[1].id = requests
    <3>1. Sends(prn, v, d[n]) /\ CountBy(prn, v, d[n]) = v.notified
          /\ Sent(v, d[n]).op = "crc" /\ Sent(v, d[n]).id = requests
      BY <2>3 DEF Sends, CountBy, Sent, Opcode
    <3>2. Len(v.out) = 0
      BY <2>5
    <3>3. d[n] \in Commands /\ d[n].op # "abort" /\ v.alive /\ v \in TargetStates /\ prn \in Nat
      BY <1>1, <2>2, <2>3, <2>5
    <3>4. /\ u.alive /\ u.notified = v.notified /\ Len(u.out) = Len(v.out) + 1
          /\ u.out[Len(v.out) + 1] = Sent(v, d[n])
      BY <2>6, <3>1, <3>3, MovedFacts
    <3> QED BY <2>5, <3>1, <3>2, <3>4
  <2>9. prn > 0 => u.notified < prn
    BY <1>1, <2>1, <2>8
  <2>10. \A m \in 1 .. Len(u.out) : u.out[m].op = "crc" /\ u.out[m].id = requests
    BY <2>8
  <2>11. Bounded(u)'
    BY <1>1, <1>3, <1>11, <2>8, <2>9, <2>10 DEF Bounded, Few, Known, Own1, Own2, Pending, Opcode
  <2>12. CrcLag(u)'
    BY <1>1, <2>8, <2>10 DEF CrcLag
  <2>13. Lag(u)'
    BY <1>3, <1>11, <2>8, <2>11, <2>12 DEF Lag, IdleLag, WritingLag, PendingLag, Writing, Pending
  <2> QED BY <2>7, <2>13 DEF d
<1>12. CASE Pending /\ Asked /\ op \notin {"write", "crc"}
  BY <1>2, <1>10, <1>12 DEF Asked
<1>13. Pending \/ (Streaming /\ Writing)
  <2>1. toTarget # <<>>
    BY <1>2
  <2>2. ~Ready
    BY <2>1 DEF Ready
  <2>3. step = "sending" \/ (step = "idle" /\ next = {"crc"}) => (Streaming /\ Writing)
    BY DEF Aligned, Writing
  <2>4. step = "idle" => next = {"crc"}
    BY <2>2 DEF Aligned
  <2>5. Pending \/ step = "sending" \/ step = "idle"
    BY <1>1 DEF Pending
  <2> QED BY <2>3, <2>4, <2>5
<1> QED BY <1>1, <1>4, <1>8, <1>9, <1>10, <1>11, <1>12, <1>13 DEF Aligned, Pending, Answered

\* The same, while the target is being sent away.
LEMMA LostLeaving ==
    ASSUME IInv, Leaving, aborted, alive, faults = 0, faults' = 1, toTarget # <<>>,
           UNCHANGED <<prn, callerVars, requests>>
    PROVE  \E u \in TargetStates : Leads(prn, Tail(toTarget), Here, u) /\ Lag(u)'
<1>1. LineFacts /\ prn \in Nat /\ toTarget \in Seq(Commands) /\ requests \in Nat
      /\ held \in 0 .. Pieces /\ notified \in Nat /\ Pieces \in Nat \ {0} /\ op \in Ops
  BY HereFacts, PrnAssumption DEF IInv, TypeOK
<1> DEFINE d == Tail(toTarget)
<1>2. PICK n \in Nat : /\ Len(toTarget) = n + 1 /\ d \in Seq(Commands) /\ Len(d) = n
                       /\ \A i \in 1 .. n : d[i] = toTarget[i + 1]
  BY <1>1, HeadTail
<1>3. UNCHANGED <<next, op, step, pos, prnCount>>
  BY DEF callerVars
<1>4. PICK a \in 1 .. n + 1 :
             /\ toTarget[a].op = "abort" /\ \A i \in 1 .. a - 1 : toTarget[i].op = "write"
             /\ held + a - 1 <= Pieces /\ (prn > 0 => notified + a - 1 < prn)
             /\ \/ a = n + 1 /\ step = "idle" /\ next = Anew
                \/ /\ a = n /\ Pending /\ op \in {"restart", "select"}
                   /\ toTarget[a + 1].op = op /\ toTarget[a + 1].id = requests
  <2>1. Len(toTarget) - 1 = n
    BY <1>2
  <2> QED BY <1>2, <2>1 DEF Leaving
<1> HIDE DEF d
<1>5. /\ stored = NoPacket /\ toHost = <<>> /\ Here.out = <<>> /\ Here \in TargetStates /\ Here.alive
      /\ Here.held = held /\ Here.notified = notified
  <2>1. stored = NoPacket /\ toHost = <<>>
    BY DEF Leaving
  <2>2. Unread = 0 /\ Len(toHost) = 0
    BY <2>1 DEF Unread
  <2>3. Len(Here.out) = 0 /\ Here.out \in Seq(Briefs)
    BY <1>1, <2>2 DEF LineFacts
  <2> QED BY <1>1, <2>1, <2>3 DEF LineFacts
<1>6. CASE a = 1 /\ n = 0
  <2>1. Leads(prn, d, Here, Here)
    <3>1. d = <<>>
      BY <1>2, <1>6
    <3> QED BY <1>1, <1>5, <3>1, LeadsNowhere
  <2>2. PICK u : u = Here
    OBVIOUS
  <2>3. prn > 0 => u.notified < prn
    BY <1>1, <1>4, <1>5, <1>6, <2>2
  <2>4. Lag(u)'
    BY <1>3, <1>4, <1>5, <1>6, <2>2, <2>3, FreshLag
  <2> QED BY <1>5, <2>1, <2>2, <2>4 DEF d
<1>7. CASE a = 1 /\ n = 1
  <2> DEFINE c == toTarget[2]
  <2>1. Pending /\ op \in {"restart", "select"} /\ c.op = op /\ c.id = requests /\ c \in Commands
    BY <1>1, <1>2, <1>4, <1>7
  <2>2. d = Append(<<>>, c)
    BY <1>2, <1>7
  <2>3. PICK u : u = Moved(prn, Here, c)
    OBVIOUS
  <2> HIDE DEF c
  <2>4. u \in TargetStates /\ Leads(prn, d, Here, u)
    <3>1. Leads(prn, <<>>, Here, Here) /\ <<>> \in Seq(Commands)
      BY <1>1, <1>5, LeadsNowhere
    <3>2. Leads(prn, Append(<<>>, c), Here, u)
      BY <1>1, <2>1, <2>3, <3>1, LeadsAppend
    <3> QED BY <1>1, <1>5, <2>1, <2>2, <2>3, <3>2, MovedTyped
  <2>5. /\ u.alive /\ u.held = HeldBy(Here, c) /\ u.notified = CountBy(prn, Here, c)
        /\ Len(u.out) = 1 /\ u.out[1] = Sent(Here, c)
    <3>1. Sends(prn, Here, c) /\ c.op # "abort"
      BY <2>1 DEF Sends
    <3>2. Len(Here.out) = 0
      BY <1>5
    <3>3. c \in Commands /\ prn \in Nat /\ Here \in TargetStates /\ Here.alive
      BY <1>1, <1>5, <2>1
    <3>4. PICK s : s = Here
      OBVIOUS
    <3>5. /\ u.alive /\ u.held = HeldBy(s, c) /\ u.notified = CountBy(prn, s, c)
          /\ Len(u.out) = Len(s.out) + 1 /\ u.out[Len(s.out) + 1] = Sent(s, c)
      BY <2>3, <3>1, <3>3, <3>4, MovedFacts
    <3> QED BY <3>2, <3>4, <3>5
  <2>6. \A m \in 1 .. Len(u.out) : u.out[m].op = Opcode(op) /\ u.out[m].id = requests /\ u.out[m].at = u.held
    BY <2>1, <2>5 DEF Sent
  <2>7. prn > 0 => u.notified < prn
    BY <1>1, <1>4, <1>5, <1>7, <2>1, <2>5 DEF CountBy
  <2>8. Bounded(u)'
    BY <1>1, <1>3, <2>1, <2>5, <2>6, <2>7 DEF Bounded, Few, Known, Own1, Own2, Pending, Opcode
  <2>9. op = "restart" => NewLag(u)'
    BY <2>1, <2>5 DEF NewLag, HeldBy, CountBy
  <2>10. Current(u)'
    BY <2>6 DEF Current
  <2>11. Len(u.out) # faults' + 1
    BY <2>5
  <2>12. PendingLag(u)'
    BY <1>3, <2>1, <2>9, <2>10, <2>11 DEF PendingLag
  <2>13. Lag(u)'
    BY <1>3, <2>1, <2>5, <2>8, <2>12 DEF Lag, IdleLag, WritingLag, Writing, Pending
  <2> QED BY <2>4, <2>13 DEF d
<1>8. CASE a # 1
  <2>1. a \in 2 .. n + 1 /\ a - 1 \in 1 .. n /\ n # 0
    BY <1>4, <1>8
  <2>2. ~InChunk'
    BY <1>3, <1>4 DEF InChunk, Anew, Pending
  <2>3. ASSUME NEW f \in Seq(Commands), Len(f) = a - 2, NEW c \in Commands, c.op = "abort",
               \A i \in 1 .. a - 2 : f[i] = toTarget[i + 1]
        PROVE  \E u \in TargetStates : Leads(prn, Append(f, c), Here, u) /\ ~u.alive /\ u.out = <<>>
    <3> DEFINE v == [held |-> held + (a - 2), notified |-> notified + (a - 2), alive |-> TRUE, out |-> <<>>]
               u == Moved(prn, v, c)
    <3>1. \A i \in 1 .. Len(f) : f[i].op = "write"
      <4> TAKE i \in 1 .. Len(f)
      <4>1. i + 1 \in 1 .. a - 1 /\ i \in 1 .. a - 2
        BY <2>1, <2>3
      <4> QED BY <1>4, <2>3, <4>1
    <3>2. a - 2 \in Nat /\ held + (a - 2) <= Pieces /\ (prn > 0 => notified + (a - 2) < prn)
      BY <1>1, <1>4, <2>1
    <3>3. Leads(prn, f, Here, v)
      BY <1>1, <1>5, <2>3, <3>1, <3>2, LeadsPieces
    <3>4. v \in TargetStates /\ v.alive /\ v.out = <<>>
      BY <1>1, <3>2 DEF TargetStates
    <3> HIDE DEF v
    <3>5. u \in TargetStates /\ Leads(prn, Append(f, c), Here, u)
      BY <1>1, <3>3, <3>4, LeadsAppend, MovedTyped
    <3>6. ~u.alive /\ u.out = <<>>
      <4>1. ~Sends(prn, v, c)
        BY <2>3 DEF Sends
      <4> QED BY <1>1, <2>3, <3>4, <4>1, MovedFacts
    <3> QED BY <3>5, <3>6
  <2>4. PICK f \in Seq(Commands) : /\ d = Append(f, d[n]) /\ Len(f) = n - 1 /\ d[n] \in Commands
                                   /\ \A i \in 1 .. n - 1 : f[i] = d[i]
    <3>1. d # <<>>
      BY <1>2, <2>1
    <3> QED BY <1>2, <3>1, LastOf
  <2>5. CASE a = n + 1
    <3>1. d[n].op = "abort" /\ Len(f) = a - 2 /\ \A i \in 1 .. a - 2 : f[i] = toTarget[i + 1]
      BY <1>2, <1>4, <2>1, <2>4, <2>5
    <3>2. PICK u \in TargetStates : Leads(prn, d, Here, u) /\ ~u.alive /\ u.out = <<>>
      BY <2>3, <2>4, <3>1
    <3> QED BY <2>2, <3>2 DEF d, Lag, LateLag
  <2>6. CASE a = n
    <3>1. /\ f # <<>> /\ n - 1 \in 1 .. n - 1 /\ f[n - 1].op = "abort"
      BY <1>2, <1>4, <2>1, <2>4, <2>6
    <3>2. PICK g \in Seq(Commands) : /\ f = Append(g, f[n - 1]) /\ Len(g) = n - 2 /\ f[n - 1] \in Commands
                                     /\ \A i \in 1 .. n - 2 : g[i] = f[i]
      <4>1. Len(f) - 1 = n - 2
        BY <1>2, <2>4
      <4> QED BY <2>4, <3>1, <4>1, LastOf, SMTT(30)
    <3>3. \A i \in 1 .. n - 2 : g[i] = toTarget[i + 1]
      BY <1>2, <2>4, <3>2
    <3>4. PICK u \in TargetStates : Leads(prn, f, Here, u) /\ ~u.alive /\ u.out = <<>>
      BY <2>3, <2>6, <3>1, <3>2, <3>3
    <3>5. Leads(prn, d, Here, u)
      <4>1. Moved(prn, u, d[n]) = u
        BY <3>4 DEF Moved
      <4>2. Leads(prn, Append(f, d[n]), Here, Moved(prn, u, d[n]))
        BY <1>1, <2>4, <3>4, LeadsAppend
      <4> QED BY <2>4, <4>1, <4>2
    <3> QED BY <2>2, <3>4, <3>5 DEF d, Lag, LateLag
  <2> QED BY <1>4, <2>5, <2>6
<1> QED BY <1>2, <1>4, <1>6, <1>7, <1>8

\* The target goes on being sent away.
LEMMA LeavingStep == IInv /\ NextForms /\ Flow /\ CountBelow /\ Leaving /\ [Next]_vars => Leaving'
<1> SUFFICES ASSUME IInv, NextForms, Flow, CountBelow, Leaving, [Next]_vars,
                    faults' = 0, aborted', alive'
             PROVE  /\ stored' = NoPacket /\ toHost' = <<>>
                    /\ \E a \in 1 .. Len(toTarget') :
                         /\ toTarget'[a].op = "abort" /\ \A i \in 1 .. a - 1 : toTarget'[i].op = "write"
                         /\ held' + a - 1 <= Pieces /\ (prn' > 0 => notified' + a - 1 < prn')
                         /\ \/ a = Len(toTarget') /\ step' = "idle" /\ next' = Anew
                            \/ /\ a = Len(toTarget') - 1 /\ Pending' /\ op' \in {"restart", "select"}
                               /\ toTarget'[a + 1].op = op' /\ toTarget'[a + 1].id = requests'
  BY DEF Leaving
<1>1. /\ faults \in Nat /\ toTarget \in Seq(Commands) /\ Len(toTarget) \in Nat /\ Pieces \in Nat \ {0}
      /\ held \in 0 .. Pieces /\ notified \in Nat /\ prn \in Nat /\ pos \in 0 .. Pieces
      /\ requests \in Nat
  BY PrnAssumption DEF IInv, TypeOK
<1>2. faults = 0 /\ faults' = faults
  <2>1. faults' = faults \/ faults' = faults + 1
    BY Zenon DEF Next, Request, WriteObject, WriteObjectPiece, Abort, Read, Timeout, OnData, TargetHandles,
                 Receive, Lose, Fault, vars
  <2> QED BY <1>1, <2>1
<1>3. ~Fault
  BY <1>2 DEF Fault
<1>4. alive
  BY Zenon DEF Next, Request, WriteObject, WriteObjectPiece, Abort, Read, Timeout, OnData, TargetHandles,
               Lose, vars, targetVars
<1>5. CASE Abort
  <2> DEFINE n == Len(toTarget)
             c == [op |-> "abort", at |-> 0, id |-> 0]
  <2>1. /\ step = "idle" /\ ~aborted /\ next' = Anew /\ toTarget' = Append(toTarget, c)
        /\ UNCHANGED <<step, stored, toHost, held, notified, prn>>
    BY <1>5 DEF Abort, mailboxVars, targetVars
  <2>2. c \in Commands
    BY <1>1, PrnAssumption DEF Commands
  <2>3. Aligned
    BY <1>2, <2>1 DEF Flow, Faultless
  <2>4. /\ stored = NoPacket /\ toHost = <<>> /\ \A i \in 1 .. n : toTarget[i].op = "write"
        /\ held + n <= Pieces /\ (prn > 0 => notified + n < prn)
    <3>1. CASE next = {"crc"}
      <4>1. Streaming
        BY <2>1, <2>3, <3>1 DEF Aligned
      <4> QED BY <1>1, <4>1 DEF Streaming, Following
    <3>2. CASE next # {"crc"}
      <4>1. Ready
        BY <2>1, <2>3, <3>2 DEF Aligned
      <4>2. n = 0
        BY <4>1 DEF Ready
      <4> QED BY <1>1, <4>1, <4>2 DEF Ready, CountBelow
    <3> QED BY <3>1, <3>2
  <2>5. Len(toTarget') = n + 1 /\ toTarget'[n + 1] = c /\ \A i \in 1 .. n : toTarget'[i] = toTarget[i]
    BY <1>1, <2>1, <2>2, Appended
  <2>6. PICK a : a = n + 1
    OBVIOUS
  <2>7. a \in 1 .. Len(toTarget') /\ a = Len(toTarget') /\ a - 1 = n /\ held + a - 1 = held + n
        /\ notified + a - 1 = notified + n
    BY <1>1, <2>5, <2>6
  <2>8. toTarget'[a].op = "abort" /\ \A i \in 1 .. a - 1 : toTarget'[i].op = "write"
    BY <2>4, <2>5, <2>6, <2>7
  <2> HIDE DEF n
  <2> QED BY <2>1, <2>4, <2>7, <2>8
<1>6. CASE ~Abort
  <2>1. aborted
    BY <1>6, Zenon DEF Next, Request, WriteObject, WriteObjectPiece, Read, Timeout, OnData, TargetHandles,
                       Lose, vars, callerVars
  <2> DEFINE n == Len(toTarget)
  <2>2. stored = NoPacket /\ toHost = <<>>
    BY <1>2, <1>4, <2>1 DEF Leaving
  <2>3. PICK a \in 1 .. n :
               /\ toTarget[a].op = "abort" /\ \A i \in 1 .. a - 1 : toTarget[i].op = "write"
               /\ held + a - 1 <= Pieces /\ (prn > 0 => notified + a - 1 < prn)
               /\ \/ a = n /\ step = "idle" /\ next = Anew
                  \/ /\ a = n - 1 /\ Pending /\ op \in {"restart", "select"}
                     /\ toTarget[a + 1].op = op /\ toTarget[a + 1].id = requests
    BY <1>2, <1>4, <2>1 DEF Leaving
  <2>4. toTarget # <<>>
    BY <1>1, <2>3
  <2>5. ASSUME NEW o \in Ops, Request(o)
        PROVE  /\ a \in 1 .. Len(toTarget') /\ a = Len(toTarget') - 1 /\ Pending' /\ op' \in {"restart", "select"}
               /\ toTarget'[a + 1].op = op' /\ toTarget'[a + 1].id = requests'
               /\ \A i \in 1 .. n : toTarget'[i] = toTarget[i]
               /\ UNCHANGED <<stored, toHost, held, notified, prn>>
    <3> DEFINE c == [op |-> o, at |-> 0, id |-> requests']
    <3>1. /\ step = "idle" /\ o \in next /\ op' = o /\ step' = "written" /\ requests' = requests + 1
          /\ toTarget' = Append(toTarget, c) /\ requests < MaxRequests
          /\ UNCHANGED <<stored, toHost, held, notified, prn>>
      BY <2>5 DEF Request, mailboxVars, targetVars
    <3>2. a = n /\ o \in {"restart", "select"}
      BY <2>3, <3>1 DEF Pending, Anew
    <3>3. c \in Commands
      BY <1>1, <3>1, PrnAssumption DEF Commands
    <3>4. c.op = o /\ c.id = requests'
      OBVIOUS
    <3> HIDE DEF c
    <3>5. Len(toTarget') = n + 1 /\ toTarget'[n + 1] = c /\ \A i \in 1 .. n : toTarget'[i] = toTarget[i]
      BY <1>1, <3>1, <3>3, Appended
    <3> HIDE DEF n
    <3> QED BY <1>1, <2>3, <3>1, <3>2, <3>4, <3>5 DEF Pending, n
  <2>6. CASE TargetHandles
    <3> DEFINE c == Head(toTarget)
    <3>1. /\ c = toTarget[1] /\ toTarget' = Tail(toTarget) /\ Len(Tail(toTarget)) = n - 1
          /\ \A i \in 1 .. n - 1 : Tail(toTarget)[i] = toTarget[i + 1]
      BY <1>1, <2>4, <2>6, HeadTail DEF TargetHandles
    <3>2. c.op = "abort" => ~alive'
      BY <1>4, <2>6, Zenon DEF TargetHandles, Receive
    <3>3. a # 1
      BY <2>3, <3>1, <3>2
    <3>4. c.op = "write"
      <4>1. 1 \in 1 .. a - 1
        BY <2>3, <3>3
      <4> QED BY <2>3, <3>1, <4>1
    <3>5. Receive(c) /\ UNCHANGED alive
      BY <1>4, <2>6, <3>4 DEF TargetHandles
    <3>6. held # Pieces /\ ~TargetDue(notified + 1)
      BY <1>1, <2>3, <3>3 DEF TargetDue
    <3>7. held' = held + 1 /\ notified' = notified + 1 /\ UNCHANGED <<toHost, stored>>
      BY <2>6, <3>5, <3>6 DEF Receive, TargetHandles, mailboxVars
    <3>8. UNCHANGED <<prn, step, next, op, requests>>
      BY <2>6 DEF TargetHandles, callerVars
    <3> HIDE DEF c, n
    <3> DEFINE b == a - 1
    <3>9. /\ b \in 1 .. n - 1 /\ b + 1 = a /\ Len(toTarget') = n - 1 /\ (a = n => b = n - 1)
          /\ (a = n - 1 => b = n - 1 - 1 /\ b + 1 \in 1 .. n - 1)
      <4>1. a \in 1 .. n /\ a # 1 /\ n \in Nat
        BY <1>1, <2>3, <3>3 DEF n
      <4>2. Len(toTarget') = n - 1
        BY <3>1
      <4> HIDE DEF c
      <4> QED BY <4>1, <4>2
    <3>10. toTarget'[b].op = "abort" /\ \A i \in 1 .. b - 1 : toTarget'[i].op = "write"
      <4>1. toTarget'[b].op = "abort"
        BY <2>3, <3>1, <3>9
      <4>2. ASSUME NEW i \in 1 .. b - 1 PROVE toTarget'[i].op = "write"
        <5>1. i \in 1 .. n - 1 /\ i + 1 \in 1 .. a - 1
          BY <2>3, <3>9 DEF n
        <5> QED BY <2>3, <3>1, <5>1
      <4> QED BY <4>1, <4>2
    <3>11. held' + b - 1 <= Pieces /\ (prn' > 0 => notified' + b - 1 < prn')
      BY <1>1, <2>3, <3>7, <3>8
    <3>12. \/ b = Len(toTarget') /\ step' = "idle" /\ next' = Anew
           \/ /\ b = Len(toTarget') - 1 /\ Pending' /\ op' \in {"restart", "select"}
              /\ toTarget'[b + 1].op = op' /\ toTarget'[b + 1].id = requests'
      <4>1. CASE a = n /\ step = "idle" /\ next = Anew
        BY <3>8, <3>9, <4>1
      <4>2. CASE /\ a = n - 1 /\ Pending /\ op \in {"restart", "select"}
                 /\ toTarget[a + 1].op = op /\ toTarget[a + 1].id = requests
        <5>1. toTarget'[b + 1] = toTarget[a + 1]
          BY <3>1, <3>9, <4>2
        <5> QED BY <3>8, <3>9, <4>2, <5>1 DEF Pending
      <4> QED BY <2>3, <4>1, <4>2
    <3> HIDE DEF b
    <3> QED BY <2>2, <3>7, <3>9, <3>10, <3>11, <3>12
  <2>7. CASE Read
    <3>1. ~waiting
      BY <2>7 DEF Read, IInv, MailboxConsistent
    <3>2. step = "written" /\ step' = "reading"
      BY <2>2, <2>7, <3>1 DEF Read
    <3>3. UNCHANGED <<prn, stored, op, next, held, notified, toTarget, toHost, requests>>
      BY <2>2, <2>7, <3>1 DEF Read, targetVars
    <3> HIDE DEF n
    <3> QED BY <2>2, <2>3, <3>2, <3>3 DEF Pending, n
  <2>8. CASE UNCHANGED vars
    BY <2>2, <2>3, <2>8 DEF vars, callerVars, mailboxVars, targetVars, Pending
  <2>9. ~WriteObject /\ ~WriteObjectPiece
    BY <2>3 DEF WriteObject, WriteObjectPiece, Pending, Anew
  <2>10. ~Timeout /\ ~OnData /\ ~Lose
    BY <1>3, <2>2, <2>4 DEF Timeout, OnData, Lose
  <2>11. ASSUME NEW o \in Ops, Request(o)
         PROVE  /\ stored' = NoPacket /\ toHost' = <<>>
                /\ \E b \in 1 .. Len(toTarget') :
                     /\ toTarget'[b].op = "abort" /\ \A i \in 1 .. b - 1 : toTarget'[i].op = "write"
                     /\ held' + b - 1 <= Pieces /\ (prn' > 0 => notified' + b - 1 < prn')
                     /\ b = Len(toTarget') - 1 /\ Pending' /\ op' \in {"restart", "select"}
                     /\ toTarget'[b + 1].op = op' /\ toTarget'[b + 1].id = requests'
    <3>1. \A i \in 1 .. a - 1 : i \in 1 .. n
      BY <1>1, <2>3
    <3> HIDE DEF n
    <3> QED BY <2>2, <2>3, <2>5, <2>11, <3>1
  <2> QED BY <1>6, <2>6, <2>7, <2>8, <2>9, <2>10, <2>11 DEF Next
<1> QED BY <1>5, <1>6

-----------------------------------------------------------------------------
(* Each step with at most one fault.                                       *)
\* What the target will do does not depend on how the caller waits.
LEMMA LagKept ==
    ASSUME NEW t, Lag(t), UNCHANGED <<prn, next, op, pos, prnCount, aborted, requests, faults>>,
           step' = step \/ (step = "written" /\ step' = "reading")
    PROVE  Lag(t)'
<1>1. Pending' = Pending /\ (step' = "idle" <=> step = "idle") /\ (step' = "sending" <=> step = "sending")
  BY DEF Pending
<1>2. Bounded(t)' = Bounded(t)
  BY <1>1 DEF Bounded, Few, Known, Own1, Own2
<1>3. IdleLag(t)' = IdleLag(t) /\ WritingLag(t)' = WritingLag(t)
  BY <1>1 DEF IdleLag, WritingLag, Writing, Even, Current
<1>4. PendingLag(t)' = PendingLag(t)
  BY <1>1 DEF PendingLag, WriteLag, CrcLag, NewLag, Even, Current
<1>5. LateLag(t)' = LateLag(t)
  BY <1>1 DEF LateLag, InChunk
<1> QED BY <1>2, <1>3, <1>4, <1>5 DEF Lag

\* Nothing of the line to the host changes.
LEMMA HereKept ==
    ASSUME UNCHANGED <<held, notified, alive, stored, toHost>>
    PROVE  Here' = Here
BY DEF Here, Unread, Line

\* Facts that every step needs.
LEMMA LagFacts ==
    ASSUME IInv, OneFault, faults <= 1
    PROVE  /\ LineFacts /\ prn \in Nat /\ toTarget \in Seq(Commands) /\ requests \in Nat /\ faults \in 0 .. 1
           /\ \E t \in TargetStates : /\ Leads(prn, toTarget, Here, t) /\ Lag(t)
                                      /\ Extends(Here.out, t.out) /\ t.out \in Seq(Briefs)
<1>1. LineFacts /\ prn \in Nat /\ toTarget \in Seq(Commands) /\ requests \in Nat /\ faults \in Nat
  BY HereFacts, PrnAssumption DEF IInv, TypeOK
<1>2. PICK t \in TargetStates : Leads(prn, toTarget, Here, t) /\ Lag(t)
  BY DEF OneFault
<1>3. Extends(Here.out, t.out) /\ t.out \in Seq(Briefs)
  BY <1>1, <1>2, LeadsFacts DEF TargetStates
<1> QED BY <1>1, <1>2, <1>3

\* The caller sends a request, ...
LEMMA RequestLag ==
    ASSUME IInv, NextForms, OneFault, faults <= 1, NEW o \in Ops, Request(o)
    PROVE  \E u \in TargetStates : Leads(prn', toTarget', Here', u) /\ Lag(u)'
<1>1. LineFacts /\ prn \in Nat /\ toTarget \in Seq(Commands) /\ requests \in Nat
  BY LagFacts
<1>2. PICK t \in TargetStates : Leads(prn, toTarget, Here, t) /\ Lag(t)
  BY LagFacts
<1>3. PICK c : c = [op |-> o, at |-> 0, id |-> requests + 1]
  OBVIOUS
<1>4. c \in Commands /\ c.op = o /\ c.id = requests + 1 /\ toTarget' = Append(toTarget, c) /\ prn' = prn
  <2>1. requests < MaxRequests /\ requests' = requests + 1
    BY DEF Request
  <2>2. c \in Commands
    BY <1>1, <1>3, <2>1, PrnAssumption DEF Commands
  <2> QED BY <1>3, <2>1, <2>2 DEF Request
<1>5. PICK u : u = Moved(prn, t, c)
  OBVIOUS
<1>6. u \in TargetStates /\ Leads(prn, Append(toTarget, c), Here, u)
  BY <1>1, <1>2, <1>4, <1>5, MovedTyped, LeadsAppend
<1>7. Here' = Here
  BY HereKept DEF Request, mailboxVars, targetVars
<1>8. Lag(u)'
  BY <1>2, <1>4, <1>5, AskedLag
<1> QED BY <1>4, <1>6, <1>7, <1>8

\* ... begins to write, ...
LEMMA WriteObjectLag ==
    ASSUME IInv, NextForms, OneFault, faults <= 1, WriteObject
    PROVE  \E u \in TargetStates : Leads(prn', toTarget', Here', u) /\ Lag(u)'
<1>1. PICK t \in TargetStates : Leads(prn, toTarget, Here, t) /\ Lag(t)
  BY LagFacts
<1>2. Here' = Here /\ prn' = prn /\ toTarget' = toTarget
  BY HereKept DEF WriteObject, mailboxVars, targetVars
<1>3. Lag(t)'
  BY <1>1, StartedLag
<1> QED BY <1>1, <1>2, <1>3

\* ... writes a piece ...
LEMMA WriteObjectPieceLag ==
    ASSUME IInv, OneFault, faults <= 1, WriteObjectPiece
    PROVE  \E u \in TargetStates : Leads(prn', toTarget', Here', u) /\ Lag(u)'
<1>1. LineFacts /\ prn \in Nat /\ toTarget \in Seq(Commands) /\ requests \in Nat
  BY LagFacts
<1>2. PICK t \in TargetStates : Leads(prn, toTarget, Here, t) /\ Lag(t)
  BY LagFacts
<1>3. PICK c : c = [op |-> "write", at |-> pos, id |-> requests]
  OBVIOUS
<1>4. c \in Commands /\ c.op = "write" /\ c.id = requests /\ toTarget' = Append(toTarget, c) /\ prn' = prn
  <2>1. c \in Commands
    BY <1>1, <1>3, PrnAssumption DEF Commands, IInv, TypeOK, Ops
  <2> QED BY <1>3, <2>1 DEF WriteObjectPiece
<1>5. PICK u : u = Moved(prn, t, c)
  OBVIOUS
<1>6. u \in TargetStates /\ Leads(prn, Append(toTarget, c), Here, u)
  BY <1>1, <1>2, <1>4, <1>5, MovedTyped, LeadsAppend
<1>7. Here' = Here
  BY HereKept DEF WriteObjectPiece, mailboxVars, targetVars
<1>8. Lag(u)'
  BY <1>2, <1>4, <1>5, PieceLag
<1> QED BY <1>4, <1>6, <1>7, <1>8

\* ... or sends the target away.
LEMMA AbortLag ==
    ASSUME IInv, OneFault, faults <= 1, Abort
    PROVE  \E u \in TargetStates : Leads(prn', toTarget', Here', u) /\ Lag(u)'
<1>1. LineFacts /\ prn \in Nat /\ toTarget \in Seq(Commands) /\ requests \in Nat
  BY LagFacts
<1>2. PICK t \in TargetStates : Leads(prn, toTarget, Here, t) /\ Lag(t)
  BY LagFacts
<1>3. PICK c : c = [op |-> "abort", at |-> 0, id |-> 0]
  OBVIOUS
<1>4. c \in Commands /\ c.op = "abort" /\ toTarget' = Append(toTarget, c) /\ prn' = prn
  BY <1>3, PrnAssumption DEF Commands, Abort
<1>5. PICK u : u = Moved(prn, t, c)
  OBVIOUS
<1>6. u \in TargetStates /\ Leads(prn, Append(toTarget, c), Here, u)
  BY <1>1, <1>2, <1>4, <1>5, MovedTyped, LeadsAppend
<1>7. Here' = Here
  BY HereKept DEF Abort, mailboxVars, targetVars
<1>8. ~u.alive /\ u.out = t.out
  <2>1. CASE t.alive
    <3>1. ~Sends(prn, t, c)
      BY <1>4 DEF Sends
    <3> QED BY <1>1, <1>2, <1>4, <1>5, <2>1, <3>1, MovedFacts
  <2>2. CASE ~t.alive
    BY <1>5, <2>2 DEF Moved
  <2> QED BY <2>1, <2>2
<1>9. Lag(u)'
  BY <1>2, <1>8, AbortedLag
<1> QED BY <1>4, <1>6, <1>7, <1>9

\* The caller takes the first packet, kept or arriving, for the answer.
LEMMA AnswerLag ==
    ASSUME IInv, NextForms, OneFault, faults <= 1, Pending, 1 <= Unread + Len(toHost),
           NEW p \in Packets, p = Line[1], Resolve(p), Here' = Removed(Here, 1),
           UNCHANGED <<prn, op, prnCount, aborted, toTarget, requests, faults>>
    PROVE  \E u \in TargetStates : Leads(prn', toTarget', Here', u) /\ Lag(u)'
<1>1. LineFacts /\ prn \in Nat /\ toTarget \in Seq(Commands)
  BY LagFacts
<1>2. PICK t \in TargetStates : /\ Leads(prn, toTarget, Here, t) /\ Lag(t)
                                /\ Extends(Here.out, t.out) /\ t.out \in Seq(Briefs)
  BY LagFacts
<1>3. 1 \in 1 .. Len(Here.out) /\ 1 \in 1 .. Unread + Len(toHost)
  BY <1>1 DEF LineFacts
<1>4. 1 \in 1 .. Len(t.out) /\ Leads(prn, toTarget, Removed(Here, 1), Removed(t, 1))
  BY <1>1, <1>2, <1>3, LeadsRemoved
<1>5. Removed(t, 1) \in TargetStates
  BY <1>4, RemovedTyped
<1>6. Brief(p) = t.out[1]
  BY <1>1, <1>2, <1>3 DEF LineFacts, Extends
<1>7. 1 <= Len(t.out)
  BY <1>2, <1>4
<1>8. Lag(Removed(t, 1))'
  BY <1>2, <1>6, <1>7, TakenLag
<1> QED BY <1>4, <1>5, <1>8

\* A request reads what is kept, or waits.
LEMMA ReadLag ==
    ASSUME IInv, IInv', NextForms, OneFault, faults <= 1, Read
    PROVE  \E u \in TargetStates : Leads(prn', toTarget', Here', u) /\ Lag(u)'
<1>1. LineFacts
  BY LagFacts
<1>2. step = "written" /\ ~waiting /\ Pending
  BY DEF Read, IInv, MailboxConsistent, Pending
<1>3. UNCHANGED <<prn, op, prnCount, aborted, held, notified, alive, toTarget, toHost, requests, faults>>
  BY DEF Read, targetVars
<1>4. CASE stored # NoPacket
  <2>1. stored' = NoPacket /\ Resolve(stored) /\ stored \in Packets
    BY <1>2, <1>4 DEF Read, IInv, TypeOK
  <2>2. Unread = 1 /\ 1 \in 1 .. Unread + Len(toHost)
    BY <1>1, <1>4 DEF Unread, LineFacts
  <2>3. Line[1] = stored
    BY <1>1, <2>2 DEF LineFacts
  <2>4. Here' = Removed(Here, 1)
    BY <1>3, <1>4, <2>1, <2>2, TakenFromLine
  <2>5. 1 <= Unread + Len(toHost)
    BY <1>1, <2>2 DEF LineFacts
  <2> QED BY <1>2, <1>3, <2>1, <2>3, <2>4, <2>5, AnswerLag
<1>5. CASE stored = NoPacket
  <2>1. step' = "reading" /\ UNCHANGED <<stored, next, pos>>
    BY <1>2, <1>5 DEF Read
  <2>2. PICK t \in TargetStates : Leads(prn, toTarget, Here, t) /\ Lag(t)
    BY LagFacts
  <2>3. Here' = Here
    BY <1>3, <2>1, HereKept
  <2>4. Lag(t)'
    BY <1>2, <1>3, <2>1, <2>2, LagKept
  <2> QED BY <1>3, <2>2, <2>3, <2>4
<1> QED BY <1>4, <1>5

\* A packet arrives: it is dropped, taken for the answer, or kept.
LEMMA OnDataLag ==
    ASSUME IInv, IInv', NextForms, OneFault, faults <= 1, OnData
    PROVE  \E u \in TargetStates : Leads(prn', toTarget', Here', u) /\ Lag(u)'
<1>1. LineFacts /\ prn \in Nat /\ toTarget \in Seq(Commands)
  BY LagFacts
<1>2. /\ toHost # <<>> /\ toHost' = Tail(toHost) /\ toHost \in Seq(Packets) /\ Len(toHost) \in Nat \ {0}
      /\ Head(toHost) \in Packets /\ Head(toHost) = toHost[1]
      /\ UNCHANGED <<prn, op, prnCount, aborted, held, notified, alive, toTarget, requests, faults>>
  BY <1>1, Taken DEF OnData, targetVars, LineFacts
<1>3. CASE stored # NoPacket
  <2>1. UNCHANGED <<stored, next, step, pos>>
    BY <1>3 DEF OnData, mailboxVars
  <2>2. Unread = 1 /\ 2 \in 1 .. Unread + Len(toHost)
    BY <1>2, <1>3 DEF Unread
  <2>3. Here' = Removed(Here, 2)
    BY <1>2, <1>3, <2>1, <2>2, TakenFromLine
  <2>4. PICK t \in TargetStates : Leads(prn, toTarget, Here, t) /\ Lag(t) /\ t.out \in Seq(Briefs)
    BY LagFacts
  <2>5. 2 \in 1 .. Len(t.out) /\ Leads(prn, toTarget, Removed(Here, 2), Removed(t, 2))
    <3>1. 2 \in 1 .. Len(Here.out)
      BY <1>1, <2>2 DEF LineFacts
    <3> QED BY <1>1, <2>4, <3>1, LeadsRemoved
  <2>6. PICK u : u = Removed(t, 2)
    OBVIOUS
  <2>7. u \in TargetStates
    BY <2>5, <2>6, RemovedTyped
  <2>8. Lag(u)
    <3>1. 2 <= Len(t.out)
      BY <2>4, <2>5
    <3> QED BY <2>4, <2>6, <3>1, DroppedLag
  <2>9. Lag(u)'
    BY <1>2, <2>1, <2>8, LagKept
  <2> QED BY <1>2, <2>3, <2>5, <2>6, <2>7, <2>9
<1>4. CASE stored = NoPacket /\ waiting
  <2>1. Resolve(Head(toHost)) /\ UNCHANGED stored
    BY <1>4 DEF OnData
  <2>2. Pending
    BY <1>4 DEF IInv, MailboxConsistent, Pending
  <2>3. Unread = 0 /\ 1 \in 1 .. Unread + Len(toHost) /\ 1 - 0 = 1
    BY <1>2, <1>4 DEF Unread
  <2>4. Line[1] = Head(toHost)
    BY <1>1, <1>2, <2>3 DEF LineFacts
  <2>5. Here' = Removed(Here, 1)
    BY <1>2, <1>4, <2>1, <2>3, TakenFromLine
  <2>6. 1 <= Unread + Len(toHost)
    BY <1>2, <2>3
  <2> QED BY <1>2, <2>1, <2>2, <2>4, <2>5, <2>6, AnswerLag
<1>5. CASE stored = NoPacket /\ ~waiting
  <2>1. stored' = Head(toHost) /\ UNCHANGED <<next, step, pos>>
    BY <1>5 DEF OnData
  <2>2. Here' = Here
    BY <1>2, <1>5, <2>1, KeptOnLine
  <2>3. PICK t \in TargetStates : Leads(prn, toTarget, Here, t) /\ Lag(t)
    BY LagFacts
  <2>4. Lag(t)'
    BY <1>2, <2>1, <2>3, LagKept
  <2> QED BY <1>2, <2>2, <2>3, <2>4
<1> QED BY <1>3, <1>4, <1>5

\* A request gives up reading.
LEMMA TimeoutLag ==
    ASSUME IInv, Flow, OneFault, faults <= 1, faults' <= 1, Timeout
    PROVE  \E u \in TargetStates : Leads(prn', toTarget', Here', u) /\ Lag(u)'
<1>1. LineFacts /\ prn \in Nat /\ toTarget \in Seq(Commands) /\ faults \in 0 .. 1
  BY LagFacts
<1>2. /\ step = "reading" /\ Pending /\ Fail /\ stored = NoPacket
      /\ UNCHANGED <<prn, op, pos, prnCount, aborted, requests, toTarget, stored, toHost, held, notified, alive>>
  BY DEF Timeout, Pending, IInv, MailboxConsistent, targetVars
<1>3. Here' = Here
  BY <1>2, HereKept
<1>4. PICK t \in TargetStates : Leads(prn, toTarget, Here, t) /\ Lag(t)
  BY LagFacts
<1>5. CASE Fault
  <2>1. faults = 0 /\ faults' = 1
    BY <1>1, <1>5 DEF Fault
  <2>2. Lag(t)'
    BY <1>2, <1>4, <2>1, LateTimeoutLag
  <2> QED BY <1>2, <1>3, <1>4, <2>2
<1>6. CASE ~Fault
  <2>1. toTarget = <<>> /\ toHost = <<>> /\ faults' = faults
    BY <1>6 DEF Timeout
  <2>2. t = Here
    BY <1>1, <1>4, <2>1, LeadsNowhere DEF LineFacts
  <2>3. Len(t.out) = 0
    BY <1>1, <1>2, <2>1, <2>2 DEF LineFacts, Unread
  <2>4. CASE faults = 1
    <3>1. Lag(t)'
      BY <1>2, <1>4, <2>1, <2>3, <2>4, LateTimeoutLag
    <3> QED BY <1>2, <1>3, <1>4, <3>1
  <2>5. CASE faults = 0 /\ ~t.alive
    <3>1. t.out = <<>>
      BY <2>3 DEF TargetStates
    <3>2. Lag(t)'
      BY <1>1, <2>1, <2>3, <2>5, <3>1 DEF Lag, LateLag
    <3> QED BY <1>2, <1>3, <1>4, <3>2
  <2>6. CASE faults = 0 /\ t.alive
    <3>1. ~aborted
      BY <1>4, <2>6 DEF Lag, Bounded, Own1
    <3>2. Asked \/ Answered
      BY <1>2, <2>6, <3>1 DEF Flow, Faultless, Aligned
    <3>3. ~Own(stored)
      BY <1>2 DEF Own, NoPacket, Opcode, IInv, TypeOK, Ops
    <3>4. FALSE
      BY <1>2, <2>1, <3>2, <3>3 DEF Asked, Answered
    <3> QED BY <3>4
  <2> QED BY <1>1, <2>4, <2>5, <2>6
<1> QED BY <1>5, <1>6

\* The target handles a command.
LEMMA HandledLag ==
    ASSUME IInv, IInv', OneFault, faults <= 1, faults' <= 1, TargetHandles
    PROVE  \E u \in TargetStates : Leads(prn', toTarget', Here', u) /\ Lag(u)'
<1>1. LineFacts /\ prn \in Nat /\ toTarget \in Seq(Commands) /\ faults \in 0 .. 1
  BY LagFacts
<1>2. /\ toTarget # <<>> /\ toTarget' = Tail(toTarget)
      /\ UNCHANGED <<prn, callerVars, requests>>
  BY DEF TargetHandles
<1>3. UNCHANGED <<next, op, step, pos, prnCount, aborted>>
  BY <1>2 DEF callerVars
<1>4. PICK t \in TargetStates : Leads(prn, toTarget, Here, t) /\ Lag(t)
  BY LagFacts
<1>5. Leads(prn, Tail(toTarget), Moved(prn, Here, Head(toTarget)), t)
  BY <1>1, <1>2, <1>4, LeadsTail
<1>6. Here' = Moved(prn, Here, Head(toTarget))
  BY Handled
<1>7. faults' = faults \/ faults' = faults + 1
  BY Zenon DEF TargetHandles, Receive, Fault
<1>8. CASE faults' = faults
  <2>1. Lag(t)'
    BY <1>2, <1>3, <1>4, <1>8, LagKept
  <2> QED BY <1>2, <1>4, <1>5, <1>6, <2>1
<1>9. CASE faults' = faults + 1
  <2>1. faults = 0 /\ faults' = 1
    BY <1>1, <1>9
  <2>2. Lag(t)'
    BY <1>2, <1>4, <2>1, FaultLag
  <2> QED BY <1>2, <1>4, <1>5, <1>6, <2>2
<1> QED BY <1>7, <1>8, <1>9

\* The first packet on the line is lost: it is the only one.
LEMMA LostAnswerLag ==
    ASSUME IInv, IInv', OneFault, faults = 0, faults' = 1, toHost # <<>>, toHost' = Tail(toHost),
           UNCHANGED <<prn, callerVars, requests, toTarget, stored, held, notified, alive>>
    PROVE  \E u \in TargetStates : Leads(prn', toTarget', Here', u) /\ Lag(u)'
<1>1. LineFacts /\ prn \in Nat /\ toTarget \in Seq(Commands) /\ faults <= 1
  BY LagFacts
<1>2. PICK t \in TargetStates : /\ Leads(prn, toTarget, Here, t) /\ Lag(t)
                                /\ Extends(Here.out, t.out) /\ t.out \in Seq(Briefs)
  BY <1>1, LagFacts
<1>3. Len(t.out) <= 1
  <2>1. Len(t.out) <= 0 \/ Len(t.out) <= 1
    BY <1>2 DEF Lag, Bounded, Few, LateLag
  <2>2. Len(t.out) \in Nat
    BY <1>2
  <2> QED BY <2>1, <2>2
<1>4. Unread + Len(toHost) <= Len(t.out) /\ Len(toHost) \in Nat \ {0} /\ Len(t.out) \in Nat
  BY <1>1, <1>2 DEF LineFacts, Extends
<1>5. Unread = 0 /\ 1 \in 1 .. Unread + Len(toHost) /\ 1 \in 1 .. Len(Here.out) /\ Len(t.out) = 1
  <2>1. \A a, b, c \in Nat : b # 0 /\ a + b <= c /\ c <= 1 => a = 0 /\ b = 1 /\ c = 1
    OBVIOUS
  <2>2. Unread \in Nat /\ Len(Here.out) = Unread + Len(toHost)
    BY <1>1 DEF LineFacts
  <2>3. Unread = 0 /\ Len(toHost) = 1 /\ Len(t.out) = 1
    BY <1>3, <1>4, <2>1, <2>2
  <2> QED BY <2>2, <2>3
<1>6. stored = NoPacket
  BY <1>5 DEF Unread
<1>7. Here' = Removed(Here, 1)
  BY <1>5, <1>6, TakenFromLine
<1>8. Leads(prn, toTarget, Removed(Here, 1), Removed(t, 1)) /\ 1 \in 1 .. Len(t.out)
  BY <1>1, <1>2, <1>5, LeadsRemoved
<1>9. PICK u : u = Removed(t, 1)
  OBVIOUS
<1>10. u \in TargetStates
  BY <1>8, <1>9, RemovedTyped
<1>11. u.held = t.held /\ u.notified = t.notified /\ u.alive = t.alive /\ u.out = <<>>
  <2>1. u.out = Without(t.out, 1) /\ u.held = t.held /\ u.notified = t.notified /\ u.alive = t.alive
    BY <1>9 DEF Removed
  <2>2. Len(Without(t.out, 1)) = Len(t.out) - 1 /\ Without(t.out, 1) \in Seq(Briefs)
    BY <1>2, <1>8, WithoutFacts
  <2>3. Len(Without(t.out, 1)) = 0
    BY <1>5, <2>2
  <2> QED BY <2>1, <2>2, <2>3
<1>12. Lag(u)'
  BY <1>2, <1>11, EmptyLag
<1> QED BY <1>7, <1>8, <1>9, <1>10, <1>12

\* The first command is lost, wherever it would have led the target.
LEMMA LostCommandLag ==
    ASSUME IInv, Flow, CountBelow, Leaving, OneFault, faults = 0, faults' = 1,
           toTarget # <<>>, toTarget' = Tail(toTarget),
           UNCHANGED <<prn, callerVars, requests, toHost, stored, held, notified, alive>>
    PROVE  \E u \in TargetStates : Leads(prn', toTarget', Here', u) /\ Lag(u)'
<1>1. LineFacts /\ prn \in Nat /\ toTarget \in Seq(Commands) /\ faults <= 1
  BY LagFacts
<1>2. Here' = Here
  BY HereKept
<1>3. CASE ~alive
  <2>1. PICK t \in TargetStates : /\ Leads(prn, toTarget, Here, t) /\ Lag(t)
                                  /\ Extends(Here.out, t.out) /\ t.out \in Seq(Briefs)
    BY <1>1, LagFacts
  <2>2. ~t.alive
    BY <1>3, <2>1 DEF Lag, Bounded, Own1, Flow, Faultless, Aligned
  <2>3. Len(t.out) <= 0
    BY <2>1, <2>2 DEF Lag, LateLag
  <2>4. Here.out = <<>>
    <3>1. Len(Here.out) <= Len(t.out) /\ Len(t.out) \in Nat /\ Here.out \in Seq(Briefs)
      BY <1>1, <2>1 DEF Extends, LineFacts
    <3> QED BY <2>3, <3>1
  <2>5. PICK u : u = Here
    OBVIOUS
  <2>6. Lag(u)'
    BY <1>1, <1>3, <2>4, <2>5 DEF Lag, LateLag, LineFacts
  <2>7. Leads(prn, Tail(toTarget), Here, u) /\ u \in TargetStates
    BY <1>1, <1>3, <2>5, Taken, LeadsLate DEF LineFacts
  <2> QED BY <1>2, <2>6, <2>7
<1>4. CASE alive /\ ~aborted
  <2>1. Aligned
    BY <1>4 DEF Flow, Faultless
  <2> QED BY <1>2, <2>1, LostAligned
<1>5. CASE alive /\ aborted
  BY <1>2, <1>5, LostLeaving
<1> QED BY <1>3, <1>4, <1>5

\* With at most one fault the commands lead the target to where the caller can do with it.
LEMMA OneFaultStep ==
    IInv /\ NextForms /\ Flow /\ CountBelow /\ Leaving /\ OneFault /\ [Next]_vars => OneFault'
<1> SUFFICES ASSUME IInv, NextForms, Flow, CountBelow, Leaving, OneFault, [Next]_vars, faults' <= 1
             PROVE  \E u \in TargetStates : Leads(prn', toTarget', Here', u) /\ Lag(u)'
  BY DEF OneFault
<1>1. IInv'
  BY Inductive
<1>2. faults \in Nat /\ faults' \in Nat
  BY <1>1 DEF IInv, TypeOK
<1>3. faults <= 1
  <2>1. faults' = faults \/ faults' = faults + 1
    BY Zenon DEF Next, Request, WriteObject, WriteObjectPiece, Abort, Read, Timeout, OnData, TargetHandles,
                 Receive, Lose, Fault, vars
  <2> QED BY <1>2, <2>1
<1>4. ASSUME NEW o \in Ops, Request(o) PROVE \E u \in TargetStates : Leads(prn', toTarget', Here', u) /\ Lag(u)'
  BY <1>3, <1>4, RequestLag
<1>5. CASE WriteObject
  BY <1>3, <1>5, WriteObjectLag
<1>6. CASE WriteObjectPiece
  BY <1>3, <1>6, WriteObjectPieceLag
<1>7. CASE Abort
  BY <1>3, <1>7, AbortLag
<1>8. CASE Read
  BY <1>1, <1>3, <1>8, ReadLag
<1>9. CASE OnData
  BY <1>1, <1>3, <1>9, OnDataLag
<1>10. CASE Timeout
  BY <1>3, <1>10, TimeoutLag
<1>11. CASE TargetHandles
  BY <1>1, <1>3, <1>11, HandledLag
<1>12. CASE Lose
  <2>1. /\ UNCHANGED <<prn, callerVars, requests, stored, held, notified, alive>>
        /\ \/ toTarget # <<>> /\ toTarget' = Tail(toTarget) /\ UNCHANGED toHost
           \/ toHost # <<>> /\ toHost' = Tail(toHost) /\ UNCHANGED toTarget
    BY <1>12 DEF Lose, mailboxVars, targetVars
  <2>2. faults = 0 /\ faults' = 1
    BY <1>2, <1>12 DEF Lose, Fault
  <2>3. CASE toTarget # <<>> /\ toTarget' = Tail(toTarget) /\ UNCHANGED toHost
    BY <2>1, <2>2, <2>3, LostCommandLag
  <2>4. CASE toHost # <<>> /\ toHost' = Tail(toHost) /\ UNCHANGED toTarget
    BY <1>1, <2>1, <2>2, <2>4, LostAnswerLag
  <2> QED BY <2>1, <2>3, <2>4
<1>13. CASE UNCHANGED vars
  <2>1. PICK t \in TargetStates : Leads(prn, toTarget, Here, t) /\ Lag(t)
    BY <1>3, LagFacts
  <2>2. Here' = Here /\ prn' = prn /\ toTarget' = toTarget
    BY <1>13, HereKept DEF vars, mailboxVars, targetVars
  <2>3. Lag(t)'
    BY <1>13, <2>1, LagKept DEF vars, callerVars
  <2> QED BY <2>1, <2>2, <2>3
<1> QED BY <1>4, <1>5, <1>6, <1>7, <1>8, <1>9, <1>10, <1>11, <1>12, <1>13 DEF Next

-----------------------------------------------------------------------------
(* A verified chunk.                                                       *)
\* A packet with which the chunk is verified belongs to this attempt at it, so it is true.
LEMMA VerifiedByPacket ==
    ASSUME IInv, InOrder, OneFault, faults <= 1, Pending, op = "crc",
           NEW p \in Arrived, 1 <= Unread + Len(toHost), p = Line[1], Resolve(p),
           step' = "idle", next' = {"execute"}
    PROVE  /\ held = Pieces /\ good
           /\ \A i \in 1 .. Len(toTarget) : toTarget[i].op # "abort" => toTarget[i].id >= requests - 1
<1>1. LineFacts /\ prn \in Nat /\ toTarget \in Seq(Commands) /\ requests \in Nat
  BY LagFacts
<1>2. p \in Packets
  BY ArrivedFacts
<1>3. p.op = "crc" /\ p.at = Pieces /\ p.good
  <2>1. Continues(p)
    BY <1>2, ResolveContinues
  <2> QED BY <2>1 DEF Continues
<1>4. PICK t \in TargetStates : /\ Leads(prn, toTarget, Here, t) /\ Lag(t)
                                /\ Extends(Here.out, t.out) /\ t.out \in Seq(Briefs)
  BY LagFacts
<1>5. 1 \in 1 .. Unread + Len(toHost) /\ Len(Here.out) = Unread + Len(toHost)
  BY <1>1 DEF LineFacts
<1>6. t.out[1] = Brief(p) /\ 1 \in 1 .. Len(t.out)
  BY <1>1, <1>4, <1>5 DEF LineFacts, Extends
<1>7. t.out[1].op = "crc" /\ t.out[1].id = p.id
  BY <1>3, <1>6 DEF Brief
<1>8. t.alive
  <2>1. InChunk
    BY DEF InChunk, Pending
  <2>2. t.out # <<>>
    BY <1>4, <1>6
  <2> QED BY <1>4, <2>1, <2>2 DEF Lag, LateLag
<1>9. CrcLag(t)
  BY <1>4, <1>8 DEF Lag, PendingLag
<1>10. p.id >= requests - 1 /\ p.id \in Nat
  <2>1. ~(p.id < requests - 1)
    BY <1>6, <1>7, <1>9 DEF CrcLag
  <2>2. p.id \in Nat
    BY <1>2 DEF Packets
  <2> QED BY <1>1, <2>1, <2>2
<1>11. Before(p) /\ Truthful(p)
  BY DEF InOrder
<1>12. held = Pieces /\ good
  BY <1>3, <1>10, <1>11 DEF Truthful, Recent
<1>13. ASSUME NEW i \in 1 .. Len(toTarget), toTarget[i].op # "abort"
       PROVE  toTarget[i].id >= requests - 1
  <2>1. p.id <= toTarget[i].id
    BY <1>11, <1>13 DEF Before
  <2>2. toTarget[i] \in Commands
    BY <1>1, <1>13
  <2>3. toTarget[i].id \in Nat
    BY <2>2 DEF Commands
  <2> QED BY <1>1, <1>10, <2>1, <2>3
<1> QED BY <1>12, <1>13

\* What was verified stays so until the target is asked to execute it.
LEMMA VerifyingStep ==
    IInv /\ NextForms /\ InOrder /\ OneFault /\ Verifying /\ [Next]_vars => Verifying'
<1> SUFFICES ASSUME IInv, NextForms, InOrder, OneFault, Verifying, [Next]_vars,
                    faults' <= 1, step' = "idle", next' = {"execute"}, op' = "crc"
             PROVE  /\ held' = Pieces /\ good'
                    /\ \A i \in 1 .. Len(toTarget') :
                         toTarget'[i].op # "abort" => toTarget'[i].id >= requests' - 1
  BY DEF Verifying
<1>1. faults \in Nat /\ requests \in Nat /\ toTarget \in Seq(Commands)
  BY DEF IInv, TypeOK
<1>2. faults <= 1
  <2>1. faults' = faults \/ faults' = faults + 1
    BY Zenon DEF Next, Request, WriteObject, WriteObjectPiece, Abort, Read, Timeout, OnData, TargetHandles,
                 Receive, Lose, Fault, vars
  <2> QED BY <1>1, <2>1
<1>3. ~WriteObject /\ ~Abort /\ \A o \in Ops : ~Request(o)
  BY DEF WriteObject, Abort, Request, Anew
<1>4. ~WriteObjectPiece
  BY DEF WriteObjectPiece, NextPiece, Settle, IInv, PieceLeft
<1>5. ~Timeout
  BY DEF Timeout, Fail, Settle, Anew
<1>6. ASSUME UNCHANGED <<op, step, next, held, good, requests>>,
             toTarget' = toTarget \/ (toTarget # <<>> /\ toTarget' = Tail(toTarget))
      PROVE  /\ held' = Pieces /\ good'
             /\ \A i \in 1 .. Len(toTarget') :
                  toTarget'[i].op # "abort" => toTarget'[i].id >= requests' - 1
  <2>1. /\ held = Pieces /\ good
        /\ \A i \in 1 .. Len(toTarget) : toTarget[i].op # "abort" => toTarget[i].id >= requests - 1
    BY <1>2, <1>6 DEF Verifying
  <2>2. CASE toTarget' = toTarget
    BY <1>6, <2>1, <2>2
  <2>3. CASE toTarget # <<>> /\ toTarget' = Tail(toTarget)
    <3>1. /\ Len(toTarget) \in Nat \ {0} /\ Len(toTarget') = Len(toTarget) - 1
          /\ \A i \in 1 .. Len(toTarget) - 1 : toTarget'[i] = toTarget[i + 1]
      BY <1>1, <2>3, HeadTail
    <3>2. ASSUME NEW i \in 1 .. Len(toTarget') PROVE i + 1 \in 1 .. Len(toTarget) /\ toTarget'[i] = toTarget[i + 1]
      BY <3>1
    <3> QED BY <1>6, <2>1, <3>2
  <2> QED BY <1>6, <2>2, <2>3
<1>7. CASE Read
  <2>1. /\ step = "written" /\ ~waiting /\ Pending
        /\ UNCHANGED <<op, held, good, toTarget, requests>>
    BY <1>7 DEF Read, IInv, MailboxConsistent, Pending, targetVars
  <2>2. stored # NoPacket /\ Resolve(stored)
    BY <1>7, <2>1 DEF Read
  <2>3. stored \in Arrived
    BY <2>2, ArrivedFacts
  <2>4. stored = Line[1] /\ 1 <= Unread + Len(toHost)
    <3>1. LineFacts
      BY HereFacts
    <3>2. Unread = 1
      BY <2>2 DEF Unread
    <3> QED BY <3>1, <3>2 DEF LineFacts
  <2> QED BY <1>2, <2>1, <2>2, <2>3, <2>4, VerifiedByPacket
<1>8. CASE OnData
  <2>1. toHost # <<>> /\ UNCHANGED <<op, held, good, toTarget, requests>>
    BY <1>8 DEF OnData, targetVars
  <2>2. CASE stored = NoPacket /\ waiting
    <3>1. Resolve(Head(toHost)) /\ Pending
      BY <1>8, <2>2 DEF OnData, IInv, MailboxConsistent, Pending
    <3>2. Head(toHost) \in Arrived
      BY <2>1, ArrivedFacts
    <3>3. Head(toHost) = Line[1] /\ 1 <= Unread + Len(toHost)
      <4>1. LineFacts
        BY HereFacts
      <4>2. Unread = 0 /\ Len(toHost) \in Nat \ {0} /\ Head(toHost) = toHost[1]
        BY <2>1, <2>2, <4>1 DEF Unread, LineFacts
      <4>3. 1 \in 1 .. Unread + Len(toHost) /\ 1 - Unread = 1 /\ ~(1 <= Unread)
        BY <4>2
      <4> QED BY <4>1, <4>2, <4>3 DEF LineFacts
    <3> QED BY <1>2, <2>1, <3>1, <3>2, <3>3, VerifiedByPacket
  <2>3. CASE ~(stored = NoPacket /\ waiting)
    <3>1. UNCHANGED <<step, next>>
      BY <1>8, <2>3 DEF OnData
    <3> QED BY <1>6, <2>1, <3>1
  <2> QED BY <2>2, <2>3
<1>9. CASE TargetHandles
  <2> DEFINE c == Head(toTarget)
  <2>1. /\ toTarget # <<>> /\ toTarget' = Tail(toTarget)
        /\ UNCHANGED <<op, step, next, requests>>
    BY <1>9 DEF TargetHandles, callerVars
  <2>2. /\ held = Pieces
        /\ \A i \in 1 .. Len(toTarget) : toTarget[i].op # "abort" => toTarget[i].id >= requests - 1
    BY <1>2, <2>1 DEF Verifying
  <2>3. c = toTarget[1] /\ 1 \in 1 .. Len(toTarget) /\ c \in Commands
    BY <1>1, <2>1, HeadTail
  <2>4. c.op \in {"write", "crc", "abort"}
    <3>1. SUFFICES ASSUME c.op # "abort" PROVE c.op \in {"write", "crc"}
      OBVIOUS
    <3>2. c.id >= requests - 1 /\ c.id \in Nat
      BY <2>2, <2>3, <3>1 DEF Commands
    <3>3. /\ c.id <= requests /\ (c.id = requests => c.op = "crc")
          /\ (c.id = requests - 1 => c.op = "write")
      BY <2>1, <2>3, <3>1 DEF InOrder, Ordered
    <3>4. c.id = requests \/ c.id = requests - 1
      BY <1>1, <3>2, <3>3
    <3> QED BY <3>3, <3>4
  <2>5. UNCHANGED <<held, good>>
    BY <1>9, <2>2, <2>4, KeepsWhole
  <2> QED BY <1>6, <2>1, <2>5
<1>10. CASE Lose
  BY <1>6, <1>10 DEF Lose, callerVars, targetVars
<1>11. CASE UNCHANGED vars
  BY <1>6, <1>11 DEF vars, callerVars, targetVars
<1> QED BY <1>3, <1>4, <1>5, <1>7, <1>8, <1>9, <1>10, <1>11 DEF Next

\* A new connection: the target is where it is.
LEMMA InitLag == Init => CountBelow /\ Leaving /\ OneFault /\ Verifying
<1> SUFFICES ASSUME Init PROVE CountBelow /\ Leaving /\ OneFault /\ Verifying
  OBVIOUS
<1>1. IInv /\ LineFacts
  BY InitInv, HereFacts
<1>2. CountBelow /\ Leaving /\ Verifying
  BY DEF Init, CountBelow, Leaving, Verifying, Anew
<1>3. PICK t : t = Here
  OBVIOUS
<1>4. /\ t \in TargetStates /\ t.alive /\ t.notified = 0 /\ t.out = <<>> /\ prn \in Nat
  <2>1. Unread = 0 /\ Len(toHost) = 0
    BY DEF Init, Unread
  <2>2. Len(Here.out) = 0 /\ Here.out \in Seq(Briefs)
    BY <1>1, <2>1 DEF LineFacts
  <2>3. Here.out = <<>> /\ Here \in TargetStates
    BY <1>1, <2>2 DEF LineFacts
  <2>4. Here.alive /\ Here.notified = 0
    BY <1>1 DEF LineFacts, Init
  <2> QED BY <1>3, <2>3, <2>4, PrnAssumption DEF Init
<1>5. Leads(prn, toTarget, Here, t)
  BY <1>3, <1>4, LeadsNowhere DEF Init
<1>6. Len(t.out) = 0
  BY <1>4
<1>7. Bounded(t)
  BY <1>4, <1>6 DEF Init, Bounded, Few, Known, Own1, Own2, Pending
<1>8. IdleLag(t) /\ WritingLag(t) /\ PendingLag(t)
  <2>1. Even(t) /\ Current(t)
    BY <1>4, <1>6 DEF Even, Current
  <2>2. step = "idle" /\ next # {"crc"} /\ next # {"write"}
    BY DEF Init, Anew
  <2> QED BY <2>1, <2>2 DEF IdleLag, WritingLag, PendingLag, Writing, Pending
<1>9. OneFault
  BY <1>4, <1>5, <1>7, <1>8 DEF OneFault, Lag
<1> QED BY <1>2, <1>9

\* All of it together is preserved by every step.
FaultInv ==
    IInv /\ NextForms /\ Flow /\ CountBelow /\ Leaving /\ InOrder /\ OneFault /\ Verifying

LEMMA StepFault == Spec => []FaultInv
<1>1. Init => FaultInv
  BY InitInv, InitNext, InitFlow, InitOrder, InitLag DEF FaultInv
<1>2. FaultInv /\ [Next]_vars => FaultInv'
  BY Inductive, NextStep, FlowStep, CountStep, LeavingStep, OrderStep, OneFaultStep, VerifyingStep DEF FaultInv
<1> QED BY <1>1, <1>2, PTL DEF Spec

\* With at most one packet lost, damaged or late, a chunk goes on to be executed only when
\* the target has all of it and as it is in the image: the answer that verified it belongs
\* to this attempt, for every length of a chunk and every interval of notifications
\* (DfuAbstractTransport.js:183-198, DfuTransportPrn.js:280-286, 330-339).
THEOREM VerifiedIsCurrent == Spec => []VerifiedIsHeld
<1>1. FaultInv => VerifiedIsHeld
  BY DEF FaultInv, Verifying, VerifiedIsHeld
<1> QED BY <1>1, StepFault, PTL

-----------------------------------------------------------------------------
(* The requests as the caller sees them.                                   *)

\* A checksum is asked for when all pieces are written.
AtTheEnd ==
    (step = "idle" /\ next = {"crc"}) \/ (step # "idle" /\ op = "crc") => pos = Pieces

\* Nothing else leads to it.
LEMMA EndStep == IInv /\ NextForms /\ AtTheEnd /\ [Next]_vars => AtTheEnd'
<1> SUFFICES ASSUME IInv, NextForms, AtTheEnd, [Next]_vars PROVE AtTheEnd'
  OBVIOUS
<1>1. pos \in 0 .. Pieces /\ Pieces \in Nat \ {0} /\ op \in Ops /\ next \subseteq Ops
  BY PrnAssumption DEF IInv, TypeOK
<1>2. ASSUME NEW p \in Packets, Resolve(p), op' = op, step # "idle" PROVE AtTheEnd'
  <2>1. Continues(p)
    BY <1>2, ResolveContinues
  <2>2. step' = "idle" /\ next' # {"crc"} => AtTheEnd'
    BY DEF AtTheEnd
  <2> QED BY <1>2, <2>1, <2>2 DEF Continues, AtTheEnd, Anew
<1>3. ASSUME NEW o \in Ops, Request(o) PROVE AtTheEnd'
  BY <1>3 DEF Request, AtTheEnd, NextForms, Anew
<1>4. CASE WriteObject
  BY <1>4 DEF WriteObject, AtTheEnd
<1>5. CASE WriteObjectPiece
  <2>1. op = "write" /\ op' = op /\ pos' = pos + 1 /\ pos < Pieces
    BY <1>5 DEF WriteObjectPiece, IInv, PieceLeft
  <2>2. \/ step' # "idle"
        \/ ~(pos' < Pieces)
    BY <1>5 DEF WriteObjectPiece, NextPiece
  <2> QED BY <1>1, <2>1, <2>2 DEF AtTheEnd
<1>6. CASE Abort
  BY <1>6 DEF Abort, AtTheEnd, Anew
<1>7. CASE Read
  <2>1. step = "written" /\ ~waiting /\ op' = op
    BY <1>7 DEF Read, IInv, MailboxConsistent
  <2>2. CASE stored # NoPacket
    BY <1>2, <1>7, <2>1, <2>2 DEF Read, IInv, TypeOK
  <2>3. CASE stored = NoPacket
    BY <1>7, <2>1, <2>3 DEF Read, AtTheEnd
  <2> QED BY <2>2, <2>3
<1>8. CASE Timeout
  BY <1>8 DEF Timeout, Fail, Settle, AtTheEnd, Anew
<1>9. CASE OnData
  <2>1. Head(toHost) \in Packets /\ op' = op
    BY <1>9, Taken DEF OnData, IInv, TypeOK
  <2>2. CASE stored = NoPacket /\ waiting
    BY <1>2, <1>9, <2>1, <2>2 DEF OnData, IInv, MailboxConsistent
  <2>3. CASE UNCHANGED <<next, step, pos>>
    BY <2>1, <2>3 DEF AtTheEnd
  <2> QED BY <1>9, <2>2, <2>3 DEF OnData
<1>10. CASE UNCHANGED <<next, op, step, pos>>
  BY <1>10 DEF AtTheEnd
<1> QED BY <1>3, <1>4, <1>5, <1>6, <1>7, <1>8, <1>9, <1>10
        DEF Next, TargetHandles, Lose, vars, callerVars

\* A chunk is verified as DfuRequests promises.
LEMMA VerifiedThen ==
    ASSUME Verifying'
    PROVE  faults' <= 1 /\ Requests!Verified' => held' = Pieces /\ good'
BY DEF Verifying, Requests!Verified, Phase

\* What follows on an answer is one of the outcomes of the request.
LEMMA ResolveOutcome ==
    ASSUME IInv, Pending, NEW p \in Packets, Resolve(p)
    PROVE  \/ step' = "idle" /\ pos' \in 0 .. Pieces
              /\ next' \in Requests!Successes(op) \cup {Requests!Failure(op)}
           \/ step' = "sending" /\ op = "write" /\ UNCHANGED <<next, pos>>
<1>1. pos \in 0 .. Pieces /\ op \in Ops /\ p.at \in 0 .. Pieces /\ Pieces \in Nat \ {0}
  BY PrnAssumption DEF IInv, TypeOK, Packets
<1>2. CASE Fail /\ UNCHANGED pos
  <2>1. step' = "idle" /\ next' = Requests!Failure(op)
    BY <1>2 DEF Fail, Settle, Requests!Failure, Requests!Retry, Requests!Anew, Anew
  <2> QED BY <1>1, <1>2, <2>1
<1>3. CASE op = "write" /\ UNCHANGED pos /\ NextPiece(pos)
  BY <1>1, <1>3 DEF NextPiece, Settle, Requests!Successes
<1>4. CASE op = "select" /\ pos' = p.at
           /\ Settle(IF p.at = 0 THEN {"create"} ELSE IF ~p.good THEN Anew
                     ELSE IF p.at = Pieces THEN {"execute"} ELSE {"write"})
  BY <1>1, <1>4 DEF Settle, Requests!Successes, Requests!Anew, Anew
<1>5. CASE op = "restart" /\ Settle({"select"}) /\ UNCHANGED pos
  BY <1>1, <1>5 DEF Settle, Requests!Successes
<1>6. CASE op = "create" /\ Settle({"write"}) /\ pos' = 0
  BY <1>1, <1>6 DEF Settle, Requests!Successes
<1>7. CASE op = "execute" /\ Settle(Anew) /\ UNCHANGED pos
  BY <1>1, <1>7 DEF Settle, Requests!Successes, Requests!Anew, Anew
<1>8. CASE op = "crc" /\ Settle({"execute"}) /\ UNCHANGED pos
  BY <1>1, <1>8 DEF Settle, Requests!Successes
<1> QED BY <1>2, <1>3, <1>4, <1>5, <1>6, <1>7, <1>8 DEF Resolve

\* The request takes a packet: its own answer if nothing went wrong.
LEMMA ResolveServes ==
    ASSUME IInv, Pending, Verifying', NEW p \in Packets, Resolve(p),
           Faultless => Aligned /\ Answered /\ Own(p),
           UNCHANGED <<op, held, good, faults, aborted, toTarget>>
    PROVE  [Requests!Next]_(Requests!vars)
<1>1. /\ pos \in 0 .. Pieces /\ op \in Ops /\ held \in 0 .. Pieces /\ good \in BOOLEAN
      /\ faults \in Nat /\ Pieces \in Nat \ {0} /\ aborted \in BOOLEAN
  BY PrnAssumption DEF IInv, TypeOK
<1>2. Phase # "idle"
  BY DEF Phase, Pending
<1>3. CASE step' = "sending" /\ op = "write" /\ UNCHANGED <<next, pos>>
  <2>1. Phase' = Phase
    BY <1>3 DEF Phase, Pending
  <2> QED BY <1>3, <2>1 DEF Requests!vars
<1>4. CASE ~Faultless /\ step' = "idle" /\ pos' \in 0 .. Pieces
           /\ next' \in Requests!Successes(op) \cup {Requests!Failure(op)}
  <2>1. faults > 0 \/ aborted
    BY <1>1, <1>4 DEF Faultless
  <2>2. Phase' = "idle"
    BY <1>4 DEF Phase
  <2>3. Requests!Astray
    BY <1>1, <1>2, <1>4, <2>1, <2>2, VerifiedThen DEF Requests!Astray
  <2> QED BY <2>3 DEF Requests!Next
<1>5. CASE Faultless /\ step' = "idle" /\ op = "write"
  <2>1. p.op = Opcode(op) /\ p.ok /\ p.at = held /\ p.good /\ held = pos
    BY <1>5 DEF Own, Answered
  <2>2. NextPiece(pos) /\ UNCHANGED pos
    BY <1>5, <2>1 DEF Resolve, Verified
  <2>3. pos = Pieces /\ next' = {"crc"}
    BY <1>1, <1>5, <2>2 DEF NextPiece, Settle
  <2>4. Phase = "asked" /\ Phase' = "idle"
    BY <1>5 DEF Phase, Pending
  <2>5. Requests!Written
    BY <1>5, <2>1, <2>2, <2>3, <2>4 DEF Requests!Written, Requests!Settle, Requests!linkVars
  <2> QED BY <2>5 DEF Requests!Next
<1>6. CASE Faultless /\ step' = "idle" /\ op # "write"
  <2>1. p.op = Opcode(op) /\ p.ok /\ p.at = held /\ p.good /\ good /\ (op = "crc" => held = Pieces)
        /\ toTarget = <<>>
    BY <1>6 DEF Own, Answered, Aligned
  <2>2. Phase = "performed" /\ Phase' = "idle"
    BY <1>6, <2>1 DEF Phase, Pending
  <2>3. /\ next' \in Requests!Successes(op)
        /\ op = "select" => next' = Requests!Continuation
        /\ pos' = IF op = "create" THEN 0 ELSE IF op = "select" THEN held ELSE pos
    BY <1>1, <1>6, <2>1 DEF Resolve, Verified, Settle, Requests!Successes, Requests!Continuation,
                            Requests!Anew, Anew, Ops
  <2>4. Requests!Succeed
    BY <2>1, <2>2, <2>3 DEF Requests!Succeed, Requests!linkVars
  <2> QED BY <2>4 DEF Requests!Next
<1> QED BY <1>3, <1>4, <1>5, <1>6, ResolveOutcome

\* Whatever the target or the link does after a mishap.
LEMMA AstrayServes ==
    ASSUME IInv, IInv', Verifying', faults' \in {faults, faults + 1}, faults' > 0 \/ aborted,
           UNCHANGED <<next, op, step, pos, aborted>>
    PROVE  Requests!Next
<1>1. held' \in 0 .. Pieces /\ good' \in BOOLEAN /\ (Phase' = "idle" <=> Phase = "idle")
  BY DEF IInv, TypeOK, Phase
<1>2. Requests!Astray
  BY <1>1, VerifiedThen DEF Requests!Astray
<1> QED BY <1>2 DEF Requests!Next

\* The target takes a piece that follows on those it has, or does what it is asked for.
LEMMA HandledServes ==
    ASSUME IInv, IInv', NextForms, Flow, InOrder, AtTheEnd, Verifying', TargetHandles
    PROVE  Requests!Next
<1> DEFINE c == Head(toTarget)
<1>1. /\ toTarget # <<>> /\ toTarget' = Tail(toTarget) /\ toTarget \in Seq(Commands)
      /\ UNCHANGED <<prn, next, op, step, pos, prnCount, aborted, stored, waiting, requests>>
  BY DEF TargetHandles, callerVars, mailboxVars, IInv, TypeOK
<1>2. /\ faults' \in {faults, faults + 1} /\ faults \in Nat /\ held \in 0 .. Pieces /\ op \in Ops
      /\ pos \in 0 .. Pieces /\ Pieces \in Nat \ {0} /\ aborted \in BOOLEAN
      /\ step \in {"idle", "sending", "written", "reading"}
  <2>1. faults' = faults \/ faults' = faults + 1
    BY Zenon DEF TargetHandles, Receive, Fault
  <2> QED BY <2>1, PrnAssumption DEF IInv, TypeOK
<1>3. CASE ~Faultless'
  <2>1. faults' > 0 \/ aborted
    BY <1>1, <1>2, <1>3 DEF Faultless
  <2> QED BY <1>1, <1>2, <2>1, AstrayServes
<1>4. CASE Faultless'
  <2>1. Faultless /\ faults' = faults
    BY <1>4, TargetFaults
  <2>2. Aligned /\ alive /\ good
    BY <2>1 DEF Flow, Aligned
  <2>3. /\ c = toTarget[1] /\ c \in Commands /\ Len(toTarget) \in Nat \ {0} /\ toTarget' \in Seq(Commands)
        /\ Len(toTarget') = Len(toTarget) - 1
        /\ Len(toTarget) = 1 => toTarget' = <<>>
    BY <1>1, HeadTail
  <2>4. ASSUME c.op = "write", c.at = held, held < pos, op \in {"write", "crc"},
               op = "crc" => step = "idle" \/ Len(toTarget) # 1
        PROVE  Requests!Next
    <3>1. held' = held + 1 /\ good'
      BY <1>2, <1>4, <2>2, <2>4, TakesPiece
    <3>2. Phase' = Phase
      <4>1. CASE op = "write" \/ step = "idle"
        BY <1>1, <4>1 DEF Phase
      <4>2. CASE Len(toTarget) # 1
        <5>1. toTarget' # <<>>
          BY <2>3, <4>2
        <5> QED BY <1>1, <5>1 DEF Phase
      <4> QED BY <2>4, <4>1, <4>2
    <3>3. good' = good
      BY <2>2, <3>1 DEF IInv, TypeOK
    <3>4. Requests!Receive
      BY <1>1, <2>1, <2>4, <3>1, <3>2, <3>3 DEF Requests!Receive, Requests!linkVars
    <3> QED BY <3>4 DEF Requests!Next
  <2>5. ASSUME Len(toTarget) = 1, step # "idle", op # "write", c.op = op,
               op \in {"crc", "execute"} => held = Pieces
        PROVE  Requests!Next
    <3>1. Phase = "asked" /\ Phase' = "performed"
      BY <1>1, <2>3, <2>5 DEF Phase
    <3>2. held' = (IF op \in {"restart", "create", "execute"} THEN 0 ELSE held) /\ good' = good
      <4>1. CASE op \in {"restart", "create"}
        BY <2>2, <2>5, <4>1 DEF TargetHandles, Receive, IInv, TypeOK
      <4>2. CASE op \in {"crc", "select"}
        BY <2>2, <2>5, <4>2 DEF TargetHandles, Receive, targetVars
      <4>3. CASE op = "execute"
        BY <2>2, <2>5, <4>3 DEF TargetHandles, Receive, IInv, TypeOK
      <4> QED BY <1>2, <2>5, <4>1, <4>2, <4>3 DEF Ops
    <3>3. Requests!Perform
      BY <1>1, <2>1, <2>5, <3>1, <3>2 DEF Requests!Perform, Requests!linkVars
    <3> QED BY <3>3 DEF Requests!Next
  <2>6. ~Ready /\ ~Answered
    BY <1>1 DEF Ready, Answered
  <2>7. CASE Streaming /\ (step = "sending" \/ (step = "idle" /\ next = {"crc"}))
    <3>1. op = "write"
      BY <2>7 DEF IInv, PieceLeft, InOrder
    <3>2. 1 \in 1 .. Len(toTarget) /\ Following(Len(toTarget)) /\ held + Len(toTarget) = pos
      BY <2>3, <2>7 DEF Streaming
    <3>3. c.op = "write" /\ c.at = held
      BY <1>2, <2>3, <3>2 DEF Following
    <3>4. held < pos
      BY <1>2, <2>3, <3>2
    <3> QED BY <2>4, <3>1, <3>3, <3>4
  <2>8. CASE Asked /\ Pending /\ op = "write"
    <3>1. 1 \in 1 .. Len(toTarget) /\ Following(Len(toTarget)) /\ held + Len(toTarget) = pos
      BY <2>3, <2>8 DEF Asked
    <3>2. c.op = "write" /\ c.at = held
      BY <1>2, <2>3, <3>1 DEF Following
    <3>3. held < pos
      BY <1>2, <2>3, <3>1
    <3> QED BY <2>4, <2>8, <3>2, <3>3
  <2>9. CASE Asked /\ Pending /\ op = "crc" /\ Len(toTarget) # 1
    <3>1. 1 \in 1 .. Len(toTarget) - 1 /\ Following(Len(toTarget) - 1) /\ held + Len(toTarget) - 1 = Pieces
      BY <2>3, <2>9 DEF Asked
    <3>2. c.op = "write" /\ c.at = held
      BY <1>2, <2>3, <3>1 DEF Following
    <3>3. held < pos
      <4>1. pos = Pieces
        BY <2>9 DEF AtTheEnd, Pending
      <4> QED BY <1>2, <2>3, <3>1, <4>1
    <3> QED BY <2>4, <2>9, <3>2, <3>3
  <2>10. CASE Asked /\ Pending /\ op # "write" /\ Len(toTarget) = 1
    <3>1. c.op = op /\ (op = "crc" => held + Len(toTarget) - 1 = Pieces) /\ (op = "execute" => held = Pieces)
      BY <2>3, <2>10 DEF Asked
    <3>2. op \in {"crc", "execute"} => held = Pieces
      BY <1>2, <2>10, <3>1
    <3> QED BY <2>5, <2>10, <3>1, <3>2 DEF Pending
  <2>11. Asked /\ op \notin {"write", "crc"} => Len(toTarget) = 1
    BY DEF Asked
  <2>12. \/ Streaming /\ (step = "sending" \/ (step = "idle" /\ next = {"crc"}))
         \/ Asked /\ Pending
    BY <1>2, <2>2, <2>6 DEF Aligned, Pending
  <2> QED BY <2>7, <2>8, <2>9, <2>10, <2>11, <2>12
<1> QED BY <1>3, <1>4

\* The caller's own steps.
LEMMA CallerServes ==
    ASSUME IInv
    PROVE  /\ \A o \in Ops : Request(o) => Requests!Next
           /\ WriteObject => Requests!Next
           /\ WriteObjectPiece => Requests!Next
           /\ Abort => Requests!Next
<1>1. ASSUME NEW o \in Ops, Request(o) PROVE Requests!Next
  <2>1. /\ step = "idle" /\ step' = "written" /\ o \in next /\ op' = o
        /\ UNCHANGED <<next, pos, held, good, faults, aborted>>
    BY <1>1 DEF Request, targetVars
  <2>2. toTarget' # <<>>
    BY <1>1, SMTT(30) DEF Request, IInv, TypeOK
  <2>3. Phase = "idle" /\ Phase' = "asked"
    BY <2>1, <2>2 DEF Phase
  <2>4. Requests!Ask(o)
    BY <2>1, <2>3 DEF Requests!Ask, Requests!linkVars
  <2> QED BY <2>1, <2>4 DEF Requests!Next
<1>2. CASE WriteObject
  <2>1. Phase = "idle" /\ Phase' = "asked"
    BY <1>2 DEF WriteObject, Phase
  <2>2. Requests!Ask("write") /\ "write" \in next
    BY <1>2, <2>1 DEF WriteObject, targetVars, Requests!Ask, Requests!linkVars
  <2> QED BY <2>2 DEF Requests!Next
<1>3. CASE WriteObjectPiece
  <2>1. /\ step = "sending" /\ op = "write" /\ op' = op /\ pos < Pieces /\ pos' = pos + 1
        /\ pos \in 0 .. Pieces /\ Pieces \in Nat \ {0}
        /\ UNCHANGED <<held, good, faults, aborted>>
    BY <1>3, PrnAssumption DEF WriteObjectPiece, IInv, TypeOK, PieceLeft, targetVars
  <2>2. Phase = "asked"
    BY <2>1 DEF Phase
  <2>3. (Phase' = Phase /\ next' = next) \/ (pos' = Pieces /\ Phase' = "idle" /\ next' = {"crc"})
    <3>1. CASE Due(prnCount + 1)
      BY <1>3, <2>1, <2>2, <3>1 DEF WriteObjectPiece, Phase
    <3>2. CASE ~Due(prnCount + 1) /\ pos' < Pieces
      BY <1>3, <2>1, <2>2, <3>2 DEF WriteObjectPiece, NextPiece, Phase
    <3>3. CASE ~Due(prnCount + 1) /\ ~(pos' < Pieces)
      <4>1. pos' = Pieces
        BY <2>1, <3>3
      <4> QED BY <1>3, <2>1, <3>3, <4>1 DEF WriteObjectPiece, NextPiece, Settle, Phase
    <3> QED BY <3>1, <3>2, <3>3
  <2>4. Requests!Write
    BY <2>1, <2>2, <2>3 DEF Requests!Write, Requests!Settle, Requests!linkVars
  <2> QED BY <2>4 DEF Requests!Next
<1>4. CASE Abort
  <2>1. Phase = "idle" /\ Phase' = "idle"
    BY <1>4 DEF Abort, Phase
  <2>2. Requests!Abort
    BY <1>4, <2>1 DEF Abort, Anew, targetVars, Requests!Abort, Requests!Anew
  <2> QED BY <2>2 DEF Requests!Next
<1> QED BY <1>1, <1>2, <1>3, <1>4

\* A request reads its answer, or waits for it, ...
LEMMA ReadServes ==
    ASSUME IInv, Flow, Verifying', Read
    PROVE  [Requests!Next]_(Requests!vars)
<1>1. step = "written" /\ ~waiting /\ Pending
  BY DEF Read, IInv, MailboxConsistent, Pending
<1>2. UNCHANGED <<op, held, good, faults, aborted, toTarget>>
  BY DEF Read, targetVars
<1>3. CASE stored # NoPacket
  <2>1. Resolve(stored) /\ stored \in Packets
    BY <1>1, <1>3 DEF Read, IInv, TypeOK
  <2>2. Faultless => Aligned /\ Answered /\ Own(stored)
    BY <1>1, <1>3 DEF Flow, Aligned, Asked, Answered
  <2> QED BY <1>1, <1>2, <2>1, <2>2, ResolveServes
<1>4. CASE stored = NoPacket
  <2>1. step' = "reading" /\ UNCHANGED <<next, pos>>
    BY <1>1, <1>4 DEF Read
  <2>2. Phase' = Phase
    BY <1>1, <1>2, <2>1 DEF Phase
  <2> QED BY <1>2, <2>1, <2>2 DEF Requests!vars
<1> QED BY <1>3, <1>4

\* ... gives up, with a fault or after one, ...
LEMMA TimeoutServes ==
    ASSUME IInv, Flow, Verifying', Timeout
    PROVE  Requests!Next
<1>1. /\ step = "reading" /\ Pending /\ Fail /\ stored = NoPacket /\ op \in Ops
      /\ UNCHANGED <<op, pos, held, good, aborted>>
      /\ faults \in Nat /\ held \in 0 .. Pieces /\ good \in BOOLEAN /\ pos \in 0 .. Pieces
      /\ aborted \in BOOLEAN
  BY DEF Timeout, Pending, IInv, TypeOK, MailboxConsistent, targetVars
<1>2. (faults' = faults /\ toTarget = <<>> /\ toHost = <<>>) \/ faults' = faults + 1
  BY DEF Timeout, Fault
<1>3. faults' > 0 \/ aborted
  <2>1. SUFFICES ASSUME faults' = faults, toTarget = <<>>, toHost = <<>>, Faultless PROVE FALSE
    BY <1>1, <1>2 DEF Faultless
  <2>2. Asked \/ Answered
    BY <1>1, <2>1 DEF Flow, Aligned
  <2>3. ~Own(stored)
    BY <1>1 DEF Own, NoPacket, Opcode, Ops
  <2> QED BY <1>1, <2>1, <2>2, <2>3 DEF Asked, Answered
<1>4. step' = "idle" /\ next' = Requests!Failure(op)
  BY <1>1 DEF Fail, Settle, Requests!Failure, Requests!Retry, Requests!Anew, Anew
<1>5. Phase # "idle" /\ Phase' = "idle"
  BY <1>1, <1>4 DEF Phase
<1>6. Requests!Astray
  BY <1>1, <1>2, <1>3, <1>4, <1>5, VerifiedThen DEF Requests!Astray
<1> QED BY <1>6 DEF Requests!Next

\* ... or gets what arrives.
LEMMA OnDataServes ==
    ASSUME IInv, Flow, Verifying', OnData
    PROVE  [Requests!Next]_(Requests!vars)
<1>1. /\ toHost # <<>> /\ Head(toHost) \in Packets /\ Head(toHost) = toHost[1]
      /\ UNCHANGED <<op, held, good, faults, aborted, toTarget>>
  BY Taken DEF OnData, targetVars, IInv, TypeOK
<1>2. CASE stored = NoPacket /\ waiting
  <2>1. Resolve(Head(toHost)) /\ Pending
    BY <1>2 DEF OnData, IInv, MailboxConsistent, Pending
  <2>2. Faultless => Aligned /\ Answered /\ Own(Head(toHost))
    <3>1. SUFFICES ASSUME Faultless PROVE Aligned /\ Answered /\ Own(Head(toHost))
      OBVIOUS
    <3>2. Aligned /\ Answered
      BY <1>1, <2>1, <3>1 DEF Flow, Aligned, Asked, Pending
    <3>3. ~Own(stored)
      BY <1>2 DEF Own, NoPacket, Opcode, IInv, TypeOK, Ops
    <3> QED BY <1>1, <3>2, <3>3 DEF Answered
  <2> QED BY <1>1, <2>1, <2>2, ResolveServes
<1>3. CASE UNCHANGED <<next, step, pos>>
  <2>1. Phase' = Phase
    BY <1>1, <1>3 DEF Phase
  <2> QED BY <1>1, <1>3, <2>1 DEF Requests!vars
<1> QED BY <1>2, <1>3 DEF OnData

\* Each step is one of DfuRequests, or none.
LEMMA ServesStep ==
    IInv /\ IInv' /\ NextForms /\ Flow /\ InOrder /\ AtTheEnd /\ Verifying' /\ [Next]_vars =>
        [Requests!Next]_(Requests!vars)
<1> SUFFICES ASSUME IInv, IInv', NextForms, Flow, InOrder, AtTheEnd, Verifying', [Next]_vars
             PROVE  [Requests!Next]_(Requests!vars)
  OBVIOUS
<1>1. CASE Lose
  <2>1. faults' = faults + 1 /\ faults \in Nat /\ UNCHANGED <<next, op, step, pos, aborted>>
    BY <1>1 DEF Lose, Fault, callerVars, IInv, TypeOK
  <2>2. faults' \in {faults, faults + 1} /\ faults' > 0
    BY <2>1
  <2> QED BY <2>1, <2>2, AstrayServes
<1>2. CASE UNCHANGED vars
  <2>1. Phase' = Phase
    BY <1>2 DEF vars, callerVars, Phase
  <2> QED BY <1>2, <2>1 DEF vars, callerVars, targetVars, Requests!vars
<1>3. CASE \E o \in Ops : Request(o)
  BY <1>3, CallerServes
<1>4. CASE WriteObject \/ WriteObjectPiece \/ Abort
  BY <1>4, CallerServes
<1> QED BY <1>1, <1>2, <1>3, <1>4, ReadServes, TimeoutServes, OnDataServes, HandledServes DEF Next

\* The requests over the link, with its notifications, its answers without numbers and its
\* losses, are requests of DfuRequests: performed and answered one by one as long as
\* nothing goes wrong, and after one fault never taking a chunk for complete that the
\* target does not have (DfuAbstractTransport.js:102-197, DfuTransportPrn.js:234-350).
THEOREM Implementation == Spec => ServesRequests
<1>1. Init => Requests!Init
  BY DEF Init, Anew, Phase, Requests!Init, Requests!Anew
<1>2. Init => AtTheEnd
  BY DEF Init, AtTheEnd, Anew
<1>3. FaultInv /\ AtTheEnd /\ [Next]_vars => AtTheEnd'
  BY EndStep DEF FaultInv
<1>4. FaultInv /\ FaultInv' /\ AtTheEnd /\ [Next]_vars => [Requests!Next]_(Requests!vars)
  BY ServesStep DEF FaultInv
<1> QED BY <1>1, <1>2, <1>3, <1>4, StepFault, PTL DEF Spec, ServesRequests, Requests!Spec
=============================================================================
