---------------------------- MODULE DfuRequests ----------------------------
(***************************************************************************)
(* The requests as DfuAbstractTransport sees them, for a chunk of Pieces   *)
(* pieces: one at a time, each performed by the target and then answered   *)
(* with what the target has, without a link, notifications or a mailbox    *)
(* in between.  Only the pieces of the chunk are still on their way when   *)
(* writeObject has resolved (src/src/DfuAbstractTransport.js:102-197).     *)
(*                                                                         *)
(* After a mishap, or when the target was sent away, a request may have    *)
(* any of its outcomes, whatever the target did.  What is left of the      *)
(* promise then is that after one mishap no chunk is verified that the     *)
(* target does not have.                                                   *)
(***************************************************************************)
EXTENDS Naturals

CONSTANTS Pieces

VARIABLES
    next,       \* what may be asked for next
    op, phase,  \* the last request, and how far it is
    pos,        \* pieces of the chunk that were written
    held, good, \* pieces in the target's object; they are those of the chunk
    mishaps,    \* packets lost, damaged or late
    aborted     \* the target was sent away

vars == <<next, op, phase, pos, held, good, mishaps, aborted>>
linkVars == <<good, mishaps, aborted>>

Anew == {"select", "restart"}
Retry == {"create"} \cup Anew

\* What may be asked for when a request has succeeded, or failed.
Successes(o) ==
    CASE o = "restart" -> {{"select"}}
      [] o = "select"  -> {{"create"}, {"write"}, {"execute"}, Anew}
      [] o = "create"  -> {{"write"}}
      [] o = "write"   -> {{"crc"}}
      [] o = "crc"     -> {{"execute"}}
      [] o = "execute" -> {Anew}
Failure(o) == IF o \in {"write", "crc"} THEN Retry ELSE Anew

Init ==
    /\ next = Anew /\ op = "select" /\ phase = "idle" /\ pos = 0
    /\ held \in 0 .. Pieces /\ good = TRUE /\ mishaps = 0 /\ aborted = FALSE

Settle(follow) == phase' = "idle" /\ next' = follow

Ask(o) ==
    /\ phase = "idle" /\ o \in next
    /\ phase' = "asked" /\ op' = o
    /\ UNCHANGED <<next, pos, held, linkVars>>

\* A piece is written; the last one may be the end of the request ...
Write ==
    /\ phase = "asked" /\ op = "write" /\ pos < Pieces
    /\ pos' = pos + 1
    /\ UNCHANGED <<phase, next>> \/ (pos' = Pieces /\ Settle({"crc"}))
    /\ UNCHANGED <<op, held, linkVars>>

\* ... or that the target has it.
Written ==
    /\ phase = "asked" /\ op = "write" /\ pos = Pieces /\ held = Pieces
    /\ Settle({"crc"})
    /\ UNCHANGED <<op, pos, held, linkVars>>

Receive ==
    /\ op \in {"write", "crc"} /\ held < pos
    /\ held' = held + 1
    /\ UNCHANGED <<next, op, phase, pos, linkVars>>

\* The target does what it is asked for, once, ...
Perform ==
    /\ phase = "asked" /\ op # "write"
    /\ op \in {"crc", "execute"} => held = Pieces
    /\ phase' = "performed"
    /\ held' = IF op \in {"restart", "create", "execute"} THEN 0 ELSE held
    /\ UNCHANGED <<next, op, pos, linkVars>>

\* ... and its answer says what it has then.
Continuation == IF held = 0 THEN {"create"} ELSE IF held = Pieces THEN {"execute"} ELSE {"write"}
Succeed ==
    /\ phase = "performed" /\ phase' = "idle" /\ good
    /\ op = "crc" => held = Pieces
    /\ next' \in Successes(op) /\ (op = "select" => next' = Continuation)
    /\ pos' = IF op = "create" THEN 0 ELSE IF op = "select" THEN held ELSE pos
    /\ UNCHANGED <<op, held, linkVars>>

Abort ==
    /\ phase = "idle" /\ ~aborted
    /\ aborted' = TRUE /\ next' = Anew
    /\ UNCHANGED <<op, phase, pos, held, good, mishaps>>

Verified == phase = "idle" /\ op = "crc" /\ next = {"execute"}

\* Something went wrong: target and request go their own ways.
Astray ==
    /\ mishaps' \in {mishaps, mishaps + 1} /\ (mishaps' > 0 \/ aborted)
    /\ held' \in 0 .. Pieces /\ good' \in BOOLEAN
    /\ \/ UNCHANGED <<next, pos>> /\ (phase' = "idle" <=> phase = "idle")
       \/ /\ phase # "idle" /\ phase' = "idle" /\ pos' \in 0 .. Pieces
          /\ next' \in Successes(op) \cup {Failure(op)}
    /\ mishaps' <= 1 /\ Verified' => held' = Pieces /\ good'
    /\ UNCHANGED <<op, aborted>>

Next ==
    \/ \E o \in next : Ask(o)
    \/ Write \/ Written \/ Receive \/ Perform \/ Succeed \/ Abort \/ Astray

Spec == Init /\ [][Next]_vars
=============================================================================
