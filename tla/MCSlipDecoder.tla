--------------------------- MODULE MCSlipDecoder ---------------------------
(***************************************************************************)
(* Two messages out of all those of one or two bytes, including the        *)
(* special ones, and of longer ones that make both buffers grow; up to     *)
(* four out of two characteristic ones, in turn with the mailbox or with a *)
(* damaged byte.                                                           *)
(***************************************************************************)
EXTENDS SlipDecoder

UpTo(n, bytes) == UNION {[1 .. k -> bytes] : k \in 1 .. n}
LongMessage == <<END, ESC, END, ESC, END, ESC, END, ESC, END>>
ManyMessages == UpTo(2, Byte) \cup {<<ESC, "x", END>>, LongMessage}
FewMessages == {<<END>>, <<ESC, ESC_END>>}

Sending(n, messages, consumer, damage) ==
    {[messages |-> m, consumer |-> consumer, damage |-> damage] : m \in [1 .. n -> messages]}

MCScenarios ==
    Sending(2, ManyMessages, "all", 0)
        \cup Sending(4, FewMessages, "in turn", 0)
        \cup Sending(3, FewMessages, "all", 1)

Hurried == Sending(3, {<<"x">>, <<"x", END>>}, "mailbox", 0)
=============================================================================
