--------------------------- MODULE MCDfuTransfer ---------------------------
(***************************************************************************)
(* Image a has two full firmware chunks and a part of a third, b one full  *)
(* chunk only.  Their init packets are one chunk; that of wide needs two   *)
(* and can never be sent.                                                  *)
(***************************************************************************)
EXTENDS DfuTransfer

CONSTANTS a, b, wide

MCSize == [i \in Images |-> IF i = a THEN <<2, 7>> ELSE IF i = b THEN <<2, 3>> ELSE <<3, 3>>]
MCChunkSize == <<2, 3>>
MCPackages == {<<>>, <<a>>, <<b>>, <<a, b>>, <<wide>>}
SinglePackages == {<<a>>, <<b>>}
=============================================================================
