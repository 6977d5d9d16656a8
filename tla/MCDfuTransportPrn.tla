------------------------- MODULE MCDfuTransportPrn -------------------------
(***************************************************************************)
(* Instances in which a notification falls inside the chunk, at its end,   *)
(* or never; the values are in the configurations.                         *)
(***************************************************************************)
EXTENDS DfuTransportPrn
=============================================================================
