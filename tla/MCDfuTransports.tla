-------------------------- MODULE MCDfuTransports --------------------------
(***************************************************************************)
(* Two updates of two requests, so that the target restarts between them,  *)
(* and two operations; the values are in the configurations.               *)
(***************************************************************************)
EXTENDS DfuTransports
=============================================================================
