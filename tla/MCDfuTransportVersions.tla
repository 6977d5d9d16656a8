----------------------- MODULE MCDfuTransportVersions -----------------------
(***************************************************************************)
(* A target with up to two images, and bytes of four values; a refusal     *)
(* that has a name and one that has none.                                  *)
(***************************************************************************)
EXTENDS DfuTransportVersions

MCRefusals == {<<11, 5>>, <<9, Missing>>}
=============================================================================
