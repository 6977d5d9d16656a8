------------------------- MODULE MCDfuTransportSink -------------------------
(***************************************************************************)
(* Packages of one and two updates whose images need one to three chunks,  *)
(* the last one full or not, and an init packet larger than the object of  *)
(* restart().                                                              *)
(***************************************************************************)
EXTENDS DfuTransportSink, TLC

Update(init, firmware) == (1 :> init) @@ (2 :> firmware)

MCPackages ==
    {<<Update(i, f)>> : i \in {1, 2, 4, 30}, f \in {1, 2, 3, 4, 5}}
        \cup {<<Update(i, f), Update(j, g)>> : i, j \in {2}, f, g \in {2, 3}}

MCSmallest == {<<Update(1, 1)>>}
=============================================================================
