---------------------------- MODULE DfuDelivery ----------------------------
(***************************************************************************)
(* What a DfuOperation promises its caller, whatever the transport does:   *)
(* the target activates the updates of the package one at a time and in    *)
(* their order, and the promise of start() resolves only when all of them  *)
(* have been activated (src/src/DfuOperation.js:68-82).  It may reject at  *)
(* any time, also when the last activation was not confirmed.              *)
(***************************************************************************)
EXTENDS Naturals, Sequences

CONSTANTS Packages      \* the sequences of updates an operation can be given

VARIABLES
    package,    \* the updates of the operation under way
    outcome,    \* state of its promise
    delivered   \* what the target activated since the operation was created

vars == <<package, outcome, delivered>>

Outcomes == {"pending", "resolved", "rejected"}

Init == /\ package = <<>>
        /\ outcome = "rejected"
        /\ delivered = <<>>

\* A new operation; an empty package resolves at once.
Begin == /\ outcome # "pending"
         /\ package' \in Packages
         /\ outcome' = IF package' = <<>> THEN "resolved" ELSE "pending"
         /\ delivered' = <<>>

\* The target activates the next update of the package.
Deliver == /\ outcome = "pending"
           /\ Len(delivered) < Len(package)
           /\ delivered' = Append(delivered, package[Len(delivered) + 1])
           /\ \/ outcome' = "rejected"
              \/ outcome' = IF Len(delivered') = Len(package) THEN "resolved" ELSE "pending"
           /\ UNCHANGED package

Reject == /\ outcome = "pending"
          /\ outcome' = "rejected"
          /\ UNCHANGED <<package, delivered>>

Next == Begin \/ Deliver \/ Reject

Spec == Init /\ [][Next]_vars
=============================================================================
