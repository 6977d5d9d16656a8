--------------------------- MODULE DfuConnection ---------------------------
(***************************************************************************)
(* What the connections of all transports with a target have in common: an *)
(* operation that sends requests, each of which waits for ready(); the     *)
(* promise of ready(), kept for the life of the transport; and a target    *)
(* that restarts after each update, or for no reason.                      *)
(*                                                                         *)
(* The requests of an operation are counted only; what they carry is in    *)
(* DfuTransfer, and answers that come late are in DfuTransportPrn.         *)
(***************************************************************************)
EXTENDS Integers

CONSTANTS
    Kinds,          \* of transports: "serial", "usb", "ble"
    Updates,        \* in the package
    Requests,       \* of an update; the last one completes the firmware
    MaxTries,       \* of findPort after the first: 50
    MaxRetries,     \* bound: failed requests the procedure tries again
    MaxOperations,  \* bound: operations on the transport
    MaxFaults       \* bound: unforeseen restarts, errors and lost connections

ASSUME ConnectionAssumption ==
    /\ Kinds \subseteq {"serial", "usb", "ble"}
    /\ Updates \in Nat \ {0} /\ Requests \in Nat \ {0} /\ MaxTries \in Nat
    /\ MaxRetries \in Nat /\ MaxOperations \in Nat /\ MaxFaults \in Nat

VARIABLES
    kind,           \* of the transport
    readyPromise, step, goal,   \* of the transport; goal is what step is for
    tries,          \* of findPort
    found,          \* how far getCharacteristics is
    port,           \* port or BLE connection: to which start of the target, and isOpen
    listeners,      \* to 'data' of the port or of the control characteristic
    reached,        \* the start of the target the last command reached, or 0
    update, request, retries, operations, outcome,  \* the operation
    boot, attached, prnSet, finished,   \* the target: how often it started, ...
    faults

search == <<tries, found>>
link == <<port, listeners, reached>>
operation == <<update, request, retries, operations, outcome>>
target == <<boot, attached, prnSet, finished>>
vars == <<kind, readyPromise, step, goal, search, link, operation, target, faults>>

Init ==
    /\ kind \in Kinds /\ readyPromise = "none" /\ step = "idle" /\ goal = "prn"
    /\ tries = 0 /\ found = "none"
    /\ port = [of |-> 0, open |-> FALSE] /\ listeners = 0 /\ reached = 0
    /\ update = 1 /\ request = 1 /\ retries = 0 /\ operations = 1 /\ outcome = "pending"
    /\ boot = 1 /\ attached = TRUE /\ prnSet = FALSE /\ finished = FALSE /\ faults = 0

Fault == faults < MaxFaults /\ faults' = faults + 1

-----------------------------------------------------------------------------
(* The operation and its requests                                          *)

\* The target that is connected: a USB port or a BLE connection goes with the start of
\* the target it belongs to.
Present ==
    /\ attached
    /\ kind # "serial" => port.of = boot
    /\ kind = "ble" => port.open

\* A request of the operation, or setting up the target for it, has failed.
Fail ==
    /\ step' = "idle"
    /\ IF goal # "request" THEN readyPromise' = "rejected" /\ outcome' = "rejected" /\ UNCHANGED retries
       ELSE /\ UNCHANGED readyPromise
            /\ \/ retries < MaxRetries /\ retries' = retries + 1 /\ UNCHANGED outcome
               \/ outcome' = "rejected" /\ UNCHANGED retries

\* A callback brings an error; it may do so when all is well, too.
CallbackFails ==
    /\ IF Present THEN Fault ELSE UNCHANGED faults
    /\ Fail

\* ready() was rejected, and so is whatever asks for it again.
ReadyRejected ==
    /\ step = "idle" /\ outcome = "pending" /\ readyPromise = "rejected"
    /\ outcome' = "rejected"
    /\ UNCHANGED <<kind, readyPromise, step, goal, search, link, update, request, retries,
                   operations, target, faults>>

\* The target that got the command is there still, and what it sends gets to the host:
\* not through a port that was closed in between.
Here == reached = boot /\ attached /\ port.open

\* Some requests wait for notifications, which a target that was not told about them
\* does not send.
Unanswered == ~Here \/ (goal = "request" /\ ~prnSet)

\* performNextUpdate
NextUpdate ==
    /\ update' = update + 1 /\ request' = 1 /\ retries' = 0
    /\ outcome' = IF update = Updates THEN "resolved" ELSE "pending"

\* The answer to a request of the operation; on USB the firmware is not sent before
\* waitForDisconnect() is over.
Read ==
    /\ step = "read" /\ goal = "request" /\ Here
    /\ \/ /\ request < Requests /\ request' = request + 1 /\ retries' = 0
          /\ step' = "idle" /\ UNCHANGED <<update, outcome, finished>>
       \/ /\ request = Requests /\ finished' = TRUE
          /\ IF kind = "usb"
             THEN step' = "disconnect" /\ UNCHANGED <<update, request, retries, outcome>>
             ELSE step' = "idle" /\ NextUpdate
    /\ UNCHANGED <<kind, readyPromise, goal, search, link, operations, boot, attached, prnSet, faults>>

Timeout ==
    /\ step = "read" /\ Unanswered /\ Fail
    /\ UNCHANGED <<kind, goal, search, link, update, request, operations, target, faults>>

\* Another operation on the same transport after one that failed.
Start ==
    /\ outcome = "rejected" /\ operations < MaxOperations
    /\ operations' = operations + 1 /\ outcome' = "pending"
    /\ update' = 1 /\ request' = 1 /\ retries' = 0
    /\ UNCHANGED <<kind, readyPromise, step, goal, search, link, target, faults>>

-----------------------------------------------------------------------------
(* The target, which is not part of the library.                           *)

\* With its firmware complete, or for no reason, the target starts anew.
Restart ==
    /\ attached /\ boot' = boot + 1 /\ prnSet' = FALSE /\ finished' = FALSE /\ attached' = (kind # "usb")
    /\ \/ finished /\ UNCHANGED faults
       \/ ~finished /\ Fault
    /\ UNCHANGED <<kind, readyPromise, step, goal, search, link, operation>>

Attach ==
    /\ ~attached /\ attached' = TRUE
    /\ UNCHANGED <<kind, readyPromise, step, goal, search, link, operation, boot, prnSet, finished, faults>>
=============================================================================
