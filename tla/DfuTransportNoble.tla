------------------------- MODULE DfuTransportNoble -------------------------
(***************************************************************************)
(* The connection of DfuTransportNoble: getCharacteristics, a chain of     *)
(* three callbacks, raced against 500 ms; subscribing to notifications;    *)
(* setting the PRN.  The race does not stop its loser: the chain goes on   *)
(* after the time is over.  noble and the peripheral are not part of the   *)
(* library: when the connection is lost a callback brings an error, or     *)
(* never comes.                                                            *)
(***************************************************************************)
EXTENDS DfuConnection

\* ready(), called by the operation's next request.
NobleReady ==
    /\ kind = "ble" /\ step = "idle" /\ outcome = "pending"
    /\ \/ /\ readyPromise = "none" /\ readyPromise' = "pending"
          /\ step' = "discover" /\ found' = "connect" /\ UNCHANGED goal
       \/ /\ readyPromise = "resolved" /\ step' = "write" /\ goal' = "request"
          /\ UNCHANGED <<readyPromise, found>>
    /\ UNCHANGED <<kind, tries, link, operation, target, faults>>

\* The next callback of getCharacteristics: connect, discoverServices,
\* discoverCharacteristics.  The last one resolves the race, if it is not over yet.
WhenFoundLate == IF readyPromise # "resolved" THEN "subscribe" ELSE step
WhenFound == IF step = "discover" THEN "subscribe" ELSE step
Discovered ==
    /\ \/ /\ found = "connect" /\ attached /\ found' = "services"
          /\ port' = [of |-> boot, open |-> TRUE] /\ UNCHANGED step
       \/ found = "services" /\ Present /\ found' = "characteristics" /\ UNCHANGED <<port, step>>
       \/ found = "characteristics" /\ Present /\ found' = "found" /\ step' = WhenFound /\ UNCHANGED port
    /\ UNCHANGED <<kind, readyPromise, goal, tries, listeners, reached, operation, target, faults>>

\* An error, or characteristics other than those of the DFU service.  The callback of
\* discoverServices takes the services apart before it looks at the error, and throws:
\* its promise never settles.
NotDiscovered ==
    /\ found \in {"connect", "services", "characteristics"} /\ found' = "failed" /\ Fault
    /\ IF step = "discover" /\ found # "services" THEN Fail
       ELSE UNCHANGED <<step, readyPromise, outcome, retries>>
    /\ UNCHANGED <<kind, goal, tries, link, update, request, operations, target>>

\* The 500 ms of the race are over.
RaceResolves == step' = "subscribe" /\ UNCHANGED <<readyPromise, outcome, retries>>
RaceRejects == Fail
RaceTimeout ==
    /\ step = "discover" /\ RaceRejects
    /\ UNCHANGED <<kind, goal, search, link, update, request, operations, target, faults>>

\* The connection is gone and the callback never comes.
NoCallback == ~Present /\ step' = "lost" /\ UNCHANGED <<readyPromise, outcome, retries, faults>>

Subscribe ==
    /\ step = "subscribe"
    /\ \/ /\ Present /\ listeners' = listeners + 1 /\ step' = "write"
          /\ UNCHANGED <<readyPromise, outcome, retries, faults>>
       \/ (CallbackFails \/ NoCallback) /\ UNCHANGED listeners
    /\ UNCHANGED <<kind, goal, search, port, reached, update, request, operations, target>>

\* writeCommand and writeData
NobleWrite ==
    /\ kind = "ble" /\ step = "write"
    /\ \/ /\ Present /\ step' = "read" /\ reached' = boot
          /\ UNCHANGED <<readyPromise, outcome, retries, faults>>
       \/ (CallbackFails \/ NoCallback) /\ reached' = 0
    /\ UNCHANGED <<kind, goal, search, port, listeners, update, request, operations, target>>

\* The answer to the PRN was the last ready() waits for.
NobleSetUp ==
    /\ kind = "ble" /\ step = "read" /\ goal = "prn" /\ Here
    /\ prnSet' = TRUE /\ readyPromise' = "resolved" /\ goal' = "request" /\ step' = "write"
    /\ UNCHANGED <<kind, search, link, operation, boot, attached, finished, faults>>

\* Out of reach; the peripheral stays as it is.
LinkLost ==
    /\ kind = "ble" /\ port.open /\ Fault
    /\ port' = [port EXCEPT !.open = FALSE]
    /\ UNCHANGED <<kind, readyPromise, step, goal, search, listeners, reached, operation, target>>
=============================================================================
