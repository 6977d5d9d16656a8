------------------------- MODULE DfuTransportSerial -------------------------
(***************************************************************************)
(* The connection of DfuTransportSerial and DfuTransportUsbSerial: finding *)
(* and opening the port and setting up the target, which on USB goes away  *)
(* and comes back as another device.  The port is serialport's, opened by  *)
(* the transport.                                                          *)
(***************************************************************************)
EXTENDS DfuConnection

\* writeCommand begins with open().
Open(what) ==
    /\ goal' = what /\ tries' = 0 /\ UNCHANGED found
    /\ step' = IF port.open THEN "write" ELSE IF kind = "usb" THEN "find" ELSE "opening"

\* The operation's next request calls ready(), which begins with the PRN.
MtuFirst == "mtu"
PrnFirst == "prn"
SerialReady ==
    /\ kind # "ble" /\ step = "idle" /\ outcome = "pending"
    /\ \/ readyPromise = "none" /\ readyPromise' = "pending" /\ Open(PrnFirst)
       \/ readyPromise = "resolved" /\ Open("request") /\ UNCHANGED readyPromise
    /\ UNCHANGED <<kind, link, operation, target, faults>>

\* findPort(): a new port object each time.  Nothing catches a list() that rejects.
KeptListeners == listeners
NoListeners == 0
SameTry == tries
NextTry == tries + 1
GivesUpLate == tries > MaxTries
GivesUp == tries >= MaxTries
TryFindPort ==
    /\ step = "find"
    /\ \/ /\ attached /\ port' = [of |-> boot, open |-> FALSE] /\ listeners' = NoListeners
          /\ step' = "opening" /\ UNCHANGED <<tries, readyPromise, outcome, retries, faults>>
       \/ /\ ~attached /\ ~GivesUp /\ tries' = NextTry
          /\ UNCHANGED <<step, port, listeners, readyPromise, outcome, retries, faults>>
       \/ ~attached /\ GivesUp /\ Fail /\ UNCHANGED <<tries, port, listeners, faults>>
       \/ /\ Fault /\ step' = "unlisted"
          /\ UNCHANGED <<tries, port, listeners, readyPromise, outcome, retries>>
    /\ UNCHANGED <<kind, goal, found, reached, update, request, operations, target>>

\* open(): the port's callback, with a new decoder and one more listener, or with an error:
\* the port is in use, access is denied, the device is not there.
Opened ==
    /\ step = "opening"
    /\ \/ /\ Present /\ port' = [port EXCEPT !.open = TRUE] /\ listeners' = listeners + 1
          /\ step' = "write" /\ UNCHANGED <<readyPromise, outcome, retries, faults>>
       \/ CallbackFails /\ UNCHANGED <<port, listeners>>
    /\ UNCHANGED <<kind, goal, search, reached, update, request, operations, target>>

\* port.write(): what is written to a port that has gone is lost.  When the port's
\* buffer is full the transport waits for 'drained', which is not what it emits.
Write ==
    /\ kind # "ble" /\ step = "write" /\ step' \in {"read", "drain"}
    /\ reached' = IF port.open /\ Present THEN boot ELSE 0
    /\ UNCHANGED <<kind, readyPromise, goal, search, port, listeners, operation, target, faults>>

\* The answers ready() waits for: to the PRN, and to the MTU, which was the last.
SetUp ==
    /\ kind # "ble" /\ step = "read" /\ Here
    /\ prnSet' = (prnSet \/ goal = "prn")
    /\ \/ goal = "prn" /\ Open("mtu") /\ UNCHANGED readyPromise
       \/ goal = "mtu" /\ readyPromise' = "resolved" /\ Open("request")
    /\ UNCHANGED <<kind, link, operation, boot, attached, finished, faults>>

\* With a second listener on the port all data is decoded twice, into messages that are
\* none or into copies, which the next request takes for its answer.
AnsweredTwice ==
    /\ kind # "ble" /\ step = "read" /\ listeners > 1 /\ Fail
    /\ UNCHANGED <<kind, goal, search, link, update, request, operations, target, faults>>

\* waitForDisconnect(): closes the port, and does not look at the target.
WaitForDisconnect ==
    /\ step = "disconnect" /\ step' = "idle" /\ NextUpdate
    /\ port' = [port EXCEPT !.open = FALSE]
    /\ UNCHANGED <<kind, readyPromise, goal, search, listeners, reached, operations, target, faults>>

\* serialport notices that its device is gone; or a cable is unplugged for a while.
PortClosed ==
    /\ kind # "ble" /\ port.open /\ port' = [port EXCEPT !.open = FALSE]
    /\ \/ kind = "usb" /\ ~Present /\ UNCHANGED faults
       \/ kind = "serial" /\ Fault
    /\ UNCHANGED <<kind, readyPromise, step, goal, search, listeners, reached, operation, target>>
=============================================================================
