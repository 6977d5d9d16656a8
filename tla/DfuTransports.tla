--------------------------- MODULE DfuTransports ---------------------------
(***************************************************************************)
(* An operation over any of the transports that connect to a target:       *)
(* serial port, USB and Bluetooth Low Energy.                              *)
(***************************************************************************)
EXTENDS DfuTransportSerial, DfuTransportNoble

\* What the host's event loop runs: callbacks of serialport, the operating system and
\* noble that are due, answers, and timers.
HostStep ==
    \/ ReadyRejected \/ SerialReady \/ TryFindPort \/ Opened \/ Write \/ SetUp
    \/ AnsweredTwice \/ WaitForDisconnect
    \/ NobleReady \/ RaceTimeout \/ Subscribe \/ NobleWrite \/ NobleSetUp
    \/ Read \/ Timeout

Next ==
    \/ HostStep \/ Start \/ Restart \/ Attach
    \/ PortClosed \/ Discovered \/ NotDiscovered \/ LinkLost

Spec == Init /\ [][Next]_vars

\* Callbacks and timers of the host run; the target promises nothing.
FairSpec == Spec /\ WF_vars(HostStep)

-----------------------------------------------------------------------------
Steps == {"idle", "find", "opening", "write", "drain", "read", "disconnect", "unlisted",
          "discover", "subscribe", "lost"}

TypeOK ==
    /\ kind \in Kinds /\ readyPromise \in {"none", "pending", "resolved", "rejected"}
    /\ step \in Steps /\ goal \in {"prn", "mtu", "request"} /\ tries \in 0 .. MaxTries
    /\ found \in {"none", "connect", "services", "characteristics", "found", "failed"}
    /\ port \in [of : 0 .. boot, open : BOOLEAN] /\ listeners \in Nat /\ reached \in 0 .. boot
    /\ update \in 1 .. Updates + 1 /\ request \in 1 .. Requests /\ retries \in 0 .. MaxRetries
    /\ operations \in Nat /\ outcome \in {"pending", "resolved", "rejected"}
    /\ boot \in Nat /\ attached \in BOOLEAN /\ prnSet \in BOOLEAN /\ finished \in BOOLEAN
    /\ faults \in Nat

\* Data is taken once: an open USB port has one listener, however often the device went
\* away and the port was found and opened again.  A serial port is the same object for
\* the life of the transport: it gets one more for each time it was lost, and no other.
\* A command over BLE is not sent before notifications have a listener, which is the only
\* one (DfuTransportSerial.js:101-125,
\* DfuTransportUsbSerial.js:107-116, DfuTransportNoble.js:174-189).
OneListener ==
    /\ kind = "usb" /\ port.open => listeners = 1
    /\ kind = "serial" /\ port.open => listeners \in 1 .. faults + 1
    /\ kind = "ble" => listeners <= 1 /\ (step \in {"write", "read"} => listeners = 1)

\* No request gets to a target before the notifications were set up: on a serial line as
\* long as the target did not restart (see SetUpAlways), over BLE for every start of the
\* target, as a connection does not outlive it (DfuTransportSerial.js:139-152,
\* DfuTransportNoble.js:190-199).
SetUpFirst ==
    step = "read" /\ goal = "request" /\ reached = boot /\ (boot = 1 \/ kind = "ble") => prnSet

\* The characteristics are not used before both were found, whatever the order in which
\* the callbacks and the timer of the race come (DfuTransportNoble.js:159-173).
FoundBeforeUse == kind = "ble" /\ step \in {"subscribe", "write", "read", "lost"} => found = "found"

\* The race of getCharacteristics against its timer does not stop the loser: it may still
\* connect and find what it looked for, but as long as ready() stays rejected nothing is
\* subscribed to or written (DfuTransportNoble.js:154-173).
LoserStaysQuiet ==
    [][kind = "ble" /\ readyPromise = "rejected" /\ readyPromise' = "rejected"
       => UNCHANGED <<listeners, reached>>]_vars

\* Every operation comes to an end whatever happens to port and target: the port is not
\* looked for for ever, one that cannot be opened is an error, discovery has its 500 ms
\* also if one of its promises never settles, and no request waits for ever for a target
\* that has gone or for an answer through a port that was closed.  Three waits have no
\* end: for 'drained' when the port's buffer was full, for a list of ports that was
\* rejected, and for a callback of noble when the connection is gone after discovery
\* (DfuTransportUsbSerial.js:80-103, DfuTransportSerial.js:109-112,
\* DfuTransportNoble.js:159-167, DfuTransportPrn.js:142-147).
Settles == outcome = "pending" ~> outcome # "pending" \/ step \in {"drain", "unlisted", "lost"}

-----------------------------------------------------------------------------
(* What the comments say and the code does not do.                         *)

\* "Re-initialize connection if needed, including - Set up PRN",
\* DfuTransportPrn.js:108-109: a request never reaches a target without it.
SetUpAlways ==
    step = "read" /\ goal = "request" /\ reached = boot => prnSet
=============================================================================
