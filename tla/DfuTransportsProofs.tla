------------------------ MODULE DfuTransportsProofs ------------------------
(***************************************************************************)
(* What DfuTransports guarantees for every kind of transport, any number   *)
(* of updates, requests, tries and operations, and any number of failures. *)
(*                                                                         *)
(* Which callbacks can still come depends on where the transport is and on *)
(* what became of the promise of ready(); IInv ties step, goal and         *)
(* readyPromise together (UnderWay, ByKind), and to them the listeners     *)
(* (SerialListening, BleListening), what was discovered (Discovery) and    *)
(* what the first start of the target was told (Notified).                 *)
(***************************************************************************)
EXTENDS DfuTransports, TLAPS

\* The transport does something only for an operation that waits for it.
UnderWay ==
    /\ step # "idle" => outcome = "pending"
    /\ outcome = "pending" => update <= Updates
    /\ readyPromise \in {"none", "rejected"} => step = "idle"

\* Each connection has its own steps.
ByKind ==
    /\ step \in {"discover", "subscribe", "lost"} => kind = "ble"
    /\ step \in {"find", "opening", "drain", "unlisted"} => kind # "ble"
    /\ step = "disconnect" => kind = "usb"
    /\ found # "none" => kind = "ble"

\* A port is opened only when it is closed; a USB port is a new one then, a serial port has
\* the listeners of the times it was open before, each of which ended with a fault.
SerialListening ==
    /\ step \in {"find", "opening"} => ~port.open
    /\ kind = "usb" /\ step = "opening" => listeners = 0
    /\ kind = "usb" /\ port.open => listeners = 1
    /\ kind = "serial" => listeners <= faults + (IF port.open THEN 1 ELSE 0)
    /\ kind = "serial" /\ port.open => listeners >= 1

\* Subscribing happens once, after discovery and before the promise resolves.
BleListening ==
    kind = "ble" =>
        /\ listeners <= 1
        /\ step \in {"write", "read"} \/ readyPromise = "resolved" => listeners = 1
        /\ readyPromise = "none" \/ step \in {"discover", "subscribe"} => listeners = 0
        /\ goal = "request" <=> readyPromise = "resolved"
        /\ step \in {"discover", "subscribe"} => readyPromise = "pending"

Discovery ==
    kind = "ble" =>
        (step \in {"subscribe", "write", "read", "lost"} \/ readyPromise = "resolved" => found = "found")

\* The first start of the target was told the PRN before anything that follows it, and
\* so was the one a BLE connection belongs to.
Notified ==
    /\ boot >= 1
    /\ boot = 1 /\ (readyPromise = "resolved" \/ goal = "request") => prnSet
    /\ boot = 1 /\ kind # "ble" /\ readyPromise = "pending" /\ goal = "mtu" => prnSet
    /\ kind = "ble" /\ reached = boot => port.of = boot
    /\ kind = "ble" /\ port.of = boot /\ readyPromise = "resolved" => prnSet

IInv ==
    /\ TypeOK
    /\ UnderWay
    /\ ByKind
    /\ SerialListening
    /\ BleListening
    /\ Discovery
    /\ Notified

-----------------------------------------------------------------------------
\* A port, or a connection, as it is found, and as it is opened or closed.
LEMMA PortFound ==
    ASSUME NEW S, NEW n \in S, NEW b \in BOOLEAN
    PROVE  [of |-> n, open |-> b] \in [of : S, open : BOOLEAN]
OBVIOUS

LEMMA PortChanged ==
    ASSUME NEW S, NEW p \in [of : S, open : BOOLEAN], NEW b \in BOOLEAN
    PROVE  /\ [p EXCEPT !.open = b] \in [of : S, open : BOOLEAN]
           /\ [p EXCEPT !.open = b].open = b /\ [p EXCEPT !.open = b].of = p.of
OBVIOUS

\* More faults allow for more listeners.
LEMMA StillListening ==
    ASSUME SerialListening, UNCHANGED <<kind, step, port, listeners>>,
           listeners \in Nat, faults \in Nat, faults' \in Nat, faults' >= faults
    PROVE  SerialListening'
<1> DEFINE Of(p) == IF p.open THEN 1 ELSE 0
<1>1. kind = "serial" => listeners <= faults' + Of(port)
  <2> SUFFICES ASSUME kind = "serial" PROVE listeners <= faults' + Of(port)
    OBVIOUS
  <2>1. listeners <= faults + Of(port)
    BY DEF SerialListening
  <2> Of(port) \in {0, 1}
    OBVIOUS
  <2> HIDE DEF Of
  <2> QED BY <2>1
<1>2. port' = port /\ kind' = kind /\ step' = step /\ listeners' = listeners
  OBVIOUS
<1> QED BY <1>1, <1>2 DEF SerialListening

\* A new transport has done nothing.
LEMMA InitInv == Init => IInv
<1> SUFFICES ASSUME Init PROVE IInv
  OBVIOUS
<1>1. kind \in {"serial", "usb", "ble"}
  BY ConnectionAssumption DEF Init
<1>2. port \in [of : 0 .. boot, open : BOOLEAN] /\ ~port.open
  BY PortFound DEF Init
<1>3. update \in 1 .. Updates + 1 /\ request \in 1 .. Requests /\ retries \in 0 .. MaxRetries
  BY ConnectionAssumption DEF Init
<1>4. reached \in 0 .. boot /\ tries \in 0 .. MaxTries /\ boot \in Nat
  BY ConnectionAssumption DEF Init
<1>5. TypeOK
  BY <1>2, <1>3, <1>4 DEF Init, TypeOK, Steps
<1> QED
  BY <1>1, <1>2, <1>5, ConnectionAssumption
     DEF Init, IInv, UnderWay, ByKind, SerialListening, BleListening, Discovery, Notified

\* Every step preserves the invariant.
LEMMA Inductive == IInv /\ [Next]_vars => IInv'
<1> SUFFICES ASSUME IInv, [Next]_vars PROVE IInv'
  OBVIOUS
<1> USE ConnectionAssumption 
        DEF IInv, TypeOK, Steps, UnderWay, ByKind, SerialListening, BleListening, Discovery, Notified,
            search, link, operation, target
<1>1. CASE ReadyRejected
  BY <1>1 DEF ReadyRejected
<1>2. CASE SerialReady
  BY <1>2 DEF SerialReady, Open, PrnFirst
<1>3. CASE TryFindPort
  <2> [of |-> boot, open |-> FALSE] \in [of : 0 .. boot, open : BOOLEAN] /\ boot' = boot
    BY <1>3, PortFound DEF TryFindPort
  <2>1. port' \in [of : 0 .. boot', open : BOOLEAN]
    BY <1>3 DEF TryFindPort, Fail, Fault, NoListeners, NextTry, GivesUp
  <2>2. TypeOK'
    BY <1>3, <2>1 DEF TryFindPort, Fail, Fault, NoListeners, NextTry, GivesUp
  <2>3. UnderWay' /\ ByKind' /\ SerialListening'
    BY <1>3, <2>1 DEF TryFindPort, Fail, Fault, NoListeners, NextTry, GivesUp
  <2>4. BleListening' /\ Discovery' /\ Notified'
    BY <1>3, <2>1 DEF TryFindPort, Fail, Fault, NoListeners, NextTry, GivesUp
  <2> QED BY <2>2, <2>3, <2>4
<1>4. CASE Opened
  <2> /\ [port EXCEPT !.open = TRUE] \in [of : 0 .. boot, open : BOOLEAN] /\ boot' = boot
      /\ [port EXCEPT !.open = TRUE].open = TRUE /\ [port EXCEPT !.open = TRUE].of = port.of
    BY <1>4, PortChanged DEF Opened
  <2>1. port' \in [of : 0 .. boot', open : BOOLEAN]
    BY <1>4 DEF Opened
  <2>2. TypeOK'
    BY <1>4, <2>1 DEF Opened, Present, CallbackFails, Fail, Fault
  <2>3. UnderWay' /\ ByKind' /\ SerialListening'
    BY <1>4, <2>1 DEF Opened, Present, CallbackFails, Fail, Fault
  <2>4. BleListening' /\ Discovery' /\ Notified'
    BY <1>4, <2>1 DEF Opened, Present, CallbackFails, Fail, Fault
  <2> QED BY <2>2, <2>3, <2>4
<1>5. CASE Write
  BY <1>5 DEF Write, Present
<1>6. CASE SetUp
  <2>1. TypeOK'
    BY <1>6 DEF SetUp, Here, Open
  <2>2. UnderWay' /\ ByKind' /\ SerialListening'
    BY <1>6 DEF SetUp, Here, Open
  <2>3. BleListening' /\ Discovery' /\ Notified'
    BY <1>6 DEF SetUp, Here, Open
  <2> QED BY <2>1, <2>2, <2>3
<1>7. CASE WaitForDisconnect
  <2> /\ [port EXCEPT !.open = FALSE] \in [of : 0 .. boot, open : BOOLEAN] /\ boot' = boot
      /\ [port EXCEPT !.open = FALSE].open = FALSE /\ [port EXCEPT !.open = FALSE].of = port.of
    BY <1>7, PortChanged DEF WaitForDisconnect
  <2>1. port' \in [of : 0 .. boot', open : BOOLEAN]
    BY <1>7 DEF WaitForDisconnect
  <2>2. TypeOK'
    BY <1>7, <2>1 DEF WaitForDisconnect, NextUpdate
  <2>3. UnderWay' /\ ByKind' /\ SerialListening'
    BY <1>7, <2>1 DEF WaitForDisconnect, NextUpdate
  <2>4. BleListening' /\ Discovery' /\ Notified'
    BY <1>7, <2>1 DEF WaitForDisconnect, NextUpdate
  <2> QED BY <2>2, <2>3, <2>4
<1>8. CASE NobleReady
  BY <1>8 DEF NobleReady
<1>9. CASE RaceTimeout
  BY <1>9 DEF RaceTimeout, RaceRejects, Fail
<1>10. CASE Subscribe
  BY <1>10 DEF Subscribe, Present, CallbackFails, NoCallback, Fail, Fault
<1>11. CASE NobleWrite
  BY <1>11 DEF NobleWrite, Present, CallbackFails, NoCallback, Fail, Fault
<1>12. CASE NobleSetUp
  BY <1>12 DEF NobleSetUp, Here
<1>13. CASE Read
  <2>1. update' \in 1 .. Updates + 1 /\ request' \in 1 .. Requests /\ retries' \in 0 .. MaxRetries
    BY <1>13 DEF Read, Here, NextUpdate
  <2>2. finished' \in BOOLEAN /\ outcome' \in {"pending", "resolved", "rejected"} /\ step' \in Steps
    BY <1>13 DEF Read, Here, NextUpdate
  <2>3. TypeOK'
    BY <1>13, <2>1, <2>2 DEF Read, Here, NextUpdate
  <2>4. UnderWay' /\ ByKind' /\ SerialListening'
    BY <1>13, <2>1, <2>2 DEF Read, Here, NextUpdate
  <2>5. BleListening' /\ Discovery' /\ Notified'
    BY <1>13, <2>1, <2>2 DEF Read, Here, NextUpdate
  <2> QED BY <2>3, <2>4, <2>5
<1>14. CASE Timeout
  BY <1>14 DEF Timeout, Unanswered, Here, Fail
<1>15. CASE Start
  BY <1>15 DEF Start
<1>16. CASE Restart
  <2>1. boot' = boot + 1 /\ attached' \in BOOLEAN /\ prnSet' = FALSE /\ finished' = FALSE
        /\ reached' \in 0 .. boot'
    BY <1>16 DEF Restart
  <2>2. faults' \in Nat
    BY <1>16 DEF Restart, Fault
  <2>3. UNCHANGED <<kind, readyPromise, step, goal, search, port, listeners, operation>>
    BY <1>16 DEF Restart
  <2>4. TypeOK'
    <3>1. port' \in [of : 0 .. boot', open : BOOLEAN] /\ boot' \in Nat /\ listeners' \in Nat
      <4>1. port.of \in 0 .. boot' /\ port.open \in BOOLEAN /\ port = [of |-> port.of, open |-> port.open]
        BY <2>1
      <4> QED BY <4>1, <2>1, <2>3, PortFound
    <3>2. update' \in 1 .. Updates + 1 /\ request' \in 1 .. Requests
          /\ retries' \in 0 .. MaxRetries /\ tries' \in 0 .. MaxTries
      BY <2>3
    <3>3. operations' \in Nat /\ outcome' \in {"pending", "resolved", "rejected"}
      BY <2>3
    <3> QED BY <2>1, <2>2, <2>3, <3>1, <3>2, <3>3
  <2>5. UnderWay' /\ ByKind' /\ SerialListening'
    <3>1. UnderWay' /\ ByKind'
      BY <2>3
    <3>2. faults' >= faults
      BY <1>16 DEF Restart, Fault
    <3>3. SerialListening'
      BY <3>2, <2>2, <2>3, StillListening
    <3> QED BY <3>1, <3>3
  <2>6. BleListening' /\ Discovery' /\ Notified'
    BY <1>16, <2>1, <2>2, <2>3 DEF Restart, Fault
  <2> QED BY <2>4, <2>5, <2>6
<1>17. CASE Attach
  BY <1>17 DEF Attach
<1>18. CASE PortClosed
  <2> /\ [port EXCEPT !.open = FALSE] \in [of : 0 .. boot, open : BOOLEAN] /\ boot' = boot
      /\ [port EXCEPT !.open = FALSE].open = FALSE /\ [port EXCEPT !.open = FALSE].of = port.of
    BY <1>18, PortChanged DEF PortClosed
  <2>1. port' \in [of : 0 .. boot', open : BOOLEAN]
    BY <1>18 DEF PortClosed
  <2>2. TypeOK'
    BY <1>18, <2>1 DEF PortClosed, Present, Fault
  <2>3. UnderWay' /\ ByKind'
    BY <1>18 DEF PortClosed
  <2>4. SerialListening'
    <3>1. kind \in {"usb", "serial"} /\ ~port'.open
      BY <1>18 DEF PortClosed
    <3>2. step' = step /\ kind' = kind /\ listeners' = listeners
      BY <1>18 DEF PortClosed
    <3>3. kind = "serial" => faults' = faults + 1
      BY <1>18 DEF PortClosed, Fault
    <3>4. kind = "serial" => listeners <= faults + 1
      OBVIOUS
    <3>5. kind = "usb" => step # "opening"
      BY <1>18 DEF PortClosed
    <3> QED BY <3>1, <3>2, <3>3, <3>4, <3>5
  <2>5. BleListening' /\ Discovery' /\ Notified'
    BY <1>18, <2>1 DEF PortClosed, Present, Fault
  <2> QED BY <2>2, <2>3, <2>4, <2>5
<1>19. CASE Discovered
  <2> [of |-> boot, open |-> TRUE] \in [of : 0 .. boot, open : BOOLEAN] /\ boot' = boot
    BY <1>19, PortFound DEF Discovered
  <2>1. port' \in [of : 0 .. boot', open : BOOLEAN]
    BY <1>19 DEF Discovered
  <2>2. TypeOK'
    BY <1>19, <2>1 DEF Discovered, WhenFound, Present
  <2>3. UnderWay' /\ ByKind' /\ SerialListening'
    BY <1>19, <2>1 DEF Discovered, WhenFound, Present
  <2>4. BleListening' /\ Discovery' /\ Notified'
    BY <1>19, <2>1 DEF Discovered, WhenFound, Present
  <2> QED BY <2>2, <2>3, <2>4
<1>20. CASE NotDiscovered
  BY <1>20 DEF NotDiscovered, Fail, Fault
<1>21. CASE LinkLost
  <2> /\ [port EXCEPT !.open = FALSE] \in [of : 0 .. boot, open : BOOLEAN] /\ boot' = boot
      /\ [port EXCEPT !.open = FALSE].open = FALSE /\ [port EXCEPT !.open = FALSE].of = port.of
    BY <1>21, PortChanged DEF LinkLost
  <2>1. port' \in [of : 0 .. boot', open : BOOLEAN]
    BY <1>21 DEF LinkLost
  <2>2. TypeOK'
    BY <1>21, <2>1 DEF LinkLost, Fault
  <2>3. UnderWay' /\ ByKind' /\ SerialListening'
    BY <1>21, <2>1 DEF LinkLost, Fault
  <2>4. BleListening' /\ Discovery' /\ Notified'
    BY <1>21, <2>1 DEF LinkLost, Fault
  <2> QED BY <2>2, <2>3, <2>4
<1>22. CASE AnsweredTwice
  BY <1>22 DEF AnsweredTwice, Fail
<1>23. CASE UNCHANGED vars
  BY <1>23 DEF vars
<1> QED BY <1>1, <1>2, <1>3, <1>4, <1>5, <1>6, <1>7, <1>8, <1>9, <1>10, <1>11,
           <1>12, <1>13, <1>14, <1>15, <1>16, <1>17, <1>18, <1>19, <1>20, <1>21, <1>22, <1>23
        DEF Next, HostStep

\* The inductive invariant, from which the properties follow.
THEOREM Invariance == Spec => []IInv
BY InitInv, Inductive, PTL DEF Spec

\* Every variable keeps its type: the search for the port and the retries of a request
\* are bounded, and the place in the package is one (DfuTransportUsbSerial.js:80-103).
THEOREM TypeCorrect == Spec => []TypeOK
BY Invariance, PTL DEF IInv

\* However often ports and connections come and go, an open USB port or BLE connection has
\* one listener; a serial port, which is opened again after it was lost, has at most one
\* more for each time (DfuTransportSerial.js:101-125, DfuTransportUsbSerial.js:107-116,
\* DfuTransportNoble.js:174-189).
THEOREM ListenedOnce == Spec => []OneListener
<1>1. IInv => OneListener
  BY DEF IInv, TypeOK, SerialListening, BleListening, OneListener
<1> QED BY <1>1, Invariance, PTL

\* No request gets to the first start of the target, or over BLE to any, before the
\* notifications were set up (DfuTransportSerial.js:139-152, DfuTransportNoble.js:190-199).
THEOREM NotifiedFirst == Spec => []SetUpFirst
<1>1. IInv => SetUpFirst
  BY DEF IInv, BleListening, Notified, SetUpFirst
<1> QED BY <1>1, Invariance, PTL

\* Characteristics are used only when both were found, however late the callbacks and the
\* timer of the race are (DfuTransportNoble.js:159-173).
THEOREM Found == Spec => []FoundBeforeUse
<1>1. IInv => FoundBeforeUse
  BY DEF IInv, Discovery, FoundBeforeUse
<1> QED BY <1>1, Invariance, PTL

\* As long as ready() stays rejected nothing is subscribed to or written, although the
\* chain of callbacks that lost the race goes on (DfuTransportNoble.js:154-173).
THEOREM GivenUp == Spec => LoserStaysQuiet
<1> DEFINE Quiet == kind = "ble" /\ readyPromise = "rejected" /\ readyPromise' = "rejected"
                      => UNCHANGED <<listeners, reached>>
<1>1. IInv /\ [Next]_vars => [Quiet]_vars
  <2> SUFFICES ASSUME IInv, Next, kind = "ble", readyPromise = "rejected"
               PROVE  UNCHANGED <<listeners, reached>>
    OBVIOUS
  <2>1. step = "idle"
    BY DEF IInv, UnderWay
  <2>2. CASE ReadyRejected \/ Start \/ Restart \/ Attach
    BY <2>2 DEF ReadyRejected, Start, Restart, Attach, link
  <2>3. CASE PortClosed \/ LinkLost \/ Discovered
    BY <2>3 DEF PortClosed, LinkLost, Discovered
  <2>4. CASE NotDiscovered
    BY <2>4 DEF NotDiscovered, link
  <2> QED BY <2>1, <2>2, <2>3, <2>4
          DEF Next, HostStep, SerialReady, TryFindPort, Opened, Write, SetUp, AnsweredTwice, WaitForDisconnect,
              NobleReady, RaceTimeout, Subscribe, NobleWrite, NobleSetUp, Read, Timeout
<1> QED BY <1>1, Invariance, PTL DEF Spec, LoserStaysQuiet
=============================================================================
