# A TLA+ model of pc-nrf-dfu-js

pc-nrf-dfu-js performs device firmware updates (DFU) of Nordic Semiconductor
devices from JavaScript. This directory holds TLA+ modules that model it, TLC
configurations that check them on small instances, and proofs for TLAPS.
Source lines are those of the files under `src/src/`.

## The system

| Part | State | Operations | Interacts with |
|---|---|---|---|
| `DfuOperation` | updates, transport, `finishPromise` | `start`, `performNextUpdate` | calls `restart`, `sendInitPacket`, `sendFirmwareImage` of a transport |
| `DfuAbstractTransport` | only the arguments of its recursive calls | `sendPayload`, `sendAndExecutePayloadChunk`, `sendPayloadChunk` | calls the five requests its subclasses implement |
| `DfuTransportPrn` | one stored packet, one waiting reader, PRN interval, MTU | the five requests, `writeObjectPiece`, `read`, `onData`, `parse`, `assertPacket` | calls `ready`, `writeCommand`, `writeData`; called back by `onData` |
| `util/slip` | decoder buffer, index, escape flag | `encode`, `decode` | bytes from the port in, `onMessage` out |
| `DfuTransportSerial` | port, decoder, `readyPromise` | `open`, `ready`, `writeCommand`, version queries | `serialport` |
| `DfuTransportUsbSerial` | serial number, port | `findPort`, `open`, `waitForDisconnect` | `serialport`, the operating system's port list |
| `DfuTransportSlowSerial` | delay, `maxMtu` | `onRawData`, `ready` | timers |
| `DfuTransportNoble` | peripheral, two characteristics, `readyPromise` | `getCharacteristics`, `ready`, `writeCommand`, `writeData` | `noble` |
| `DfuTransportSink` | offsets, checksums, sizes, selected type | the five requests | none, it is its own target |
| `util/crc32` | none | `crc32(bytes, previous)` | used by the transports |
| `DfuError` | tables of codes and messages | constructor, `getErrorMessage` | used everywhere |
| `DfuUpdates` | list of updates | `fromZipFile` and its helpers | JSZip, file system |
| the target | objects, what was executed | create, write, crc, execute, select | the far end of the link, not in the repository |

What is hard about it: every request can fail, be lost or be answered late, and
the library recovers by sending a chunk again, by rejecting and letting the user
try again, or by continuing a procedure that an earlier process began. What the
target kept of earlier attempts is only visible as an offset and a checksum.
Below the requests, answers and notifications arrive on one channel without a
number that would tell to which request they belong, and they meet a mailbox of
one packet and one reader.

### What makes each part correct

* Operation and transfer procedure: only bytes whose checksum agreed are executed,
  firmware only under its own init packet; updates are activated in order and
  `start()` resolves after the last; continuation does not lose what was
  executed; every operation ends; an operation without failures succeeds,
  whatever an earlier one left behind.
* PRN transport: a request is resolved with its own answer; a chunk is taken for
  complete only if the target holds it; the mailbox never holds both a packet and
  a reader; each request settles.
* SLIP: what is encoded is decoded to the same messages for every way the bytes
  are split; damage to the line stays local to the messages it hit.
* Sink: behaves like a target, so that an operation on it succeeds.
* Serial, USB and BLE connection: set up once per connection, again after the
  connection was lost; no message is delivered twice; what lost the race
  over BLE touches nothing any more; no write waits for ever.
* Version queries: they find the target's versions, do not disturb an operation
  that shares the transport, and each settles.
* Pieces of a chunk: none is longer than the target takes, each begins at a word
  of its flash, and the checksum that is carried from piece to piece is the
  target's exactly if the target has the bytes.
* Errors: whatever the target says becomes an error with a message.

## Modules

| Module | What it is |
|---|---|
| `DfuTarget` | the bootloader, as far as the library relies on it: pure operators on a record. External |
| `DfuDelivery` | abstract specification: what a `DfuOperation` promises its caller |
| `DfuTransfer` | `DfuOperation` and `DfuAbstractTransport` against the target |
| `DfuTransportPrn` | the requests of the PRN transports over a link without numbers, the mailbox, the timeout |
| `DfuRequests` | abstract specification: the requests of a PRN transport as `DfuAbstractTransport` sees them |
| `DfuTransportPieces` | how the bytes of a chunk get to the target: MTU, pieces, escaping, checksums |
| `Crc32` | the checksum itself, on words of four bytes |
| `DfuResponse` | what `parse()`, `assertPacket()` and `DfuError` make of a packet: pure operators |
| `DfuTransportVersions` | an operation and version queries that share a serial transport |
| `SlipDecoder` | SLIP encoder and decoder at the ends of a serial line |
| `DfuConnection` | what all connections have in common: the operation, `ready()` and its promise, a target that restarts |
| `DfuTransportSerial`, `DfuTransportNoble` | the steps of a serial or USB, and of a BLE connection |
| `DfuTransports` | the two composed with `DfuConnection`: next-state relation, fairness, properties |
| `DfuTransportSink` | operations on the sink |
| `MC*` | instances of these for TLC: payloads, packages, scenarios |
| `*Proofs` | inductive invariants and theorems of `DfuTransfer`, `DfuTransportPrn`, `DfuTransportPieces`, `DfuTransportVersions`, `DfuTransports`, `DfuTransportSink` and `SlipDecoder`; the last has two, `SlipDecoderProofs` and, for a damaged line, `SlipDamageProofs` |

The modules are layers: `DfuTransfer` takes a request for one step that succeeds,
fails or is refused; `DfuTransportPrn` opens the request up into command, pieces,
notifications and answer, with a connection that is set up, and implements
`DfuRequests`, where a request is one again; `DfuTransportPieces`
looks at the bytes of the pieces, `DfuTransportVersions` at the bytes of answers
and at a second caller; `DfuTransports` is the setting up of the connection;
`SlipDecoder` is how a message gets over a serial line.

### DfuTransfer

The code is a chain of promises; `pc` names the request whose promise the host is
waiting for, and an action is what happens when it is answered: the target's
step (`DfuTarget`) and all the code up to the next request.

| `pc` | Request | Action on success |
|---|---|---|
| `restart` | `createObject(1, 0x10)` of `restart()` | `Restart` |
| `select` | `selectObject(type)` | `Select`: create, write on, execute again, or reject |
| `finish` | `executeObject` at DfuAbstractTransport.js:107 | `Finish` |
| `boundary` | `executeObject` at :118 | `Boundary` |
| `create` | `createObject` at :143 or :167 | `Create` |
| `write` | `writeObject` at :183 | `Write(k, intact)`: the target receives k of the bytes |
| `crc` | `crcObject` at :186 | `Crc`: on to execute, or `Catch` |
| `recreate` | `createObject` in the catch at :212 | `Recreate` |
| `execute` | `executeObject` at :157 | `ExecuteChunk` |

`package`, `number`, `forceful` are the arguments of `performNextUpdate`; `type`,
`start`, `end`, `retries`, `crcSoFar`, `resumed` those of the functions of
`DfuAbstractTransport`. `crcSoFar` is kept as the number of leading bytes it
covers. `Fails` is the rejection of a request that the target performed or did
not perform; `Refused` an error response; `TargetReboots` and `HostStops` the
loss of either side. After a `HostStops` or an end of the operation `Start` begins
another one, with any package, on the target as it was left.

Abstractions: a payload is a length and an origin, and a checksum is the bytes it
covers, so CRC32 collisions do not exist here; how a transport comes to fail is
left to the modules of the transports.

The target is modelled as enforcing the size given to create: bytes beyond it
are not taken. What the firmware does is not visible in the repository beyond
the comments quoted in `DfuTarget`.

### DfuTransportPrn

`step` is where the request under way is: between `idle` and settled it is
`sending` (`writeObjectPiece`), `written` (the command is out, `read()` comes
next) or `reading` (the promise of `read()` is pending). `stored` is
`lastReceivedPacket`, `waiting` says that `waitingForPacket` is set. `Resolve` is
what follows on the promise of `read()`: `assertPacket`, the request's own
continuation, and what `DfuAbstractTransport` asks for next (`next`), which may be
several things because a user may start another operation or stop retrying. `Abort`
comes between requests; the code would let a user call `abort()` during one as well,
whose command is then behind that of the request.

`OnData` has its three cases: throw, wake the reader, store. The throw is a
packet that is gone; what it does to the decoder below is in `SlipDecoder`. Data
is a number of pieces, `good` tells whether the target's are those of the chunk.
An answer carries the `id` of its request; the code cannot see it, only `InStep`
uses it. Any error response is `ok = FALSE`: which error `parse` makes of it does
not change what happens.

`DfuRequests` has neither link nor mailbox: a request is asked for (`Ask`), performed
by the target (`Perform`, or `Write`, `Receive` and `Written` for the pieces of a
chunk) and answered with what the target has (`Succeed`). After a fault, or once the
target was sent away, `Astray` allows any outcome a request has, whatever the target
did, except that after one fault no chunk is verified that the target does not have.
`ServesRequests` is the refinement; `Phase` tells from `step` and the link how far a
request is.

### SlipDecoder

Both functions go byte by byte, as the code does. `Encode` begins `encode()`,
`EncodeByte` is one turn of its loop with the reallocation (`encoded` is what it
has written, `room` the length of its array, `taken` the bytes it has read), and
`Send` puts the result on the line. `OnRawData` begins a call of `decode()` with a
piece of any length, of which `left` bytes remain; `AddByte`, `Escape` and
`HandleEnd` are what it does with one byte. Bytes may be lost or changed on the
line (`Damage`), and neither that nor `Read` comes between the bytes of one call. A
scenario says which messages are sent, who takes them and how many bytes are
damaged. The consumer either takes everything or is the mailbox of
`DfuTransportPrn`, whose throw leaves the decoder in the middle of `handleEnd` and
drops the rest of the piece.

### DfuTransportPieces

`Ready` computes the MTU as `ready()` does: 20 over BLE, from the reported one
over a serial line, and the lesser of that and `maxMtu` with
`DfuTransportSlowSerial`. `WriteObjectPiece` is one call of `writeObjectPiece`: the
bytes on the wire with their escapes (`OnTheWire`), the checksum so far, and the
comparison when a notification is due. `Verify` is `crcObject` and the comparison
of `sendPayloadChunk`. `start` may lie anywhere in the payload, as the target's
offset may. `Checksum` is a constant: TLC takes `Crc32` for it, the proofs any
function that chains. Checksums are never compared with numbers, only with each
other and with 0.

### DfuResponse and DfuTransportVersions

`DfuResponse` translates the tables of `DfuError` to sets of codes. Where the code
reads a byte that the packet does not have, or the code of an error whose name
`ErrorCode` lacks (`ERROR_RSP_OPCODE_UNKNOWN`, `ERROR_EXT_ERROR_CODE_UNKNOWN`,
`ERROR_RSP_UNSUPPORTED_OBJECT_TYPE`), it gets `undefined`, here `Missing`; printing
it in hexadecimal throws.

In `DfuTransportVersions` two callers use the mailbox of `DfuTransportPrn`, each with
a `step` of its own: the operation, whose requests all look the same here, and the
version queries, which do not wait for `ready()`. `waiting` is whose callback is in
the mailbox; `garbled` marks a reader whose callback was taken by a packet on which
`parse()` throws. `Image` is what `getFirmwareVersion` makes of an answer and, if all
images were asked for, the next request of `getAllFirmwareVersions`.

### DfuConnection, DfuTransportSerial, DfuTransportNoble, DfuTransports

`step` is how far the current request is: looking for the port, opening it,
writing, waiting for 'drained', reading; over BLE discovering and subscribing.
`goal` is what it is for: the PRN or the MTU of `ready()`, or a request of the
operation, of which there are `Requests` in an update. The target is counted in
starts (`boot`): a USB port or a BLE connection belongs to one of them, and a
command reaches the one it was written to (`reached`) or none. `readyPromise` is
kept for the life of the transport, as in the code.

The callbacks of `getCharacteristics` (`found`) go on by themselves after the race
against 500 ms (`RaceTimeout`) is lost; `Discovered` only continues `ready()` when
it is still waiting. Three waits have no end in the code and are steps of their
own: `drain`, for an event that a serialport does not emit ('drained' instead of
'drain', DfuTransportSerial.js:83); `unlisted`, when `SerialPort.list()` rejects;
`lost`, when a callback of noble never comes. `Settles` excepts exactly these.

Opening a port may bring an error although the device is there (`CallbackFails`), and an
answer does not come through a port that was closed after the command (`Here`): the
request is left to its timeout. A serial port is one object for the life of the
transport, and each `open()` adds a listener to it, so that after it was lost once
data is decoded twice (DfuTransportSerial.js:122). `AnsweredTwice` is what becomes of
a request then; that a copy is taken for an answer of the same kind is left to
`DfuTransportPrn`, where answers are late. `OneListener` says only that nothing else
adds a listener.

`ready()` keeps its promise, also one that was rejected (`ReadyRejected`). No property
asks for that: `LoserStaysQuiet` speaks of the time during which it stays rejected,
so that a `ready()` that connects anew would satisfy it.

`WaitForDisconnect` closes the port and goes on: its comment speaks of a timeout of
5000 ms, but the code looks neither at the time nor at the target.

### DfuTransportSink

One action is one call of the sink and what `DfuAbstractTransport` does with its
result. Only the paths that exist with a sink are there: its `crcObject` never
resolves with a checksum, so `executeObject` after a chunk and a second retry are
out of reach. A rejected operation is followed by another on the same sink.

## Runs

All bounds are constants: `MaxFaults` counts failing requests, lost or damaged
packets and unforeseen restarts, `MaxStarts` and `MaxOperations` operations,
`MaxRequests` requests.

| Run | Shows |
|---|---|
| `transfer_procedure` | type invariant, `CommittedIntact`, `FirmwareUnderItsInitPacket`, `ContinuationKeepsProgress`, the refinement of `DfuDelivery` (`Delivers`), `Settles`, and `HealthyRunSucceeds`: three faults over three operations, enough for a fault in a first operation, one in its continuation and one in the retry |
| `transfer_refit` | violation of `RetryFitsItsObject` (finding 1) |
| `transfer_continue` | violation of `ContinuationSucceeds` (finding 2) |
| `prn_requests` | three pieces with a notification after the second, and without notifications; three faults over eight requests: `MailboxConsistent`, `VerifiedIsHeld`, `VerifiedWithNotifications`, `InStep`, the refinement of `DfuRequests` (`ServesRequests`), `RequestSettles` |
| `chunk` | every part of two payloads, six reported MTUs, three values of `maxMtu`, a piece lost or with a byte changed: `FitsTheWire`, `WordsAreWhole`, `ArrivedIsVerified`, `VerifiedIsReceived`, `ChecksumIsCrc32`, `ChunkEnds` |
| `callers` | an operation and version queries, up to two images of which one may be of a type nobody knows, a refusal with a name and one without, a packet lost, late or cut short: `ReaderKept`, `VersionsAreTheTargets`, `ErrorsAreNamed`, `CallersSettle` |
| `connection` | serial port, USB and BLE, two updates, two operations, three unforeseen restarts, errors, lost connections or ports that close or cannot be opened; ports are looked for three times instead of 51: `OneListener`, `SetUpFirst`, `FoundBeforeUse`, `LoserStaysQuiet`, `Settles` |
| `serial_setup` | violation of `SetUpAlways` (finding 5) |
| `slip_line` | `Transparent` for all pairs of messages of one or two bytes and longer ones, buffers starting at one byte, every split into pieces, and with the mailbox in turn; `Resynchronises` with one damaged byte in three messages |
| `slip_throw` | violation of `MessagesAreWhole` (finding 3) |
| `sink_again` | `TookAPrefix` and `SucceedsInTheEnd` over any number of operations, images of one to fifteen chunks |
| `sink_first` | violation of `FirstAttemptSucceeds` (finding 4) |

In `transfer_procedure` image `a` has two whole chunks of firmware and a part of a
third, `b` exactly one, so that both the boundary and the partial chunk occur;
`wide` has an init packet larger than the command object, which exhausts the
retries without any fault. Packages are empty, of one and of two images.

In `chunk` one payload is all bytes that must be escaped but two, and more than one
word, chunk boundaries anywhere; the other begins with four bytes whose CRC-32 is
0. The reported MTUs are those around which the MTU of the library changes: 0 and
11 give 0, 12 and 16 give 4, 21 gives 8, and 64 is more than a payload.

In `callers` a byte has four values, so that the index wraps within the bounds
(`Indices` has one beyond), which needs more images than `VersionsAssumption`
allows to go wrong: with 256 images or more, `getAllFirmwareVersions` would not end.

How many faults a verified chunk stands was found by raising the bounds, and by
proving. With one late or lost packet no stale checksum is accepted, whatever the
interval of notifications (`VerifiedIsHeld`). With two none is either if a
notification is due within the chunk (`VerifiedWithNotifications`, also with ten
requests). An interval longer than the chunk is like none: then, or with one more
fault, a stale checksum can be accepted, because an answer is known by its opcode
only. A chunk of one piece with an interval of two and two faults is the smallest
case, and was found when the proof of a stronger property failed. `prn_requests` has
the intervals 0 and 2; longer ones are left to the theorems.

In the same way `VersionsAreTheTargets` holds as long as the callers take turns: with
both at once, a query rejected by `ERROR_READ_CONFLICT` leaves an answer behind that
a later one takes for its own.

`ArrivedIsVerified` excepts what the code gets wrong: after a checksum of exactly 0
`crc32()` begins anew without inverting (crc32.js:101); and with an MTU of 0, which
a reported MTU below 12 gives, empty pieces are written for ever, or, if
notifications are on, until the checksum of an empty piece, 0, is carried on.
`WordsAreWhole` excepts a `maxMtu` that is not a multiple of 4.

`CHECK_DEADLOCK FALSE` everywhere: when the bounds are used up and the operation
has ended, or the scenario's messages have arrived, nothing is left to do.

### Fairness

`DfuTransfer` asks weak fairness of `HostStep`, the steps that a request answered or
refused makes possible. That the request is answered at all, or its promise
rejects, is what a transport has to provide (a read has a timeout of five seconds,
DfuTransportPrn.js:142). Nothing is assumed of faults, of the user, or of restarts.

In `DfuTransportPrn` and `DfuTransportVersions` the event loop runs callbacks and
timers, and a packet that is not lost is delivered (`WF` of `Read`, `OnData`,
`Timeout`, `WriteObjectPiece`, `TargetHandles`); a timeout is five seconds in which
nothing came, or an answer later than that, which counts as a fault. In
`DfuTransports` the host's callbacks and timers run and the target promises
nothing, nor do the callbacks of noble. In `DfuTransportPieces` the promises of the
operation go on: its `FairSpec` is `WF_vars(Next)` with `ENABLED Next` written out,
which TLC could only evaluate by computing all the checksums. In `DfuTransportSink`
everything runs, the user's next attempt included: `SucceedsInTheEnd` is about
starting again often enough.

## Proofs

`DfuTransferProofs` proves for every set of packages, every size of payloads and
chunks and any number of faults and operations what `transfer_procedure` checks:
`TypeCorrect`, `Intact`, `UnderItsInitPacket`, `KeepsProgress` and `Implementation`
(`Spec => Delivers`). They rest on `TransferAssumption` and `TargetAssumption`:
payloads and chunks are not empty, packages are sequences of images.

None of the properties is inductive. `IInv` adds

* `Sound`, of the target alone: what was executed is a prefix of what was
  received, and once a command object was executed no byte can be added to it
  (there is no room), so that the init packet in force stays the one that was
  checked;
* `InOrder`: while the operation runs, as many images were activated as updates are
  done;
* `Informed`: when an execute is under way and the target still has the object
  selected, the object holds exactly the bytes the host has in mind. If the target
  restarted since, nothing is selected and the execute is refused. When a command
  object is being sent, no firmware has been executed: if it had been, the select
  before would have found the complete init packet or rejected.

Each request of the target has a lemma (`CreatedSound`, `ReceivedSound`,
`ExecutedSound`, ...); `NextInv` has one step per action of `Next`; `DeliveryStep`
maps each to a step of `DfuDelivery` or a stutter.

The other proof modules have the same shape: a lemma for the initial states, one
for each action or a step per action, and the theorems from `Invariance`.

| Module | Theorems | What the invariant adds |
|---|---|---|
| `DfuTransportPrnProofs` | `TypeCorrect`, `OneReader` (`MailboxConsistent`), `KeepsInStep` (`InStep`), `VerifiedIsCurrent` (`VerifiedIsHeld`), `Implementation` (`ServesRequests`), for any number of pieces, interval, requests and faults | a piece is written only while one is left, and no more are counted than written; for `InStep`, the order in which commands, notifications and answers follow each other on the link, in the mailbox and at the target; for the last two, what one fault can leave over (below) |
| `DfuTransportPiecesProofs` | `TypeCorrect`, `Fitting` (`FitsTheWire`), `WholeWordsOnly` (`WordsAreWhole`), `NoFalseAlarm` (`ArrivedIsVerified`), `VerifiedChunks` (`VerifiedIsReceived`), for all payloads, reported MTUs and intervals | what the MTU is worth on the wire and in words; what host and target know as long as everything arrived; otherwise, that what arrived is shorter than what was sent or differs from it at no more places than were damaged |
| `DfuTransportVersionsProofs` | `TypeCorrect`, `ReadersAreKept` (`ReaderKept`), `RejectionsAreNamed` (`ErrorsAreNamed`), `ListsTheImages` (`VersionsAreTheTargets`), for any number of images, all refusals, and any number of requests and faults | only queries ask for versions; every packet on its way has a name as long as the target said nothing nameless; as long as the callers take turns and no packet was lost, late or short, at most one request or answer is under way, it is the one the reader waits for, and the list holds the images before it |
| `DfuTransportsProofs` | `TypeCorrect`, `ListenedOnce` (`OneListener`), `NotifiedFirst` (`SetUpFirst`), `Found` (`FoundBeforeUse`), `GivenUp` (`LoserStaysQuiet`), for any numbers of updates, requests, tries, operations and faults | which steps belong to which connection; when a port or a connection has a listener, and how many a serial port can have; how far discovery is; what was set up since the target started |
| `DfuTransportSinkProofs` | `TypeCorrect`, `Prefixes` (`TookAPrefix`), for all packages and chunk sizes | where a chunk lies in its image, and that the checksum it goes on from is that of the bytes before it or is refused |
| `SlipDecoderProofs` | `TypeCorrect`, `Unchanged` (`Transparent`), for all messages, sizes of the buffer and splits into pieces | as long as nothing was damaged: how far encoder and decoder are, and that the bytes between them lead the one to where the other is |
| `SlipDamageProofs` | `DamageIsLocal` (`Resynchronises`), for all messages, sizes of the buffer and splits, and any number of bytes lost or changed | behind which byte on the line an undamaged message begins, and whether the decoder is before it, in the first message after the damage, or behind the END of that one |

They rest on the assumptions about constants in the modules themselves, which TLC
evaluates on the runs. Those that are not about types:

* `ChainingAssumption`: a checksum that is not 0, carried on over the bytes that
  follow, is the checksum of all; for `Crc32` and both payloads of `chunk`.
* `DetectionAssumption`: as many damaged bytes as `MaxFaults` allows change the
  checksum. A CRC-32 finds out every single damaged byte; that it also does so
  across a checksum of 0, where `crc32()` begins anew, depends on the payload.
* `SizeAssumption`: no message comes near `maxMessageSize`, which is 10 MB, while the
  MTU is reported in two bytes.

For `VerifiedIsHeld` the invariant (`FaultInv`) must say what a lost or late packet
leaves behind, while there may be any number of pieces on the link. It looks ahead:
`Leads` says in which state the commands on their way will leave the target, and
which packets it will have sent then that the caller has not taken. With at most one
fault (`OneFault`) these are no more than the faults so far and the answer under
way, and `Lag` says for each step of a request which they can be. This is stable:
when the target handles a command, where the rest leads does not change
(`HandledLag`); when a command is sent, the way gets one step longer; when the
caller takes a packet, the way is the same without it (`LeadsRemoved`). When the
first fault loses a command, where the others lead follows from the order on a link
without faults (`LostAligned`, `LostLeaving`). Beside it `InOrder` says that packets
and commands are in the order of their requests and that a recent checksum of the
whole chunk tells the truth, `Verifying` that a verified chunk is one that is held,
and `Leaving` what holds of a target that is being sent away.
`VerifiedWithNotifications` would need the same with two leftovers at once.

For `ServesRequests` each action is mapped to a step of `DfuRequests` or to a
stutter: from `Aligned`, which holds as long as nothing went wrong, to the step of
the same request; with a fault, or after an abort, to `Astray`, whose only condition
is what `FaultInv` gives. One fact is added to the invariant (`AtTheEnd`): a
checksum is asked for only when all pieces were written.

For `SlipDecoder` a place in the messages (`At`) is a message, how many of its bytes
were decoded, and whether an ESC came before. `Follows` says which bytes may come at a
place, `Moved` where they take the decoder. The invariant is that the bytes encoded
so far lead from the beginning of the message to its byte `taken` (`Encoding`), and
those on the line from where the decoder is to the end of the last message sent
(`UnderWay`). So the encoding is never needed as a function of the whole message,
which would be a recursion, only what one byte becomes.

On a damaged line the decoder may be anywhere. `SlipDamageProofs` cuts what is on the
line behind each message from the last damaged one on (`Cut`): what follows the cut
leads a decoder that begins there to the end of what was sent. Up to the cut nothing
is known of the decoder (`Lost`). In the message after it (`Following`) its buffer may
hold bytes from before, but it has an ESC pending only where the encoder has one, so
that it does not miss the END of that message. From then on it is where an encoder
would be (`Found`), and the messages it has handed on since are those that were sent. Two conditions of `Resynchronises` are needed and not only
convenient: the consumer must take every message (finding 3), and the buffer must
not have reached `maxMessageSize`, as it may when lost ENDs merge messages
(slip.js:165-172: after that every byte is an overflow).

Model-checked only:

* the liveness properties (`Settles`, `HealthyRunSucceeds`, `RequestSettles`,
  `ChunkEnds`, `CallersSettle`, `SucceedsInTheEnd`);
* `ChecksumIsCrc32`: `Crc32` recurses over data and works on bits;
* `VerifiedWithNotifications`: the case of one fault is `VerifiedIsHeld`; with two the
  invariant would have to follow two leftover packets through the notifications.

## Findings

1. `transfer_refit`: the retry of a chunk continued in its middle creates an object
   too small for what it sends (DfuAbstractTransport.js:212 against :228 and :234).
   The retry after that fits, since `start` is the start of the block by then.
2. `transfer_continue`: interrupted right after `createObject` at a chunk boundary, a
   procedure cannot be continued: the re-sent execute (:118) finds an empty object
   and is refused, every time (comment at :110-115). Also without that, continuing
   at a boundary writes a chunk before an object was created for it (:126); the
   retry mends this at the price of a failed write.
3. `slip_throw`: `handleEnd` calls `onMessage` before it resets the buffer
   (slip.js:177-181); when the mailbox throws, the next message has the last one in
   front of it.
4. `sink_first`: an operation on a sink is rejected, because `crcObject` resolves
   with nothing (DfuTransportSink.js:99) and the retry's checksum does not match
   any more. Each further operation on the same sink gets one chunk further; a
   forceful one with an init packet of several chunks larger than 16 bytes does not.
5. `serial_setup`: `ready()` keeps its promise when the target restarts
   (DfuTransportSerial.js:140), so after the first update it is never told again to
   send notifications, which the host waits for. A promise that was rejected is kept in
   the same way: every later operation on the transport is rejected.

Seen while modelling, without a run of their own: the waits without end, the second
listener on a serial port that was reopened, and `waitForDisconnect`, after which
`sendFirmwareImage` resolves when "target has disconnected"
(DfuTransportUsbSerial.js:68-69), whether it has or not (see `DfuTransportSerial`
above), the undefined error codes (see `DfuResponse`), the checksum of 0, the MTU below 12 and the `maxMtu` that is not
rounded (see `chunk`), the index of one byte (see `callers`).

Most of these are listed as hazards without a property: the code goes wrong there, and
the properties nearby except exactly these cases instead of claiming that they are as
they should be.

## Plan

Done: the transfer procedure, the PRN transport, pieces and checksum, version
queries and errors, SLIP, the sink, and serial, USB and BLE connections, all
model-checked; proofs as above. Left:

1. Composition of `SlipDecoder` with `DfuTransportVersions`: what the throw in
   `onData` does to the bytes of two callers' answers.
2. `VerifiedWithNotifications` as a theorem.

## Not modelled

`DfuUpdates` (unpacking of zip files and JSON: input without a state of its own;
operations take its result as a constant) and `index.js` (exports); logging and the
texts of errors. Of the delay of `DfuTransportSlowSerial` only that it keeps the
order of the data: it is part of the line. What serialport, noble, the operating
system and the target do is modelled from how the library uses them.
