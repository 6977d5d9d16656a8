----------------------------- MODULE DfuTarget -----------------------------
(***************************************************************************)
(* The nRF bootloader at the far end of a DFU transport, as the library    *)
(* relies on it: the five requests documented at                           *)
(* src/src/DfuAbstractTransport.js:221-265, plus what the comments of      *)
(* sendPayload and restart say of them.  The firmware itself is not part   *)
(* of the repository, so everything here is external.                      *)
(*                                                                         *)
(* A payload is abstracted to its length and its origin.  The object of a  *)
(* type holds a number of bytes which are either the leading bytes of one  *)
(* image's payload or Garbled.  A CRC32 stands for the bytes it covers:    *)
(* two checksums agree exactly when the bytes do.                          *)
(***************************************************************************)
EXTENDS Integers

CONSTANTS
    Images,     \* the updates, each an { initPacket, firmwareImage } pair
    Garbled,    \* the origin of bytes that are no prefix of any image's payload
    Size,       \* Size[i][t]: bytes in the payload of type t of image i
    ChunkSize   \* ChunkSize[t]: the largest object of type t

Command == 1    \* init packet, "command object"
Data == 2       \* firmware image, "data object"
Types == {Command, Data}
None == 0       \* no object selected

ASSUME TargetAssumption ==
    /\ Garbled \notin Images
    /\ Size \in [Images -> [Types -> Nat \ {0}]]
    /\ ChunkSize \in [Types -> Nat \ {0}]

Contents == [len : Nat, src : Images \cup {Garbled}]
Blank == [len |-> 0, src |-> Garbled]

\* c is the first n bytes of image i's payload (of the type c is kept under).
Holds(c, i, n) == c.len = n /\ (n > 0 => c.src = i)

\* The object content after k more bytes of image i, read by the host from
\* offset at.  Bytes that were damaged on the way, or that follow others than
\* the host believes, leave a content that is no prefix of the image.
Appended(c, i, at, k, intact) ==
    IF k = 0 THEN c
    ELSE [len |-> c.len + k,
          src |-> IF intact /\ Holds(c, i, at) THEN i ELSE Garbled]

Targets == [stored    : [Types -> Contents],   \* all bytes received
            committed : [Types -> Contents],   \* bytes received at the last execute
            room      : [Types -> Nat],        \* bytes still free in the open object
            selected  : Types \cup {None}]

\* A bootloader with no DFU in progress.
Fresh == [stored    |-> [t \in Types |-> Blank],
          committed |-> [t \in Types |-> Blank],
          room      |-> [t \in Types |-> 0],
          selected  |-> None]

Selected(g, t) == [g EXCEPT !.selected = t]

\* Create: "Resets the progress since the last Execute command, and selects the
\* newly created object"; a command object starts the whole procedure over.
Created(g, t, n) ==
    IF t = Command
    THEN [Fresh EXCEPT !.room[Command] = n, !.selected = Command]
    ELSE [stored    |-> [g.stored EXCEPT ![t] = g.committed[t]],
          committed |-> g.committed,
          room      |-> [g.room EXCEPT ![t] = n],
          selected  |-> t]

\* Write: bytes reach the selected object, at most as many as it has room for.
Room(g) == IF g.selected = None THEN 0 ELSE g.room[g.selected]

Received(g, i, at, k, intact) ==
    IF k = 0 THEN g
    ELSE [stored    |-> [g.stored EXCEPT ![g.selected] = Appended(@, i, at, k, intact)],
          committed |-> g.committed,
          room      |-> [g.room EXCEPT ![g.selected] = @ - k],
          selected  |-> g.selected]

\* Execute: refused while the object is incomplete; "an extra exec command will
\* have no effect".
CanExecute(g) == g.selected # None /\ g.room[g.selected] = 0

\* The execute completes image i: its init packet is in force and the firmware
\* has its full length.
Completes(g, i) ==
    /\ g.selected = Data
    /\ Holds(g.committed[Command], i, Size[i][Command])
    /\ g.stored[Data].len = Size[i][Data]

\* After the last data object the target activates the image and starts over.
Executed(g) ==
    IF \E i \in Images : Completes(g, i) THEN Fresh
    ELSE [g EXCEPT !.committed[g.selected] = g.stored[g.selected]]

\* A restart of the target keeps what was executed, and maybe what was not.
Rebooted(g) ==
    { [g EXCEPT !.selected = None],
      [g EXCEPT !.selected = None, !.stored = g.committed, !.room = Fresh.room] }
=============================================================================
