------------------------- MODULE DfuTransferProofs -------------------------
(***************************************************************************)
(* What DfuTransfer guarantees for every set of packages and images, every *)
(* payload and chunk size and any number of failures.                      *)
(*                                                                         *)
(* The safety properties speak of what the target has executed, and        *)
(* nothing in them says why the next execute is harmless.  IInv adds that: *)
(* an execute is only under way when offset and checksum agreed (Informed),*)
(* bytes received since cannot have reached an executed command object     *)
(* (Sound), and the place in the package follows what was installed        *)
(* (InOrder).                                                              *)
(***************************************************************************)
EXTENDS DfuTransfer, TLAPS

\* What holds of the target g alone.
Sound(g) ==
    /\ \A t \in Types : LET c == g.committed[t] IN
         c.len > 0 => c.src \in Images /\ c.len <= Size[c.src][t]
    /\ \A t \in Types : g.committed[t].len <= g.stored[t].len
    /\ g.committed[Command].len > 0 =>
         g.stored[Command] = g.committed[Command] /\ g.room[Command] = 0
    /\ g.committed[Data].len > 0 =>
         LET i == g.committed[Data].src IN
         i \in Images /\ Holds(g.committed[Command], i, Size[i][Command])

Sending == {"create", "write", "crc", "execute", "recreate"}

\* The place of the operation in its package.
InOrder ==
    /\ pc = "restart" => forceful /\ type = Command
    /\ Running => number < Len(package) /\ Len(installed) = number

\* What the host knows of the target.
Informed ==
    /\ Running /\ type = Data => Holds(target.committed[Command], Image, Size[Image][Command])
    /\ pc \in Sending \cup {"finish", "boundary"} => target.selected \in {None, type}
    /\ pc \in Sending => start <= end /\ end <= PayloadSize
    /\ pc \in Sending /\ type = Command => target.committed[Data].len = 0
    /\ target.selected = type =>
         /\ pc = "execute" => Holds(target.stored[type], Image, end)
         /\ pc = "finish" => Holds(target.stored[type], Image, PayloadSize)
         /\ pc = "boundary" => /\ target.stored[type].len < PayloadSize
                               /\ Holds(target.stored[type], Image, target.stored[type].len)

IInv ==
    /\ TypeOK
    /\ Sound(target)
    /\ installed \in Seq(Images)
    /\ InOrder
    /\ Informed

-----------------------------------------------------------------------------
(* The requests, on a sound target.                                        *)

\* A bootloader with no DFU in progress is sound.
LEMMA FreshSound == Fresh \in Targets /\ Sound(Fresh)
BY TargetAssumption DEF Fresh, Targets, Contents, Blank, Types, None, Command, Data, Sound

\* Create leaves what was executed alone, or starts over.
LEMMA CreatedSound ==
    ASSUME NEW g \in Targets, Sound(g), NEW t \in Types, NEW n \in Nat
    PROVE  /\ Created(g, t, n) \in Targets
           /\ Sound(Created(g, t, n))
           /\ Created(g, t, n).selected = t
           /\ t = Data => Created(g, t, n).committed = g.committed
           /\ t = Command => Created(g, t, n).committed[Data].len = 0
<1> DEFINE h == Created(g, t, n)
<1>1. CASE t = Command
  <2>1. h = [stored |-> Fresh.stored, committed |-> Fresh.committed,
             room |-> [Fresh.room EXCEPT ![Command] = n], selected |-> Command]
    BY <1>1 DEF Created, Fresh
  <2>2. h.stored = Fresh.stored /\ h.committed = Fresh.committed /\ h.selected = Command
    BY <2>1
  <2>3. h \in Targets
    BY <2>1, FreshSound DEF Targets, Types
  <2>4. Sound(h) /\ h.committed[Data].len = 0
    BY <2>2 DEF Fresh, Blank, Sound, Types, Command, Data
  <2> QED BY <1>1, <2>2, <2>3, <2>4 DEF Command, Data
<1>2. CASE t = Data
  <2>1. h = [stored |-> [g.stored EXCEPT ![Data] = g.committed[Data]],
             committed |-> g.committed,
             room |-> [g.room EXCEPT ![Data] = n], selected |-> Data]
    BY <1>2 DEF Created, Command, Data
  <2>2. /\ h.stored = [g.stored EXCEPT ![Data] = g.committed[Data]]
        /\ h.committed = g.committed
        /\ h.room = [g.room EXCEPT ![Data] = n]
        /\ h.selected = Data
    BY <2>1
  <2>3. h \in Targets
    BY <2>1 DEF Targets, Types
  <2>4. Sound(h)
    BY <2>2 DEF Sound, Targets, Contents, Types, Command, Data
  <2> QED BY <1>2, <2>2, <2>3, <2>4 DEF Command, Data
<1> QED BY <1>1, <1>2 DEF Types

\* Select changes nothing but the selection.
LEMMA SelectedSound ==
    ASSUME NEW g \in Targets, Sound(g), NEW t \in Types
    PROVE  /\ Selected(g, t) \in Targets
           /\ Sound(Selected(g, t))
           /\ Selected(g, t).committed = g.committed
           /\ Selected(g, t).stored = g.stored
           /\ Selected(g, t).selected = t
<1>1. Selected(g, t) = [stored |-> g.stored, committed |-> g.committed,
                        room |-> g.room, selected |-> t]
  BY DEF Selected, Targets
<1>2. Selected(g, t) \in Targets
  BY <1>1 DEF Targets
<1>3. /\ Selected(g, t).stored = g.stored /\ Selected(g, t).committed = g.committed
      /\ Selected(g, t).room = g.room /\ Selected(g, t).selected = t
  BY <1>1
<1> QED BY <1>2, <1>3 DEF Sound

\* Bytes written never reach what was executed.
LEMMA ReceivedSound ==
    ASSUME NEW g \in Targets, Sound(g), NEW i \in Images, NEW at \in Nat,
           NEW k \in Nat, NEW intact \in BOOLEAN, k <= Room(g)
    PROVE  /\ Received(g, i, at, k, intact) \in Targets
           /\ Sound(Received(g, i, at, k, intact))
           /\ Received(g, i, at, k, intact).committed = g.committed
           /\ Received(g, i, at, k, intact).selected = g.selected
<1>1. CASE k = 0
  BY <1>1 DEF Received
<1>2. CASE k > 0
  <2> DEFINE c == Appended(g.stored[g.selected], i, at, k, intact)
  <2>1. g.selected \in Types /\ g.room[g.selected] >= k
    BY <1>2 DEF Room, Targets, Types, None, Command, Data
  <2>2. c \in Contents /\ c.len = g.stored[g.selected].len + k
    BY <1>2, <2>1 DEF Appended, Targets, Contents
  <2> DEFINE h == Received(g, i, at, k, intact)
             r == g.room[g.selected] - k
  <2>3. h = [stored |-> [g.stored EXCEPT ![g.selected] = c],
             committed |-> g.committed,
             room |-> [g.room EXCEPT ![g.selected] = r],
             selected |-> g.selected]
    BY <1>2 DEF Received
  <2>4. g.selected = Command => g.committed[Command].len = 0
    BY <1>2, <2>1 DEF Sound, Targets, Types, Contents, Command
  <2>5. r \in Nat
    BY <2>1 DEF Targets
  <2> HIDE DEF c, r
  <2>6. /\ h.stored = [g.stored EXCEPT ![g.selected] = c]
        /\ h.committed = g.committed
        /\ h.room = [g.room EXCEPT ![g.selected] = r]
        /\ h.selected = g.selected
    BY <2>3
  <2>7. h \in Targets
    BY <2>1, <2>2, <2>3, <2>5 DEF Targets
  <2> HIDE DEF h
  <2>8. Sound(h)
    BY <2>1, <2>2, <2>4, <2>6 DEF Sound, Targets, Contents, Types, Command, Data
  <2> QED BY <2>6, <2>7, <2>8 DEF h
<1> QED BY <1>1, <1>2

\* A restart of the target keeps what was executed.
LEMMA RebootedSound ==
    ASSUME NEW g \in Targets, Sound(g), NEW h \in Rebooted(g)
    PROVE  h \in Targets /\ Sound(h) /\ h.committed = g.committed /\ h.selected = None
<1>1. CASE h = [g EXCEPT !.selected = None]
  <2>1. h = [stored |-> g.stored, committed |-> g.committed,
             room |-> g.room, selected |-> None]
    BY <1>1 DEF Targets
  <2>2. /\ h.stored = g.stored /\ h.committed = g.committed
        /\ h.room = g.room /\ h.selected = None
    BY <2>1
  <2> QED BY <2>1, <2>2 DEF Sound, Targets
<1>2. CASE h = [g EXCEPT !.selected = None, !.stored = g.committed, !.room = Fresh.room]
  <2>1. h = [stored |-> g.committed, committed |-> g.committed,
             room |-> Fresh.room, selected |-> None]
    BY <1>2 DEF Targets
  <2>2. /\ h.stored = g.committed /\ h.committed = g.committed
        /\ h.room = Fresh.room /\ h.selected = None
    BY <2>1
  <2>3. h \in Targets
    BY <2>1, FreshSound DEF Targets
  <2>4. Fresh.room[Command] = 0
    BY DEF Fresh, Types
  <2> QED BY <2>2, <2>3, <2>4 DEF Sound, Targets, Contents
<1> QED BY <1>1, <1>2 DEF Rebooted

\* An execute of leading bytes of image i, under the init packet of i, activates i
\* when they are all there and marks them as executed otherwise.
LEMMA ExecutedSound ==
    ASSUME NEW g \in Targets, Sound(g), NEW i \in Images, CanExecute(g),
           LET t == g.selected c == g.stored[t] IN
             /\ c.len <= Size[i][t] /\ Holds(c, i, c.len)
             /\ t = Data => Holds(g.committed[Command], i, Size[i][Command])
    PROVE  LET t == g.selected IN
           /\ Executed(g) \in Targets
           /\ Sound(Executed(g))
           /\ (\E j \in Images : Completes(g, j)) <=>
                t = Data /\ g.stored[Data].len = Size[i][Data]
           /\ (\E j \in Images : Completes(g, j)) => g.stored[Data].src = i
           /\ ~(\E j \in Images : Completes(g, j)) =>
                /\ Executed(g).committed = [g.committed EXCEPT ![t] = g.stored[t]]
                /\ Executed(g).selected = t
<1> DEFINE t == g.selected
           c == g.stored[t]
           whole == \E j \in Images : Completes(g, j)
<1>1. t \in Types /\ g.room[t] = 0
  BY DEF CanExecute, Targets
<1>2. whole <=> t = Data /\ g.stored[Data].len = Size[i][Data]
  <2>1. ASSUME NEW j \in Images, Completes(g, j)
        PROVE  j = i
    <3>1. Size[j][Command] > 0
      BY TargetAssumption DEF Types, Command
    <3> QED BY <2>1, <3>1 DEF Completes, Holds
  <2>2. whole => Completes(g, i)
    BY <2>1
  <2>3. whole <=> Completes(g, i)
    BY <2>2
  <2> QED BY <2>3 DEF Completes
<1>3. whole => g.stored[Data].src = i
  <2>1. Size[i][Data] > 0
    BY TargetAssumption DEF Types, Data
  <2> QED BY <1>2, <2>1 DEF Holds
<1>4. CASE whole
  BY <1>2, <1>3, <1>4, FreshSound DEF Executed
<1>5. CASE ~whole
  <2> DEFINE h == Executed(g)
  <2>1. h = [stored |-> g.stored, committed |-> [g.committed EXCEPT ![t] = c],
             room |-> g.room, selected |-> t]
    BY <1>5 DEF Executed, Targets
  <2>2. h \in Targets
    BY <1>1, <2>1 DEF Targets
  <2>3. /\ h.stored = g.stored /\ h.committed = [g.committed EXCEPT ![t] = c]
        /\ h.room = g.room /\ h.selected = t
    BY <2>1
  <2> HIDE DEF h
  <2>4. ASSUME t = Command PROVE Sound(h)
    <3>1. g.committed[Data].len > 0 => g.stored[Command] = g.committed[Command]
      BY TargetAssumption DEF Sound, Holds, Types, Command, Data
    <3> QED BY <1>1, <2>3, <2>4, <3>1
            DEF Sound, Targets, Contents, Types, Holds, Command, Data
  <2>5. ASSUME t = Data PROVE Sound(h)
    BY <1>1, <2>3, <2>5 DEF Sound, Targets, Contents, Types, Holds, Command, Data
  <2>6. Sound(h)
    BY <1>1, <2>4, <2>5 DEF Types
  <2> QED BY <1>2, <1>3, <1>5, <2>2, <2>3, <2>6 DEF h
<1> QED BY <1>4, <1>5

-----------------------------------------------------------------------------
(* The operation.                                                          *)

\* A block starts at or before any byte in it.
LEMMA BlockStartBound ==
    ASSUME NEW m \in Nat \ {0}, NEW n \in Nat
    PROVE  n % m \in Nat /\ n % m <= n /\ n % m < m
<1>1. n % m \in 0 .. m - 1
  OBVIOUS
<1>2. CASE n < m
  BY <1>1, <1>2
<1>3. CASE n >= m
  BY <1>1, <1>3
<1> QED BY <1>1, <1>2, <1>3

\* While the operation runs there is an image under way, with payloads to send.
LEMMA SizeFacts ==
    ASSUME IInv, Running
    PROVE  /\ Image \in Images
           /\ PayloadSize \in Nat \ {0}
           /\ ChunkMax \in Nat \ {0}
<1>1. package \in Seq(Images) /\ number \in Nat /\ number < Len(package) /\ type \in Types
  BY DEF IInv, TypeOK, InOrder
<1>2. Image \in Images
  BY <1>1 DEF Image
<1> QED BY <1>1, <1>2, TargetAssumption DEF PayloadSize, ChunkMax

\* Whenever the operation ends, all that is left to show concerns the target.
LEMMA EndInv ==
    ASSUME IInv, pc' \in Ended,
           error' \in {"none", "PRE_DFU_INTERRUPTED", "TOO_MANY_WRITE_FAILURES",
                       "REFUSED", "FAILED"},
           UNCHANGED <<argVars, chunkVars, positionVars>>,
           target' \in Targets, Sound(target'), installed' \in Seq(Images),
           faults' \in Nat, starts' \in Nat
    PROVE  IInv'
<1>1. TypeOK'
  <2>1. installed' \in Seq(Images \cup {Garbled})
    OBVIOUS
  <2> QED BY <2>1 DEF IInv, TypeOK, argVars, chunkVars, positionVars
<1>2. InOrder' /\ Informed'
  BY DEF InOrder, Informed, Running, Sending, Requests, Ended
<1> QED BY <1>1, <1>2 DEF IInv

\* Executing what the host has checked: either an image is complete and is the
\* one under way, or the progress is kept.
LEMMA ExecuteInv ==
    ASSUME IInv, pc \in {"finish", "boundary", "execute"}, CanExecute(target), Execute
    PROVE  /\ target.selected = type
           /\ target' \in Targets
           /\ Sound(target')
           /\ installed' \in Seq(Images)
           /\ IF type = Data /\ target.stored[type].len = PayloadSize
              THEN installed' = Append(installed, Image)
              ELSE /\ installed' = installed
                   /\ target'.committed = [target.committed EXCEPT ![type] = target.stored[type]]
                   /\ target'.selected = type
<1> DEFINE c == target.stored[type]
           whole == \E j \in Images : Completes(target, j)
<1>1. /\ Running /\ target.selected = type /\ type \in Types
      /\ target \in Targets /\ Sound(target) /\ installed \in Seq(Images)
  BY DEF IInv, TypeOK, Informed, CanExecute, Running, Requests, Sending
<1>2. Image \in Images /\ PayloadSize \in Nat
  BY <1>1, SizeFacts
<1>3. c.len <= Size[Image][type] /\ Holds(c, Image, c.len)
  BY <1>1, <1>2 DEF IInv, Informed, Sending, PayloadSize, Holds, Targets, Contents
<1>4. type = Data => Holds(target.committed[Command], Image, Size[Image][Command])
  BY <1>1 DEF IInv, Informed
<1>5. /\ Executed(target) \in Targets
      /\ Sound(Executed(target))
      /\ whole <=> type = Data /\ target.stored[Data].len = Size[Image][Data]
      /\ whole => target.stored[Data].src = Image
      /\ ~whole =>
           /\ Executed(target).committed = [target.committed EXCEPT ![type] = c]
           /\ Executed(target).selected = type
  BY <1>1, <1>2, <1>3, <1>4, ExecutedSound
<1>6. target' = Executed(target)
      /\ installed' = IF whole THEN Append(installed, target.stored[Data].src) ELSE installed
  BY DEF Execute
<1>7. installed' = IF whole THEN Append(installed, Image) ELSE installed
  BY <1>5, <1>6
<1>8. whole <=> type = Data /\ c.len = PayloadSize
  BY <1>5 DEF PayloadSize
<1> HIDE DEF whole
<1> QED BY <1>1, <1>2, <1>5, <1>6, <1>7, <1>8

\* After the last byte of a payload was executed comes the next payload.
LEMMA PayloadDoneInv ==
    ASSUME IInv, pc \in {"finish", "execute"}, CanExecute(target), Execute, PayloadDone,
           Holds(target.stored[type], Image, PayloadSize),
           UNCHANGED <<argVars, error, faults, starts>>
    PROVE  IInv'
<1>1. /\ Running /\ type \in Types /\ number \in Nat /\ number < Len(package)
      /\ package \in Seq(Images) /\ Len(installed) = number /\ installed \in Seq(Images)
  BY DEF IInv, TypeOK, InOrder, Running, Requests
<1>2. Image \in Images /\ PayloadSize \in Nat
  BY <1>1, SizeFacts
<1>3. target.stored[type].len = PayloadSize
  BY DEF Holds
<1>4. /\ target' \in Targets /\ Sound(target') /\ installed' \in Seq(Images)
      /\ IF type = Data
         THEN installed' = Append(installed, Image)
         ELSE /\ installed' = installed
              /\ target'.committed = [target.committed EXCEPT ![type] = target.stored[type]]
  BY <1>3, ExecuteInv
<1>5. installed' \in Seq(Images \cup {Garbled})
  BY <1>4
<1>6. CASE type = Command
  <2>1. /\ pc' = "select" /\ type' = Data /\ resumed' = FALSE /\ number' = number
        /\ start' = 0 /\ end' = 0 /\ retries' = 0 /\ crcSoFar' = 0
    BY <1>6 DEF PayloadDone, SendPayload, Chunk
  <2>2. TypeOK'
    BY <1>1, <1>4, <1>5, <2>1 DEF IInv, TypeOK, argVars, Types, Requests
  <2>3. InOrder'
    BY <1>1, <1>4, <1>6, <2>1 DEF InOrder, argVars, Command, Data
  <2>4. Holds(target'.committed[Command], Image, Size[Image][Command])
    BY <1>4, <1>6 DEF PayloadSize, Command, Data, IInv, TypeOK, Targets, Types
  <2>5. Informed'
    BY <2>1, <2>4 DEF Informed, Image, argVars, Sending, Data, Command
  <2> QED BY <1>4, <2>2, <2>3, <2>5 DEF IInv
<1>7. CASE type = Data
  <2>1. /\ number' = number + 1 /\ type' = Command /\ resumed' = FALSE
        /\ start' = 0 /\ end' = 0 /\ retries' = 0 /\ crcSoFar' = 0
        /\ pc' = IF Len(package) <= number + 1 THEN "resolved"
                 ELSE IF forceful THEN "restart" ELSE "select"
    BY <1>7 DEF PayloadDone, PerformNextUpdate, Chunk, NoneLeft, FirstRequest, Command, Data
  <2>2. TypeOK'
    <3>1. pc' \in Requests \cup Ended
      BY <2>1 DEF Requests, Ended
    <3>2. number' \in Nat /\ type' \in Types
      BY <1>1, <2>1 DEF Types
    <3> QED BY <1>4, <1>5, <2>1, <3>1, <3>2 DEF IInv, TypeOK, argVars
  <2>3. Len(installed') = number + 1
    BY <1>1, <1>2, <1>4, <1>7
  <2>4. InOrder'
    BY <1>1, <2>1, <2>3 DEF InOrder, argVars, Running, Requests
  <2>5. Informed'
    BY <2>1 DEF Informed, Sending, Command, Data
  <2> QED BY <1>4, <2>2, <2>4, <2>5 DEF IInv
<1> QED BY <1>1, <1>6, <1>7 DEF Types

\* A failed chunk ends the operation or is about to be started over.
LEMMA CatchInv ==
    ASSUME IInv, pc \in {"write", "crc"}, Catch, UNCHANGED <<argVars, installed, starts>>,
           target' \in Targets, Sound(target'), faults' \in Nat,
           target'.committed = target.committed, target'.selected = target.selected
    PROVE  IInv'
<1>1. CASE Reject("TOO_MANY_WRITE_FAILURES")
  BY <1>1, EndInv DEF Reject, Ended, IInv, TypeOK, positionVars, chunkVars
<1>2. CASE pc' = "recreate" /\ UNCHANGED <<chunkVars, positionVars, error>>
  <2>1. TypeOK'
    BY <1>2 DEF IInv, TypeOK, argVars, chunkVars, positionVars, Requests
  <2>2. InOrder'
    BY <1>2 DEF IInv, InOrder, Running, Requests, argVars, chunkVars, positionVars
  <2>3. Informed'
    BY <1>2 DEF IInv, Informed, Running, Requests, Sending, Image, PayloadSize,
                argVars, chunkVars, positionVars
  <2> QED BY <2>1, <2>2, <2>3 DEF IInv
<1> QED BY <1>1, <1>2 DEF Catch

\* The invariant holds before the first operation.
LEMMA InitInv == Init => IInv
<1> SUFFICES ASSUME Init PROVE IInv
  OBVIOUS
<1>1. TypeOK
  <2>1. package \in Seq(Images) /\ installed \in Seq(Images \cup {Garbled})
    BY DEF Init
  <2> QED BY <2>1, FreshSound DEF Init, TypeOK, Ended, Types
<1>2. InOrder /\ Informed
  BY DEF Init, InOrder, Informed, Running, Requests, Sending, Command, Data
<1> QED BY <1>1, <1>2, FreshSound DEF Init, IInv

\* The lost answer to a request.
LEMMA PerformedInv ==
    ASSUME IInv, Performed
    PROVE  target' \in Targets /\ Sound(target') /\ installed' \in Seq(Images)
<1>1. target \in Targets /\ Sound(target) /\ installed \in Seq(Images) /\ type \in Types
  BY DEF IInv, TypeOK
<1>2. CASE pc = "restart" /\ target' = Created(target, Command, 16) /\ UNCHANGED installed
  BY <1>1, <1>2, CreatedSound DEF Types
<1>3. CASE pc = "select" /\ target' = Selected(target, type) /\ UNCHANGED installed
  BY <1>1, <1>3, SelectedSound
<1>4. CASE /\ pc \in {"create", "recreate"} /\ target' = Created(target, type, end - start)
           /\ UNCHANGED installed
  <2>1. end - start \in Nat
    BY <1>4 DEF IInv, TypeOK, Informed, Sending
  <2> QED BY <1>1, <1>4, <2>1, CreatedSound
<1>5. CASE pc \in {"finish", "boundary", "execute"} /\ CanExecute(target) /\ Execute
  BY <1>5, ExecuteInv
<1> QED BY <1>2, <1>3, <1>4, <1>5 DEF Performed

\* Every step keeps the invariant.
LEMMA NextInv == IInv /\ [Next]_vars => IInv'
<1> SUFFICES ASSUME IInv, [Next]_vars PROVE IInv'
  OBVIOUS
<1> USE DEF Requests, Ended, Running
<1>1. /\ TypeOK /\ Sound(target) /\ installed \in Seq(Images) /\ InOrder /\ Informed
      /\ target \in Targets /\ type \in Types /\ number \in Nat /\ package \in Seq(Images)
      /\ start \in Nat /\ end \in Nat
  BY DEF IInv, TypeOK
<1>2. ASSUME NEW updates \in Packages, NEW f \in BOOLEAN, Start(updates, f)
      PROVE  IInv'
  <2>1. /\ package' = updates /\ forceful' = f /\ error' = "none" /\ installed' = <<>>
        /\ number' = 0 /\ type' = Command /\ resumed' = FALSE
        /\ start' = 0 /\ end' = 0 /\ retries' = 0 /\ crcSoFar' = 0
        /\ pc' = IF Len(updates) <= 0 THEN "resolved" ELSE IF f THEN "restart" ELSE "select"
        /\ UNCHANGED <<target, faults>> /\ starts' = starts + 1
    BY <1>2 DEF Start, PerformNextUpdate, Chunk, NoneLeft, FirstRequest
  <2>2. package' \in Seq(Images) /\ Len(package') \in Nat
    BY <2>1, TransferAssumption
  <2>3. TypeOK'
    <3>1. pc' \in Requests \cup Ended /\ installed' \in Seq(Images \cup {Garbled})
      BY <2>1
    <3>2. forceful' \in BOOLEAN /\ resumed' \in BOOLEAN
      BY <2>1
    <3>3. number' \in Nat /\ type' \in Types /\ start' \in Nat /\ end' \in Nat
          /\ retries' \in Nat /\ crcSoFar' \in Nat
      BY <2>1 DEF Types
    <3>4. target' \in Targets /\ faults' \in Nat /\ starts' \in Nat
      BY <1>1, <2>1 DEF TypeOK
    <3> QED BY <2>1, <2>2, <3>1, <3>2, <3>3, <3>4 DEF TypeOK
  <2>4. InOrder' /\ Informed'
    BY <2>1, <2>2 DEF InOrder, Informed, Sending, Command, Data
  <2> QED BY <1>1, <2>1, <2>3, <2>4 DEF IInv
<1>3. CASE Restart
  <2>1. target' \in Targets /\ Sound(target')
    BY <1>1, <1>3, CreatedSound DEF Restart, Types
  <2>2. /\ pc = "restart" /\ pc' = "select"
        /\ UNCHANGED <<chunkVars, positionVars, argVars, error, installed, faults, starts>>
    BY <1>3 DEF Restart
  <2>3. TypeOK'
    BY <1>1, <2>1, <2>2 DEF TypeOK, chunkVars, positionVars, argVars
  <2>4. InOrder' /\ Informed'
    BY <1>1, <2>2 DEF InOrder, Informed, Sending, Command, Data, positionVars, argVars
  <2> QED BY <1>1, <2>1, <2>2, <2>3, <2>4 DEF IInv
<1>4. CASE Select
  <2> DEFINE have == target.stored[type]
             to == Min(PayloadSize, BlockStart(have.len) + ChunkMax)
  <2>1. /\ target' \in Targets /\ Sound(target') /\ target'.selected = type
        /\ target'.committed = target.committed /\ target'.stored = target.stored
    BY <1>1, <1>4, SelectedSound DEF Select
  <2>2. pc = "select" /\ UNCHANGED <<argVars, installed, faults, starts>>
    BY <1>4 DEF Select
  <2>3. Image \in Images /\ PayloadSize \in Nat \ {0} /\ ChunkMax \in Nat \ {0}
    BY <2>2, SizeFacts
  <2>4. have.len \in Nat
    BY <1>1 DEF Targets, Contents
  <2>5. CASE /\ have.len = 0 /\ pc' = "create" /\ Chunk(0, Min(PayloadSize, ChunkMax))
             /\ UNCHANGED <<positionVars, error>>
    <3>1. /\ start' = 0 /\ end' \in Nat /\ end' <= PayloadSize
          /\ retries' = 0 /\ crcSoFar' = 0
      BY <2>3, <2>5 DEF Chunk, Min
    <3>2. TypeOK'
      BY <1>1, <2>1, <2>2, <2>5, <3>1 DEF TypeOK, argVars, positionVars
    <3>3. type = Command => target.committed[Data].len = 0
      <4>1. target.committed[type].len <= 0
        BY <1>1, <2>5 DEF Sound
      <4> QED BY <1>1, <4>1, TargetAssumption, SMTT(30)
              DEF Sound, Targets, Contents, Holds, Types, Command, Data
    <3>4. InOrder' /\ Informed'
      BY <1>1, <2>1, <2>2, <2>5, <3>1, <3>3
         DEF InOrder, Informed, Sending, Image, PayloadSize, argVars, positionVars
    <3> QED BY <1>1, <2>1, <2>2, <3>2, <3>4 DEF IInv
  <2>6. CASE have.len # 0 /\ ~Matches(have) /\ Reject("PRE_DFU_INTERRUPTED")
    BY <1>1, <2>1, <2>2, <2>6, EndInv DEF Reject, TypeOK
  <2>7. CASE /\ have.len # 0 /\ Matches(have)
             /\ pc' \in {"finish", "boundary"} /\ UNCHANGED <<chunkVars, positionVars, error>>
             /\ pc' = "finish" <=> have.len = PayloadSize
    <3>1. TypeOK'
      BY <1>1, <2>1, <2>2, <2>7 DEF TypeOK, argVars, positionVars, chunkVars
    <3>2. InOrder' /\ Informed'
      BY <1>1, <2>1, <2>2, <2>3, <2>4, <2>7
         DEF InOrder, Informed, Sending, Image, PayloadSize, Matches, Holds,
             argVars, positionVars, chunkVars
    <3> QED BY <1>1, <2>1, <2>2, <3>1, <3>2 DEF IInv
  <2>8. CASE /\ have.len # 0 /\ Matches(have) /\ have.len # PayloadSize
             /\ pc' = "write" /\ Chunk(have.len, to)
             /\ UNCHANGED <<positionVars, error>>
    <3>1. have.len < PayloadSize /\ Holds(have, Image, have.len)
      BY <2>3, <2>4, <2>8 DEF Matches
    <3>2. to \in Nat /\ have.len <= to /\ to <= PayloadSize
      <4>1. /\ have.len % ChunkMax \in Nat /\ have.len % ChunkMax <= have.len
            /\ have.len % ChunkMax < ChunkMax
        BY <2>3, <2>4, BlockStartBound
      <4> QED BY <2>3, <2>4, <3>1, <4>1 DEF Min, BlockStart
    <3>3. TypeOK'
      BY <1>1, <2>1, <2>2, <2>4, <2>8, <3>2 DEF TypeOK, argVars, positionVars, Chunk
    <3>4. type = Command => target.committed[Data].len = 0
      <4> SUFFICES ASSUME type = Command, target.committed[Data].len > 0 PROVE FALSE
        BY <1>1 DEF Targets, Contents, Types
      <4> DEFINE i == target.committed[Data].src
      <4>1. i \in Images /\ Holds(target.committed[Command], i, Size[i][Command])
        BY <1>1 DEF Sound
      <4>2. Size[i][Command] > 0
        BY <4>1, TargetAssumption DEF Types
      <4>3. have = target.committed[Command]
        BY <1>1, <4>1, <4>2 DEF Sound, Holds
      <4>4. i = Image
        BY <3>1, <4>1, <4>2, <4>3 DEF Holds
      <4> QED BY <2>8, <4>1, <4>3, <4>4 DEF Holds, PayloadSize
    <3>5. InOrder' /\ Informed'
      BY <1>1, <2>1, <2>2, <2>8, <3>2, <3>4
         DEF InOrder, Informed, Sending, Image, PayloadSize, Chunk, argVars, positionVars
    <3> QED BY <1>1, <2>1, <2>2, <3>3, <3>5 DEF IInv
  <2> QED BY <1>4, <2>5, <2>6, <2>7, <2>8 DEF Select
<1>5. CASE Finish
  <2>1. target.selected = type
    BY <1>5, ExecuteInv DEF Finish
  <2> QED BY <1>1, <1>5, <2>1, PayloadDoneInv DEF Finish, Informed
<1>6. CASE Boundary
  <2>1. /\ pc = "boundary" /\ CanExecute(target) /\ Execute
        /\ pc' = "select" /\ resumed' = TRUE
        /\ UNCHANGED <<chunkVars, argVars, number, type, error, faults, starts>>
    BY <1>6 DEF Boundary
  <2>2. target.selected = type
    BY <2>1, ExecuteInv
  <2>3. target.stored[type].len < PayloadSize
    BY <1>1, <2>1, <2>2 DEF Informed
  <2>4. target.stored[type].len # PayloadSize
    BY <1>1, <2>1, <2>3, SizeFacts DEF Targets, Contents
  <2>5. /\ target' \in Targets /\ Sound(target') /\ installed' = installed
        /\ target'.committed = [target.committed EXCEPT ![type] = target.stored[type]]
    BY <2>1, <2>4, ExecuteInv
  <2>6. TypeOK'
    BY <1>1, <2>1, <2>5 DEF TypeOK, chunkVars, argVars
  <2>7. type = Data => target'.committed[Command] = target.committed[Command]
    BY <1>1, <2>5 DEF Targets, Types, Command, Data
  <2>8. InOrder' /\ Informed'
    BY <1>1, <2>1, <2>5, <2>7 DEF InOrder, Informed, Sending, Image, chunkVars, argVars
  <2> QED BY <1>1, <2>5, <2>6, <2>8 DEF IInv
<1>7. CASE Create
  <2>1. /\ pc = "create" /\ pc' = "write" /\ target' = Created(target, type, end - start)
        /\ UNCHANGED <<chunkVars, positionVars, argVars, error, installed, faults, starts>>
    BY <1>7 DEF Create
  <2>2. end - start \in Nat
    BY <1>1, <2>1 DEF Informed, Sending
  <2>3. /\ target' \in Targets /\ Sound(target') /\ target'.selected = type
        /\ type = Data => target'.committed = target.committed
        /\ type = Command => target'.committed[Data].len = 0
    BY <1>1, <2>1, <2>2, CreatedSound, SMTT(30)
  <2>4. TypeOK'
    BY <1>1, <2>1, <2>3 DEF TypeOK, chunkVars, positionVars, argVars
  <2>5. InOrder' /\ Informed'
    BY <1>1, <2>1, <2>3 DEF InOrder, Informed, Sending, Image, PayloadSize,
                            chunkVars, positionVars, argVars
  <2> QED BY <1>1, <2>1, <2>3, <2>4, <2>5 DEF IInv
<1>8. ASSUME NEW k \in 0 .. end - start, NEW intact \in BOOLEAN, Write(k, intact)
      PROVE  IInv'
  <2>1. /\ pc = "write" /\ k <= Room(target) /\ k \in Nat
        /\ target' = Received(target, Image, start, k, intact)
        /\ UNCHANGED <<argVars, installed, starts>>
    BY <1>8 DEF Write
  <2>2. Image \in Images
    BY <2>1, SizeFacts
  <2>3. /\ target' \in Targets /\ Sound(target')
        /\ target'.committed = target.committed /\ target'.selected = target.selected
    BY <1>1, <2>1, <2>2, ReceivedSound
  <2>4. faults' \in Nat
    BY <1>1, <1>8 DEF Write, Fault, TypeOK
  <2>5. CASE pc' = "crc" /\ UNCHANGED <<chunkVars, positionVars, error>>
    <3>1. TypeOK'
      BY <1>1, <2>1, <2>3, <2>4, <2>5 DEF TypeOK, chunkVars, positionVars, argVars
    <3>2. InOrder' /\ Informed'
      BY <1>1, <2>1, <2>3, <2>5 DEF InOrder, Informed, Sending, Image, PayloadSize,
                                    chunkVars, positionVars, argVars
    <3> QED BY <1>1, <2>1, <2>3, <3>1, <3>2 DEF IInv
  <2>6. CASE Catch
    BY <2>1, <2>3, <2>4, <2>6, CatchInv
  <2> QED BY <1>8, <2>5, <2>6 DEF Write
<1>9. CASE Crc
  <2>1. /\ pc = "crc" /\ target.selected # None
        /\ UNCHANGED <<argVars, target, installed, faults, starts>>
    BY <1>9 DEF Crc
  <2>2. CASE Catch
    BY <1>1, <2>1, <2>2, CatchInv DEF TypeOK
  <2>3. CASE /\ ChecksumAsExpected(target.stored[target.selected])
             /\ pc' = "execute" /\ UNCHANGED <<chunkVars, positionVars, error>>
    <3>1. Holds(target.stored[type], Image, end)
      BY <1>1, <2>1, <2>3 DEF Informed, Sending, ChecksumAsExpected
    <3>2. TypeOK'
      BY <1>1, <2>1, <2>3 DEF TypeOK, chunkVars, positionVars, argVars
    <3>3. InOrder' /\ Informed'
      BY <1>1, <2>1, <2>3, <3>1 DEF InOrder, Informed, Sending, Image, PayloadSize,
                                    chunkVars, positionVars, argVars
    <3> QED BY <1>1, <2>1, <3>2, <3>3 DEF IInv
  <2> QED BY <1>9, <2>2, <2>3 DEF Crc
<1>10. CASE Recreate
  <2>1. /\ pc = "recreate" /\ pc' = "write" /\ target' = Created(target, type, end - start)
        /\ start' = BlockStart(start) /\ crcSoFar' = start' /\ retries' = retries + 1
        /\ UNCHANGED <<end, positionVars, argVars, error, installed, faults, starts>>
    BY <1>10 DEF Recreate, NextCount
  <2>2. end - start \in Nat
    BY <1>1, <2>1 DEF Informed, Sending
  <2>3. /\ target' \in Targets /\ Sound(target') /\ target'.selected = type
        /\ type = Data => target'.committed = target.committed
        /\ type = Command => target'.committed[Data].len = 0
    <3>1. target' = Created(target, type, end - start)
      BY <2>1
    <3> QED BY <1>1, <2>2, <3>1, CreatedSound
  <2>4. start' \in Nat /\ start' <= start
    <3>1. ChunkMax \in Nat \ {0}
      BY <2>1, SizeFacts
    <3>2. start % ChunkMax \in Nat /\ start % ChunkMax <= start
      BY <1>1, <3>1, BlockStartBound
    <3> QED BY <1>1, <2>1, <3>2 DEF BlockStart
  <2>5. TypeOK'
    BY <1>1, <2>1, <2>3, <2>4 DEF TypeOK, positionVars, argVars
  <2>6. start' <= end' /\ end' <= PayloadSize
    BY <1>1, <2>1, <2>4 DEF Informed, Sending
  <2>7. InOrder' /\ Informed'
    BY <1>1, <2>1, <2>3, <2>6 DEF InOrder, Informed, Sending, Image, PayloadSize,
                                  positionVars, argVars
  <2> QED BY <1>1, <2>1, <2>3, <2>5, <2>7 DEF IInv
<1>11. CASE ExecuteChunk
  <2>1. /\ pc = "execute" /\ CanExecute(target) /\ Execute
        /\ UNCHANGED <<argVars, error, faults, starts>>
    BY <1>11 DEF ExecuteChunk
  <2>2. target.selected = type
    BY <2>1, ExecuteInv
  <2>3. Holds(target.stored[type], Image, end) /\ end <= PayloadSize
    BY <1>1, <2>1, <2>2 DEF Informed, Sending
  <2>4. PayloadSize \in Nat \ {0} /\ ChunkMax \in Nat \ {0} /\ Image \in Images
    BY <2>1, SizeFacts
  <2>5. CASE end >= PayloadSize /\ PayloadDone
    <3>1. end = PayloadSize
      BY <1>1, <2>3, <2>4, <2>5
    <3> QED BY <2>1, <2>3, <2>5, <3>1, PayloadDoneInv
  <2>6. CASE /\ end < PayloadSize /\ pc' = "create" /\ UNCHANGED positionVars
             /\ Chunk(end, Min(PayloadSize, end + ChunkMax))
    <3>1. target.stored[type].len # PayloadSize
      BY <1>1, <2>3, <2>4, <2>6 DEF Holds
    <3>2. /\ target' \in Targets /\ Sound(target') /\ installed' = installed
          /\ target'.committed = [target.committed EXCEPT ![type] = target.stored[type]]
          /\ target'.selected = type
      BY <2>1, <3>1, ExecuteInv
    <3>3. /\ start' = end /\ end' \in Nat /\ start' <= end' /\ end' <= PayloadSize
          /\ retries' = 0 /\ crcSoFar' = end
      BY <1>1, <2>4, <2>6 DEF Chunk, Min
    <3>4. TypeOK'
      BY <1>1, <2>1, <2>6, <3>2, <3>3 DEF TypeOK, positionVars, argVars
    <3>5. /\ type = Data => target'.committed[Command] = target.committed[Command]
          /\ type = Command => target'.committed[Data] = target.committed[Data]
      BY <1>1, <3>2 DEF Targets, Types, Command, Data
    <3>6. InOrder' /\ Informed'
      BY <1>1, <2>1, <2>6, <3>2, <3>3, <3>5
         DEF InOrder, Informed, Sending, Image, PayloadSize, positionVars, argVars
    <3> QED BY <1>1, <3>2, <3>4, <3>6 DEF IInv
  <2>7. end \in Nat
    BY <1>1
  <2> QED BY <1>11, <2>4, <2>5, <2>6, <2>7 DEF ExecuteChunk
<1>12. CASE Refused
  <2>1. UNCHANGED <<argVars, target, installed, faults, starts>>
    BY <1>12 DEF Refused
  <2>2. CASE Reject("REFUSED")
    BY <1>1, <2>1, <2>2, EndInv DEF Reject, TypeOK
  <2>3. CASE pc = "crc" /\ Catch
    BY <1>1, <2>1, <2>3, CatchInv DEF TypeOK
  <2> QED BY <1>12, <2>2, <2>3 DEF Refused
<1>13. CASE Fails
  <2>1. UNCHANGED <<argVars, starts>> /\ faults' \in Nat
    BY <1>1, <1>13 DEF Fails, Fault, TypeOK
  <2>2. CASE Reject("FAILED") /\ (Performed \/ UNCHANGED <<target, installed>>)
    <3>1. target' \in Targets /\ Sound(target') /\ installed' \in Seq(Images)
      BY <1>1, <2>2, PerformedInv
    <3>2. starts' \in Nat
      BY <1>1, <2>1 DEF TypeOK
    <3> QED BY <2>1, <2>2, <3>1, <3>2, EndInv DEF Reject
  <2>3. CASE pc = "crc" /\ Catch /\ UNCHANGED <<target, installed>>
    BY <1>1, <2>1, <2>3, CatchInv
  <2> QED BY <1>13, <2>2, <2>3 DEF Fails
<1>14. CASE TargetReboots
  <2>1. /\ target' \in Targets /\ Sound(target') /\ target'.committed = target.committed
        /\ target'.selected = None
    BY <1>1, <1>14, RebootedSound DEF TargetReboots
  <2>2. UNCHANGED <<hostVars, installed, starts>> /\ faults' \in Nat
    BY <1>1, <1>14 DEF TargetReboots, Fault, TypeOK
  <2>3. TypeOK'
    BY <1>1, <2>1, <2>2 DEF TypeOK, hostVars
  <2>4. InOrder' /\ Informed'
    BY <1>1, <2>1, <2>2 DEF InOrder, Informed, Sending, Image, PayloadSize, hostVars,
                            None, Types, Command, Data
  <2> QED BY <1>1, <2>1, <2>2, <2>3, <2>4 DEF IInv
<1>15. CASE HostStops
  BY <1>1, <1>15, EndInv DEF HostStops, TypeOK
<1>16. CASE UNCHANGED vars
  <2>1. TypeOK' /\ InOrder' /\ Informed'
    BY <1>1, <1>16 DEF TypeOK, InOrder, Informed, Image, PayloadSize, vars, hostVars
  <2> QED BY <1>1, <1>16, <2>1 DEF IInv, vars
<1> QED BY <1>2, <1>3, <1>4, <1>5, <1>6, <1>7, <1>8, <1>9, <1>10, <1>11, <1>12, <1>13,
           <1>14, <1>15, <1>16 DEF Next, HostStep, WriteChunk

-----------------------------------------------------------------------------
(* The theorems.                                                           *)

\* The inductive invariant holds in every reachable state.
THEOREM Invariance == Spec => []IInv
<1>1. Init => IInv
  BY InitInv
<1>2. IInv /\ [Next]_vars => IInv'
  BY NextInv
<1> QED BY <1>1, <1>2, PTL DEF Spec

\* The variables keep their types, among them: no length or count is negative.
THEOREM TypeCorrect == Spec => []TypeOK
<1>1. IInv => TypeOK
  BY DEF IInv
<1> QED BY <1>1, Invariance, PTL

\* The target executes nothing but whole leading chunks of an image, and activates
\* nothing but images, for packages, payloads and chunks of any size and number, and
\* however many requests fail.
THEOREM Intact == Spec => []CommittedIntact
<1>1. IInv => CommittedIntact
  <2> SUFFICES ASSUME IInv PROVE CommittedIntact
    OBVIOUS
  <2>1. Sound(target) /\ installed \in Seq(Images)
    BY DEF IInv
  <2>2. \A n \in DOMAIN installed : installed[n] \in Images
    BY <2>1
  <2> QED BY <2>1, <2>2 DEF Sound, CommittedIntact
<1> QED BY <1>1, Invariance, PTL

\* Firmware is executed under the init packet of its own image only.
THEOREM UnderItsInitPacket == Spec => []FirmwareUnderItsInitPacket
<1>1. IInv => FirmwareUnderItsInitPacket
  BY DEF IInv, Sound, FirmwareUnderItsInitPacket
<1> QED BY <1>1, Invariance, PTL

\* What the target executed of the firmware is not lost, except by activation.
Kept == \/ target'.committed[Data].len >= target.committed[Data].len
        \/ Len(installed') > Len(installed)

\* An execute keeps progress or completes an image.
LEMMA ExecuteKeeps ==
    ASSUME IInv, pc \in {"finish", "boundary", "execute"}, CanExecute(target), Execute
    PROVE  Kept
<1>1. /\ target \in Targets /\ Sound(target) /\ type \in Types
      /\ installed \in Seq(Images) /\ Image \in Images
  BY SizeFacts DEF IInv, TypeOK, Running, Requests
<1>2. CASE type = Data /\ target.stored[type].len = PayloadSize
  <2>1. installed' = Append(installed, Image)
    BY <1>2, ExecuteInv
  <2> QED BY <1>1, <2>1 DEF Kept
<1>3. CASE ~(type = Data /\ target.stored[type].len = PayloadSize)
  <2>1. target'.committed = [target.committed EXCEPT ![type] = target.stored[type]]
    BY <1>3, ExecuteInv
  <2>2. target.committed[Data].len <= target.stored[Data].len
    BY <1>1 DEF Sound, Types
  <2>3. target.committed[Data].len \in Nat /\ target.stored[Data].len \in Nat
    BY <1>1 DEF Targets, Contents, Types
  <2>4. \/ target'.committed[Data] = target.committed[Data]
        \/ target'.committed[Data] = target.stored[Data]
    BY <1>1, <2>1 DEF Targets, Types
  <2> QED BY <2>2, <2>3, <2>4 DEF Kept
<1> QED BY <1>2, <1>3

\* A step that leaves alone what was executed keeps progress.
LEMMA SameKeeps ==
    ASSUME IInv, target'.committed = target.committed
    PROVE  Kept
<1>1. target.committed[Data].len \in Nat
  BY DEF IInv, TypeOK, Targets, Contents, Types
<1> QED BY <1>1 DEF Kept

\* A command object is only created while no firmware was executed.
LEMMA CreateKeeps ==
    ASSUME IInv, pc \in {"create", "recreate"}, target' = Created(target, type, end - start)
    PROVE  Kept
<1>1. /\ target \in Targets /\ Sound(target) /\ type \in Types /\ end - start \in Nat
      /\ type = Command => target.committed[Data].len = 0
  BY DEF IInv, TypeOK, Informed, Sending
<1>2. /\ type = Data => target'.committed = target.committed
      /\ type = Command => target'.committed[Data].len = 0
  BY <1>1, CreatedSound
<1> QED BY <1>1, <1>2, SameKeeps DEF Kept, Types

\* An operation that is not forceful goes on from what the target has executed: it
\* never makes the target drop any of it, except by activating a whole image.
THEOREM KeepsProgress == Spec => ContinuationKeepsProgress
<1> DEFINE Step == ~forceful' /\ starts' = starts => Kept
<1>1. IInv /\ [Next]_vars => [Step]_vars
  <2> SUFFICES ASSUME IInv, Next, ~forceful', starts' = starts PROVE Kept
    OBVIOUS
  <2>1. target \in Targets /\ Sound(target) /\ type \in Types /\ starts \in Nat
    BY DEF IInv, TypeOK
  <2>2. ASSUME NEW updates \in Packages, NEW f \in BOOLEAN, Start(updates, f)
        PROVE  Kept
    BY <2>1, <2>2 DEF Start
  <2>3. pc # "restart" \/ forceful' # forceful
    BY DEF IInv, InOrder
  <2>4. CASE Restart
    BY <2>3, <2>4 DEF Restart, argVars
  <2>5. CASE Select
    BY <2>1, <2>5, SelectedSound, SameKeeps DEF Select
  <2>6. CASE Finish \/ Boundary \/ ExecuteChunk
    BY <2>6, ExecuteKeeps DEF Finish, Boundary, ExecuteChunk
  <2>7. CASE Create \/ Recreate
    BY <2>7, CreateKeeps DEF Create, Recreate
  <2>8. ASSUME NEW k \in 0 .. end - start, NEW intact \in BOOLEAN, Write(k, intact)
        PROVE  Kept
    <3>1. Image \in Images /\ start \in Nat /\ k \in Nat /\ end \in Nat
      BY <2>8, SizeFacts DEF Write, Running, Requests, IInv, TypeOK
    <3> QED BY <2>1, <2>8, <3>1, ReceivedSound, SameKeeps DEF Write
  <2>9. CASE Crc \/ Refused \/ HostStops
    BY <2>9, SameKeeps DEF Crc, Refused, HostStops
  <2>10. CASE Fails
    <3>1. CASE UNCHANGED target
      BY <3>1, SameKeeps
    <3>2. CASE Performed
      <4>1. pc # "restart"
        BY <2>3, <2>10 DEF Fails, argVars
      <4> QED BY <2>1, <3>2, <4>1, SelectedSound, SameKeeps, CreateKeeps, ExecuteKeeps
              DEF Performed
    <3> QED BY <2>10, <3>1, <3>2 DEF Fails
  <2>11. CASE TargetReboots
    BY <2>1, <2>11, RebootedSound, SameKeeps DEF TargetReboots
  <2> QED BY <2>2, <2>4, <2>5, <2>6, <2>7, <2>8, <2>9, <2>10, <2>11
          DEF Next, HostStep, WriteChunk
<1>2. [][Step]_vars => ContinuationKeepsProgress
  BY DEF Kept, ContinuationKeepsProgress
<1> QED BY <1>1, <1>2, Invariance, PTL DEF Spec

\* What an execute does is seen by the caller as a delivery or not at all.
LEMMA ExecuteDelivers ==
    ASSUME IInv, pc \in {"finish", "boundary", "execute"}, CanExecute(target), Execute
    PROVE  \/ UNCHANGED installed /\ ~(type = Data /\ target.stored[type].len = PayloadSize)
           \/ /\ type = Data /\ target.stored[type].len = PayloadSize
              /\ Len(installed) = number /\ number < Len(package)
              /\ installed' = Append(installed, package[Len(installed) + 1])
BY ExecuteInv DEF IInv, InOrder, Running, Requests, Image

\* Every step of the operation is one of DfuDelivery, or none at all.
LEMMA DeliveryStep == IInv /\ [Next]_vars => [Delivery!Next]_(Delivery!vars)
<1> SUFFICES ASSUME IInv, [Next]_vars PROVE [Delivery!Next]_(Delivery!vars)
  OBVIOUS
<1> DEFINE Silent == /\ UNCHANGED <<package, installed>>
                     /\ pc \in Requests /\ pc' \in Requests
           Gives  == /\ pc \in Requests /\ pc' \in {"rejected", "stopped"}
                     /\ UNCHANGED <<package, installed>>
<1>1. /\ InOrder /\ Informed /\ package \in Seq(Images) /\ number \in Nat
      /\ installed \in Seq(Images)
  BY DEF IInv, TypeOK
<1>2. Silent => UNCHANGED Delivery!vars
  BY DEF Delivery!vars, Outcome, Running
<1>3. Gives => Delivery!Reject
  BY DEF Delivery!Reject, Outcome, Running, Requests
<1>5. ASSUME pc \in {"write", "crc"}, Catch, UNCHANGED <<argVars, installed>>
      PROVE  Silent \/ Gives
  BY <1>5 DEF Catch, Reject, argVars, Requests
<1>6. ASSUME pc \in {"finish", "execute"}, CanExecute(target), Execute, PayloadDone,
             target.stored[type].len = PayloadSize, UNCHANGED argVars
      PROVE  Silent \/ Delivery!Deliver
  <2>1. CASE type = Data
    <3>1. /\ Len(installed) = number /\ number < Len(package)
          /\ installed' = Append(installed, package[Len(installed) + 1])
      BY <1>6, <2>1, ExecuteDelivers
    <3>2. pc' = IF Len(package) <= number + 1 THEN "resolved"
                ELSE IF forceful THEN "restart" ELSE "select"
      BY <1>6, <2>1 DEF PayloadDone, PerformNextUpdate, NoneLeft, FirstRequest, Command, Data
    <3>3. Len(installed') = number + 1
      BY <1>1, <3>1
    <3>4. Outcome' = IF Len(installed') = Len(package) THEN "resolved" ELSE "pending"
      BY <1>1, <3>1, <3>2, <3>3 DEF Outcome, Running, Requests
    <3>5. Outcome = "pending" /\ package' = package
      BY <1>6 DEF Outcome, Running, Requests, argVars
    <3> QED BY <3>1, <3>4, <3>5 DEF Delivery!Deliver
  <2>2. CASE type # Data
    <3>1. pc' = "select" /\ UNCHANGED <<package, installed>>
      BY <1>6, <2>2, ExecuteDelivers DEF PayloadDone, SendPayload, IInv, TypeOK, Types, argVars
    <3> QED BY <1>6, <3>1 DEF Requests
  <2> QED BY <2>1, <2>2
<1>7. CASE \E updates \in Packages, f \in BOOLEAN : Start(updates, f)
  <2>1. PICK updates \in Packages, f \in BOOLEAN : Start(updates, f)
    BY <1>7
  <2>2. /\ pc \notin Requests /\ package' = updates /\ installed' = <<>>
        /\ pc' = IF Len(updates) <= 0 THEN "resolved" ELSE IF f THEN "restart" ELSE "select"
    BY <2>1 DEF Start, PerformNextUpdate, NoneLeft, FirstRequest, Running
  <2>3. updates = <<>> <=> Len(updates) <= 0
    BY TransferAssumption
  <2>4. Outcome' = IF package' = <<>> THEN "resolved" ELSE "pending"
    BY <2>2, <2>3 DEF Outcome, Running, Requests
  <2> QED BY <2>2, <2>4 DEF Delivery!Next, Delivery!Begin, Outcome, Running
<1>8. CASE Restart \/ Create \/ Recreate
  BY <1>2, <1>8 DEF Restart, Create, Recreate, argVars, Requests
<1>9. CASE Select
  BY <1>2, <1>3, <1>9 DEF Select, Reject, argVars, Requests, Delivery!Next
<1>10. CASE Finish
  <2>1. target.stored[type].len = PayloadSize
    BY <1>1, <1>10, ExecuteInv DEF Finish, Informed, Holds
  <2> QED BY <1>2, <1>6, <1>10, <2>1 DEF Finish, Delivery!Next
<1>11. CASE Boundary
  <2>1. pc = "boundary" /\ CanExecute(target) /\ Execute /\ pc' = "select" /\ UNCHANGED package
    BY <1>11 DEF Boundary, argVars
  <2>2. target.selected = type
    BY <2>1, ExecuteInv
  <2>3. target.stored[type].len < PayloadSize /\ target.stored[type].len \in Nat
    BY <1>1, <2>1, <2>2 DEF Informed, IInv, TypeOK, Targets, Contents
  <2>4. UNCHANGED installed
    BY <2>1, <2>3, ExecuteDelivers
  <2> QED BY <1>2, <2>1, <2>4 DEF Requests
<1>12. CASE WriteChunk
  BY <1>2, <1>3, <1>5, <1>12 DEF WriteChunk, Write, argVars, Requests, Delivery!Next
<1>13. CASE Crc
  BY <1>2, <1>3, <1>5, <1>13 DEF Crc, argVars, Requests, Delivery!Next
<1>14. CASE ExecuteChunk
  <2>1. /\ pc = "execute" /\ CanExecute(target) /\ Execute /\ UNCHANGED argVars
    BY <1>14 DEF ExecuteChunk
  <2>2. target.selected = type
    BY <2>1, ExecuteInv
  <2>3. target.stored[type].len = end /\ end <= PayloadSize /\ end \in Nat /\ PayloadSize \in Nat
    BY <1>1, <2>1, <2>2, SizeFacts
       DEF Informed, Sending, Holds, IInv, TypeOK, Running, Requests
  <2>4. CASE end >= PayloadSize
    BY <1>2, <1>6, <1>14, <2>1, <2>3, <2>4 DEF ExecuteChunk, Delivery!Next
  <2>5. CASE end < PayloadSize
    <3>1. UNCHANGED installed
      BY <2>1, <2>3, <2>5, ExecuteDelivers
    <3>2. pc' = "create"
      BY <1>14, <2>3, <2>5 DEF ExecuteChunk
    <3> QED BY <1>2, <2>1, <3>1, <3>2 DEF Requests, argVars
  <2> QED BY <2>3, <2>4, <2>5
<1>15. CASE Refused
  BY <1>2, <1>3, <1>5, <1>15 DEF Refused, Reject, argVars, Requests, Delivery!Next
<1>16. CASE Fails
  <2>1. CASE pc \in Requests /\ Reject("FAILED") /\ UNCHANGED <<target, installed>>
    BY <1>3, <1>16, <2>1 DEF Fails, Reject, argVars, Delivery!Next
  <2>2. CASE pc \in Requests /\ Reject("FAILED") /\ Performed
    <3>1. pc' = "rejected" /\ package' = package /\ Outcome = "pending" /\ Outcome' = "rejected"
      BY <1>16, <2>2 DEF Fails, Reject, argVars, Outcome, Running, Requests
    <3>2. CASE UNCHANGED installed
      BY <1>3, <2>2, <3>1, <3>2 DEF Delivery!Next
    <3>3. CASE pc \in {"finish", "boundary", "execute"} /\ CanExecute(target) /\ Execute
      BY <1>1, <3>1, <3>2, <3>3, ExecuteDelivers DEF Delivery!Next, Delivery!Deliver
    <3> QED BY <2>2, <3>2, <3>3 DEF Performed
  <2>3. CASE pc = "crc" /\ Catch /\ UNCHANGED <<target, installed>>
    BY <1>2, <1>3, <1>5, <1>16, <2>3 DEF Fails, argVars, Delivery!Next
  <2> QED BY <1>16, <2>1, <2>2, <2>3 DEF Fails
<1>17. CASE HostStops
  BY <1>3, <1>17 DEF HostStops, Running, argVars, Delivery!Next
<1>18. CASE TargetReboots \/ UNCHANGED vars
  BY <1>18 DEF TargetReboots, vars, hostVars, Delivery!vars, Outcome, Running
<1> QED BY <1>7, <1>8, <1>9, <1>10, <1>11, <1>12, <1>13, <1>14, <1>15, <1>16, <1>17, <1>18
        DEF Next, HostStep

\* The operation implements DfuDelivery: whatever fails, updates are activated one
\* at a time and in their order, and start() resolves after the last only.
THEOREM Implementation == Spec => Delivers
<1>1. Init => Delivery!Init
  BY DEF Init, Delivery!Init, Outcome, Running, Requests
<1>2. IInv /\ [Next]_vars => [Delivery!Next]_(Delivery!vars)
  BY DeliveryStep
<1> QED BY <1>1, <1>2, Invariance, PTL DEF Spec, Delivers, Delivery!Spec
=============================================================================
