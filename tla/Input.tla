------------------------------- MODULE Input -------------------------------
(***************************************************************************)
(* The tablet driver (device-input.c): events come one by one in buffers   *)
(* posted to the device, and count only at the EV_SYN that ends a batch.   *)
(* The buttons of the system's event queue are one: pressed while any of   *)
(* the device's buttons is.                                                *)
(***************************************************************************)
EXTENDS Integers, Sequences, FiniteSets

CONSTANTS
  Buffers,     \* nbuf: the buffers posted to the device
  Places,      \* positions of the pointer
  MaxBatches   \* bound on the batches of events sent

VARIABLES
  hostButtons, \* what is pressed on the host, and where the pointer is
  hostPlace,
  batch,       \* events of the batch the host is making, by button or "place"
  wire,        \* events in buffers that the driver has not handled, in order
  free,        \* buffers the device may fill
  knowpos, place,               \* handleEvent's statics
  knowmask, newbtn, oldbtn,
  mouse,       \* the system's pointer, button and last right-click mark
  posted,      \* mouseDown and mouseUp events posted
  batches

inputVars == <<hostButtons, hostPlace, batch, wire, free, knowpos, place, knowmask, newbtn, oldbtn,
               mouse, posted, batches>>

Buttons == {"left", "right"}

Key(b, down)  == [type |-> "key", code |-> b, value |-> down]
Abs(p)        == [type |-> "abs", code |-> "place", value |-> p]
Syn           == [type |-> "syn", code |-> "none", value |-> "none"]
Touched       == {batch[i].code : i \in 1 .. Len(batch)}

(***************************************************************************)
(* The host: a button changes at most once in a batch, as qemu sends them. *)
(***************************************************************************)
HostPresses(b) ==
  /\ b \notin Touched /\ batches < MaxBatches
  /\ hostButtons' = IF b \in hostButtons THEN hostButtons \ {b} ELSE hostButtons \cup {b}
  /\ batch' = Append(batch, Key(b, b \notin hostButtons))
  /\ UNCHANGED <<hostPlace, wire, free, knowpos, place, knowmask, newbtn, oldbtn, mouse, posted, batches>>

HostMoves(p) ==
  /\ "place" \notin Touched /\ p # hostPlace /\ batches < MaxBatches
  /\ hostPlace' = p /\ batch' = Append(batch, Abs(p))
  /\ UNCHANGED <<hostButtons, wire, free, knowpos, place, knowmask, newbtn, oldbtn, mouse, posted, batches>>

\* A batch goes out whole, in as many buffers as it has events, or waits.
HostSyncs ==
  /\ batch # <<>> /\ Len(batch) + 1 <= free
  /\ wire' = wire \o batch \o <<Syn>> /\ free' = free - Len(batch) - 1
  /\ batch' = <<>> /\ batches' = batches + 1
  /\ UNCHANGED <<hostButtons, hostPlace, knowpos, place, knowmask, newbtn, oldbtn, mouse, posted>>

(***************************************************************************)
(* DNotified: handleEvent for one event, then reQueue.                     *)
(***************************************************************************)
Event == Head(wire)

HandleAbs ==
  /\ wire # <<>> /\ Event.type = "abs"
  /\ knowpos' = TRUE /\ place' = Event.value
  /\ wire' = Tail(wire) /\ free' = free + 1
  /\ UNCHANGED <<hostButtons, hostPlace, batch, knowmask, newbtn, oldbtn, mouse, posted, batches>>

HandleKey ==
  /\ wire # <<>> /\ Event.type = "key"
  /\ knowmask' = knowmask \cup {Event.code}
  /\ newbtn' = IF Event.value THEN newbtn \cup {Event.code} ELSE newbtn
  /\ wire' = Tail(wire) /\ free' = free + 1
  /\ UNCHANGED <<hostButtons, hostPlace, batch, knowpos, place, oldbtn, mouse, posted, batches>>

\* Faulty variant: a button the batch says nothing of is taken to be up.
PressedForgets == newbtn

\* Buttons the batch did not speak of stay as they were.
Pressed == (newbtn \cap knowmask) \cup (oldbtn \ knowmask)

\* The event to post: only the change from no button to some, or back.
Clicks(now) ==
  IF (oldbtn # {}) = (now # {}) THEN "none" ELSE IF now # {} THEN "mouseDown" ELSE "mouseUp"

HandleSyn ==
  /\ wire # <<>> /\ Event.type = "syn"
  /\ \E now \in {Pressed} : \E click \in {Clicks(now)} :
       /\ mouse' = [place  |-> IF knowpos THEN place ELSE mouse.place,
                    down   |-> IF click = "none" THEN mouse.down ELSE now # {},
                    control |-> IF click = "none" THEN mouse.control ELSE "right" \in now]
       /\ posted' = IF click = "none" THEN posted ELSE Append(posted, click)
       /\ oldbtn' = now
  /\ knowpos' = FALSE /\ knowmask' = {} /\ newbtn' = {}
  /\ wire' = Tail(wire) /\ free' = free + 1
  /\ UNCHANGED <<hostButtons, hostPlace, batch, place, batches>>

InputInit ==
  /\ hostButtons = {} /\ hostPlace = "none" /\ batch = <<>> /\ wire = <<>> /\ free = Buffers
  /\ knowpos = FALSE /\ place = "none" /\ knowmask = {} /\ newbtn = {} /\ oldbtn = {}
  /\ mouse = [place |-> "none", down |-> FALSE, control |-> FALSE]
  /\ posted = <<>> /\ batches = 0

InputNext ==
  \/ \E b \in Buttons : HostPresses(b)
  \/ \E p \in Places : HostMoves(p)
  \/ HostSyncs \/ HandleAbs \/ HandleKey \/ HandleSyn

InputSpec == InputInit /\ [][InputNext]_inputVars

(***************************************************************************)
(* Properties.                                                             *)
(***************************************************************************)
Quiet == wire = <<>> /\ batch = <<>>

\* When all that was sent is handled, the driver and the system know what is
\* pressed and where the pointer is, however the events were batched.
MouseTrue ==
  Quiet => oldbtn = hostButtons /\ mouse.down = (hostButtons # {}) /\ mouse.place = hostPlace

\* mouseDown and mouseUp events take turns (IM: the system counts on pairs).
ClicksAlternate ==
  \A i \in 1 .. Len(posted) : posted[i] = IF i % 2 = 1 THEN "mouseDown" ELSE "mouseUp"

\* The system's picture of the mouse is the host's, and its events are pairs.
MouseFollowed == MouseTrue /\ ClicksAlternate
=============================================================================
