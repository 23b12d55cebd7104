------------------------------ MODULE Virtqueue ------------------------------
(***************************************************************************)
(* One virtio split ring, as virtqueue.c drives it.                        *)
(*                                                                         *)
(* The CPU is one thread with interrupts.  QSend and poll run with         *)
(* interrupts masked, so on the CPU a QSend that has begun is alone until  *)
(* it has published its request; only the device, which is a thread of the *)
(* emulator, runs between its steps.  A QSend that waits with interrupts   *)
(* enabled can be interrupted by the handler (QNotified) and by a further, *)
(* nested QSend: `calls` is the stack of those activations.  A QSend made  *)
(* at interrupt level 2 or more polls the used ring itself.                *)
(*                                                                         *)
(* The abstracted data: a physical address is <<owner, k>>, the k-th       *)
(* buffer of the request of that owner; a request is named for its owner,  *)
(* a blocked caller (transact in 9p.c, DriverRead in device-block.c) or an *)
(* event buffer (reQueue in device-input.c).  The owner stands for the     *)
(* retsize pointer too.                                                    *)
(***************************************************************************)
EXTENDS Integers, FiniteSets, Sequences

CONSTANTS
  Size,       \* descriptors of the queue, at most MAX_RING
  IdxMod,     \* the ring indices count modulo this (2^16 in the code)
  Waiters,    \* callers with wait = true
  EventBufs,  \* buffers sent with wait = false
  Shapes,     \* the <<n_out, n_in>> a caller may ask for
  Lens,       \* the lengths the device may report
  NoOne       \* the NULL pointer

ASSUME RingAssumption ==
  /\ Size \in Nat \ {0}
  /\ IdxMod \in Nat /\ IdxMod >= 2 * Size /\ IdxMod % Size = 0
ASSUME CallerAssumption ==
  /\ Waiters \cap EventBufs = {}
  /\ NoOne \notin Waiters \cup EventBufs
  /\ Shapes \subseteq Nat \X Nat
  /\ \A sh \in Shapes : sh[1] + sh[2] > 0
ASSUME DeviceAssumption == Lens \subseteq Nat \ {0}

Requests == Waiters \cup EventBufs
Slots    == 0 .. Size - 1
Indices  == 0 .. IdxMod - 1
FreeMark == IdxMod - 1          \* 0xffff in a descriptor's next field

VARIABLES
  desc,        \* descriptor table
  retlenptrs,  \* per head descriptor: whose length to set
  retsize,     \* *retsize of each request
  availIdx, availRing,
  usedIdx, usedRing, usedFlags,
  usedCtr,     \* used_ctr: how far the driver has read the used ring
  calls,       \* stack of the waiting QSends, innermost last
  pc,          \* where each request's QSend is
  req,         \* the <<n_out, n_in>> of each request's QSend
  scan,        \* the activation of poll: on, its i and end, its callback
  irq,         \* the device's interrupt is asserted
  lastAvail,   \* device: how far it has read the avail ring
  held,        \* device: heads taken and not answered
  kicked,      \* device: notified, not yet noticed
  devState     \* device: "idle", "busy" or "recheck"

ringVars   == <<availIdx, availRing>>
usedVars   == <<usedIdx, usedRing>>
deviceVars == <<usedFlags, lastAvail, held, kicked, devState>>
vars == <<desc, retlenptrs, retsize, ringVars, usedVars, usedCtr, calls, pc,
          req, scan, irq, deviceVars>>

(***************************************************************************)
(* Operators on the descriptor table and the ring indices.                 *)
(***************************************************************************)
Succ(i)    == (i + 1) % IdxMod
Pos(i)     == i % Size                        \* i & (size - 1)
Dist(i, j) == IF i <= j THEN j - i ELSE j - i + IdxMod

\* Faulty variant: QSend does not look for the free mark.
AllSlots == Slots

FreeSlots == {s \in Slots : desc[s].next = FreeMark}

\* The n free slots a scan from the top of the table finds first.
Highest(n) == {s \in FreeSlots : Cardinality({f \in FreeSlots : f > s}) < n}

\* Faulty variant: the walk stops short of the last.
AllButLast(head) == {s \in Slots : desc[s].more /\ desc[s].addr[1] = desc[head].addr[1]}

\* The descriptors a walk from head visits: the least set that holds head
\* and, with a descriptor whose NEXT flag is set, the one it points to.
Chain(head) ==
  {s \in Slots : \A C \in SUBSET Slots :
     (head \in C /\ \A c \in C : desc[c].more => desc[c].next \in C) => s \in C}

Least(S) == CHOOSE s \in S : \A t \in S : s <= t
Rank(s, S) == Cardinality({t \in S : t <= s})

(***************************************************************************)
(* What may run on the CPU.                                                *)
(***************************************************************************)
Running == \A r \in Requests : pc[r] # "panic"
Masked  == scan.on \/ \E r \in Requests : pc[r] \in {"publish", "notify", "poll", "check"}

\* Faulty variant: any completion ends the wait of the innermost caller.
AnyAnswer(w) == \E r \in Requests : retsize[r] # 0

HasAnswer(w) == retsize[w] # 0

\* A task or an interrupt handler of level below 2 calls QSend, or poll's
\* callback does (DNotified requeues the buffer it was told of).
MayCall(r) == /\ pc[r] = "idle"
              /\ \/ r \in Waiters /\ ~Masked
                 \/ r \in EventBufs /\ ~Masked /\ calls = <<>>
                 \/ scan.callback = r

(***************************************************************************)
(* QSend: build the chain from the last buffer to the first in free slots  *)
(* from the top of the table down, so that it ascends from its head.       *)
(***************************************************************************)
Descriptor(r, sh, S, s) ==
  [addr  |-> <<r, Rank(s, S)>>,
   more  |-> Rank(s, S) < sh[1] + sh[2],
   write |-> Rank(s, S) > sh[1],
   next  |-> IF Rank(s, S) < sh[1] + sh[2]
               THEN Least({t \in S : t > s}) ELSE 0]

QSendFill(r, sh) ==
  /\ Running /\ MayCall(r)
  /\ retsize' = [retsize EXCEPT ![r] = 0]
  /\ req' = [req EXCEPT ![r] = sh]
  /\ LET n == sh[1] + sh[2]
         S == Highest(n)
     IN  IF n <= Cardinality(FreeSlots)
           THEN /\ desc' = [s \in Slots |-> IF s \in S THEN Descriptor(r, sh, S, s)
                                                       ELSE desc[s]]
                /\ retlenptrs' = [retlenptrs EXCEPT ![Least(S)] = r]
                /\ availRing' = [availRing EXCEPT ![Pos(availIdx)] = Least(S)]
                /\ pc' = [pc EXCEPT ![r] = "publish"]
           ELSE /\ pc' = [pc EXCEPT ![r] = "panic"]
                /\ UNCHANGED <<desc, retlenptrs, availRing>>
  /\ calls' = IF r \in Waiters THEN Append(calls, r) ELSE calls
  /\ UNCHANGED <<availIdx, usedVars, usedCtr, scan, irq, deviceVars>>

\* After the barrier, the device may see the request.
QSendPublish(r) ==
  /\ pc[r] = "publish"
  /\ availIdx' = Succ(availIdx)
  /\ pc' = [pc EXCEPT ![r] = "notify"]
  /\ UNCHANGED <<desc, retlenptrs, retsize, availRing, usedVars, usedCtr, calls,
                 req, scan, irq, deviceVars>>

\* After another barrier, notify the device unless it asked not to be; then
\* wait for the interrupt, poll (interrupt level 2 or more), or return.
QSendNotify(r) ==
  /\ pc[r] = "notify"
  /\ kicked' = (kicked \/ usedFlags = 0)
  /\ \/ r \in Waiters /\ \E next \in {"wait", "poll"} : pc' = [pc EXCEPT ![r] = next]
     \/ r \in EventBufs /\ pc' = [pc EXCEPT ![r] = "sent"]
  /\ scan' = IF scan.callback = r THEN [scan EXCEPT !.callback = NoOne] ELSE scan
  /\ UNCHANGED <<desc, retlenptrs, retsize, ringVars, usedVars, usedCtr, calls,
                 req, irq, usedFlags, lastAvail, held, devState>>

\* The innermost waiting caller finds its length set and returns.
QSendReturn(w) ==
  /\ Running /\ calls # <<>> /\ w = calls[Len(calls)]
  /\ \/ pc[w] = "wait" /\ ~Masked
     \/ pc[w] = "check" /\ ~scan.on
  /\ HasAnswer(w)
  /\ pc' = [pc EXCEPT ![w] = "idle"]
  /\ calls' = SubSeq(calls, 1, Len(calls) - 1)
  /\ UNCHANGED <<desc, retlenptrs, retsize, ringVars, usedVars, usedCtr, req,
                 scan, irq, deviceVars>>

(***************************************************************************)
(* poll: i and end are read once, and used_ctr moves to end at the start.  *)
(***************************************************************************)
\* Faulty variants: used_ctr moves one element per poll; only the newest
\* element is looked at.
CountOnePoll == /\ scan' = [on |-> TRUE, i |-> usedCtr, end |-> usedIdx, callback |-> NoOne]
                /\ usedCtr' = IF usedCtr = usedIdx THEN usedCtr ELSE Succ(usedCtr)
NewestOnlyPoll == /\ scan' = [on |-> TRUE, end |-> usedIdx, callback |-> NoOne,
                              i |-> IF usedCtr = usedIdx THEN usedIdx
                                      ELSE (usedIdx + IdxMod - 1) % IdxMod]
                  /\ usedCtr' = usedIdx

StartPoll == /\ scan' = [on |-> TRUE, i |-> usedCtr, end |-> usedIdx, callback |-> NoOne]
             /\ usedCtr' = usedIdx

\* The transport's handler acknowledges the interrupt, then calls QNotified.
Interrupt ==
  /\ Running /\ irq /\ ~Masked
  /\ irq' = FALSE
  /\ StartPoll
  /\ UNCHANGED <<desc, retlenptrs, retsize, ringVars, usedVars, calls, pc, req, deviceVars>>

\* A caller that may not be interrupted polls at least once, then again for
\* as long as its own length is not set.
QSendPoll(w) ==
  /\ ~scan.on
  /\ pc[w] = "poll" \/ (pc[w] = "check" /\ ~HasAnswer(w))
  /\ pc' = [pc EXCEPT ![w] = "check"]
  /\ StartPoll
  /\ UNCHANGED <<desc, retlenptrs, retsize, ringVars, usedVars, calls, req, irq, deviceVars>>

\* One turn of the loop: free the chain, set the length, call DNotified,
\* where the input driver will send the same buffer again.
PollElement ==
  /\ Running /\ scan.on /\ scan.callback = NoOne /\ scan.i # scan.end
  /\ LET elem  == usedRing[Pos(scan.i)]
         owner == retlenptrs[elem.id]
         freed == Chain(elem.id)
     IN  /\ desc' = [s \in Slots |-> IF s \in freed THEN [desc[s] EXCEPT !.next = FreeMark]
                                                    ELSE desc[s]]
         /\ retsize' = [r \in Requests |-> IF r = owner THEN elem.len ELSE retsize[r]]
         /\ pc' = [r \in Requests |-> IF r = owner /\ r \in EventBufs THEN "idle" ELSE pc[r]]
         /\ scan' = [scan EXCEPT !.i = Succ(scan.i),
                       !.callback = IF owner \in EventBufs THEN owner ELSE NoOne]
  /\ UNCHANGED <<retlenptrs, ringVars, usedVars, usedCtr, calls, req, irq, deviceVars>>

\* Faulty variant: the interrupt is acknowledged after the used ring is read.
LateAckPollEnd ==
  /\ scan.on /\ scan.callback = NoOne /\ scan.i = scan.end
  /\ scan' = [on |-> FALSE, i |-> 0, end |-> 0, callback |-> NoOne]
  /\ irq' = FALSE
  /\ UNCHANGED <<desc, retlenptrs, retsize, ringVars, usedVars, usedCtr, calls, pc,
                 req, deviceVars>>

PollEnd ==
  /\ scan.on /\ scan.callback = NoOne /\ scan.i = scan.end
  /\ scan' = [on |-> FALSE, i |-> 0, end |-> 0, callback |-> NoOne]
  /\ UNCHANGED <<desc, retlenptrs, retsize, ringVars, usedVars, usedCtr, calls, pc,
                 req, irq, deviceVars>>

(***************************************************************************)
(* The device (external).  It answers requests in any order.  While busy   *)
(* it may set used.flags to suppress notifications; before it rests it     *)
(* clears the flag and looks at the avail ring once more.                  *)
(***************************************************************************)
DevNotice ==
  /\ kicked
  /\ kicked' = FALSE
  /\ devState' = "busy"
  /\ usedFlags' \in {0, 1}
  /\ UNCHANGED <<desc, retlenptrs, retsize, ringVars, usedVars, usedCtr, calls, pc,
                 req, scan, irq, lastAvail, held>>

DevTake ==
  /\ devState = "busy" /\ lastAvail # availIdx
  /\ held' = held \cup {availRing[Pos(lastAvail)]}
  /\ lastAvail' = Succ(lastAvail)
  /\ UNCHANGED <<desc, retlenptrs, retsize, ringVars, usedVars, usedCtr, calls, pc,
                 req, scan, irq, usedFlags, kicked, devState>>

DevRest ==
  /\ devState = "busy" /\ lastAvail = availIdx
  /\ usedFlags' = 0
  /\ devState' = "recheck"
  /\ UNCHANGED <<desc, retlenptrs, retsize, ringVars, usedVars, usedCtr, calls, pc,
                 req, scan, irq, lastAvail, held, kicked>>

DevRecheck ==
  /\ devState = "recheck"
  /\ devState' = IF lastAvail = availIdx THEN "idle" ELSE "busy"
  /\ UNCHANGED <<desc, retlenptrs, retsize, ringVars, usedVars, usedCtr, calls, pc,
                 req, scan, irq, usedFlags, lastAvail, held, kicked>>

DevAnswer(head, len) ==
  /\ head \in held
  /\ held' = held \ {head}
  /\ usedRing' = [usedRing EXCEPT ![Pos(usedIdx)] = [id |-> head, len |-> len]]
  /\ usedIdx' = Succ(usedIdx)
  /\ irq' = TRUE
  /\ UNCHANGED <<desc, retlenptrs, retsize, ringVars, usedCtr, calls, pc, req, scan,
                 usedFlags, lastAvail, kicked, devState>>

(***************************************************************************)
(* The specification, from the state QInit leaves.                         *)
(***************************************************************************)
Init ==
  /\ desc = [s \in Slots |-> [addr |-> <<NoOne, 0>>, more |-> FALSE, write |-> FALSE,
                              next |-> FreeMark]]
  /\ retlenptrs = [s \in Slots |-> NoOne]
  /\ retsize = [r \in Requests |-> 0]
  /\ availIdx = 0 /\ availRing = [k \in Slots |-> 0]
  /\ usedIdx = 0 /\ usedRing = [k \in Slots |-> [id |-> 0, len |-> 0]]
  /\ usedFlags = 0 /\ usedCtr = 0
  /\ calls = <<>>
  /\ pc = [r \in Requests |-> "idle"]
  /\ req = [r \in Requests |-> <<0, 0>>]
  /\ scan = [on |-> FALSE, i |-> 0, end |-> 0, callback |-> NoOne]
  /\ irq = FALSE
  /\ lastAvail = 0 /\ held = {} /\ kicked = FALSE /\ devState = "idle"

Driver == \/ \E r \in Requests :
               \/ \E sh \in Shapes : QSendFill(r, sh)
               \/ QSendPublish(r)
               \/ QSendNotify(r)
          \/ \E w \in Waiters : QSendPoll(w) \/ QSendReturn(w)
          \/ PollElement
          \/ PollEnd

Device == \/ DevNotice \/ DevTake \/ DevRest \/ DevRecheck
          \/ \E head \in Slots, len \in Lens : DevAnswer(head, len)

Next == Driver \/ Interrupt \/ Device

Spec == Init /\ [][Next]_vars
=============================================================================
