--------------------------- MODULE VirtqueueProps ---------------------------
(***************************************************************************)
(* What must be true of virtqueue.c's ring, and the fairness under which   *)
(* its callers make progress.                                              *)
(***************************************************************************)
EXTENDS Virtqueue

Descriptors == [addr : (Requests \cup {NoOne}) \X Nat, more : BOOLEAN, write : BOOLEAN,
                next : Slots \cup {FreeMark}]

TypeOK ==
  /\ desc \in [Slots -> Descriptors]
  /\ retlenptrs \in [Slots -> Requests \cup {NoOne}]
  /\ retsize \in [Requests -> Lens \cup {0}]
  /\ availIdx \in Indices /\ availRing \in [Slots -> Slots]
  /\ usedIdx \in Indices /\ usedRing \in [Slots -> [id : Slots, len : Lens \cup {0}]]
  /\ usedFlags \in {0, 1} /\ usedCtr \in Indices
  /\ calls \in Seq(Waiters)
  /\ pc \in [Requests -> {"idle", "publish", "notify", "wait", "poll", "check",
                          "sent", "panic"}]
  /\ req \in [Requests -> Shapes \cup {<<0, 0>>}]
  /\ scan \in [on : BOOLEAN, i : Indices, end : Indices, callback : EventBufs \cup {NoOne}]
  /\ irq \in BOOLEAN
  /\ lastAvail \in Indices /\ held \subseteq Slots /\ kicked \in BOOLEAN
  /\ devState \in {"idle", "busy", "recheck"}

\* The requests with a chain in the table: from the filling of the chain to
\* the setting of the length, which poll does as it frees the chain.
Holding == {r \in Requests : /\ pc[r] \in {"publish", "notify", "wait", "poll", "check", "sent"}
                             /\ retsize[r] = 0}
InFlight == {r \in Holding : pc[r] # "publish"}

Own(r) == {s \in Slots : desc[s].next # FreeMark /\ desc[s].addr[1] = r}
NumBufs(r) == req[r][1] + req[r][2]

\* From the moment a request is published until its completion is polled, the
\* device, reading at any time, finds exactly the caller's buffers in the
\* caller's order, the device-readable ones first, and poll finds the caller's
\* length pointer at the head: no step of another request disturbs a chain.
ChainsIntact ==
  \A r \in Holding :
    /\ Cardinality(Own(r)) = NumBufs(r)
    /\ \E s \in Own(r) : desc[s].addr[2] = 1 /\ retlenptrs[s] = r
    /\ \A s \in Own(r) :
         /\ desc[s].write <=> desc[s].addr[2] > req[r][1]
         /\ desc[s].more <=> desc[s].addr[2] < NumBufs(r)
         /\ desc[s].more => /\ desc[s].next \in Own(r)
                            /\ desc[desc[s].next].addr[2] = desc[s].addr[2] + 1

\* No descriptor leaks and none is freed early: the descriptors not marked
\* 0xffff are those of the requests in progress.
DescriptorsAccounted ==
  {s \in Slots : desc[s].next # FreeMark} = UNION {Own(r) : r \in Holding}

AvailHeads == {availRing[Pos(lastAvail + k)] : k \in 0 .. Dist(lastAvail, availIdx) - 1}

\* The first used element that poll has not reached.
NextUsed == IF scan.on THEN scan.i ELSE usedCtr
UsedHeads == {usedRing[Pos(NextUsed + k)].id : k \in 0 .. Dist(NextUsed, usedIdx) - 1}

\* A published request is in exactly one place -- the unread part of the
\* avail ring, the device, or the unread part of the used ring -- and nothing
\* else is: the 16-bit indices, wrapping, lose no entry and repeat none.
InOnePlace ==
  /\ \A r \in InFlight : \E s \in AvailHeads \cup held \cup UsedHeads :
        s \in Own(r) /\ desc[s].addr[2] = 1
  /\ Dist(lastAvail, availIdx) + Cardinality(held) + Dist(NextUsed, usedIdx)
       = Cardinality(InFlight)

\* QSend panics ("out of descriptors") only when the requests in progress and
\* the new one really need more descriptors than the ring has.
PanicMeansOverload ==
  \A r \in Requests : pc[r] = "panic" =>
    NumBufs(r) + Cardinality(UNION {Own(h) : h \in Holding}) > Size

\* No descriptor and no entry of a ring is lost or counted twice, through
\* nesting, wrapping and requeueing, and QSend gives up only when it must.
RingAccounted == DescriptorsAccounted /\ InOnePlace /\ PanicMeansOverload

\* The same, and no chain is disturbed.
RingSound == ChainsIntact /\ RingAccounted

(***************************************************************************)
(* The ring implements RequestReply.                                       *)
(***************************************************************************)
Completions ==
  [k \in 1 .. Dist(NextUsed, usedIdx) |->
     LET elem == usedRing[Pos(NextUsed + k - 1)]
     IN  <<desc[elem.id].addr[1], elem.len>>]

Abstract == INSTANCE RequestReply
              WITH busy <- {r \in Requests : pc[r] # "idle"},
                   done <- Completions,
                   got  <- retsize

\* Every completion the device makes is delivered once, in the device's
\* order, to the request whose buffers it answers, with its length; a waiting
\* QSend returns only when it has been given its own answer.
ImplementsRequestReply == Abstract!Spec

(***************************************************************************)
(* Fairness.  The CPU executes the code it is in; a pending interrupt is   *)
(* taken at the first moment it is unmasked, and an interrupted caller     *)
(* goes on when the handler returns, which an endless run of nested calls  *)
(* does not prevent (strong fairness).  The device notices notifications   *)
(* and answers the requests of waiting callers; of events, the user's,     *)
(* nothing is promised.  Nobody is obliged to call QSend.                  *)
(***************************************************************************)
CpuFairness ==
  /\ \A r \in Requests : WF_vars(QSendPublish(r)) /\ WF_vars(QSendNotify(r))
  /\ \A b \in EventBufs : WF_vars(scan.callback = b /\ \E sh \in Shapes : QSendFill(b, sh))
  /\ \A w \in Waiters : WF_vars(QSendPoll(w)) /\ SF_vars(QSendReturn(w))
  /\ WF_vars(PollElement) /\ WF_vars(PollEnd)
  /\ SF_vars(Interrupt)

DevFairness ==
  /\ WF_vars(DevNotice) /\ WF_vars(DevTake) /\ WF_vars(DevRest) /\ WF_vars(DevRecheck)
  /\ \A head \in Slots :
       WF_vars(desc[head].addr[1] \in Waiters /\ \E len \in Lens : DevAnswer(head, len))

FairSpec == Spec /\ CpuFairness /\ DevFairness

\* No lost notification and no lost interrupt: every QSend that waits returns,
\* unless the ring is overloaded and QSend panics.
EveryCallReturns == \A w \in Waiters : pc[w] = "publish" ~> (pc[w] = "idle" \/ ~Running)

\* Every event the device reports is handed to the input driver, unless a
\* QSend panics first.
EventWaits(b) == \E k \in DOMAIN Completions : Completions[k][1] = b
EveryEventHandled == \A b \in EventBufs : EventWaits(b) ~> (~EventWaits(b) \/ ~Running)
=============================================================================
