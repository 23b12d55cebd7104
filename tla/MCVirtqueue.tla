----------------------------- MODULE MCVirtqueue -----------------------------
(***************************************************************************)
(* TLC instances of Virtqueue.                                             *)
(***************************************************************************)
EXTENDS VirtqueueProps, TLC

CONSTANTS w1, w2, w3, b1, b2, b3, b4

MCShapes == {<<1, 1>>, <<1, 2>>}
MCEvent  == {<<0, 1>>}

CallerSymmetry == Permutations(Waiters)
EventSymmetry  == Permutations(EventBufs)

\* Memory that is stale -- the rest of a free descriptor, a ring entry outside
\* the unread window, the length and the arguments of a QSend that is over --
\* is written again before it is read; states that differ in it only are
\* explored once.
InWindow(k, from, to) == \E d \in 0 .. Dist(from, to) - 1 : k = Pos(from + d)
LiveMemory ==
  <<[s \in Slots |-> IF desc[s].next = FreeMark THEN <<>>
                     ELSE <<desc[s], retlenptrs[s]>>],
    [r \in Requests |-> IF pc[r] = "idle" THEN <<>> ELSE <<pc[r], req[r], retsize[r]>>],
    [k \in Slots |-> IF InWindow(k, lastAvail, availIdx) \/ ("publish" \in {pc[r] : r \in Requests}
                        /\ k = Pos(availIdx)) THEN availRing[k] ELSE Size],
    [k \in Slots |-> IF InWindow(k, NextUsed, usedIdx) THEN <<usedRing[k]>> ELSE <<>>],
    availIdx, usedIdx, usedCtr, calls, scan, irq, deviceVars>>
=============================================================================
