---------------------------- MODULE RequestReply ----------------------------
(***************************************************************************)
(* What virtqueue.c promises the drivers above it, with no rings and no    *)
(* descriptors: a request is either at the device or in one queue of       *)
(* completions; each completion is delivered once, in the order the device *)
(* made them, to the request it answers and with the length the device     *)
(* gave.  A waiting caller returns when its own answer has arrived.  An    *)
(* event buffer (the input driver's) is free again as soon as its answer   *)
(* is delivered.                                                           *)
(***************************************************************************)
EXTENDS Integers, Sequences

CONSTANTS Waiters,    \* callers that block until their answer has arrived
          EventBufs,  \* buffers sent without waiting
          Lens        \* the lengths an answer may have

VARIABLES busy,   \* the requests sent and not yet finished with
          done,   \* the completions not yet delivered: <<request, length>>
          got     \* the length delivered for each request, 0 for none yet

vars == <<busy, done, got>>

Requests == Waiters \cup EventBufs

Init == /\ busy = {}
        /\ done = <<>>
        /\ got = [r \in Requests |-> 0]

\* A caller hands a request to the device, and its answer is wiped.
Submit(r) == /\ r \notin busy
             /\ busy' = busy \cup {r}
             /\ got' = [got EXCEPT ![r] = 0]
             /\ UNCHANGED done

\* The device answers a request that has no answer yet.
Complete(r, len) == /\ r \in busy
                    /\ got[r] = 0
                    /\ \A k \in 1..Len(done) : done[k][1] # r
                    /\ done' = Append(done, <<r, len>>)
                    /\ UNCHANGED <<busy, got>>

\* The oldest completion reaches the request it answers.
Deliver == /\ done # <<>>
           /\ LET r == Head(done)[1]
              IN  /\ got' = [got EXCEPT ![r] = Head(done)[2]]
                  /\ busy' = IF r \in EventBufs THEN busy \ {r} ELSE busy
           /\ done' = Tail(done)

\* A waiting caller, answered, carries on.
Return(w) == /\ w \in busy
             /\ got[w] # 0
             /\ busy' = busy \ {w}
             /\ UNCHANGED <<done, got>>

Next == \/ \E r \in Requests : Submit(r)
        \/ \E r \in Requests, len \in Lens : Complete(r, len)
        \/ Deliver
        \/ \E w \in Waiters : Return(w)

Spec == Init /\ [][Next]_vars
=============================================================================
