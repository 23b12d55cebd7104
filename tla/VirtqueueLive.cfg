\* Two nesting callers and an event buffer, on a ring that they can overload:
\* every interleaving of posting, answering, collecting and requeueing, with
\* its outcome.
SPECIFICATION FairSpec
CONSTANTS
  Size = 2
  IdxMod = 4
  w1 = w1
  w2 = w2
  w3 = w3
  b1 = b1
  b2 = b2
  b3 = b3
  b4 = b4
  Waiters = {w1, w2}
  EventBufs = {b1}
  Shapes <- MCEvent
  Lens = {1}
  NoOne = NoOne
INVARIANTS
  RingSound
PROPERTIES
  EveryCallReturns
  EveryEventHandled
  ImplementsRequestReply
\* A panic stops the CPU.
CHECK_DEADLOCK FALSE
