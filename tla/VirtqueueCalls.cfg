\* Three nesting callers whose requests may not fit in the ring together.
SPECIFICATION Spec
CONSTANTS
  Size = 4
  IdxMod = 8
  w1 = w1
  w2 = w2
  w3 = w3
  b1 = b1
  b2 = b2
  b3 = b3
  b4 = b4
  Waiters = {w1, w2, w3}
  EventBufs = {}
  Shapes <- MCShapes
  Lens = {1, 2}
  NoOne = NoOne
VIEW LiveMemory
SYMMETRY CallerSymmetry
INVARIANTS ChainsIntact RingAccounted
PROPERTIES ImplementsRequestReply
\* A panic stops the CPU.
CHECK_DEADLOCK FALSE
