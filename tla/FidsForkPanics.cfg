\* Forks that fail to open, and an unmount with forks open.
SPECIFICATION FidsSpec
CONSTANTS
  ROOTFID = root
  Tracked = {f1, f2, f3}
  FcbFids = {r1, r2}
  Chunk = 2
  MaxNames = 2
SYMMETRY FidSymmetry
INVARIANTS NeverPanics
\* A panic stops the driver.
CHECK_DEADLOCK FALSE
