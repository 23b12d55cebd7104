\* Three FCBs on two files, whose data and resource forks share rings.
SPECIFICATION OpenSpec
CONSTANTS
  Refs = {r1, r2, r3}
  NoRef = NoRef
  CNIDs = {2, 3}
  Lists = 4
  MaxLen = 1
VIEW LiveFCBs
SYMMETRY RefSymmetry
INVARIANTS RingsIntact ExclusiveWriter LengthsKnown NoWriteLost OpenFilesExist
\* A panic, or a loop without end, stops the driver.
CHECK_DEADLOCK FALSE
