\* Waits on a 68k, at either level, that interrupt one another.
SPECIFICATION Spec
CONSTANTS
  Callers = {c1, c2}
  OldLevels = {0, 1}
  HasStop = TRUE
  MaxNest = 2
INVARIANTS NeverSleepsAnswered
