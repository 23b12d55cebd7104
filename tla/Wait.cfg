\* Waits on a 68k, at either level, that interrupt one another.  The system may
\* stop: a nested caller that sleeps at level 1 with its answer has no tick to
\* wake it (WaitSleepsAnswered).
SPECIFICATION FairSpec
CONSTANTS
  Callers = {c1, c2, c3}
  OldLevels = {0, 1}
  HasStop = TRUE
  MaxNest = 3
INVARIANTS AloneNeverSleepsAnswered OwnLevel
PROPERTIES WaitsEnd
CHECK_DEADLOCK FALSE
