\* kill() of a pid that is 0 or whose fork() failed, then a fork into that slot.
CONSTANTS
  NPROC = 2
  NCPU = 1
  MaxPid = 3
  MaxSleep = 1
  Targets = {0, 2}
SPECIFICATION Spec
INVARIANT KilledWasAsked
CHECK_DEADLOCK FALSE
