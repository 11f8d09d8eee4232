\* init, a child and a grandchild on one CPU; the child is killed wherever it
\* is, asleep in wait() or in sys_sleep() included.  A panic stops the CPU.
CONSTANTS
  NPROC = 3
  NCPU = 1
  MaxPid = 3
  MaxSleep = 1
  Targets = {2}
SPECIFICATION FairSpec
PROPERTY KilledExits
CHECK_DEADLOCK FALSE
