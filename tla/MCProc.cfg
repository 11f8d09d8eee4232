\* Two CPUs, three slots: init, a child, and a grandchild or a second child.
CONSTANTS
  NPROC = 3
  NCPU = 2
  MaxPid = 3
  MaxSleep = 1
  Targets = {2}
SPECIFICATION Spec
INVARIANTS  StackSafe FreeSlotHasNoStack ParentAlive WaiterHasNoZombie NotOverslept
PROPERTY LegalLife
