\* Three processes, one of which also yields, sleeps and sets the policy of its
\* CPU, on two CPUs.
CONSTANTS
  NPROC = 3
  NCPU = 2
  Slice <- UnitSlice
  BoostFactor = 1
  BoostLimit0 = 2
  Polite = {0}
  Policies = {"mlfq", "rr"}
  Watched = {}
SPECIFICATION Spec
INVARIANTS TypeOK 
PROPERTY RunningKeepsPriority
