\* An eighth of the slices of proc.c and five processes that compute; queue 2
\* is left after 8 turns, which is longer than the other four run in queue 3.
CONSTANTS
  NPROC = 5
  NCPU = 1
  Slice <- EighthSlice
  BoostFactor = 4
  BoostLimit0 = 12
  Polite = {}
  Policies = {"mlfq"}
  Watched = {0, 1, 2, 3, 4}
SPECIFICATION FairSpec
 
PROPERTY NoStarvation
