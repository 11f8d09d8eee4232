\* The slices and limits of proc.c, 22 of the 64 possible processes that compute.
CONSTANTS
  NPROC = 22
  NCPU = 1
  Slice <- CodeSlice
  BoostFactor = 10
  BoostLimit0 = 500
  Polite = {}
  Policies = {"mlfq"}
  Watched = {21}
SPECIFICATION FairSpec
PROPERTY NoStarvation
