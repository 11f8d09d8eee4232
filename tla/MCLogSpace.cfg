\* Two FS calls of one block each, entitled to three, in a log with room for five.
SPECIFICATION FairSpec
CONSTANTS
  Op = {o1, o2}
  Val = {v1}
  NoBuf = NoBuf
  MAXOPBLOCKS = 3
  LOGSIZE = 6
  logsize = 6
  FSSIZE = 11
  OpBlocks = 1
INVARIANT AdmittedFits
PROPERTY SleeperIsWoken
