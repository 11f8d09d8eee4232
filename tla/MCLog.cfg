SPECIFICATION Spec
CONSTANTS
  Op = {o1, o2, o3}
  Val = {v1, v2}
  NoBuf = NoBuf
  MAXOPBLOCKS = 4
  LOGSIZE = 8
  logsize = 8
  FSSIZE = 10
  OpBlocks = 2
SYMMETRY Symmetry
INVARIANTS TypeOK QuiescentIsDurable SleeperHasWaker
PROPERTY ImplementsAtomicFS
