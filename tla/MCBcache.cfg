\* Three blocks compete for two buffers, one of which may be pinned: bget() may
\* panic, and the system stops.  The disk may fail to read.
CONSTANTS
  Proc = {p1, p2, p3}
  Block = {k1, k2, k3}
  Val = {x, y}
  NBUF = 2
  MaxPinned = 1
  NULL = NULL
SYMMETRY Symmetry
SPECIFICATION Spec
INVARIANTS TypeOK OneBufferPerBlock BufferStays ReadsLatest QueueMatches SleeperHasWaker
PROPERTY PanicOnlyWhenFull
CHECK_DEADLOCK FALSE
