\* Two processes on a ring of two bytes whose counters wrap at 4; a write of
\* three bytes must wait for a reader.  Any process may be killed.
CONSTANTS
  Proc = {p1, p2}
  Byte = {a, b}
  PIPESIZE = 2
  UINT = 4
  MaxIO = 3
  Killable = {p1, p2}
  NULL = NULL
  NONE = NONE
  EOF = EOF
SYMMETRY Symmetry
SPECIFICATION Spec
INVARIANTS TypeOK PageOwned NoLostWakeup
PROPERTY ImplementsFifo
