\* The calls of linkunlink() in usertests.c: create, link and unlink of one name
\* by two processes.
SPECIFICATION Spec
CONSTANTS
  p1 = p1
  p2 = p2
  NULL = NULL
  Proc <- TwoProcs
  Name = {"a", "b"}
  A = "a"
  B = "b"
  MaxCalls = 2
  Paths <- OnePath
  Calls = {"create", "link", "unlink"}
  NInum = 3
  NINODE = 3
  NFILE = 1
SYMMETRY Symmetry
INVARIANT NoDeadlock
CHECK_DEADLOCK FALSE
