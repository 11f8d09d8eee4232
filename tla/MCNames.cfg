\* Two processes and three calls on a disk of three inodes: a root, a directory
\* and a file or a free inode.  create() and unlink() may deadlock, and ialloc()
\* panics on a full disk: the system may stop.
SPECIFICATION Spec
CONSTANTS
  p1 = p1
  p2 = p2
  NULL = NULL
  Proc <- TwoProcs
  Name = {"a", "b"}
  A = "a"
  B = "b"
  MaxCalls = 3
  Paths <- FewPaths
  Calls = {"open", "create", "mkdir", "unlink", "link", "chdir"}
  NInum = 3
  NINODE = 3
  NFILE = 1
SYMMETRY Symmetry
INVARIANTS TypeOK RefsCounted OneEntryPerInode Coherent NoDangling LinksMatch FreedWhenUnused 
CHECK_DEADLOCK FALSE
