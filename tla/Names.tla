-------------------------------- MODULE Names --------------------------------
(***************************************************************************)
(* The i-node cache and the directories of fs.c, the file table of file.c  *)
(* and the system calls of sysfile.c on names: open, mkdir, link, unlink,  *)
(* chdir, close, with what fork() and exit() do to files and directories.  *)
(*                                                                         *)
(* A section under icache.lock is one step; so is what a process does to   *)
(* inodes whose sleep-locks it holds.  The lock operations a call still    *)
(* has to do, one step each, are in todo; the call goes on at pc when none *)
(* is left.  The log makes a call atomic on disk (module Log), so crashes  *)
(* are left out, and so is the contents of files.                          *)
(***************************************************************************)
EXTENDS Integers, FiniteSets, SequencesExt

CONSTANTS
  Proc,     (* processes                                                   *)
  Name,     (* names of directory entries, "." and ".." apart              *)
  A, B,     (* the names on the disk at the start                          *)
  Paths,    (* the paths that calls use, sequences of names                *)
  Calls,    (* the system calls that are made                              *)
  NInum,    (* inodes on disk                                              *)
  NINODE,   (* entries of the inode cache                                  *)
  NFILE,    (* entries of the file table                                   *)
  MaxCalls, (* bound: the calls on names that are made in all              *)
  NULL

AllCalls == {"open", "create", "mkdir", "unlink", "link", "chdir"}

ASSUME NamesAssumption ==
  /\ NInum \in Nat /\ NInum > 2 /\ {A, B} \subseteq Name /\ MaxCalls \in Nat
  /\ NINODE \in Nat \ {0} /\ NFILE \in Nat \ {0}
  /\ Calls \subseteq AllCalls /\ {".", ".."} \cap Name = {}
  /\ \A s \in Paths : s # << >> /\ ToSet(s) \subseteq Name \cup {".", ".."}
  /\ NULL \notin Proc

Inum == 1 .. NInum
Inode == 1 .. NINODE
File == 1 .. NFILE
ROOTINO == 1
None == 0        (* no inode, no file, or a free directory entry           *)

VARIABLES
  dinode,    (* on disk: type and nlink of each inode                      *)
  dirents,   (* on disk: the inode of each name in each directory          *)
  dotdot,    (* on disk: the inode of ".." in each directory               *)
  inum, ref, valid, copy, locked,   (* struct inode: copy holds type and   *)
             (* nlink, locked the holder of ip->lock or NULL               *)
  fref, fip,   (* struct file                                              *)
  ofile, cwd,  (* struct proc; a process has one descriptor                *)
  pc, call, path, new,   (* per process: where it is, its call, the rest   *)
             (* of its path, and the second path of link()                 *)
  ip, dp,    (* per process: the inodes it refers to, or None              *)
  todo,      (* per process: the lock operations that come next            *)
  lost,      (* history: inodes named in a directory when it was freed     *)
  raced,     (* history: inodes that two processes put at the same time    *)
  made       (* the calls made so far, up to MaxCalls                      *)

disk == <<dinode, dirents, dotdot>>
icache == <<inum, ref, valid, copy, locked>>
ftable == <<fref, fip>>
files == <<ftable, ofile, cwd>>
locals == <<call, path, new>>
hist == <<lost, raced>>
vars == <<disk, icache, files, pc, locals, ip, dp, todo, hist, made>>

FREE == [type |-> "free", nlink |-> 0]
NoEntries == [n \in Name |-> None]

(* userinit(): the first process is in the root directory of a disk that   *)
(* holds the directory A, itself empty or with one file.                   *)
Init ==
  /\ \E full \in BOOLEAN :
       /\ dinode = [i \in Inum |->
            CASE i = ROOTINO -> [type |-> "dir", nlink |-> 2]
              [] i = 2 -> [type |-> "dir", nlink |-> 1]
              [] i = 3 /\ full -> [type |-> "file", nlink |-> 1]
              [] OTHER -> FREE]
       /\ dirents = [i \in Inum |->
            CASE i = ROOTINO -> [NoEntries EXCEPT ![A] = 2]
              [] i = 2 /\ full -> [NoEntries EXCEPT ![B] = 3]
              [] OTHER -> NoEntries]
  /\ dotdot = [i \in Inum |-> ROOTINO]
  /\ inum = [e \in Inode |-> ROOTINO]
  /\ ref = [e \in Inode |-> IF e = 1 THEN 1 ELSE 0]
  /\ valid = [e \in Inode |-> FALSE] /\ copy = [e \in Inode |-> FREE]
  /\ locked = [e \in Inode |-> NULL]
  /\ fref = [f \in File |-> 0] /\ fip = [f \in File |-> None]
  /\ ofile = [p \in Proc |-> None]
  /\ \E p \in Proc :
       /\ cwd = [q \in Proc |-> IF q = p THEN 1 ELSE None]
       /\ pc = [q \in Proc |-> IF q = p THEN "user" ELSE "dead"]
  /\ call = [p \in Proc |-> NULL]
  /\ path = [p \in Proc |-> << >>] /\ new = [p \in Proc |-> << >>]
  /\ ip = [p \in Proc |-> None] /\ dp = [p \in Proc |-> None]
  /\ todo = [p \in Proc |-> << >>]
  /\ lost = {} /\ raced = {} /\ made = 0

-----------------------------------------------------------------------------
(* The operations on an inode e that a call has in todo                    *)

ilock(e) == <<"ilock", e>>
iunlock(e) == <<"iunlock", e>>

(* iput() tests the counts under ip->lock, and drops its reference later.  *)
iput(e) == << <<"iput", e>>, <<"drop", e>> >>
iunlockput(e) == <<iunlock(e)>> \o iput(e)

At(p, l) == pc[p] = l /\ todo[p] = << >>

Set(f, p, v) == [f EXCEPT ![p] = v]

Then(p, l, ops) == pc' = Set(pc, p, l) /\ todo' = Set(todo, p, ops)

(* The call of p returns when it has done ops.                             *)
Return(p, ops) ==
  /\ Then(p, "user", ops)
  /\ ip' = Set(ip, p, None) /\ dp' = Set(dp, p, None)
  /\ call' = Set(call, p, NULL) /\ path' = Set(path, p, << >>) /\ new' = Set(new, p, << >>)

Panic(p, why) ==
  /\ pc' = Set(pc, p, why)
  /\ UNCHANGED <<disk, icache, files, locals, ip, dp, todo, hist>>

(* The next lock operation of p is op; e is its inode.                     *)
Next_op(p, op) == todo[p] # << >> /\ Head(todo[p])[1] = op

do_ilock(p) ==
  LET e == Head(todo[p])[2] IN
  /\ Next_op(p, "ilock") /\ (ref[e] < 1 \/ locked[e] = NULL)
  /\ IF ref[e] < 1 \/ (~valid[e] /\ dinode[inum[e]].type = "free")
     THEN Panic(p, "panic_ilock")
     ELSE /\ locked' = Set(locked, e, p)
          /\ copy' = IF valid[e] THEN copy ELSE Set(copy, e, dinode[inum[e]])
          /\ valid' = Set(valid, e, TRUE)
          /\ todo' = Set(todo, p, Tail(todo[p]))
          /\ UNCHANGED <<disk, inum, ref, files, pc, locals, ip, dp, hist>>

do_iunlock(p) ==
  LET e == Head(todo[p])[2] IN
  /\ Next_op(p, "iunlock")
  /\ IF locked[e] # p \/ ref[e] < 1
     THEN Panic(p, "panic_iunlock")
     ELSE /\ locked' = Set(locked, e, NULL)
          /\ todo' = Set(todo, p, Tail(todo[p]))
          /\ UNCHANGED <<disk, inum, ref, valid, copy, files, pc, locals, ip, dp, hist>>

(* Mutants: iput() that does not look at ip->nlink, or at ip->ref, or that *)
(* tests it as if its own reference were already dropped.                  *)
LastRef_named(e) == valid[e] /\ ref[e] = 1
LastRef_never(e) == valid[e] /\ copy[e].nlink = 0 /\ ref[e] = 0

(* The inode has no links and no other references.                         *)
LastRef(e) == valid[e] /\ copy[e].nlink = 0 /\ ref[e] = 1

(* The body of iput(), between acquiresleep() and releasesleep(): the last *)
(* reference to an inode without links frees it and its contents.          *)
do_iput(p) ==
  LET e == Head(todo[p])[2]
      last == LastRef(e)
      others == {q \in Proc : Next_op(q, "drop") /\ Head(todo[q])[2] = e}
  IN  /\ Next_op(p, "iput") /\ locked[e] = NULL
      /\ dinode' = IF last THEN Set(dinode, inum[e], FREE) ELSE dinode
      /\ dirents' = IF last THEN Set(dirents, inum[e], NoEntries) ELSE dirents
      /\ copy' = IF last THEN Set(copy, e, FREE) ELSE copy
      /\ valid' = Set(valid, e, valid[e] /\ ~last)
      /\ lost' = IF last THEN lost \cup (Range(dirents[inum[e]]) \ {None}) ELSE lost
      /\ raced' = IF valid[e] /\ copy[e].nlink = 0 /\ ~last /\ others # {}
                   THEN raced \cup {inum[e]} ELSE raced
      /\ todo' = Set(todo, p, Tail(todo[p]))
      /\ UNCHANGED <<dotdot, inum, ref, locked, files, pc, locals, ip, dp>>

do_drop(p) ==
  LET e == Head(todo[p])[2] IN
  /\ Next_op(p, "drop")
  /\ ref' = [ref EXCEPT ![e] = @ - 1]
  /\ todo' = Set(todo, p, Tail(todo[p]))
  /\ UNCHANGED <<disk, inum, valid, copy, locked, files, pc, locals, ip, dp, hist>>

(* iget(): the entry of inode i, or the first free one.                    *)
Cached(i) == {e \in Inode : ref[e] > 0 /\ inum[e] = i}
Unused == {e \in Inode : ref[e] = 0}
First(S) == CHOOSE e \in S : \A d \in S : e <= d
(* Mutant: iget() that takes an empty entry as soon as it meets one.        *)
Entry_first(i) == First(Cached(i) \cup Unused)

Entry(i) == IF Cached(i) # {} THEN First(Cached(i)) ELSE First(Unused)
NoRoom(i) == Cached(i) = {} /\ Unused = {}

(* Mutant: iget() that leaves ip->valid as it was.                         *)
iget_stale(i) ==
  LET e == Entry(i) IN
  /\ ref' = [ref EXCEPT ![e] = @ + 1]
  /\ inum' = Set(inum, e, i)
  /\ valid' = valid

iget(i) ==
  LET e == Entry(i) IN
  /\ ref' = [ref EXCEPT ![e] = @ + 1]
  /\ inum' = Set(inum, e, i)
  /\ valid' = Set(valid, e, valid[e] /\ ref[e] > 0)

-----------------------------------------------------------------------------
(* namex()                                                                 *)

(* dirlookup() of name n in the directory of entry e.                      *)
dirlookup(e, n) ==
  CASE n = "." -> inum[e]
    [] n = ".." -> dotdot[inum[e]]
    [] OTHER -> dirents[inum[e]][n]

(* nameiparent() for the calls that change a directory, namei() for the    *)
(* others and for the first path of link().                                *)
Walk(p) ==
  IF call[p] \in {"open", "chdir"} \/ (call[p] = "link" /\ ip[p] = None)
  THEN "namei" ELSE "nameiparent"

(* The walk starts at the current directory or at the root.                *)
namex(p) ==
  /\ At(p, "namex")
  /\ \/ /\ dp' = Set(dp, p, cwd[p])
        /\ ref' = [ref EXCEPT ![cwd[p]] = @ + 1]
        /\ Then(p, Walk(p), <<ilock(cwd[p])>>)
        /\ UNCHANGED <<disk, inum, valid, copy, locked, files, locals, ip, hist>>
     \/ IF NoRoom(ROOTINO) THEN Panic(p, "panic_iget")
        ELSE /\ iget(ROOTINO)
             /\ dp' = Set(dp, p, Entry(ROOTINO))
             /\ Then(p, Walk(p), <<ilock(Entry(ROOTINO))>>)
             /\ UNCHANGED <<disk, copy, locked, files, locals, ip, hist>>

(* A path that leads nowhere ends the call; link() undoes what it did.     *)
namex_fail(p) ==
  /\ At(p, "namei") \/ At(p, "nameiparent")
  /\ \/ copy[dp[p]].type # "dir"
     \/ /\ At(p, "namei") \/ Len(path[p]) > 1
        /\ dirlookup(dp[p], Head(path[p])) = None
  /\ IF call[p] = "link" /\ ip[p] # None
     THEN /\ Then(p, "link_bad", iunlockput(dp[p]) \o <<ilock(ip[p])>>)
          /\ dp' = Set(dp, p, None)
          /\ UNCHANGED <<ip, locals>>
     ELSE Return(p, iunlockput(dp[p]))
  /\ UNCHANGED <<disk, icache, files, hist>>

(* One element of the path: the next inode replaces this one.  The last    *)
(* inode of namei() is locked by the caller.                               *)
namex_step(p) ==
  LET e == dp[p]
      i == dirlookup(e, Head(path[p]))
      end == Len(path[p]) = 1
  IN  /\ At(p, "namei") \/ (At(p, "nameiparent") /\ ~end)
      /\ copy[e].type = "dir" /\ i # None
      /\ IF NoRoom(i) THEN Panic(p, "panic_iget")
         ELSE /\ iget(i)
              /\ Then(p, IF end THEN "found" ELSE pc[p],
                      iunlockput(e) \o <<ilock(Entry(i))>>)
              /\ dp' = Set(dp, p, IF end THEN None ELSE Entry(i))
              /\ ip' = IF end THEN Set(ip, p, Entry(i)) ELSE ip
              /\ path' = Set(path, p, Tail(path[p]))
              /\ UNCHANGED <<disk, copy, locked, files, call, new, hist>>

(* nameiparent() stops one level early, and unlocks; the caller locks the  *)
(* directory again.                                                        *)
namex_parent(p) ==
  /\ At(p, "nameiparent") /\ Len(path[p]) = 1
  /\ copy[dp[p]].type = "dir"
  /\ Then(p, "parent", <<iunlock(dp[p]), ilock(dp[p])>>)
  /\ UNCHANGED <<disk, icache, files, locals, ip, dp, hist>>

-----------------------------------------------------------------------------
(* The system calls                                                        *)

begin(p, c, s, t) ==
  /\ At(p, "user")
  /\ made < MaxCalls /\ made' = made + 1
  /\ Then(p, "namex", << >>)
  /\ call' = Set(call, p, c) /\ path' = Set(path, p, s) /\ new' = Set(new, p, t)
  /\ UNCHANGED <<disk, icache, files, ip, dp, hist>>

(* ip->nlink changes by d, and iupdate() writes it through.                *)
nlink(c, e, d) == [c EXCEPT ![e].nlink = @ + d]

(* sys_open() without O_CREATE; only a read may open a directory.          *)
sys_open(p) ==
  /\ At(p, "found") /\ call[p] = "open"
  /\ \/ Then(p, "open", << >>) /\ UNCHANGED <<ip, dp, locals>>
     \/ copy[ip[p]].type = "dir" /\ Return(p, iunlockput(ip[p]))
  /\ UNCHANGED <<disk, icache, files, hist>>

sys_chdir(p) ==
  LET e == ip[p] IN
  /\ At(p, "found") /\ call[p] = "chdir"
  /\ IF copy[e].type # "dir"
     THEN Return(p, iunlockput(e)) /\ UNCHANGED cwd
     ELSE Return(p, <<iunlock(e)>> \o iput(cwd[p])) /\ cwd' = Set(cwd, p, e)
  /\ UNCHANGED <<disk, icache, ftable, ofile, hist>>

(* sys_link() counts the new link before it looks for its directory.       *)
sys_link(p) ==
  LET e == ip[p] IN
  /\ At(p, "found") /\ call[p] = "link"
  /\ IF copy[e].type = "dir"
     THEN Return(p, iunlockput(e)) /\ UNCHANGED <<dinode, copy>>
     ELSE /\ copy' = nlink(copy, e, 1) /\ dinode' = nlink(dinode, inum[e], 1)
          /\ Then(p, "namex", <<iunlock(e)>>)
          /\ path' = Set(path, p, new[p])
          /\ UNCHANGED <<ip, dp, call, new>>
  /\ UNCHANGED <<dirents, dotdot, inum, ref, valid, locked, files, hist>>

(* The name is taken: dirlink() drops the inode it has found, and the      *)
(* count is taken back.                                                    *)
link_exists(p) ==
  LET i == dirlookup(dp[p], Head(path[p])) IN
  /\ At(p, "parent") /\ call[p] = "link" /\ i # None
  /\ IF NoRoom(i) THEN Panic(p, "panic_iget")
     ELSE /\ iget(i)
          /\ Then(p, "link_bad", iput(Entry(i)) \o iunlockput(dp[p]) \o <<ilock(ip[p])>>)
          /\ dp' = Set(dp, p, None)
          /\ UNCHANGED <<disk, copy, locked, files, locals, ip, hist>>

link_new(p) ==
  LET n == Head(path[p])
      d == inum[dp[p]]
      i == inum[ip[p]]
  IN  /\ At(p, "parent") /\ call[p] = "link" /\ dirlookup(dp[p], n) = None
      /\ dirents' = [dirents EXCEPT ![d][n] = i]
      /\ Return(p, iunlockput(dp[p]) \o iput(ip[p]))
      /\ UNCHANGED <<dinode, dotdot, icache, files, hist>>

link_bad(p) ==
  LET e == ip[p] IN
  /\ At(p, "link_bad")
  /\ copy' = nlink(copy, e, -1) /\ dinode' = nlink(dinode, inum[e], -1)
  /\ Return(p, iunlockput(e))
  /\ UNCHANGED <<dirents, dotdot, inum, ref, valid, locked, files, hist>>

(* unlink(): the directory stays locked while the inode is looked up; "."  *)
(* and ".." are refused.                                                   *)
unlink_lookup(p) ==
  LET n == Head(path[p])
      i == dirlookup(dp[p], n)
  IN  /\ At(p, "parent") /\ call[p] = "unlink"
      /\ IF n \in {".", ".."} \/ i = None
         THEN Return(p, iunlockput(dp[p])) /\ UNCHANGED icache
         ELSE IF NoRoom(i) THEN Panic(p, "panic_iget")
         ELSE /\ iget(i)
              /\ ip' = Set(ip, p, Entry(i))
              /\ Then(p, "unlink", <<ilock(Entry(i))>>)
              /\ UNCHANGED <<copy, locked, locals, dp>>
      /\ UNCHANGED <<disk, files, hist>>

(* Mutant: the ".." of a removed directory is forgotten.                   *)
Dotdot_kept(e) == 0

(* The ".." of a directory is a link to its parent.                        *)
Dotdot(e) == IF copy[e].type = "dir" THEN 1 ELSE 0

sys_unlink(p) ==
  LET e == ip[p]
      d == dp[p]
      dir == copy[e].type = "dir"
  IN  /\ At(p, "unlink")
      /\ IF copy[e].nlink < 1 THEN Panic(p, "panic_unlink")
         ELSE IF dir /\ dirents[inum[e]] # NoEntries
         THEN /\ Return(p, iunlockput(e) \o iunlockput(d))
              /\ UNCHANGED <<disk, icache, files, hist>>
         ELSE /\ dirents' = [dirents EXCEPT ![inum[d]][Head(path[p])] = None]
              /\ copy' = nlink(copy, d, -Dotdot(e))
              /\ dinode' = nlink(dinode, inum[d], -Dotdot(e))
              /\ Then(p, "unlinked", iunlockput(d))
              /\ dp' = Set(dp, p, None)
              /\ UNCHANGED <<dotdot, inum, ref, valid, locked, files, locals, ip, hist>>

(* Mutant: a removed directory loses a link for its "." too.               *)
unlinked_dot(p) ==
  LET e == ip[p] IN
  /\ At(p, "unlinked")
  /\ \E d \in {IF copy[e].type = "dir" THEN -2 ELSE -1} :
       copy' = nlink(copy, e, d) /\ dinode' = nlink(dinode, inum[e], d)
  /\ Return(p, iunlockput(e))
  /\ UNCHANGED <<dirents, dotdot, inum, ref, valid, locked, files, hist>>

unlinked(p) ==
  LET e == ip[p] IN
  /\ At(p, "unlinked")
  /\ copy' = nlink(copy, e, -1) /\ dinode' = nlink(dinode, inum[e], -1)
  /\ Return(p, iunlockput(e))
  /\ UNCHANGED <<dirents, dotdot, inum, ref, valid, locked, files, hist>>

(* ialloc() takes the first inode that is free, and sets its type.         *)
Free == {i \in Inum : dinode[i].type = "free"}
ialloc(i, type) == dinode' = Set(dinode, i, [type |-> type, nlink |-> 0])

(* create(), for open() with O_CREATE and for mkdir(): the name exists, or *)
(* there is a new inode to lock and to link.                               *)
create_lookup(p) ==
  LET found == dirlookup(dp[p], Head(path[p]))
      i == IF found # None THEN found ELSE First(Free)
  IN  /\ At(p, "parent") /\ call[p] \in {"create", "mkdir"}
      /\ IF found = None /\ Free = {} THEN Panic(p, "panic_ialloc")
         ELSE IF NoRoom(i) THEN Panic(p, "panic_iget")
         ELSE /\ iget(i)
              /\ ip' = Set(ip, p, Entry(i))
              /\ IF found # None
                 THEN /\ Then(p, "exists", iunlockput(dp[p]) \o <<ilock(Entry(i))>>)
                      /\ dp' = Set(dp, p, None)
                      /\ UNCHANGED dinode
                 ELSE /\ Then(p, "create", <<ilock(Entry(i))>>)
                      /\ ialloc(i, IF call[p] = "mkdir" THEN "dir" ELSE "file")
                      /\ UNCHANGED dp
              /\ UNCHANGED <<dirents, dotdot, copy, locked, files, locals, hist>>

(* Mutant: create() that only unlocks an inode of the wrong type.          *)
create_exists_leak(p) ==
  /\ At(p, "exists")
  /\ IF call[p] = "create" /\ copy[ip[p]].type = "file"
     THEN Then(p, "open", << >>) /\ UNCHANGED <<ip, dp, locals>>
     ELSE Return(p, <<iunlock(ip[p])>>)
  /\ UNCHANGED <<disk, icache, files, hist>>

create_exists(p) ==
  /\ At(p, "exists")
  /\ IF call[p] = "create" /\ copy[ip[p]].type = "file"
     THEN Then(p, "open", << >>) /\ UNCHANGED <<ip, dp, locals>>
     ELSE Return(p, iunlockput(ip[p]))
  /\ UNCHANGED <<disk, icache, files, hist>>

(* The new inode gets its link and, if it is a directory, its "..", which  *)
(* counts as a link to dp; then its name.  mkdir() has no further use of   *)
(* the inode, open() keeps it locked.                                      *)
create(p) ==
  LET e == ip[p]
      d == dp[p]
      dir == call[p] = "mkdir"
      up == IF dir THEN 1 ELSE 0
  IN  /\ At(p, "create")
      /\ copy' = nlink([copy EXCEPT ![e].nlink = 1], d, up)
      /\ dinode' = nlink(Set(dinode, inum[e], [copy[e] EXCEPT !.nlink = 1]), inum[d], up)
      /\ dotdot' = IF dir THEN Set(dotdot, inum[e], inum[d]) ELSE dotdot
      /\ dirents' = [dirents EXCEPT ![inum[d]][Head(path[p])] = inum[e]]
      /\ IF dir
         THEN Return(p, iunlockput(d) \o iunlockput(e))
         ELSE /\ Then(p, "open", iunlockput(d))
              /\ dp' = Set(dp, p, None)
              /\ UNCHANGED <<ip, locals>>
      /\ UNCHANGED <<inum, ref, valid, locked, files, hist>>

(* filealloc() takes the first unused file.                                *)
Closed == {f \in File : fref[f] = 0}
filealloc == fref' = Set(fref, First(Closed), 1)

(* fdalloc() fails when the descriptor is in use, and the file is closed   *)
(* again; else the file takes over the reference to ip.                    *)
open_file(p) ==
  /\ At(p, "open")
  /\ IF Closed = {} \/ ofile[p] # None
     THEN Return(p, iunlockput(ip[p])) /\ UNCHANGED <<fref, fip, ofile>>
     ELSE /\ filealloc
          /\ ofile' = Set(ofile, p, First(Closed))
          /\ fip' = Set(fip, First(Closed), ip[p])
          /\ Return(p, <<iunlock(ip[p])>>)
  /\ UNCHANGED <<disk, icache, cwd, hist>>

(* fileclose() of the file of p, if any: the last close has ip to put.     *)
fileclose(p) ==
  LET f == ofile[p] IN
  /\ ofile' = Set(ofile, p, None)
  /\ fref' = IF f = None THEN fref ELSE [fref EXCEPT ![f] = @ - 1]
  /\ fip' = IF f # None /\ fref[f] = 1 THEN Set(fip, f, None) ELSE fip

Closing(p) ==
  IF ofile[p] # None /\ fref[ofile[p]] = 1 THEN iput(fip[ofile[p]]) ELSE << >>

sys_close(p) ==
  /\ At(p, "user") /\ ofile[p] # None
  /\ fileclose(p)
  /\ Then(p, "user", Closing(p))
  /\ UNCHANGED <<disk, icache, cwd, locals, ip, dp, hist>>

fork(p, q) ==
  /\ At(p, "user") /\ At(q, "dead")
  /\ ofile' = Set(ofile, q, ofile[p]) /\ cwd' = Set(cwd, q, cwd[p])
  /\ fref' = IF ofile[p] = None THEN fref ELSE [fref EXCEPT ![ofile[p]] = @ + 1]
  /\ ref' = [ref EXCEPT ![cwd[p]] = @ + 1]
  /\ Then(q, "user", << >>)
  /\ UNCHANGED <<disk, inum, valid, copy, locked, fip, locals, ip, dp, hist>>

(* exit(); init never does.                                                *)
exit(p) ==
  /\ At(p, "user") /\ \E q \in Proc \ {p} : pc[q] # "dead"
  /\ fileclose(p)
  /\ Then(p, "dead", Closing(p) \o iput(cwd[p]))
  /\ cwd' = Set(cwd, p, None)
  /\ UNCHANGED <<disk, icache, locals, ip, dp, hist>>

Panics == {"panic_ilock", "panic_iunlock", "panic_iget", "panic_ialloc", "panic_unlink"}

Op(p) ==
  \/ do_ilock(p) \/ do_iunlock(p) \/ do_iput(p) \/ do_drop(p)
  \/ namex(p) \/ namex_fail(p) \/ namex_step(p) \/ namex_parent(p)
  \/ sys_open(p) \/ sys_chdir(p) \/ sys_link(p)
  \/ link_exists(p) \/ link_new(p) \/ link_bad(p)
  \/ unlink_lookup(p) \/ sys_unlink(p) \/ unlinked(p)
  \/ create_lookup(p) \/ create_exists(p) \/ create(p) \/ open_file(p)

(* Taking a lock and what is done with it is one step for the others, up   *)
(* to its release: while a process has such a step left, no other moves.   *)
(* Choosing a call is part of its first step.                              *)
InLockedSection(p) ==
  \/ Next_op(p, "iunlock")
  \/ /\ todo[p] = << >>
     /\ pc[p] \notin {"user", "dead", "namex", "open"}
  \/ At(p, "namex") /\ ip[p] = None

Moving == {p \in Proc : InLockedSection(p)}

(* A panic stops every processor.                                          *)
Next ==
  /\ \A p \in Proc : pc[p] \notin Panics
  /\ \E p \in IF Moving # {} THEN Moving ELSE Proc :
       \/ \E c \in Calls \ {"link"}, s \in Paths : begin(p, c, s, << >>)
       \/ "link" \in Calls /\ \E s, t \in Paths : begin(p, "link", s, t)
       \/ Op(p) /\ UNCHANGED made
       \/ (sys_close(p) \/ exit(p) \/ \E q \in Proc : fork(p, q)) /\ UNCHANGED made

Spec == Init /\ [][Next]_vars

-----------------------------------------------------------------------------
(* Properties                                                              *)

Metadata == [type : {"free", "dir", "file"}, nlink : 0 .. Cardinality(Name) * NInum + Cardinality(Proc) + 1]
Places == {"user", "dead", "namex", "namei", "nameiparent", "parent", "found", "open",
           "link_bad", "unlink", "unlinked", "exists", "create"} \cup Panics

(* Every variable has its type; a link count never wraps below zero.       *)
TypeOK ==
  /\ dinode \in [Inum -> Metadata] /\ copy \in [Inode -> Metadata]
  /\ dirents \in [Inum -> [Name -> Inum \cup {None}]] /\ dotdot \in [Inum -> Inum]
  /\ inum \in [Inode -> Inum] /\ ref \in [Inode -> Nat]
  /\ valid \in [Inode -> BOOLEAN] /\ locked \in [Inode -> Proc \cup {NULL}]
  /\ fref \in [File -> 0 .. Cardinality(Proc)] /\ fip \in [File -> Inode \cup {None}]
  /\ ofile \in [Proc -> File \cup {None}] /\ cwd \in [Proc -> Inode \cup {None}]
  /\ pc \in [Proc -> Places] /\ call \in [Proc -> AllCalls \cup {NULL}]
  /\ ip \in [Proc -> Inode \cup {None}] /\ dp \in [Proc -> Inode \cup {None}]
  /\ lost \subseteq Inum /\ raced \subseteq Inum /\ made \in 0 .. MaxCalls

(* The references that are held to entry e: current directories, open      *)
(* files, the inodes of calls that run, and the iput() still to be done.   *)
Holders(e) ==
  Cardinality({p \in Proc : cwd[p] = e}) + Cardinality({f \in File : fip[f] = e})
  + Cardinality({p \in Proc : ip[p] = e}) + Cardinality({p \in Proc : dp[p] = e})
  + Cardinality({<<p, k>> \in Proc \X (1 .. 8) :
                   k \in DOMAIN todo[p] /\ todo[p][k] = <<"drop", e>>})

(* ip->ref is the number of pointers to the entry, on every path through   *)
(* every call, error paths included: a pointer too few recycles an entry   *)
(* in use, one too many never frees it.                                    *)
RefsCounted == \A e \in Inode : ref[e] = Holders(e)

(* iget() never gives two entries, with two locks, to one inode.           *)
OneEntryPerInode ==
  \A d, e \in Inode : ref[d] > 0 /\ ref[e] > 0 /\ inum[d] = inum[e] => d = e

(* The metadata that a process finds behind ip->valid when it gets the     *)
(* lock is what the disk holds: recycling an entry or freeing an inode     *)
(* leaves no stale copy behind.                                            *)
Coherent ==
  \A e \in Inode : ref[e] > 0 /\ valid[e] => copy[e] = dinode[inum[e]]

(* At no time, also in the middle of calls, does a directory name an inode *)
(* that is free.                                                           *)
NoDangling ==
  \A d \in Inum, n \in Name :
    dinode[d].type = "dir" /\ dirents[d][n] # None
      => dinode[dirents[d][n]].type # "free"

Quiet == \A p \in Proc : pc[p] \in {"user", "dead"} /\ todo[p] = << >>

Links(i) == {<<d, n>> \in Inum \X Name : dinode[d].type = "dir" /\ dirents[d][n] = i}

Subdirectories(i) ==
  {x \in Inum : /\ dinode[x].type = "dir"
                /\ \E n \in Name : dirents[i][n] = x}

(* Between calls nlink is the number of names of a file, and for a         *)
(* directory its name (the root counts one) and the ".." of its            *)
(* subdirectories, whatever calls ran together and failed half-way.  The   *)
(* inodes that were still named in a directory when it was freed are       *)
(* excepted: create() and link() do not look whether dp was removed.       *)
LinksMatch ==
  Quiet => \A i \in Inum \ lost :
    dinode[i].nlink =
      (IF dinode[i].type = "dir" THEN Cardinality(Subdirectories(i)) ELSE 0)
      + Cardinality(Links(i)) + (IF i = ROOTINO THEN 1 ELSE 0)

(* Between calls an inode without links that no entry of the cache refers  *)
(* to is free, on every path that drops the last reference.  Excepted are  *)
(* those that two processes put at the same time: each iput() sees the     *)
(* reference of the other, which drops it later, and neither frees.        *)
FreedWhenUnused ==
  Quiet => \A i \in Inum \ raced :
    dinode[i].nlink = 0 /\ Cached(i) = {} => dinode[i].type = "free"


(* The processes that p waits for: the holder of the inode it must lock.   *)
WaitsFor(p) ==
  {q \in Proc : \E e \in Inode : /\ locked[e] = q
                                 /\ todo[p] # << >>
                                 /\ Head(todo[p]) \in {ilock(e), <<"iput", e>>}}

(* Two processes never wait for inodes that the other has locked, nor one  *)
(* for itself: linkunlink() of usertests.c looks for such deadlocks.       *)
(* iput() takes ip->lock whatever the counts are, also in create() and     *)
(* unlink() with another inode locked, and breaks this.                    *)
NoDeadlock ==
  \A p, q \in Proc : ~(q \in WaitsFor(p) /\ p \in WaitsFor(q))

=============================================================================
