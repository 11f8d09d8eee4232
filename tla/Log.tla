-------------------------------- MODULE Log ---------------------------------
(***************************************************************************)
(* The redo log of log.c over the buffer cache and the disk: concurrent FS *)
(* system calls share one transaction, the last end_op() commits it, and a *)
(* crash at any disk write is repaired by recover_from_log() at boot.      *)
(*                                                                         *)
(* Block numbers are relative to log.start: block 0 is the log header,     *)
(* 1..logsize-1 are the log's data blocks and the blocks from logsize on   *)
(* are the home blocks, so a transaction that outgrew the log would write  *)
(* over home blocks here as it does on the disk.                           *)
(***************************************************************************)
EXTENDS Integers, Sequences, FiniteSets, Functions

CONSTANTS
  Op,           (* processes that make FS system calls                     *)
  Val,          (* what a block can hold                                   *)
  NoBuf,        (* "this block is not in the buffer cache"                 *)
  MAXOPBLOCKS,  (* log space reserved for one FS call                      *)
  LOGSIZE,      (* entries of the in-memory log header                     *)
  logsize,      (* sb.nlog: blocks of the on-disk log, header included     *)
  FSSIZE,       (* blocks from the log header to the end of the disk       *)
  OpBlocks      (* distinct blocks one FS call really writes, at most      *)

ASSUME LogAssumption ==
  /\ IsFiniteSet(Op)
  /\ NoBuf \notin Val
  /\ MAXOPBLOCKS \in Nat \ {0} /\ LOGSIZE \in Nat /\ logsize \in Nat \ {0}
  /\ MAXOPBLOCKS <= LOGSIZE /\ FSSIZE \in Nat /\ OpBlocks \in Nat
  /\ logsize < FSSIZE

(* With this room no transaction can fill the log: the last call admitted  *)
(* leaves at least two of the blocks reserved for it unwritten.            *)
LogHasRoom ==
  /\ OpBlocks < MAXOPBLOCKS
  /\ LOGSIZE - MAXOPBLOCKS + OpBlocks < logsize - 1

Home == logsize .. (FSSIZE - 1)

NoBlock == 0

VARIABLES
  disk,         (* contents of every block but the header                  *)
  head,         (* block numbers in the on-disk header                     *)
  cache,        (* buffer cache: contents, or NoBuf                        *)
  dirty,        (* blocks whose buffer has B_DIRTY set                     *)
  lh,           (* log.lh: block numbers logged by the open transaction    *)
  outstanding,  (* log.outstanding                                         *)
  committing,   (* log.committing                                          *)
  pc,           (* where each process is                                   *)
  wbuf,         (* block a process has modified and is about to log        *)
  wrote,        (* blocks a process has written in its current call        *)
  tail,         (* loop index of write_log() and install_trans()           *)
  boot          (* "up", the step of the recovery at boot, or "panic"      *)

vars == <<disk, head, cache, dirty, lh, outstanding, committing, pc, wbuf,
          wrote, tail, boot>>

(* bread(): the buffer when the block is cached, else the disk's copy.     *)
bread(b) == IF cache[b] = NoBuf THEN disk[b] ELSE cache[b]

(* Mutant: the B_DIRTY test of bget() is dropped.                          *)
RecyclableUnpinned(b) == \A o \in Op : wbuf[o] # b

(* A buffer that bget() may recycle: nobody holds it and it is clean.      *)
Recyclable(b) == b \notin dirty /\ \A o \in Op : wbuf[o] # b

(* Mutant: wakeup(&log) is forgotten.                                      *)
WakeupNone(f) == f

(* wakeup(&log)                                                            *)
Wakeup(f) == [o \in Op |-> IF f[o] = "asleep" THEN "begin" ELSE f[o]]

Init ==
  /\ disk \in [1 .. (FSSIZE - 1) -> Val]
  /\ \E zero \in Val : \A i \in 1 .. (logsize - 1) : disk[i] = zero
  /\ head = <<>>
  /\ cache = [b \in Home |-> NoBuf]
  /\ dirty = {}
  /\ lh = <<>>
  /\ outstanding = 0
  /\ committing = FALSE
  /\ pc = [o \in Op |-> "begin"]
  /\ wbuf = [o \in Op |-> NoBlock]
  /\ wrote = [o \in Op |-> {}]
  /\ tail = 1
  /\ boot = "read_head"

-----------------------------------------------------------------------------
(* FS system calls                                                         *)

(* Mutant: the space reserved by the other outstanding calls is ignored.   *)
MustWaitAlone == committing \/ Len(lh) + MAXOPBLOCKS > LOGSIZE

(* begin_op()'s test: wait for a commit in progress, or for log space.     *)
MustWait ==
  \/ committing
  \/ Len(lh) + (outstanding + 1) * MAXOPBLOCKS > LOGSIZE

begin_op_sleep(o) ==
  /\ boot = "up" /\ pc[o] = "begin"
  /\ MustWait
  /\ pc' = [pc EXCEPT ![o] = "asleep"]
  /\ UNCHANGED <<disk, head, cache, dirty, lh, outstanding, committing, wbuf,
                 wrote, tail, boot>>

(* Mutant: the call is not counted.                                        *)
begin_op_uncounted(o) ==
  /\ boot = "up" /\ pc[o] = "begin"
  /\ ~MustWait
  /\ pc' = [pc EXCEPT ![o] = "inop"]
  /\ wrote' = [wrote EXCEPT ![o] = {}]
  /\ UNCHANGED <<disk, head, cache, dirty, lh, outstanding, committing, wbuf,
                 tail, boot>>

begin_op(o) ==
  /\ boot = "up" /\ pc[o] = "begin"
  /\ ~MustWait
  /\ outstanding' = outstanding + 1
  /\ pc' = [pc EXCEPT ![o] = "inop"]
  /\ wrote' = [wrote EXCEPT ![o] = {}]
  /\ UNCHANGED <<disk, head, cache, dirty, lh, committing, wbuf, tail, boot>>

(* The caller modifies a buffer it holds; OpBlocks bounds the call.        *)
modify(o, b, v) ==
  /\ boot = "up" /\ pc[o] = "inop"
  /\ \A p \in Op : wbuf[p] # b
  /\ Cardinality(wrote[o] \cup {b}) <= OpBlocks
  /\ cache' = [cache EXCEPT ![b] = v]
  /\ wbuf' = [wbuf EXCEPT ![o] = b]
  /\ pc' = [pc EXCEPT ![o] = "log_write"]
  /\ UNCHANGED <<disk, head, dirty, lh, outstanding, committing, wrote, tail,
                 boot>>

TooBig == Len(lh) >= LOGSIZE \/ Len(lh) >= logsize - 1

(* log_write() tests the log's size before it takes log.lock...            *)
log_write_check(o) ==
  /\ boot = "up" /\ pc[o] = "log_write"
  /\ IF TooBig \/ outstanding < 1
     THEN boot' = "panic" /\ UNCHANGED pc
     ELSE pc' = [pc EXCEPT ![o] = "log_append"] /\ UNCHANGED boot
  /\ UNCHANGED <<disk, head, cache, dirty, lh, outstanding, committing, wbuf,
                 wrote, tail>>

(* ... and appends or absorbs under it; brelse() lets go of the buffer.    *)
log_write(o) ==
  /\ boot = "up" /\ pc[o] = "log_append"
  /\ lh' = IF wbuf[o] \in Range(lh) THEN lh ELSE Append(lh, wbuf[o])
  /\ dirty' = dirty \cup {wbuf[o]}
  /\ wrote' = [wrote EXCEPT ![o] = @ \cup {wbuf[o]}]
  /\ wbuf' = [wbuf EXCEPT ![o] = NoBlock]
  /\ pc' = [pc EXCEPT ![o] = "inop"]
  /\ UNCHANGED <<disk, head, cache, outstanding, committing, tail, boot>>

(* end_op() up to its first release(): the last call of the transaction    *)
(* goes on to commit().                                                    *)
end_op(o) ==
  /\ boot = "up" /\ pc[o] = "inop"
  /\ outstanding' = outstanding - 1
  /\ IF committing
     THEN boot' = "panic" /\ UNCHANGED <<committing, pc, tail>>
     ELSE /\ UNCHANGED boot
          /\ IF outstanding = 1
             THEN /\ committing' = TRUE
                  /\ tail' = 1
                  /\ pc' = [pc EXCEPT ![o] =
                              IF lh = <<>> THEN "committed" ELSE "write_log"]
             ELSE /\ pc' = Wakeup([pc EXCEPT ![o] = "begin"])
                  /\ UNCHANGED <<committing, tail>>
  /\ UNCHANGED <<disk, head, cache, dirty, lh, wbuf, wrote>>

-----------------------------------------------------------------------------
(* commit(), run by the process that ended the last call, without log.lock *)

(* One turn of write_log(): a cached block goes to its log block.          *)
write_log(o) ==
  /\ boot = "up" /\ pc[o] = "write_log"
  /\ disk' = [disk EXCEPT ![tail] = bread(lh[tail])]
  /\ IF tail < Len(lh)
     THEN tail' = tail + 1 /\ UNCHANGED pc
     ELSE tail' = 1 /\ pc' = [pc EXCEPT ![o] = "write_head"]
  /\ UNCHANGED <<head, cache, dirty, lh, outstanding, committing, wbuf, wrote,
                 boot>>

(* Mutant: the transaction is erased before it is installed.               *)
write_head_early_clear(o) ==
  /\ boot = "up" /\ pc[o] = "write_head"
  /\ head' = lh
  /\ pc' = [pc EXCEPT ![o] = "clear"]
  /\ UNCHANGED <<disk, cache, dirty, lh, outstanding, committing, wbuf, wrote,
                 tail, boot>>

(* write_head() with lh.n > 0: the commit point.                           *)
write_head(o) ==
  /\ boot = "up" /\ pc[o] = "write_head"
  /\ head' = lh
  /\ pc' = [pc EXCEPT ![o] = "install_trans"]
  /\ UNCHANGED <<disk, cache, dirty, lh, outstanding, committing, wbuf, wrote,
                 tail, boot>>

(* One turn of install_trans(): a log block goes to its home location, and *)
(* bwrite() leaves the home buffer clean.                                  *)
InstallBlock ==
  /\ disk' = [disk EXCEPT ![lh[tail]] = disk[tail]]
  /\ cache' = [cache EXCEPT ![lh[tail]] = disk[tail]]
  /\ dirty' = dirty \ {lh[tail]}

install_trans(o) ==
  /\ boot = "up" /\ pc[o] = "install_trans"
  /\ InstallBlock
  /\ IF tail < Len(lh)
     THEN tail' = tail + 1 /\ UNCHANGED pc
     ELSE tail' = 1 /\ pc' = [pc EXCEPT ![o] = "clear"]
  /\ UNCHANGED <<head, lh, outstanding, committing, wbuf, wrote, boot>>

(* lh.n = 0 and the write_head() that erases the transaction.              *)
clear_head(o) ==
  /\ boot = "up" /\ pc[o] = "clear"
  /\ lh' = <<>>
  /\ head' = <<>>
  /\ pc' = [pc EXCEPT ![o] = "committed"]
  /\ UNCHANGED <<disk, cache, dirty, outstanding, committing, wbuf, wrote,
                 tail, boot>>

(* The rest of end_op() after commit().                                    *)
end_commit(o) ==
  /\ boot = "up" /\ pc[o] = "committed"
  /\ committing' = FALSE
  /\ pc' = Wakeup([pc EXCEPT ![o] = "begin"])
  /\ UNCHANGED <<disk, head, cache, dirty, lh, outstanding, wbuf, wrote, tail,
                 boot>>

-----------------------------------------------------------------------------
(* The buffer cache: a reader loads a block, bget() recycles a buffer.     *)

load(b) ==
  /\ boot = "up" /\ cache[b] = NoBuf
  /\ cache' = [cache EXCEPT ![b] = disk[b]]
  /\ UNCHANGED <<disk, head, dirty, lh, outstanding, committing, pc, wbuf,
                 wrote, tail, boot>>

recycle(b) ==
  /\ boot = "up" /\ cache[b] # NoBuf /\ Recyclable(b)
  /\ cache' = [cache EXCEPT ![b] = NoBuf]
  /\ UNCHANGED <<disk, head, dirty, lh, outstanding, committing, pc, wbuf,
                 wrote, tail, boot>>

-----------------------------------------------------------------------------
(* recover_from_log(), called by initlog() before any FS call runs         *)

read_head ==
  /\ boot = "read_head"
  /\ lh' = head
  /\ tail' = 1
  /\ boot' = IF head = <<>> THEN "clear" ELSE "install_trans"
  /\ UNCHANGED <<disk, head, cache, dirty, outstanding, committing, pc, wbuf,
                 wrote>>

recover_install ==
  /\ boot = "install_trans"
  /\ InstallBlock
  /\ IF tail < Len(lh)
     THEN tail' = tail + 1 /\ UNCHANGED boot
     ELSE tail' = 1 /\ boot' = "clear"
  /\ UNCHANGED <<head, lh, outstanding, committing, pc, wbuf, wrote>>

recover_clear ==
  /\ boot = "clear"
  /\ lh' = <<>>
  /\ head' = <<>>
  /\ boot' = "up"
  /\ UNCHANGED <<disk, cache, dirty, outstanding, committing, pc, wbuf, wrote,
                 tail>>

(* Power loss, or the reboot after a panic: the disk survives, the memory  *)
(* does not.  A disk write is one block and happens or does not.           *)
Crash ==
  /\ boot' = "read_head"
  /\ cache' = [b \in Home |-> NoBuf]
  /\ dirty' = {}
  /\ lh' = <<>>
  /\ outstanding' = 0
  /\ committing' = FALSE
  /\ pc' = [o \in Op |-> "begin"]
  /\ wbuf' = [o \in Op |-> NoBlock]
  /\ wrote' = [o \in Op |-> {}]
  /\ tail' = 1
  /\ UNCHANGED <<disk, head>>

-----------------------------------------------------------------------------

commit(o) ==
  write_log(o) \/ write_head(o) \/ install_trans(o) \/ clear_head(o)
               \/ end_commit(o)

recover_from_log == read_head \/ recover_install \/ recover_clear

Next ==
  \/ \E o \in Op : \/ begin_op(o) \/ begin_op_sleep(o)
                   \/ log_write_check(o) \/ log_write(o)
                   \/ end_op(o) \/ commit(o)
  \/ \E o \in Op, b \in Home, v \in Val : modify(o, b, v)
  \/ \E b \in Home : load(b) \/ recycle(b)
  \/ recover_from_log
  \/ Crash

Spec == Init /\ [][Next]_vars

(* A call that runs goes on running: it writes finitely often and then     *)
(* ends, and whoever commits or recovers is scheduled until done.          *)
Fairness ==
  /\ WF_vars(recover_from_log)
  /\ \A o \in Op : /\ WF_vars(commit(o))
                   /\ WF_vars(log_write_check(o)) /\ WF_vars(log_write(o))
                   /\ SF_vars(end_op(o))

FairSpec == Spec /\ Fairness

-----------------------------------------------------------------------------
(* Properties                                                              *)

TypeOK ==
  /\ disk \in [1 .. (FSSIZE - 1) -> Val]
  /\ head \in Seq(Home)
  /\ cache \in [Home -> Val \cup {NoBuf}]
  /\ dirty \subseteq Home
  /\ lh \in Seq(Home)
  /\ outstanding \in Nat
  /\ committing \in BOOLEAN
  /\ pc \in [Op -> {"begin", "asleep", "inop", "log_write", "log_append",
                    "write_log", "write_head", "install_trans", "clear",
                    "committed"}]
  /\ wbuf \in [Op -> Home \cup {NoBlock}]
  /\ wrote \in [Op -> SUBSET Home]
  /\ tail \in Nat \ {0}
  /\ boot \in {"read_head", "install_trans", "clear", "up", "panic"}

Active == {o \in Op : pc[o] \in {"inop", "log_write", "log_append"}}

Committing == {"write_log", "write_head", "install_trans", "clear",
               "committed"}

(* The home blocks as recover_from_log() would leave them: a block the     *)
(* on-disk header names comes from the log, any other is in place.         *)
Recovered ==
  [b \in Home |->
     IF b \in Range(head)
     THEN disk[CHOOSE i \in DOMAIN head : head[i] = b]
     ELSE disk[b]]

(* The home blocks as the running kernel sees them through the cache.      *)
Current ==
  IF boot \in {"up", "panic"} THEN [b \in Home |-> bread(b)] ELSE Recovered

(* Seen from the disk's recoverable contents, log.c is atomic: whatever    *)
(* is interrupted by a crash, the disk is that of the last group commit,   *)
(* and a group commit never includes part of an FS call.                   *)
FS == INSTANCE AtomicFS WITH Block <- Home, durable <- Recovered,
                             current <- Current, active <- Active

ImplementsAtomicFS == FS!Spec

(* Once the last end_op() has returned, nothing is left to lose: the disk  *)
(* recovers to exactly what the kernel last saw (commit() is complete      *)
(* when log.committing is reset).                                          *)
QuiescentIsDurable ==
  boot = "up" /\ outstanding = 0 /\ ~committing => Recovered = Current

(* No lost wakeup: a process asleep in begin_op() always has somebody who  *)
(* will wake it, a call still outstanding or a commit in progress.         *)
SleeperHasWaker ==
  \A o \in Op : pc[o] = "asleep" => outstanding > 0 \/ committing

(* An FS call that begin_op() admitted never runs out of log: log_write()  *)
(* does not panic and the transaction stays inside the on-disk log.        *)
AdmittedFits == boot # "panic" /\ Len(lh) <= logsize - 1

(* A process asleep in begin_op() is woken in the end.                     *)
SleeperIsWoken == \A o \in Op : pc[o] = "asleep" ~> pc[o] # "asleep"

-----------------------------------------------------------------------------
(* The inductive invariant behind the theorems of LogProofs.               *)

(* log.outstanding counts the calls in progress, one process at most is in *)
(* commit(), and only while no call is.                                    *)
CountInv ==
  /\ outstanding = Cardinality(Active)
  /\ committing => Active = {}
  /\ \A o \in Op : pc[o] \in Committing => committing
  /\ \A o, p \in Op : pc[o] \in Committing /\ pc[p] \in Committing => o = p
  /\ committing => \E o \in Op : pc[o] \in Committing

(* A modified buffer is held by the one process about to log it.           *)
HoldInv ==
  /\ \A o \in Op : wbuf[o] # NoBlock <=> pc[o] \in {"log_write", "log_append"}
  /\ \A o, p \in Op : wbuf[o] = wbuf[p] /\ wbuf[o] # NoBlock => o = p

(* Log space still owed to the calls in progress, as a set of tokens.      *)
Owed ==
  {t \in Active \X (1 .. MAXOPBLOCKS) :
     t[2] + Cardinality(wrote[t[1]]) <= MAXOPBLOCKS}

(* A call in progress writes only what it was given room for.              *)
SpaceInv ==
  /\ boot # "panic"
  /\ \A o \in Active :
       /\ wrote[o] \subseteq Range(lh)
       /\ Cardinality(wrote[o]) <= OpBlocks
       /\ wbuf[o] # NoBlock =>
            Cardinality(wrote[o] \cup {wbuf[o]}) <= OpBlocks
  /\ Active # {} => Len(lh) + Cardinality(Owed) <= LOGSIZE
  /\ Len(lh) < logsize - 1 /\ Len(lh) < LOGSIZE
  /\ Len(head) < logsize - 1 /\ Len(head) < LOGSIZE

Injective(s) == \A i, j \in DOMAIN s : s[i] = s[j] => i = j

(* What each buffer holds: a clean buffer agrees with the disk, a dirty or *)
(* held one is in the cache, and only logged blocks are dirty.             *)
BufInv ==
  /\ Injective(lh) /\ Injective(head)
  /\ dirty \subseteq Range(lh)
  /\ \A b \in dirty : cache[b] # NoBuf
  /\ \A o \in Op : wbuf[o] # NoBlock => cache[wbuf[o]] # NoBuf
  /\ \A b \in Home : Recyclable(b) => bread(b) = disk[b]

(* The first n log blocks are written; the first n blocks are installed;   *)
(* the logged blocks from the m-th on are pinned in the cache.             *)
Logged(n) == \A i \in 1 .. n : disk[i] = bread(lh[i])
Installed(n) == \A i \in 1 .. n : disk[lh[i]] = disk[i] /\ lh[i] \notin dirty
Pinned(m) == \A i \in DOMAIN lh : i >= m => lh[i] \in dirty

(* What holds while a process is at step p of commit().                    *)
StepInv(p) ==
  /\ p = "write_log" =>
       head = <<>> /\ tail <= Len(lh) /\ Logged(tail - 1) /\ Pinned(1)
  /\ p = "write_head" =>
       /\ head = <<>> /\ tail = 1 /\ lh # <<>>
       /\ Logged(Len(lh)) /\ Pinned(1)
  /\ p = "install_trans" =>
       /\ head = lh /\ tail <= Len(lh) /\ Logged(Len(lh))
       /\ Installed(tail - 1) /\ Pinned(tail)
  /\ p = "clear" => head = lh /\ Installed(Len(lh))
  /\ p = "committed" => head = <<>> /\ lh = <<>>

(* ... and while no process is in commit().                                *)
QuietInv ==
  boot = "up" /\ ~committing =>
    head = <<>> /\ Pinned(1) /\ (outstanding = 0 => lh = <<>>)

(* ... and while the kernel is still recovering.                           *)
BootInv ==
  /\ boot # "up" =>
       /\ pc = [o \in Op |-> "begin"] /\ wbuf = [o \in Op |-> NoBlock]
       /\ dirty = {} /\ outstanding = 0 /\ ~committing
  /\ boot = "read_head" => cache = [b \in Home |-> NoBuf] /\ lh = <<>>
  /\ boot = "install_trans" =>
       head = lh /\ tail <= Len(lh) /\ Installed(tail - 1)
  /\ boot = "clear" => head = lh /\ Installed(Len(lh))

CommitInv ==
  /\ boot = "up" => \A o \in Op : StepInv(pc[o])
  /\ QuietInv
  /\ BootInv

IInv == TypeOK /\ CountInv /\ HoldInv /\ SpaceInv /\ BufInv /\ CommitInv
=============================================================================
