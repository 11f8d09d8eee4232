------------------------------- MODULE Bcache -------------------------------
(***************************************************************************)
(* The buffer cache of bio.c over the disk queue of ide.c: bget, bread,    *)
(* bwrite, brelse, the sleep-lock of each buffer, the LRU list, B_VALID    *)
(* and B_DIRTY, iderw() and the disk interrupt.                            *)
(*                                                                         *)
(* A section under bcache.lock, idelock or the spinlock of a sleep-lock is *)
(* one step; everything between two such sections may be interleaved.      *)
(***************************************************************************)
EXTENDS Naturals, FiniteSets, SequencesExt

CONSTANTS
  Proc,       (* users of the cache; a process that holds several buffers  *)
              (* at once is as many users                                  *)
  Block,      (* block numbers                                             *)
  Val,        (* contents of a block                                       *)
  NBUF,       (* buffers                                                   *)
  MaxPinned,  (* bound: buffers that log.c keeps dirty at a time           *)
  NULL

ASSUME BcacheAssumption ==
  /\ NBUF \in Nat \ {0} /\ MaxPinned \in Nat
  /\ Val # {} /\ NULL \notin Proc \cup Block \cup Val

Buf == 1 .. NBUF

VARIABLES
  blockno, refcnt, valid, dirty, data,  (* fields of struct buf            *)
  locked,    (* the holder of b->lock, or NULL                             *)
  lru,       (* bcache.head's list, the most recently used buffer first    *)
  idequeue,  (* buffers with a disk request, the active one first          *)
  written,   (* what the active write has sent to the disk                 *)
  disk,
  pc, want, buf,   (* per process: where it is, block asked for, buffer    *)
  truth,     (* history: the contents last given to each block             *)
  unread     (* history: buffers whose contents the disk failed to read    *)

cache == <<blockno, refcnt, lru>>
flags == <<valid, dirty>>
ide == <<idequeue, written, disk>>
hist == <<truth, unread>>
vars == <<cache, flags, data, locked, ide, pc, want, buf, hist>>

(* binit(): no buffer holds a block, and all have the same (zero) data.    *)
Init ==
  /\ blockno = [b \in Buf |-> NULL] /\ refcnt = [b \in Buf |-> 0]
  /\ valid = [b \in Buf |-> FALSE] /\ dirty = [b \in Buf |-> FALSE]
  /\ \E z \in Val : data = [b \in Buf |-> z]
  /\ locked = [b \in Buf |-> NULL]
  /\ lru = [j \in 1 .. NBUF |-> NBUF + 1 - j]
  /\ idequeue = << >> /\ written = NULL
  /\ disk \in [Block -> Val] /\ truth = disk /\ unread = {}
  /\ pc = [p \in Proc |-> "idle"]
  /\ want = [p \in Proc |-> NULL] /\ buf = [p \in Proc |-> NULL]

Goto(p, l) == pc' = [pc EXCEPT ![p] = l]

-----------------------------------------------------------------------------
(* bget(): under bcache.lock, up to acquiresleep()                         *)

Cached(k) == {b \in Buf : blockno[b] = k}

Unused == {b \in Buf : refcnt[b] = 0 /\ ~dirty[b]}

(* The buffer of S that was used least recently.                           *)
Oldest(S) == lru[CHOOSE j \in 1 .. NBUF :
                   lru[j] \in S /\ \A h \in (j + 1) .. NBUF : lru[h] \notin S]

bget_hit(p, k) ==
  LET b == CHOOSE c \in Cached(k) : TRUE IN
  /\ pc[p] = "idle" /\ Cached(k) # {}
  /\ refcnt' = [refcnt EXCEPT ![b] = @ + 1]
  /\ want' = [want EXCEPT ![p] = k] /\ buf' = [buf EXCEPT ![p] = b]
  /\ Goto(p, "acquiresleep")
  /\ UNCHANGED <<blockno, lru, flags, data, locked, ide, hist>>

(* Mutant: the flags of the recycled buffer are kept.                      *)
bget_recycle_valid(p, k) ==
  LET b == Oldest(Unused) IN
  /\ pc[p] = "idle" /\ Cached(k) = {} /\ Unused # {}
  /\ blockno' = [blockno EXCEPT ![b] = k]
  /\ refcnt' = [refcnt EXCEPT ![b] = 1]
  /\ want' = [want EXCEPT ![p] = k] /\ buf' = [buf EXCEPT ![p] = b]
  /\ Goto(p, "acquiresleep")
  /\ UNCHANGED <<lru, flags, data, locked, ide, hist>>

(* Mutant: another process may have taken the block in since the search.   *)
bget_recycle_blind(p, k) ==
  LET b == Oldest(Unused) IN
  /\ pc[p] = "idle" /\ Unused # {}
  /\ blockno' = [blockno EXCEPT ![b] = k]
  /\ refcnt' = [refcnt EXCEPT ![b] = 1]
  /\ valid' = [valid EXCEPT ![b] = FALSE]
  /\ want' = [want EXCEPT ![p] = k] /\ buf' = [buf EXCEPT ![p] = b]
  /\ Goto(p, "acquiresleep")
  /\ UNCHANGED <<lru, dirty, data, locked, ide, hist>>

bget_recycle(p, k) ==
  LET b == Oldest(Unused) IN
  /\ pc[p] = "idle" /\ Cached(k) = {} /\ Unused # {}
  /\ blockno' = [blockno EXCEPT ![b] = k]
  /\ refcnt' = [refcnt EXCEPT ![b] = 1]
  /\ valid' = [valid EXCEPT ![b] = FALSE]
  /\ want' = [want EXCEPT ![p] = k] /\ buf' = [buf EXCEPT ![p] = b]
  /\ Goto(p, "acquiresleep")
  /\ UNCHANGED <<lru, dirty, data, locked, ide, hist>>

(* panic("bget: no buffers")                                               *)
bget_panic(p, k) ==
  /\ pc[p] = "idle" /\ Cached(k) = {} /\ Unused = {}
  /\ Goto(p, "panic")
  /\ UNCHANGED <<cache, flags, data, locked, ide, want, buf, hist>>

(* acquiresleep(): one turn of its while loop.                             *)
acquiresleep(p) ==
  LET b == buf[p] IN
  /\ pc[p] = "acquiresleep"
  /\ IF locked[b] # NULL
     THEN Goto(p, "asleep") /\ UNCHANGED locked
     ELSE Goto(p, "bread") /\ locked' = [locked EXCEPT ![b] = p]
  /\ UNCHANGED <<cache, flags, data, ide, want, buf, hist>>

-----------------------------------------------------------------------------
(* iderw() and ideintr()                                                   *)

(* What idestart() sends to the disk for buffer b.                         *)
Sent(b, fl, da) == IF fl[b] THEN da[b] ELSE NULL

(* iderw(): b is queued, the disk started if it was idle, p sleeps.        *)
iderw(p, b) ==
  /\ idequeue' = Append(idequeue, b)
  /\ written' = IF idequeue = << >> THEN Sent(b, dirty', data') ELSE written
  /\ Goto(p, "iowait")
  /\ UNCHANGED disk

bread(p) ==
  LET b == buf[p] IN
  /\ pc[p] = "bread"
  /\ UNCHANGED <<cache, flags, data, locked, want, buf, hist>>
  /\ IF valid[b] THEN Goto(p, "held") /\ UNCHANGED ide ELSE iderw(p, b)

(* The caller changes the contents and calls bwrite().                     *)
bwrite(p, v) ==
  LET b == buf[p] IN
  /\ pc[p] = "held"
  /\ data' = [data EXCEPT ![b] = v]
  /\ truth' = [truth EXCEPT ![want[p]] = v] /\ unread' = unread \ {b}
  /\ dirty' = [dirty EXCEPT ![b] = TRUE]
  /\ iderw(p, b)
  /\ UNCHANGED <<cache, valid, locked, want, buf>>

(* The caller changes the contents and calls log_write(), which pins the   *)
(* buffer until the commit writes it.                                      *)
log_write(p, v) ==
  LET b == buf[p] IN
  /\ pc[p] = "held"
  /\ Cardinality({c \in Buf : dirty[c]} \cup {b}) <= MaxPinned
  /\ data' = [data EXCEPT ![b] = v]
  /\ truth' = [truth EXCEPT ![want[p]] = v] /\ unread' = unread \ {b}
  /\ dirty' = [dirty EXCEPT ![b] = TRUE]
  /\ UNCHANGED <<cache, valid, locked, ide, pc, want, buf>>

(* Mutant: the sleepers of a finished request are not woken when another   *)
(* one is queued.                                                          *)
ideintr_silent ==
  LET b == Head(idequeue)
      rest == Tail(idequeue)
  IN  /\ idequeue # << >>
      /\ disk' = IF written = NULL THEN disk ELSE [disk EXCEPT ![blockno[b]] = written]
      /\ data' = IF dirty[b] THEN data ELSE [data EXCEPT ![b] = disk[blockno[b]]]
      /\ unread' = unread \ {b} /\ UNCHANGED truth
      /\ valid' = [valid EXCEPT ![b] = TRUE]
      /\ dirty' = [dirty EXCEPT ![b] = FALSE]
      /\ pc' = [p \in Proc |-> IF pc[p] = "iowait" /\ buf[p] = b /\ rest = << >>
                               THEN "held" ELSE pc[p]]
      /\ idequeue' = rest
      /\ written' = IF rest = << >> THEN NULL ELSE Sent(Head(rest), dirty, data)
      /\ UNCHANGED <<cache, locked, want, buf>>

(* The active request is done: the data arrives, unless the disk reports   *)
(* an error, its process is woken, the next request starts.  The woken     *)
(* process finds the flags as its loop wants them.                         *)
ideintr ==
  LET b == Head(idequeue)
      rest == Tail(idequeue)
  IN  /\ idequeue # << >>
      /\ disk' = IF written = NULL THEN disk ELSE [disk EXCEPT ![blockno[b]] = written]
      /\ \/ /\ data' = IF dirty[b] THEN data ELSE [data EXCEPT ![b] = disk[blockno[b]]]
            /\ unread' = unread \ {b}
         \/ ~dirty[b] /\ unread' = unread \cup {b} /\ UNCHANGED data
      /\ UNCHANGED truth
      /\ valid' = [valid EXCEPT ![b] = TRUE]
      /\ dirty' = [dirty EXCEPT ![b] = FALSE]
      /\ pc' = [p \in Proc |-> IF pc[p] = "iowait" /\ buf[p] = b THEN "held" ELSE pc[p]]
      /\ idequeue' = rest
      /\ written' = IF rest = << >> THEN NULL ELSE Sent(Head(rest), dirty, data)
      /\ UNCHANGED <<cache, locked, want, buf>>

-----------------------------------------------------------------------------
(* brelse()                                                                *)

(* Mutant: the sleepers are not woken.                                     *)
releasesleep_silent(p) ==
  /\ pc[p] = "held"
  /\ locked' = [locked EXCEPT ![buf[p]] = NULL]
  /\ Goto(p, "brelse")
  /\ UNCHANGED <<cache, flags, data, ide, want, buf, hist>>

releasesleep(p) ==
  /\ pc[p] = "held"
  /\ locked' = [locked EXCEPT ![buf[p]] = NULL]
  /\ pc' = [r \in Proc |-> IF r = p THEN "brelse"
                           ELSE IF pc[r] = "asleep" /\ buf[r] = buf[p] THEN "acquiresleep"
                           ELSE pc[r]]
  /\ UNCHANGED <<cache, flags, data, ide, want, buf, hist>>

(* Mutant: the buffer is put at the head and left in its old place too.    *)
brelse_twice(p) ==
  LET b == buf[p] IN
  /\ pc[p] = "brelse"
  /\ refcnt' = [refcnt EXCEPT ![b] = @ - 1]
  /\ lru' = IF refcnt[b] = 1 THEN <<b>> \o SubSeq(lru, 1, NBUF - 1) ELSE lru
  /\ want' = [want EXCEPT ![p] = NULL] /\ buf' = [buf EXCEPT ![p] = NULL]
  /\ Goto(p, "idle")
  /\ UNCHANGED <<blockno, flags, data, locked, ide, hist>>

(* Mutant: the reference is not given up.                                  *)
brelse_leak(p) ==
  /\ pc[p] = "brelse"
  /\ want' = [want EXCEPT ![p] = NULL] /\ buf' = [buf EXCEPT ![p] = NULL]
  /\ Goto(p, "idle")
  /\ UNCHANGED <<cache, flags, data, locked, ide, hist>>

(* Mutant: the reference is given up, whoever else may have one.           *)
brelse_clear(p) ==
  LET b == buf[p] IN
  /\ pc[p] = "brelse"
  /\ refcnt' = [refcnt EXCEPT ![b] = 0]
  /\ lru' = <<b>> \o Remove(lru, b)
  /\ want' = [want EXCEPT ![p] = NULL] /\ buf' = [buf EXCEPT ![p] = NULL]
  /\ Goto(p, "idle")
  /\ UNCHANGED <<blockno, flags, data, locked, ide, hist>>

brelse(p) ==
  LET b == buf[p] IN
  /\ pc[p] = "brelse"
  /\ refcnt' = [refcnt EXCEPT ![b] = @ - 1]
  /\ lru' = IF refcnt[b] = 1 THEN <<b>> \o Remove(lru, b) ELSE lru
  /\ want' = [want EXCEPT ![p] = NULL] /\ buf' = [buf EXCEPT ![p] = NULL]
  /\ Goto(p, "idle")
  /\ UNCHANGED <<blockno, flags, data, locked, ide, hist>>

-----------------------------------------------------------------------------
bget(p) == \E k \in Block : bget_hit(p, k) \/ bget_recycle(p, k) \/ bget_panic(p, k)

Step(p) == acquiresleep(p) \/ bread(p) \/ releasesleep(p) \/ brelse(p)

Change(p) == \E v \in Val : bwrite(p, v) \/ log_write(p, v)

Next == ideintr \/ \E p \in Proc : bget(p) \/ Step(p) \/ Change(p)

Spec == Init /\ [][Next]_vars

-----------------------------------------------------------------------------
(* Properties                                                              *)

TypeOK ==
  /\ blockno \in [Buf -> Block \cup {NULL}]
  /\ refcnt \in [Buf -> 0 .. Cardinality(Proc)]
  /\ valid \in [Buf -> BOOLEAN] /\ dirty \in [Buf -> BOOLEAN]
  /\ data \in [Buf -> Val] /\ disk \in [Block -> Val] /\ truth \in [Block -> Val]
  /\ locked \in [Buf -> Proc \cup {NULL}]
  /\ Len(lru) = NBUF /\ ToSet(lru) = Buf
  /\ ToSet(idequeue) \subseteq Buf /\ Len(idequeue) <= NBUF
  /\ written \in Val \cup {NULL} /\ unread \subseteq Buf
  /\ pc \in [Proc -> {"idle", "acquiresleep", "asleep", "bread", "iowait", "held",
                      "brelse", "panic"}]
  /\ want \in [Proc -> Block \cup {NULL}] /\ buf \in [Proc -> Buf \cup {NULL}]

(* bio.c's "cached copies of disk block contents": a block never has two   *)
(* buffers, though bget() lets go of bcache.lock before it has the         *)
(* buffer's own lock.                                                      *)
OneBufferPerBlock ==
  \A b, c \in Buf : blockno[b] = blockno[c] /\ blockno[b] # NULL => b = c

(* A buffer is not given to another block while a process uses it, waits   *)
(* for its lock or waits for its I/O.                                      *)
BufferStays == \A p \in Proc : buf[p] # NULL => blockno[buf[p]] = want[p]

(* A process that holds a buffer sees what was last written to its block,  *)
(* by whomever and through whichever buffer, pinned or on disk.  The       *)
(* exception is a read that failed: ideintr() sets B_VALID all the same    *)
(* and the buffer shows what it held before.                               *)
ReadsLatest ==
  \A p \in Proc : pc[p] = "held" /\ buf[p] \notin unread => data[buf[p]] = truth[want[p]]

(* The disk queue and the sleepers agree: whoever waits for the disk has   *)
(* its buffer in the queue once, and nothing else is in it.                *)
QueueMatches ==
  /\ \A p \in Proc : pc[p] = "iowait" => buf[p] \in ToSet(idequeue)
  /\ Cardinality({p \in Proc : pc[p] = "iowait"}) = Len(idequeue)

(* Who sleeps in acquiresleep() sleeps for a lock that somebody holds, and *)
(* whose release will wake it.                                             *)
SleeperHasWaker == \A p \in Proc : pc[p] = "asleep" => locked[buf[p]] \notin {NULL, p}

(* bget() panics only when the other users of the cache and the blocks     *)
(* pinned by log.c together need all of the buffers.                       *)
PanicOnlyWhenFull ==
  [][\A p \in Proc : pc'[p] = "panic" /\ pc[p] # "panic" =>
       Cardinality({r \in Proc : buf[r] # NULL})
         + Cardinality({b \in Buf : dirty[b] /\ b \notin {buf[r] : r \in Proc}}) >= NBUF]_vars
=============================================================================
