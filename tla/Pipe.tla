-------------------------------- MODULE Pipe --------------------------------
(***************************************************************************)
(* A pipe of pipe.c, shared by processes that write, read, fork, close     *)
(* their ends, are killed and exit.                                        *)
(*                                                                         *)
(* p->lock is a spinlock: who holds it goes on until it returns or sleeps. *)
(* kill() does not take it, so each test of killed is a step apart from    *)
(* the sleep() that follows.  The set of processes with a descriptor of an *)
(* end stands for the reference count of its struct file.                  *)
(***************************************************************************)
EXTENDS Naturals, Sequences, FiniteSets

CONSTANTS
  Proc,       (* processes                                                 *)
  Byte,       (* the values of a byte                                      *)
  PIPESIZE,   (* bytes in the ring                                         *)
  UINT,       (* the counters nread and nwrite are taken modulo UINT       *)
  MaxIO,      (* bound: bytes asked of one call                            *)
  Killable,   (* the processes that kill() is called for                   *)
  NULL, NONE, EOF

ASSUME PipeAssumption ==
  /\ PIPESIZE \in Nat \ {0} /\ UINT \in Nat
  /\ UINT % PIPESIZE = 0 /\ UINT > PIPESIZE
  /\ MaxIO \in Nat /\ Killable \subseteq Proc
  /\ NULL \notin Proc /\ NONE \notin Byte /\ EOF \notin Byte

VARIABLES
  alloc,                (* whether the page of struct pipe is allocated    *)
  data, nread, nwrite, readopen, writeopen,       (* struct pipe           *)
  lock,                 (* the holder of p->lock, or NULL                  *)
  rfile, wfile,         (* who has a descriptor of the read, write end     *)
  pc,                   (* where each process is                           *)
  i, n,                 (* locals of pipewrite() and piperead(), 0 outside *)
  killed,
  out,                  (* the last byte a process read, or EOF            *)
  quit                  (* history: a writer has given up in a full pipe   *)
                        (* and no reader has been woken since              *)

pipe == <<alloc, data, nread, nwrite, readopen, writeopen>>
files == <<rfile, wfile>>
hist == <<out, quit>>
vars == <<pipe, lock, files, pc, i, n, killed, hist>>

(* There is no pipe, and no process that will use it.                      *)
Init ==
  /\ alloc = FALSE /\ readopen = FALSE /\ writeopen = FALSE
  /\ nread = 0 /\ nwrite = 0
  /\ data \in [0 .. (PIPESIZE - 1) -> Byte]
  /\ lock = NULL
  /\ rfile = {} /\ wfile = {}
  /\ pc = [p \in Proc |-> "dead"]
  /\ i = [p \in Proc |-> 0] /\ n = [p \in Proc |-> 0]
  /\ killed = [p \in Proc |-> FALSE]
  /\ out = NONE /\ quit = FALSE

Full == nwrite = (nread + PIPESIZE) % UINT
Empty == nread = nwrite

(* p holds p->lock at label l.                                             *)
Holds(p, l) == pc[p] = l /\ lock = p

Goto(p, l) == pc' = [pc EXCEPT ![p] = l]

(* The lock is released and the locals are gone.                           *)
Return(p) ==
  /\ lock' = NULL
  /\ i' = [i EXCEPT ![p] = 0] /\ n' = [n EXCEPT ![p] = 0]

(* The processes after wakeup(): those asleep at l want the lock again.    *)
Wakeup(f, l, woken) == [p \in Proc |-> IF f[p] = l THEN woken ELSE f[p]]

WakeReaders(f) == Wakeup(f, "read_asleep", "read_woken")
WakeWriters(f) == Wakeup(f, "write_asleep", "write_woken")

-----------------------------------------------------------------------------
(* The life of the processes and of the descriptors                        *)

(* The shell starts a program, which has no descriptor of the pipe.        *)
start(p) ==
  /\ \A r \in Proc : pc[r] = "dead"
  /\ Goto(p, "user")
  /\ UNCHANGED <<pipe, lock, files, i, n, killed, hist>>

(* pipealloc(), with whatever the page of kalloc() holds; when it fails    *)
(* nothing changes.                                                        *)
pipealloc(p) ==
  /\ pc[p] = "user" /\ ~killed[p]
  /\ ~alloc /\ rfile = {} /\ wfile = {}
  /\ alloc' = TRUE /\ readopen' = TRUE /\ writeopen' = TRUE
  /\ nread' = 0 /\ nwrite' = 0
  /\ data' \in [0 .. (PIPESIZE - 1) -> Byte]
  /\ rfile' = {p} /\ wfile' = {p}
  /\ UNCHANGED <<lock, pc, i, n, killed, hist>>

(* fork(): filedup() on every descriptor.                                  *)
fork(p, c) ==
  LET Dup(F) == IF p \in F THEN F \cup {c} ELSE F IN
  /\ pc[p] = "user" /\ ~killed[p] /\ pc[c] = "dead"
  /\ rfile' = Dup(rfile) /\ wfile' = Dup(wfile)
  /\ Goto(c, "user")
  /\ UNCHANGED <<pipe, lock, i, n, killed, hist>>

(* fileclose(): the last reference goes on to pipeclose().                 *)
fileclose_read(p) ==
  /\ pc[p] = "user" /\ p \in rfile
  /\ rfile' = rfile \ {p}
  /\ Goto(p, IF rfile' = {} THEN "close_read" ELSE "user")
  /\ UNCHANGED <<pipe, lock, wfile, i, n, killed, hist>>

fileclose_write(p) ==
  /\ pc[p] = "user" /\ p \in wfile
  /\ wfile' = wfile \ {p}
  /\ Goto(p, IF wfile' = {} THEN "close_write" ELSE "user")
  /\ UNCHANGED <<pipe, lock, rfile, i, n, killed, hist>>

(* Mutant: the page is freed with the write end.                           *)
pipeclose_early(p) ==
  /\ pc[p] \in {"close_read", "close_write"} /\ lock = NULL
  /\ IF pc[p] = "close_write"
     THEN /\ writeopen' = FALSE /\ UNCHANGED readopen
          /\ pc' = WakeReaders([pc EXCEPT ![p] = "user"])
     ELSE /\ readopen' = FALSE /\ UNCHANGED writeopen
          /\ pc' = WakeWriters([pc EXCEPT ![p] = "user"])
  /\ quit' = (quit /\ pc[p] = "close_read")
  /\ alloc' = writeopen'
  /\ UNCHANGED <<data, nread, nwrite, lock, files, i, n, killed, out>>

pipeclose(p) ==
  /\ pc[p] \in {"close_read", "close_write"} /\ lock = NULL
  /\ IF pc[p] = "close_write"
     THEN /\ writeopen' = FALSE /\ UNCHANGED readopen
          /\ pc' = WakeReaders([pc EXCEPT ![p] = "user"])
     ELSE /\ readopen' = FALSE /\ UNCHANGED writeopen
          /\ pc' = WakeWriters([pc EXCEPT ![p] = "user"])
  /\ quit' = (quit /\ pc[p] = "close_read")
  /\ alloc' = (readopen' \/ writeopen')
  /\ UNCHANGED <<data, nread, nwrite, lock, files, i, n, killed, out>>

(* kill() wakes a sleeper; done again to a process that is awake it        *)
(* changes nothing.                                                        *)
kill(p) ==
  /\ p \in Killable /\ pc[p] # "dead"
  /\ ~killed[p] \/ pc[p] \in {"read_asleep", "write_asleep"}
  /\ killed' = [killed EXCEPT ![p] = TRUE]
  /\ Goto(p, CASE pc[p] = "read_asleep" -> "read_woken"
               [] pc[p] = "write_asleep" -> "write_woken"
               [] OTHER -> pc[p])
  /\ UNCHANGED <<pipe, lock, files, i, n, hist>>

(* exit(), once every descriptor is closed; the slot is reaped and free.   *)
exit(p) ==
  /\ pc[p] = "user" /\ p \notin rfile \cup wfile
  /\ Goto(p, "dead")
  /\ killed' = [killed EXCEPT ![p] = FALSE]
  /\ UNCHANGED <<pipe, lock, files, i, n, hist>>

-----------------------------------------------------------------------------
(* pipewrite()                                                             *)

pipewrite(p, k) ==
  /\ pc[p] = "user" /\ ~killed[p] /\ p \in wfile /\ lock = NULL
  /\ lock' = p
  /\ i' = [i EXCEPT ![p] = 0] /\ n' = [n EXCEPT ![p] = k]
  /\ Goto(p, "write")
  /\ UNCHANGED <<pipe, files, killed, hist>>

(* Mutant: nwrite runs past its width.                                     *)
pipewrite_put_wide(p, b) ==
  /\ Holds(p, "write") /\ i[p] < n[p] /\ ~Full
  /\ data' = [data EXCEPT ![nwrite % PIPESIZE] = b]
  /\ nwrite' = nwrite + 1
  /\ i' = [i EXCEPT ![p] = @ + 1]
  /\ UNCHANGED <<alloc, nread, readopen, writeopen, lock, files, pc, n, killed,
                 hist>>

pipewrite_put(p, b) ==
  /\ Holds(p, "write") /\ i[p] < n[p] /\ ~Full
  /\ data' = [data EXCEPT ![nwrite % PIPESIZE] = b]
  /\ nwrite' = (nwrite + 1) % UINT
  /\ i' = [i EXCEPT ![p] = @ + 1]
  /\ UNCHANGED <<alloc, nread, readopen, writeopen, lock, files, pc, n, killed,
                 hist>>

(* Mutant: a writer that must wait does not wake the readers first.        *)
pipewrite_full_silent(p) ==
  /\ Holds(p, "write") /\ i[p] < n[p] /\ Full
  /\ quit' = (~readopen \/ killed[p])
  /\ IF ~readopen \/ killed[p]
     THEN Return(p) /\ Goto(p, "user")
     ELSE UNCHANGED <<lock, i, n>> /\ Goto(p, "write_sleep")
  /\ UNCHANGED <<pipe, files, killed, out>>

(* The ring is full: give up, or wake the readers and wait.                *)
pipewrite_full(p) ==
  /\ Holds(p, "write") /\ i[p] < n[p] /\ Full
  /\ quit' = (~readopen \/ killed[p])
  /\ IF ~readopen \/ killed[p]
     THEN Return(p) /\ Goto(p, "user")
     ELSE /\ UNCHANGED <<lock, i, n>>
          /\ pc' = WakeReaders([pc EXCEPT ![p] = "write_sleep"])
  /\ UNCHANGED <<pipe, files, killed, out>>

pipewrite_sleep(p) ==
  /\ Holds(p, "write_sleep")
  /\ lock' = NULL
  /\ Goto(p, "write_asleep")
  /\ UNCHANGED <<pipe, files, i, n, killed, hist>>

pipewrite_woken(p) ==
  /\ pc[p] = "write_woken" /\ lock = NULL
  /\ lock' = p
  /\ Goto(p, "write")
  /\ UNCHANGED <<pipe, files, i, n, killed, hist>>

pipewrite_end(p) ==
  /\ Holds(p, "write") /\ i[p] = n[p]
  /\ Return(p) /\ quit' = FALSE
  /\ pc' = WakeReaders([pc EXCEPT ![p] = "user"])
  /\ UNCHANGED <<pipe, files, killed, out>>

-----------------------------------------------------------------------------
(* piperead()                                                              *)

piperead(p, k) ==
  /\ pc[p] = "user" /\ ~killed[p] /\ p \in rfile /\ lock = NULL
  /\ lock' = p
  /\ i' = [i EXCEPT ![p] = 0] /\ n' = [n EXCEPT ![p] = k]
  /\ Goto(p, "read")
  /\ UNCHANGED <<pipe, files, killed, hist>>

(* The while loop: a writer may still come.                                *)
piperead_empty(p) ==
  /\ Holds(p, "read") /\ Empty /\ writeopen
  /\ IF killed[p]
     THEN Return(p) /\ Goto(p, "user")
     ELSE UNCHANGED <<lock, i, n>> /\ Goto(p, "read_sleep")
  /\ UNCHANGED <<pipe, files, killed, hist>>

piperead_sleep(p) ==
  /\ Holds(p, "read_sleep")
  /\ lock' = NULL
  /\ Goto(p, "read_asleep")
  /\ UNCHANGED <<pipe, files, i, n, killed, hist>>

(* Mutant: the woken reader does not test again.                           *)
piperead_woken_once(p) ==
  /\ pc[p] = "read_woken" /\ lock = NULL
  /\ lock' = p
  /\ Goto(p, "copy")
  /\ UNCHANGED <<pipe, files, i, n, killed, hist>>

piperead_woken(p) ==
  /\ pc[p] = "read_woken" /\ lock = NULL
  /\ lock' = p
  /\ Goto(p, "read")
  /\ UNCHANGED <<pipe, files, i, n, killed, hist>>

piperead_ready(p) ==
  /\ Holds(p, "read") /\ ~(Empty /\ writeopen)
  /\ Goto(p, "copy")
  /\ UNCHANGED <<pipe, lock, files, i, n, killed, hist>>

piperead_get(p) ==
  /\ Holds(p, "copy") /\ i[p] < n[p] /\ ~Empty
  /\ out' = data[nread % PIPESIZE]
  /\ nread' = (nread + 1) % UINT
  /\ i' = [i EXCEPT ![p] = @ + 1]
  /\ UNCHANGED <<alloc, data, nwrite, readopen, writeopen, lock, files, pc, n,
                 killed, quit>>

(* The return value is i; 0 is the end of the stream.                      *)
piperead_end(p) ==
  /\ Holds(p, "copy") /\ (i[p] = n[p] \/ Empty)
  /\ Return(p)
  /\ pc' = WakeWriters([pc EXCEPT ![p] = "user"])
  /\ out' = IF i[p] = 0 THEN EOF ELSE out
  /\ UNCHANGED <<pipe, files, killed, quit>>

-----------------------------------------------------------------------------
(* The steps of a call, which goes on by itself once it has begun.         *)
Write(p) ==
  \/ \E b \in Byte : pipewrite_put(p, b)
  \/ pipewrite_full(p) \/ pipewrite_sleep(p) \/ pipewrite_woken(p)
  \/ pipewrite_end(p)

Read(p) ==
  \/ piperead_empty(p) \/ piperead_sleep(p) \/ piperead_woken(p)
  \/ piperead_ready(p) \/ piperead_get(p) \/ piperead_end(p)

(* What a process may ask for.                                             *)
Calls(p) ==
  \/ pipealloc(p)
  \/ fileclose_read(p) \/ fileclose_write(p)
  \/ exit(p)
  \/ \E c \in Proc : fork(p, c)
  \/ \E k \in 1 .. MaxIO : pipewrite(p, k) \/ piperead(p, k)

Next ==
  \E p \in Proc :
    Write(p) \/ Read(p) \/ pipeclose(p) \/ Calls(p) \/ kill(p) \/ start(p)

Spec == Init /\ [][Next]_vars

-----------------------------------------------------------------------------
(* Properties                                                              *)

Writing == {"write", "write_sleep", "write_asleep", "write_woken"}
Reading == {"read", "read_sleep", "read_asleep", "read_woken", "copy"}

TypeOK ==
  /\ alloc \in BOOLEAN /\ readopen \in BOOLEAN /\ writeopen \in BOOLEAN
  /\ data \in [0 .. (PIPESIZE - 1) -> Byte]
  /\ nread \in 0 .. (UINT - 1) /\ nwrite \in 0 .. (UINT - 1)
  /\ lock \in Proc \cup {NULL}
  /\ rfile \subseteq Proc /\ wfile \subseteq Proc
  /\ pc \in [Proc -> {"dead", "user", "close_read", "close_write"}
                       \cup Writing \cup Reading]
  /\ i \in [Proc -> 0 .. MaxIO] /\ n \in [Proc -> 0 .. MaxIO]
  /\ killed \in [Proc -> BOOLEAN]
  /\ out \in Byte \cup {NONE, EOF} /\ quit \in BOOLEAN

(* No process works on a freed pipe: the page lives as long as a           *)
(* descriptor, a call or a pending pipeclose() refers to it, and no longer. *)
PageOwned ==
  alloc <=> \/ rfile \cup wfile # {}
            \/ \E p \in Proc : pc[p] \in {"close_read", "close_write"} \cup Writing \cup Reading

(* No wakeup is lost: a process sleeps only while what it waits for has    *)
(* not happened, or while the one who made it happen still holds the lock  *)
(* and is about to wake it.  The exception is a writer that is killed, or  *)
(* loses its last reader, in a full pipe: it leaves without waking.        *)
NoLostWakeup ==
  \A p \in Proc :
    /\ pc[p] = "read_asleep" =>
         (Empty /\ writeopen) \/ quit \/ \E r \in Proc : Holds(r, "write")
    /\ pc[p] = "write_asleep" =>
         (Full /\ readopen) \/ \E r \in Proc : Holds(r, "copy")

(* The number of bytes in the ring, and the bytes, oldest first.           *)
Count == (nwrite + UINT - nread) % UINT

Content == [k \in 1 .. Count |-> data[(nread + k - 1) % PIPESIZE]]

F == INSTANCE Fifo WITH
       q <- Content, wopen <- writeopen, out <- out, Capacity <- PIPESIZE

(* pipe.c implements Fifo: bytes arrive once and in order across the       *)
(* wraparound of the ring and of the counters, and 0 is returned only when *)
(* every writer has closed.                                                *)
ImplementsFifo == F!Spec
=============================================================================
