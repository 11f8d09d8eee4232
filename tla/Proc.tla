-------------------------------- MODULE Proc --------------------------------
(***************************************************************************)
(* The process table of proc.c on several CPUs: fork, exit, wait, kill,    *)
(* sleep and wakeup, the round-robin scheduler and the timer interrupt.    *)
(*                                                                         *)
(* ptable.lock is held across swtch(): a process that gives up its CPU     *)
(* takes the lock, the scheduler of that CPU or the next process releases  *)
(* it.  The two sides of a swtch() are separate steps here.  A section     *)
(* that takes and releases the lock without a swtch() is one step.         *)
(***************************************************************************)
EXTENDS Integers, FiniteSets

CONSTANTS
  NPROC,      (* slots of ptable.proc                                      *)
  NCPU,       (* CPUs                                                      *)
  MaxPid,     (* bound: pids handed out                                    *)
  MaxSleep,   (* bound: ticks a process asks to sleep                      *)
  Targets     (* the pids kill() is called with                            *)

ASSUME ProcAssumption ==
  NPROC \in Nat \ {0} /\ NCPU \in Nat \ {0} /\ MaxPid \in Nat /\ MaxSleep \in Nat

Slot == 0 .. (NPROC - 1)
CPU == 0 .. (NCPU - 1)
NULL == -1
TICKS == NPROC       (* the channel &ticks; &ptable.proc[s] is channel s   *)
initproc == 0

VARIABLES
  state, pid, parent, chan, killed,   (* fields of struct proc             *)
  kstack,       (* whether p->kstack is an allocated page                  *)
  nextpid,
  proc,         (* per CPU: the process whose kernel stack it runs on      *)
  scan,         (* per CPU: next slot of the scheduler's for loop          *)
  irq,          (* per CPU: progress of a timer interrupt                  *)
  ptable_lock,  (* the CPU that holds ptable.lock, or NULL                 *)
  tickslock,    (* the CPU that holds tickslock, or NULL                   *)
  pc,           (* where each process is                                   *)
  ret,          (* where a preempted process goes on                       *)
  np,           (* fork()'s local np                                       *)
  left,         (* sys_sleep(): n - (ticks - ticks0), 0 when past          *)
  asked         (* history: pids kill() has been called with               *)

locks == <<ptable_lock, tickslock>>
cpus == <<proc, scan, irq>>
vars == <<state, pid, parent, chan, killed, kstack, nextpid, cpus,
          locks, pc, ret, np, left, asked>>

First(S) == CHOOSE s \in S : \A t \in S : s <= t

(* userinit() has made the first process; no CPU has scheduled yet.        *)
Init ==
  /\ state = [s \in Slot |-> IF s = initproc THEN "RUNNABLE" ELSE "UNUSED"]
  /\ pid = [s \in Slot |-> IF s = initproc THEN 1 ELSE 0]
  /\ parent = [s \in Slot |-> NULL]
  /\ chan = [s \in Slot |-> NULL]
  /\ killed = [s \in Slot |-> FALSE]
  /\ kstack = [s \in Slot |-> s = initproc]
  /\ nextpid = 2
  /\ proc = [c \in CPU |-> NULL]
  /\ scan = [c \in CPU |-> 0]
  /\ irq = [c \in CPU |-> "none"]
  /\ ptable_lock = NULL
  /\ tickslock = NULL
  /\ pc = [s \in Slot |-> "forkret"]
  /\ ret = [s \in Slot |-> "user"]
  /\ np = [s \in Slot |-> NULL]
  /\ left = [s \in Slot |-> 0]
  /\ asked = {}

(* CPU c executes its process at label l.                                  *)
At(c, l) == proc[c] # NULL /\ irq[c] = "none" /\ pc[proc[c]] = l

(* ... in user space, about to make a system call.                         *)
Syscall(c) == At(c, "user") /\ ~killed[proc[c]]

(* ... back from swtch(), holding ptable.lock.                             *)
Resumed(c, l) ==
  At(c, l) /\ ptable_lock = c /\ state[proc[c]] = "RUNNING"

(* trap() on the way out of a system call: a killed process exits.         *)
SysRet(p) == IF killed[p] THEN "exit" ELSE "user"

wakeup1(st, ch) ==
  [s \in Slot |->
     IF st[s] = "SLEEPING" /\ chan[s] = ch THEN "RUNNABLE" ELSE st[s]]

-----------------------------------------------------------------------------
(* fork(); with no UNUSED slot allocproc() fails and nothing changes.      *)

allocproc(c) ==
  LET p == proc[c]
      s == First({t \in Slot : state[t] = "UNUSED"})
  IN  /\ Syscall(c) /\ ptable_lock = NULL
      /\ nextpid <= MaxPid
      /\ \E t \in Slot : state[t] = "UNUSED"
      /\ state' = [state EXCEPT ![s] = "EMBRYO"]
      /\ pid' = [pid EXCEPT ![s] = nextpid]
      /\ nextpid' = nextpid + 1
      /\ np' = [np EXCEPT ![p] = s]
      /\ pc' = [pc EXCEPT ![p] = "fork_kalloc"]
      /\ UNCHANGED <<parent, chan, killed, kstack, cpus, locks, ret, left,
                     asked>>

(* The kernel stack, with a context that starts at forkret().              *)
fork_kalloc(c) ==
  LET p == proc[c] IN
  /\ At(c, "fork_kalloc")
  /\ \/ /\ kstack' = [kstack EXCEPT ![np[p]] = TRUE]
        /\ pc' = [pc EXCEPT ![p] = "fork_copy", ![np[p]] = "forkret"]
        /\ UNCHANGED <<state, np>>
     \/ /\ state' = [state EXCEPT ![np[p]] = "UNUSED"]
        /\ np' = [np EXCEPT ![p] = NULL]
        /\ pc' = [pc EXCEPT ![p] = SysRet(p)]
        /\ UNCHANGED kstack
  /\ UNCHANGED <<pid, parent, chan, killed, nextpid, cpus, locks, ret, left,
                 asked>>

(* Mutant: the failure path keeps the stack.                               *)
fork_copy_leak(c) ==
  LET p == proc[c] IN
  /\ At(c, "fork_copy")
  /\ \/ /\ parent' = [parent EXCEPT ![np[p]] = p]
        /\ pc' = [pc EXCEPT ![p] = "fork_run"]
        /\ UNCHANGED <<state, kstack, np>>
     \/ /\ state' = [state EXCEPT ![np[p]] = "UNUSED"]
        /\ np' = [np EXCEPT ![p] = NULL]
        /\ pc' = [pc EXCEPT ![p] = SysRet(p)]
        /\ UNCHANGED <<parent, kstack>>
  /\ UNCHANGED <<pid, chan, killed, nextpid, cpus, locks, ret, left, asked>>

(* copyuvm(), and the fields copied from the parent.                       *)
fork_copy(c) ==
  LET p == proc[c] IN
  /\ At(c, "fork_copy")
  /\ \/ /\ parent' = [parent EXCEPT ![np[p]] = p]
        /\ pc' = [pc EXCEPT ![p] = "fork_run"]
        /\ UNCHANGED <<state, kstack, np>>
     \/ /\ kstack' = [kstack EXCEPT ![np[p]] = FALSE]
        /\ state' = [state EXCEPT ![np[p]] = "UNUSED"]
        /\ np' = [np EXCEPT ![p] = NULL]
        /\ pc' = [pc EXCEPT ![p] = SysRet(p)]
        /\ UNCHANGED parent
  /\ UNCHANGED <<pid, chan, killed, nextpid, cpus, locks, ret, left, asked>>

fork_run(c) ==
  LET p == proc[c] IN
  /\ At(c, "fork_run") /\ ptable_lock = NULL
  /\ state' = [state EXCEPT ![np[p]] = "RUNNABLE"]
  /\ np' = [np EXCEPT ![p] = NULL]
  /\ pc' = [pc EXCEPT ![p] = SysRet(p)]
  /\ UNCHANGED <<pid, parent, chan, killed, kstack, nextpid, cpus, locks, ret,
                 left, asked>>

-----------------------------------------------------------------------------
(* exit(), wait(), kill()                                                  *)

(* exit() closes the files before it takes ptable.lock.                    *)
exit_begin(c) ==
  /\ At(c, "user")
  /\ pc' = [pc EXCEPT ![proc[c]] = "exit"]
  /\ UNCHANGED <<state, pid, parent, chan, killed, kstack, nextpid, cpus,
                 locks, ret, np, left, asked>>

(* Mutant: the parent is not woken.                                        *)
ExitStatesAlone(p) ==
  LET orphan == \E s \in Slot : parent[s] = p /\ state[s] = "ZOMBIE"
  IN  [IF orphan THEN wakeup1(state, initproc) ELSE state EXCEPT ![p] = "ZOMBIE"]

(* The states exit() leaves: the parent is woken, init too when it         *)
(* inherits a zombie, and the caller is a zombie.                          *)
ExitStates(p) ==
  LET st == wakeup1(state, parent[p])
      orphan == \E s \in Slot : parent[s] = p /\ state[s] = "ZOMBIE"
  IN  [IF orphan THEN wakeup1(st, initproc) ELSE st EXCEPT ![p] = "ZOMBIE"]

(* Mutant: the children keep the exiting process as their parent.          *)
exit_abandon(c) ==
  LET p == proc[c] IN
  /\ At(c, "exit") /\ ptable_lock = NULL /\ p # initproc
  /\ ptable_lock' = c
  /\ state' = ExitStates(p)
  /\ pc' = [pc EXCEPT ![p] = "zombie"]
  /\ UNCHANGED <<pid, parent, chan, killed, kstack, nextpid, cpus, tickslock,
                 ret, np, left, asked>>

exit(c) ==
  LET p == proc[c] IN
  /\ At(c, "exit")
  /\ IF p = initproc
     THEN /\ pc' = [pc EXCEPT ![p] = "panic"]
          /\ UNCHANGED <<state, parent, ptable_lock>>
     ELSE /\ ptable_lock = NULL
          /\ ptable_lock' = c
          /\ state' = ExitStates(p)
          /\ parent' = [s \in Slot |-> IF parent[s] = p THEN initproc ELSE parent[s]]
          /\ pc' = [pc EXCEPT ![p] = "zombie"]
  /\ UNCHANGED <<pid, chan, killed, kstack, nextpid, cpus, tickslock, ret, np,
                 left, asked>>

(* wait()'s loop, entered by the call or resumed after a sleep().          *)
wait(c) ==
  LET p == proc[c]
      kids == {s \in Slot : parent[s] = p}
      z == First({s \in kids : state[s] = "ZOMBIE"})
      found == \E s \in kids : state[s] = "ZOMBIE"
      sleeps == ~found /\ kids # {} /\ ~killed[p]
  IN  /\ \/ Syscall(c) /\ ptable_lock = NULL
         \/ Resumed(c, "wait")
      /\ IF found
         THEN /\ state' = [state EXCEPT ![z] = "UNUSED"]
              /\ kstack' = [kstack EXCEPT ![z] = FALSE]
              /\ pid' = [pid EXCEPT ![z] = 0]
              /\ parent' = [parent EXCEPT ![z] = NULL]
              /\ killed' = [killed EXCEPT ![z] = FALSE]
         ELSE /\ state' = [state EXCEPT ![p] = IF sleeps THEN "SLEEPING" ELSE @]
              /\ UNCHANGED <<pid, parent, killed, kstack>>
      /\ chan' = [chan EXCEPT ![p] = IF sleeps THEN p ELSE NULL]
      /\ ptable_lock' = IF sleeps THEN c ELSE NULL
      /\ pc' = [pc EXCEPT ![p] = IF sleeps THEN "wait" ELSE SysRet(p)]
      /\ UNCHANGED <<nextpid, cpus, tickslock, ret, np, left, asked>>

(* Mutant: a sleeping target is not made runnable.                         *)
kill_asleep(c, t) ==
  LET hit == {s \in Slot : pid[s] = t} IN
  /\ Syscall(c) /\ ptable_lock = NULL /\ hit # {}
  /\ killed' = [killed EXCEPT ![First(hit)] = TRUE]
  /\ asked' = asked \cup {t}
  /\ UNCHANGED <<state, pid, parent, chan, kstack, nextpid, cpus, locks, pc,
                 ret, np, left>>

(* Mutant: whatever is not running is made runnable.                       *)
kill_revive(c, t) ==
  LET s == First({r \in Slot : pid[r] = t}) IN
  /\ Syscall(c) /\ ptable_lock = NULL /\ \E r \in Slot : pid[r] = t
  /\ killed' = [killed EXCEPT ![s] = TRUE]
  /\ state' = [state EXCEPT ![s] = IF @ = "RUNNING" THEN @ ELSE "RUNNABLE"]
  /\ asked' = asked \cup {t}
  /\ UNCHANGED <<pid, parent, chan, kstack, nextpid, cpus, locks, pc, ret, np,
                 left>>

(* kill() marks the first slot with that pid, whatever its state; with no  *)
(* such slot nothing changes.                                              *)
kill(c, t) ==
  LET hit == {s \in Slot : pid[s] = t}
      s == First(hit)
  IN  /\ Syscall(c) /\ ptable_lock = NULL /\ hit # {}
      /\ killed' = [killed EXCEPT ![s] = TRUE]
      /\ state' = [state EXCEPT ![s] = IF @ = "SLEEPING" THEN "RUNNABLE" ELSE @]
      /\ asked' = asked \cup {t}
      /\ UNCHANGED <<pid, parent, chan, kstack, nextpid, cpus, locks, pc, ret,
                     np, left>>

-----------------------------------------------------------------------------
(* sys_sleep(): sleep(&ticks, &tickslock)                                  *)

sys_sleep(c, n) ==
  LET p == proc[c] IN
  /\ Syscall(c) /\ tickslock = NULL
  /\ tickslock' = c
  /\ left' = [left EXCEPT ![p] = n]
  /\ pc' = [pc EXCEPT ![p] = "sleep"]
  /\ UNCHANGED <<state, pid, parent, chan, killed, kstack, nextpid, cpus,
                 ptable_lock, ret, np, asked>>

(* Mutant: tickslock is released before ptable.lock is taken.              *)
sleep_unlocked(c) ==
  LET p == proc[c] IN
  /\ At(c, "sleep") /\ state[p] = "RUNNING"
  /\ IF tickslock = c
     THEN tickslock' = NULL /\ UNCHANGED <<state, chan, ptable_lock, pc>>
     ELSE /\ ptable_lock = NULL /\ ptable_lock' = c
          /\ chan' = [chan EXCEPT ![p] = TICKS]
          /\ state' = [state EXCEPT ![p] = "SLEEPING"]
          /\ pc' = [pc EXCEPT ![p] = "sleeping"]
          /\ UNCHANGED tickslock
  /\ UNCHANGED <<pid, parent, killed, kstack, nextpid, cpus, ret, np, left,
                 asked>>

(* sleep(): ptable.lock is taken before tickslock is let go.               *)
sleep(c) ==
  LET p == proc[c] IN
  /\ At(c, "sleep") /\ ptable_lock = NULL
  /\ ptable_lock' = c
  /\ tickslock' = NULL
  /\ chan' = [chan EXCEPT ![p] = TICKS]
  /\ state' = [state EXCEPT ![p] = "SLEEPING"]
  /\ pc' = [pc EXCEPT ![p] = "sleeping"]
  /\ UNCHANGED <<pid, parent, killed, kstack, nextpid, cpus, ret, np, left,
                 asked>>

sleep_return(c) ==
  LET p == proc[c] IN
  /\ Resumed(c, "sleeping")
  /\ chan' = [chan EXCEPT ![p] = NULL]
  /\ ptable_lock' = NULL
  /\ pc' = [pc EXCEPT ![p] = "sleep_relock"]
  /\ UNCHANGED <<state, pid, parent, killed, kstack, nextpid, cpus, tickslock,
                 ret, np, left, asked>>

(* sleep() acquires tickslock again: it spins with interrupts off...       *)
sleep_pushcli(c) ==
  /\ At(c, "sleep_relock")
  /\ pc' = [pc EXCEPT ![proc[c]] = "sleep_spin"]
  /\ UNCHANGED <<state, pid, parent, chan, killed, kstack, nextpid, cpus,
                 locks, ret, np, left, asked>>

(* ... and sys_sleep()'s while loop tests.                                 *)
sleep_relock(c) ==
  LET p == proc[c]
      again == left[p] > 0 /\ ~killed[p]
  IN  /\ At(c, "sleep_spin") /\ tickslock = NULL
      /\ tickslock' = IF again THEN c ELSE NULL
      /\ pc' = [pc EXCEPT ![p] = IF again THEN "sleep" ELSE SysRet(p)]
      /\ UNCHANGED <<state, pid, parent, chan, killed, kstack, nextpid, cpus,
                     ptable_lock, ret, np, left, asked>>

-----------------------------------------------------------------------------
(* Context switches                                                        *)

(* sched(): swtch() to the CPU's scheduler.                                *)
sched(c) ==
  /\ proc[c] # NULL /\ ptable_lock = c /\ state[proc[c]] # "RUNNING"
  /\ proc' = [proc EXCEPT ![c] = NULL]
  /\ UNCHANGED <<state, pid, parent, chan, killed, kstack, nextpid, scan, irq,
                 locks, pc, ret, np, left, asked>>

(* The first swtch() to a process lands in forkret().                      *)
forkret(c) ==
  /\ Resumed(c, "forkret")
  /\ ptable_lock' = NULL
  /\ pc' = [pc EXCEPT ![proc[c]] = "user"]
  /\ UNCHANGED <<state, pid, parent, chan, killed, kstack, nextpid, cpus,
                 tickslock, ret, np, left, asked>>

(* Mutant: ptable.lock is not held across the swtch().                     *)
DoYieldUnlocked(c, l) ==
  LET p == proc[c] IN
  /\ ptable_lock = NULL
  /\ state' = [state EXCEPT ![p] = "RUNNABLE"]
  /\ ret' = [ret EXCEPT ![p] = l]
  /\ pc' = [pc EXCEPT ![p] = "yield"]
  /\ UNCHANGED ptable_lock

(* yield() up to sched(), by a process that will go on at l.               *)
DoYield(c, l) ==
  LET p == proc[c] IN
  /\ ptable_lock = NULL
  /\ ptable_lock' = c
  /\ state' = [state EXCEPT ![p] = "RUNNABLE"]
  /\ ret' = [ret EXCEPT ![p] = l]
  /\ pc' = [pc EXCEPT ![p] = "yield"]

sys_yield(c) ==
  /\ Syscall(c)
  /\ DoYield(c, "user")
  /\ UNCHANGED <<pid, parent, chan, killed, kstack, nextpid, cpus, tickslock,
                 np, left, asked>>

(* yield() after sched(); trap() then lets a killed process exit, if the   *)
(* trap came from user space.                                              *)
yield_return(c) ==
  LET p == proc[c] IN
  /\ Resumed(c, "yield")
  /\ ptable_lock' = NULL
  /\ pc' = [pc EXCEPT ![p] = IF ret[p] = "user" THEN SysRet(p) ELSE ret[p]]
  /\ UNCHANGED <<state, pid, parent, chan, killed, kstack, nextpid, cpus,
                 tickslock, ret, np, left, asked>>

(* scheduler(): one turn of the for(;;) loop runs every RUNNABLE process   *)
(* in the order of the table, with ptable.lock held in between.            *)
Scan(c) == {s \in Slot : s >= scan[c] /\ state[s] = "RUNNABLE"}

scheduler_acquire(c) ==
  /\ proc[c] = NULL /\ irq[c] = "none" /\ ptable_lock = NULL
  /\ ptable_lock' = c
  /\ UNCHANGED <<state, pid, parent, chan, killed, kstack, nextpid, cpus,
                 tickslock, pc, ret, np, left, asked>>

scheduler_run(c) ==
  LET s == First(Scan(c)) IN
  /\ proc[c] = NULL /\ ptable_lock = c /\ Scan(c) # {}
  /\ proc' = [proc EXCEPT ![c] = s]
  /\ scan' = [scan EXCEPT ![c] = s + 1]
  /\ state' = [state EXCEPT ![s] = "RUNNING"]
  /\ UNCHANGED <<pid, parent, chan, killed, kstack, nextpid, irq, locks, pc,
                 ret, np, left, asked>>

scheduler_release(c) ==
  /\ proc[c] = NULL /\ ptable_lock = c /\ Scan(c) = {}
  /\ ptable_lock' = NULL
  /\ scan' = [scan EXCEPT ![c] = 0]
  /\ UNCHANGED <<state, pid, parent, chan, killed, kstack, nextpid, proc, irq,
                 tickslock, pc, ret, np, left, asked>>

-----------------------------------------------------------------------------
(* The timer interrupt.  A CPU takes it with interrupts on: in user space, *)
(* in the kernel with no spinlock held, or idle in the scheduler.          *)

Interruptible(c) ==
  /\ irq[c] = "none" /\ ptable_lock # c /\ tickslock # c
  /\ proc[c] # NULL =>
       pc[proc[c]] \in {"user", "fork_kalloc", "fork_copy", "fork_run", "exit",
                        "sleep_relock"}


(* CPU 0 counts the tick under tickslock...                                *)
timer_tick ==
  /\ Interruptible(0) /\ tickslock = NULL
  /\ tickslock' = 0
  /\ left' = [s \in Slot |-> IF left[s] > 0 THEN left[s] - 1 ELSE 0]
  /\ irq' = [irq EXCEPT ![0] = "wakeup"]
  /\ UNCHANGED <<state, pid, parent, chan, killed, kstack, nextpid, proc,
                 scan, ptable_lock, pc, ret, np, asked>>

(* ... and wakes the sleepers before it lets tickslock go.                 *)
timer_wakeup ==
  /\ irq[0] = "wakeup" /\ ptable_lock = NULL
  /\ state' = wakeup1(state, TICKS)
  /\ tickslock' = NULL
  /\ irq' = [irq EXCEPT ![0] = "eoi"]
  /\ UNCHANGED <<pid, parent, chan, killed, kstack, nextpid, proc, scan,
                 ptable_lock, pc, ret, np, left, asked>>

(* The end of trap(): a process in user space that was killed exits, any   *)
(* other one yields.                                                       *)
trap_end(c) ==
  LET p == proc[c] IN
  /\ IF c = 0 THEN irq[c] = "eoi" ELSE Interruptible(c)
  /\ irq' = [irq EXCEPT ![c] = "none"]
  /\ IF p = NULL
     THEN UNCHANGED <<state, pc, ret, ptable_lock>>
     ELSE IF pc[p] = "user" /\ killed[p]
     THEN pc' = [pc EXCEPT ![p] = "exit"] /\ UNCHANGED <<state, ret, ptable_lock>>
     ELSE DoYield(c, pc[p])
  /\ UNCHANGED <<pid, parent, chan, killed, kstack, nextpid, proc, scan,
                 tickslock, np, left, asked>>

-----------------------------------------------------------------------------
(* What a CPU does by itself, once a call or an interrupt has begun.       *)
Kernel(c) ==
  \/ fork_kalloc(c) \/ fork_copy(c) \/ fork_run(c)
  \/ exit(c)
  \/ wait(c) /\ At(c, "wait")
  \/ sleep(c) \/ sleep_return(c) \/ sleep_pushcli(c) \/ sleep_relock(c)
  \/ sched(c) \/ forkret(c) \/ yield_return(c)
  \/ scheduler_acquire(c) \/ scheduler_run(c) \/ scheduler_release(c)

Timer(c) ==
  \/ c = 0 /\ (timer_tick \/ timer_wakeup)
  \/ trap_end(c)

(* What a user program may ask for.                                        *)
Calls(c) ==
  \/ allocproc(c) \/ exit_begin(c) \/ wait(c) \/ sys_yield(c)
  \/ \E t \in Targets : kill(c, t)
  \/ \E n \in 1 .. MaxSleep : sys_sleep(c, n)

Next == \E c \in CPU : Kernel(c) \/ Timer(c) \/ Calls(c)

Spec == Init /\ [][Next]_vars

(* A process that is scheduled again and again gets its next kernel step   *)
(* done between two timer interrupts.                                      *)
Progress(s) ==
  \E c \in CPU :
    /\ proc[c] = s
    /\ fork_kalloc(c) \/ fork_copy(c) \/ fork_run(c) \/ exit(c) \/ sleep_pushcli(c)
       \/ sleep_relock(c)

(* Interrupts keep coming, a CPU that executes kernel code goes on, and a  *)
(* CPU that spins on a lock which is released again and again gets it.     *)
Fairness ==
  /\ \A c \in CPU : SF_vars(Kernel(c)) /\ SF_vars(Timer(c))
  /\ \A s \in Slot : SF_vars(Progress(s))

FairSpec == Spec /\ Fairness

-----------------------------------------------------------------------------
(* Properties                                                              *)

States == {"UNUSED", "EMBRYO", "SLEEPING", "RUNNABLE", "RUNNING", "ZOMBIE"}

TypeOK ==
  /\ state \in [Slot -> States]
  /\ pid \in [Slot -> 0 .. MaxPid]
  /\ parent \in [Slot -> Slot \cup {NULL}]
  /\ chan \in [Slot -> Slot \cup {NULL, TICKS}]
  /\ killed \in [Slot -> BOOLEAN]
  /\ kstack \in [Slot -> BOOLEAN]
  /\ nextpid \in 2 .. (MaxPid + 1)
  /\ proc \in [CPU -> Slot \cup {NULL}]
  /\ scan \in [CPU -> 0 .. NPROC]
  /\ irq \in [CPU -> {"none", "wakeup", "eoi"}]
  /\ ptable_lock \in CPU \cup {NULL}
  /\ tickslock \in CPU \cup {NULL}
  /\ pc \in [Slot -> {"forkret", "user", "fork_kalloc", "fork_copy", "fork_run",
                      "exit", "zombie", "panic", "wait", "sleep", "sleeping",
                      "sleep_relock", "sleep_spin", "yield"}]
  /\ ret \in [Slot -> {"user", "fork_kalloc", "fork_copy", "fork_run", "exit",
                       "sleep_relock"}]
  /\ np \in [Slot -> Slot \cup {NULL}]
  /\ left \in [Slot -> 0 .. MaxSleep]
  /\ asked \subseteq Targets 

(* No CPU ever runs on a kernel stack that wait() or a failed fork() has   *)
(* freed, nor on one that another CPU runs on: ptable.lock is held until   *)
(* the swtch() away from a stack is done.                                  *)
StackSafe ==
  \A c \in CPU : proc[c] # NULL =>
    /\ kstack[proc[c]]
    /\ \A d \in CPU : d # c => proc[d] # proc[c]

(* A slot that is free has no kernel stack left in it: neither wait() nor  *)
(* fork()'s failure paths leak the page.                                   *)
FreeSlotHasNoStack == \A s \in Slot : state[s] = "UNUSED" => ~kstack[s]

(* Whoever may have to be waited for has somebody to do it: the parent of  *)
(* a process is alive, through exit()'s reparenting and slot reuse.        *)
ParentAlive ==
  \A s \in Slot : parent[s] # NULL =>
    state[parent[s]] \in {"SLEEPING", "RUNNABLE", "RUNNING"}

(* No exit is missed: a process asleep in wait() has no zombie child.      *)
WaiterHasNoZombie ==
  \A s, t \in Slot :
    state[s] = "SLEEPING" /\ chan[s] = s /\ parent[t] = s => state[t] # "ZOMBIE"

(* No tick is missed: a process asleep in sys_sleep() past its time is     *)
(* about to be woken by the timer interrupt that ended it.                 *)
NotOverslept ==
  \A s \in Slot :
    state[s] = "SLEEPING" /\ chan[s] = TICKS /\ left[s] = 0 => irq[0] = "wakeup"

(* The life of a slot: only fork() makes a process of a free slot, nobody  *)
(* revives a zombie, and only the process's own parent frees it.           *)
Lives ==
  {<<"UNUSED", "EMBRYO">>, <<"EMBRYO", "UNUSED">>, <<"EMBRYO", "RUNNABLE">>,
   <<"RUNNABLE", "RUNNING">>, <<"RUNNING", "RUNNABLE">>,
   <<"RUNNING", "SLEEPING">>, <<"SLEEPING", "RUNNABLE">>,
   <<"RUNNING", "ZOMBIE">>, <<"ZOMBIE", "UNUSED">>}

LegalLife ==
  [][\A s \in Slot :
       /\ state'[s] # state[s] => <<state[s], state'[s]>> \in Lives
       /\ state[s] = "ZOMBIE" /\ state'[s] = "UNUSED" =>
            \E c \in CPU : proc[c] = parent[s]]_vars

(* A process is marked killed only if kill() was called with its pid.      *)
KilledWasAsked ==
  \A s \in Slot :
    state[s] \in {"RUNNABLE", "RUNNING", "SLEEPING"} /\ killed[s] =>
      pid[s] \in asked

(* A killed process exits: it is woken, leaves its system call and ends,   *)
(* unless it is init, whose exit is a panic.                               *)
KilledExits ==
  \A s \in Slot \ {initproc} :
    killed[s] /\ state[s] \in {"RUNNABLE", "RUNNING", "SLEEPING"}
      ~> state[s] \in {"ZOMBIE", "UNUSED"} \/ pc[initproc] = "panic"
=============================================================================
