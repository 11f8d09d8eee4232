-------------------------------- MODULE Mlfq --------------------------------
(***************************************************************************)
(* The multilevel feedback queue of scheduler() in proc.c, on CPUs that    *)
(* each follow their own policy, MLFQ or round robin.                      *)
(*                                                                         *)
(* ptable.lock is held from the yield() or sleep() that gives up a CPU to  *)
(* the end of the scheduler's turn: that is one step.  trap() charges the  *)
(* tick to the running process before, without the lock.  ticks[0] and     *)
(* wait_ticks[3], which only getpinfo() reads, are left out.               *)
(***************************************************************************)
EXTENDS Integers

CONSTANTS
  NPROC,       (* processes, all of them in use                            *)
  NCPU,        (* CPUs                                                     *)
  Slice,       (* Slice[q], the time slice of queue q \in 1 .. 3           *)
  BoostFactor, (* queues 1 and 2 are left after BoostFactor slices         *)
  BoostLimit0, (* and queue 0 after BoostLimit0 turns                      *)
  Polite,      (* the processes that give up a CPU before a tick, asleep   *)
               (* or by yield(); all others compute                        *)
  Policies,    (* the policies set by setSchedPolicy()                     *)
  Watched      (* the processes whose waiting NoStarvation follows         *)

ASSUME MlfqAssumption ==
  /\ NPROC \in Nat \ {0} /\ NCPU \in Nat \ {0}
  /\ \A q \in 1 .. 3 : Slice[q] \in Nat \ {0}
  /\ BoostFactor \in Nat \ {0} /\ BoostLimit0 \in Nat \ {0}
  /\ Polite \subseteq 0 .. (NPROC - 1)
  /\ Policies \subseteq {"mlfq", "rr"} /\ Policies # {}
  /\ Watched \subseteq 0 .. (NPROC - 1)

Slot == 0 .. (NPROC - 1)
CPU == 0 .. (NCPU - 1)
NULL == -1

VARIABLES
  state, priority, ticks, wait_ticks,   (* fields of struct proc           *)
  policy,   (* per CPU: sched_policy                                       *)
  loop,     (* per CPU: the branch of scheduler() that it is in            *)
  proc,     (* per CPU: the running process                                *)
  scan,     (* per CPU: next slot of the round-robin loop                  *)
  charged,  (* per CPU: trap() has charged the tick and will yield         *)
  mixed     (* history: some CPU has followed round robin                  *)

table == <<state, priority, ticks, wait_ticks>>
vars == <<table, policy, loop, proc, scan, charged, mixed>>

Limit(q) == IF q = 0 THEN BoostLimit0 ELSE BoostFactor * Slice[q]

(* Every process is new; the CPUs follow one of the policies.              *)
Init ==
  /\ state = [s \in Slot |-> "RUNNABLE"]
  /\ priority = [s \in Slot |-> 3]
  /\ ticks = [s \in Slot |-> [q \in 1 .. 3 |-> 0]]
  /\ wait_ticks = [s \in Slot |-> [q \in 0 .. 2 |-> 0]]
  /\ policy \in [CPU -> Policies]
  /\ loop = policy
  /\ proc = [c \in CPU |-> NULL]
  /\ scan = [c \in CPU |-> 0]
  /\ charged = [c \in CPU |-> FALSE]
  /\ mixed = FALSE

Runnable(st) == {s \in Slot : st[s] = "RUNNABLE"}
First(S) == CHOOSE s \in S : \A r \in S : s <= r

(* Mutant: the queues are searched from the lowest.                        *)
SelectedLow ==
  LET low == CHOOSE q \in 0 .. 3 :
               /\ \E s \in Runnable(state) : priority[s] = q
               /\ \A s \in Runnable(state) : priority[s] >= q
  IN  First({s \in Runnable(state) : priority[s] = low})

(* The first process of the highest queue that is not empty.               *)
Selected ==
  LET top == CHOOSE q \in 0 .. 3 :
               /\ \E s \in Runnable(state) : priority[s] = q
               /\ \A s \in Runnable(state) : priority[s] <= q
  IN  First({s \in Runnable(state) : priority[s] = top})

-----------------------------------------------------------------------------
(* The top of scheduler()'s loop; with nothing to run it changes nothing.  *)
scheduler(c) ==
  LET s == IF policy[c] = "mlfq" THEN Selected ELSE First(Runnable(state)) IN
  /\ proc[c] = NULL /\ Runnable(state) # {}
  /\ loop' = [loop EXCEPT ![c] = policy[c]]
  /\ proc' = [proc EXCEPT ![c] = s]
  /\ scan' = [scan EXCEPT ![c] = IF policy[c] = "mlfq" THEN 0 ELSE s + 1]
  /\ state' = [state EXCEPT ![s] = "RUNNING"]
  /\ mixed' = (mixed \/ policy[c] = "rr")
  /\ UNCHANGED <<priority, ticks, wait_ticks, policy, charged>>


(* s comes back with its time slice used up.                               *)
UsedUp(s) == priority[s] > 0 /\ ticks[s][priority[s]] >= Slice[priority[s]]

(* Mutant: every process waits, the ones that sleep too.                   *)
update_wait_ticks_all(s, st, pr) ==
  [r \in Slot |->
     IF r # s /\ pr[r] # 3
     THEN [wait_ticks[r] EXCEPT ![pr[r]] = @ + 1]
     ELSE wait_ticks[r]]

(* update_wait_ticks(s) with the states st and the priorities pr.          *)
update_wait_ticks(s, st, pr) ==
  [r \in Slot |->
     IF r # s /\ st[r] = "RUNNABLE" /\ pr[r] # 3
     THEN [wait_ticks[r] EXCEPT ![pr[r]] = @ + 1]
     ELSE wait_ticks[r]]

(* Mutant: queue 2 is never left upwards.                                  *)
BoostedLow(pr, wt) == {r \in Slot : pr[r] < 2 /\ wt[r][pr[r]] >= Limit(pr[r])}

(* priority_boost(): those who have waited long enough move one queue up.  *)
Boosted(pr, wt) == {r \in Slot : pr[r] # 3 /\ wt[r][pr[r]] >= Limit(pr[r])}

(* The process of CPU c gives it up in state st, and the scheduler goes on *)
(* after swtch(): MLFQ ends its turn, round robin runs the next one.       *)
GiveUp(c, st) ==
  LET s == proc[c]
      states == [state EXCEPT ![s] = st]
      pr == IF UsedUp(s) THEN [priority EXCEPT ![s] = @ - 1] ELSE priority
      wt == update_wait_ticks(s, states, pr)
      up == Boosted(pr, wt)
      rest == {r \in Runnable(states) : r >= scan[c]}
      next == First(rest)
  IN  IF loop[c] = "mlfq"
      THEN /\ state' = states
           /\ ticks' = IF UsedUp(s) THEN [ticks EXCEPT ![s][priority[s]] = 0] ELSE ticks
           /\ priority' = [r \in Slot |-> IF r \in up THEN pr[r] + 1 ELSE pr[r]]
           /\ wait_ticks' =
                [r \in Slot |-> IF r \in up THEN [wt[r] EXCEPT ![pr[r]] = 0] ELSE wt[r]]
           /\ proc' = [proc EXCEPT ![c] = NULL]
           /\ UNCHANGED scan
      ELSE /\ IF rest # {}
              THEN /\ proc' = [proc EXCEPT ![c] = next]
                   /\ scan' = [scan EXCEPT ![c] = next + 1]
                   /\ state' = [states EXCEPT ![next] = "RUNNING"]
              ELSE /\ proc' = [proc EXCEPT ![c] = NULL]
                   /\ scan' = [scan EXCEPT ![c] = 0]
                   /\ state' = states
           /\ UNCHANGED <<priority, ticks, wait_ticks>>

(* trap() charges the tick; the count is kept up to the slice, beyond      *)
(* which no test tells it apart.                                           *)
charge(c) ==
  LET s == proc[c]
      q == priority[s]
  IN  /\ s # NULL /\ ~charged[c]
      /\ charged' = [charged EXCEPT ![c] = TRUE]
      /\ ticks' = IF q = 0 \/ ticks[s][q] = Slice[q] THEN ticks
                  ELSE [ticks EXCEPT ![s][q] = @ + 1]
      /\ UNCHANGED <<state, priority, wait_ticks, policy, loop, proc, scan, mixed>>

(* ... and yields.                                                         *)
timer_yield(c) ==
  /\ charged[c]
  /\ charged' = [charged EXCEPT ![c] = FALSE]
  /\ GiveUp(c, "RUNNABLE")
  /\ UNCHANGED <<policy, loop, mixed>>

(* sys_yield(), or a sleep().                                              *)
give_up(c) ==
  /\ proc[c] \in Polite /\ ~charged[c]
  /\ \E st \in {"RUNNABLE", "SLEEPING"} : GiveUp(c, st)
  /\ UNCHANGED <<policy, loop, charged, mixed>>

wakeup(s) ==
  /\ state[s] = "SLEEPING"
  /\ state' = [state EXCEPT ![s] = "RUNNABLE"]
  /\ UNCHANGED <<priority, ticks, wait_ticks, policy, loop, proc, scan, charged,
                 mixed>>

(* setSchedPolicy() changes the policy of the CPU it is executed on.       *)
sys_setSchedPolicy(c, pol) ==
  /\ proc[c] \in Polite /\ ~charged[c]
  /\ policy' = [policy EXCEPT ![c] = pol]
  /\ UNCHANGED <<table, loop, proc, scan, charged, mixed>>

Next ==
  \/ \E c \in CPU :
       \/ scheduler(c) \/ charge(c) \/ timer_yield(c) \/ give_up(c)
       \/ \E pol \in Policies : sys_setSchedPolicy(c, pol)
  \/ \E s \in Slot : wakeup(s)

Spec == Init /\ [][Next]_vars

(* Every CPU goes on: the scheduler, and the timer interrupt.              *)
Fairness ==
  \A c \in CPU : WF_vars(scheduler(c)) /\ WF_vars(charge(c) \/ timer_yield(c))

FairSpec == Spec /\ Fairness

-----------------------------------------------------------------------------
(* Properties                                                              *)

TypeOK ==
  /\ state \in [Slot -> {"RUNNABLE", "RUNNING", "SLEEPING"}]
  /\ priority \in [Slot -> 0 .. 3]
  /\ \A s \in Slot :
       /\ \A q \in 1 .. 3 : ticks[s][q] \in 0 .. Slice[q]
       /\ \A q \in 0 .. 2 : wait_ticks[s][q] \in 0 .. Limit(q)
  /\ policy \in [CPU -> Policies] /\ loop \in [CPU -> Policies]
  /\ proc \in [CPU -> Slot \cup {NULL}]
  /\ scan \in [CPU -> 0 .. NPROC]
  /\ charged \in [CPU -> BOOLEAN] /\ mixed \in BOOLEAN


(* trap() reads p->priority without ptable.lock to charge the tick.  That  *)
(* is sound because a boost never changes the priority of a process that   *)
(* is running: only one that is waiting moves up.                          *)
RunningKeepsPriority ==
  [][\A s \in Slot : priority'[s] > priority[s] => state[s] = "RUNNABLE"]_vars

(* priority_boost() is "for the prevention of starvation": whoever can run *)
(* gets to run.                                                            *)
NoStarvation == \A s \in Watched : state[s] = "RUNNABLE" ~> state[s] = "RUNNING"
=============================================================================
