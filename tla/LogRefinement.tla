--------------------------- MODULE LogRefinement ----------------------------
(***************************************************************************)
(* The properties of log.c that follow from the inductive invariant of     *)
(* LogCommitProofs, and the proof that Log implements AtomicFS.            *)
(***************************************************************************)
EXTENDS LogCommitProofs

(* The state is well typed in every reachable state of log.c.              *)
THEOREM LogTypeOK == LogHasRoom => (Spec => []TypeOK)
<1>1. IInv => TypeOK BY DEF IInv
<1> QED BY <1>1, LogInvariant, PTL

(* begin_op()'s reservation suffices: with the room LogHasRoom states, no  *)
(* log_write() of an admitted call panics and no transaction grows past    *)
(* the on-disk log, for any number of processes and any log size.          *)
THEOREM LogAdmittedFits == LogHasRoom => (Spec => []AdmittedFits)
<1>1. IInv => AdmittedFits
  <2> SUFFICES ASSUME IInv PROVE AdmittedFits
    OBVIOUS
  <2>1. Len(lh) \in Nat /\ logsize \in Nat
    BY LogAssumption DEF IInv, TypeOK
  <2> QED BY <2>1 DEF IInv, SpaceInv, AdmittedFits
<1> QED BY <1>1, LogInvariant, PTL

(* Only begin_op_sleep() puts a process to sleep, and it does so only when *)
(* a call is outstanding or a commit is in progress.                       *)
LEMMA SleeperStep ==
  ASSUME LogHasRoom, IInv, IInv', SleeperHasWaker, [Next]_vars
  PROVE  SleeperHasWaker'
<1> USE LogAssumption
<1>1. ASSUME NEW o \in Op, begin_op_sleep(o) PROVE SleeperHasWaker'
  <2>1. outstanding > 0 \/ committing
    <3>1. SUFFICES ASSUME ~committing, outstanding = 0 PROVE FALSE
      BY DEF IInv, TypeOK
    <3>2. lh = <<>>
      BY <1>1, <3>1 DEF IInv, CommitInv, QuietInv, begin_op_sleep
    <3>3. Len(lh) = 0 /\ (outstanding + 1) * MAXOPBLOCKS = MAXOPBLOCKS
      BY <3>1, <3>2
    <3> QED BY <1>1, <3>1, <3>3 DEF begin_op_sleep, MustWait
  <2> QED BY <1>1, <2>1 DEF SleeperHasWaker, begin_op_sleep
<1>2. ASSUME NEW o \in Op, begin_op(o) PROVE SleeperHasWaker'
  BY <1>2 DEF SleeperHasWaker, begin_op, IInv, TypeOK
<1>3. ASSUME NEW o \in Op, log_write_check(o) \/ log_write(o) PROVE SleeperHasWaker'
  BY <1>3 DEF SleeperHasWaker, log_write_check, log_write, IInv, TypeOK
<1>4. ASSUME NEW o \in Op, end_op(o) PROVE SleeperHasWaker'
  <2>1. CASE committing \/ committing'
    <3>1. committing'
      BY <1>4, <2>1 DEF end_op
    <3> QED BY <3>1 DEF SleeperHasWaker
  <2>2. CASE ~committing /\ ~committing'
    <3>1. pc' = Wakeup([pc EXCEPT ![o] = "begin"])
      BY <1>4, <2>2 DEF end_op
    <3>2. \A p \in Op : pc'[p] # "asleep"
      BY <3>1 DEF Wakeup
    <3> QED BY <3>2 DEF SleeperHasWaker
  <2> QED BY <2>1, <2>2
<1>5. ASSUME NEW o \in Op, commit(o) PROVE SleeperHasWaker'
  <2>1. CASE end_commit(o)
    <3>1. \A p \in Op : pc'[p] # "asleep"
      BY <2>1 DEF end_commit, Wakeup
    <3> QED BY <3>1 DEF SleeperHasWaker
  <2>2. CASE ~end_commit(o)
    <3>1. \A p \in Op : pc'[p] = "asleep" => pc[p] = "asleep"
      BY <1>5, <2>2 DEF commit, write_log, write_head, install_trans, clear_head,
                        IInv, TypeOK
    <3>2. UNCHANGED <<outstanding, committing>>
      BY <1>5, <2>2 DEF commit, write_log, write_head, install_trans, clear_head
    <3> QED BY <3>1, <3>2 DEF SleeperHasWaker
  <2> QED BY <2>1, <2>2
<1>6. ASSUME NEW o \in Op, NEW b \in Home, NEW v \in Val, modify(o, b, v)
      PROVE  SleeperHasWaker'
  BY <1>6 DEF SleeperHasWaker, modify, IInv, TypeOK
<1>7. ASSUME NEW b \in Home, load(b) \/ recycle(b) PROVE SleeperHasWaker'
  BY <1>7 DEF SleeperHasWaker, load, recycle
<1>8. CASE recover_from_log
  BY <1>8 DEF SleeperHasWaker, recover_from_log, read_head, recover_install,
              recover_clear
<1>9. CASE Crash
  BY <1>9 DEF SleeperHasWaker, Crash
<1>10. CASE UNCHANGED vars
  BY <1>10 DEF SleeperHasWaker, vars
<1> QED
  BY <1>1, <1>2, <1>3, <1>4, <1>5, <1>6, <1>7, <1>8, <1>9, <1>10 DEF Next

(* No wakeup of begin_op()'s sleepers is lost, for any number of processes.*)
THEOREM LogSleeperHasWaker == LogHasRoom => (Spec => []SleeperHasWaker)
<1> SUFFICES ASSUME LogHasRoom PROVE Spec => []SleeperHasWaker
  OBVIOUS
<1>1. Init => SleeperHasWaker
  BY DEF Init, SleeperHasWaker
<1>2. IInv /\ IInv' /\ SleeperHasWaker /\ [Next]_vars => SleeperHasWaker'
  BY SleeperStep
<1>3. Spec => []IInv
  BY LogInvariant
<1> QED BY <1>1, <1>2, <1>3, PTL DEF Spec

-----------------------------------------------------------------------------
(* What the disk recovers to.                                              *)

(* With an empty on-disk header the home blocks are in place.              *)
LEMMA RecoveredEmpty ==
  ASSUME head = <<>>
  PROVE  Recovered = [b \in Home |-> disk[b]]
<1>1. Range(head) = {} BY DEF Range
<1> QED BY <1>1 DEF Recovered

(* With a header that names the block, it is the block's log copy.         *)
LEMMA RecoveredLogged ==
  ASSUME BufInv, head \in Seq(Home), NEW i \in DOMAIN head
  PROVE  head[i] \in Home /\ Recovered[head[i]] = disk[i]
<1>1. head[i] \in Home OBVIOUS
<1>2. head[i] \in Range(head) BY DEF Range
<1> DEFINE j == CHOOSE k \in DOMAIN head : head[k] = head[i]
<1>3. j \in DOMAIN head /\ head[j] = head[i] OBVIOUS
<1>4. j = i
  BY <1>3 DEF BufInv, Injective
<1> QED BY <1>1, <1>2, <1>4, Zenon DEF Recovered

(* A block the header does not name is in place.                           *)
LEMMA RecoveredOther ==
  ASSUME NEW b \in Home, b \notin Range(head)
  PROVE  Recovered[b] = disk[b]
BY DEF Recovered

(* Once everything is installed, the log copies are the home blocks.       *)
LEMMA RecoveredInstalled ==
  ASSUME IInv, head = lh, Installed(Len(lh))
  PROVE  Recovered = [b \in Home |-> disk[b]]
<1>1. ASSUME NEW b \in Home PROVE Recovered[b] = disk[b]
  <2>1. CASE b \in Range(head)
    <3>1. PICK i \in DOMAIN head : head[i] = b
      BY <2>1 DEF Range
    <3>2. Recovered[b] = disk[i]
      BY <3>1, RecoveredLogged DEF IInv, TypeOK
    <3>3. i \in 1 .. Len(lh) BY <3>1 DEF IInv, TypeOK
    <3> QED BY <3>1, <3>2, <3>3 DEF Installed
  <2>2. CASE b \notin Range(head)
    BY <2>2, RecoveredOther
  <2> QED BY <2>1, <2>2
<1>2. Recovered = [b \in Home |-> Recovered[b]]
  BY DEF Recovered
<1> QED BY <1>1, <1>2

(* Nothing dirty and nothing held: the cache shows the disk.               *)
LEMMA CleanIsDisk ==
  ASSUME IInv, boot = "up", dirty = {}, \A o \in Op : wbuf[o] = NoBlock
  PROVE  Current = [b \in Home |-> disk[b]]
<1>1. \A b \in Home : Recyclable(b)
  BY LogAssumption DEF Recyclable, Home, NoBlock
<1>2. \A b \in Home : bread(b) = disk[b]
  BY <1>1 DEF IInv, BufInv
<1> QED BY <1>2 DEF Current

(* When the last end_op() has returned the disk has everything.            *)
THEOREM LogQuiescentIsDurable == LogHasRoom => (Spec => []QuiescentIsDurable)
<1>1. IInv => QuiescentIsDurable
  <2> SUFFICES ASSUME IInv, boot = "up", outstanding = 0, ~committing
               PROVE  Recovered = Current
    BY DEF QuiescentIsDurable
  <2>1. head = <<>> /\ lh = <<>>
    BY DEF IInv, CommitInv, QuietInv
  <2>2. dirty = {}
    BY <2>1 DEF IInv, BufInv, Range
  <2>3. Active = {}
    BY ActiveFinite DEF IInv, CountInv
  <2>4. \A o \in Op : wbuf[o] = NoBlock
    BY <2>3 DEF IInv, HoldInv, Active
  <2> QED BY <2>1, <2>2, <2>4, RecoveredEmpty, CleanIsDisk
<1> QED BY <1>1, LogInvariant, PTL

-----------------------------------------------------------------------------
(* The refinement: each step of Log is a step of AtomicFS or a stutter.    *)

(* The recoverable contents depend on the disk and the header alone, and   *)
(* the current ones also on the cache and on whether the kernel is up.     *)
LEMMA ViewFrame ==
  /\ UNCHANGED <<disk, head>> => Recovered' = Recovered
  /\ UNCHANGED <<disk, head, cache, boot>> => Current' = Current
BY SMTT(30) DEF Recovered, Current, bread

(* A step of commit() that keeps the home blocks' contents visible.        *)
LEMMA CurrentSame ==
  ASSUME boot = "up", boot' = "up", \A b \in Home : bread(b)' = bread(b)
  PROVE  Current' = Current
BY DEF Current

(* write_log() writes log blocks only, while the header is still empty.    *)
LEMMA WriteLogSim ==
  ASSUME IInv, NEW o \in Op, write_log(o)
  PROVE  Recovered' = Recovered /\ Current' = Current /\ Active' = Active
<1> USE LogAssumption
<1>a. pc[o] = "write_log" /\ boot = "up" /\ pc[o] \in Committing
  BY DEF write_log, Committing
<1>b. head = <<>> /\ head' = <<>> /\ tail \in 1 .. Len(lh)
  BY <1>a, CommitterFacts DEF IInv, CommitInv, StepInv, TypeOK, write_log
<1>1. \A b \in Home : disk'[b] = disk[b]
  <2>1. \A b \in Home : b # tail
    BY <1>a, <1>b, CommitterFacts
  <2> QED BY <2>1 DEF write_log, IInv, TypeOK, Home
<1>2. Recovered = [b \in Home |-> disk[b]] /\ Recovered' = [b \in Home |-> disk'[b]]
  <2>1. Range(head) = {} /\ Range(head)' = {}
    BY <1>b DEF Range
  <2> QED BY <2>1 DEF Recovered
<1>3. \A b \in Home : bread(b)' = bread(b)
  BY <1>1 DEF bread, write_log
<1>4. Active' = Active
  BY <1>a DEF Active, write_log, IInv, TypeOK
<1> QED BY <1>1, <1>2, <1>3, <1>4, <1>a, CurrentSame DEF write_log

(* write_head() is the commit point: the disk now recovers to what the     *)
(* kernel sees.                                                            *)
LEMMA WriteHeadSim ==
  ASSUME IInv, IInv', NEW o \in Op, write_head(o)
  PROVE  /\ Active = {} /\ Active' = Active
         /\ Recovered' = Current /\ Current' = Current
<1> USE LogAssumption
<1>a. pc[o] = "write_head" /\ boot = "up" /\ pc[o] \in Committing
  BY DEF write_head, Committing
<1>b. Logged(Len(lh))
  BY <1>a DEF IInv, CommitInv, StepInv
<1>c. /\ head' = lh /\ lh' = lh /\ disk' = disk /\ cache' = cache /\ boot' = boot
  BY DEF write_head
<1>1. Active = {} BY <1>a, CommitterFacts
<1>2. Active' = Active
  BY <1>a DEF Active, write_head, IInv, TypeOK
<1>3. Current' = Current
  BY <1>a, <1>c, CurrentSame DEF bread
<1>4. ASSUME NEW b \in Home PROVE Recovered'[b] = bread(b)
  <2>1. CASE b \in Range(lh)
    <3>1. PICK i \in DOMAIN lh : lh[i] = b
      BY <2>1 DEF Range
    <3> DEFINE j == CHOOSE k \in DOMAIN lh : lh[k] = b
    <3>2. j \in DOMAIN lh /\ lh[j] = b
      BY <3>1
    <3>3. Recovered'[b] = disk[j]
      BY <2>1, <1>c DEF Recovered
    <3>4. j \in 1 .. Len(lh)
      BY <3>2 DEF IInv, TypeOK
    <3> HIDE DEF j
    <3> QED BY <3>2, <3>3, <3>4, <1>b DEF Logged
  <2>2. CASE b \notin Range(lh)
    <3>1. b # NoBlock BY DEF Home, NoBlock
    <3>2. Recyclable(b)
      BY <2>2, <3>1, <1>a, CommitterFacts, SMTT(30) DEF Recyclable, IInv, BufInv
    <3>3. bread(b) = disk[b]
      BY <3>2 DEF IInv, BufInv
    <3> QED BY <2>2, <3>3, <1>c DEF Recovered
  <2> QED BY <2>1, <2>2
<1>5. Recovered' = [b \in Home |-> Recovered'[b]]
  BY DEF Recovered
<1>6. Recovered' = [b \in Home |-> bread(b)]
  BY <1>4, <1>5
<1> QED BY <1>1, <1>2, <1>3, <1>6, <1>a DEF Current

(* Installing a block changes nothing that recovery can see.               *)
LEMMA InstallSim ==
  ASSUME LogHasRoom, IInv, InstallBlock, UNCHANGED <<lh, head, wbuf>>,
         tail \in 1 .. Len(lh), Installed(tail - 1), head = lh,
         \A o \in Op : wbuf[o] = NoBlock
  PROVE  Recovered' = Recovered
<1> USE LogAssumption
<1>1. lh \in Seq(Home) /\ DOMAIN lh = 1 .. Len(lh) /\ Len(lh) \in Nat /\ Len(lh) < logsize - 1
  BY DEF IInv, TypeOK, SpaceInv
<1>2. /\ \A i \in 1 .. (FSSIZE - 1) : i # lh[tail] => disk'[i] = disk[i]
  BY InstallFacts
<1>3. lh[tail] \in Home /\ lh[tail] \in Range(lh)
  BY <1>1 DEF Range
<1>4. \A i \in DOMAIN lh : disk'[i] = disk[i]
  BY <1>1, <1>2, <1>3 DEF Home
<1>5. \A b \in Home : b \notin Range(lh) => disk'[b] = disk[b]
  BY <1>2, <1>3 DEF Home
<1>6. ASSUME NEW b \in Home PROVE Recovered'[b] = Recovered[b]
  <2>1. CASE b \in Range(lh)
    <3> DEFINE j == CHOOSE k \in DOMAIN lh : lh[k] = b
    <3>1. j \in DOMAIN lh
      BY <2>1 DEF Range
    <3>2. Recovered'[b] = disk'[j] /\ Recovered[b] = disk[j]
      BY <2>1 DEF Recovered
    <3> HIDE DEF j
    <3> QED BY <3>1, <3>2, <1>4
  <2>2. CASE b \notin Range(lh)
    BY <2>2, <1>5 DEF Recovered
  <2> QED BY <2>1, <2>2
<1>7. /\ Recovered = [b \in Home |-> Recovered[b]]
      /\ Recovered' = [b \in Home |-> Recovered'[b]]
  BY DEF Recovered
<1> QED BY <1>6, <1>7

(* A turn of install_trans() in a commit is a stutter of AtomicFS.         *)
LEMMA InstallTransSim ==
  ASSUME LogHasRoom, IInv, NEW o \in Op, install_trans(o)
  PROVE  Recovered' = Recovered /\ Current' = Current /\ Active' = Active
<1> USE LogAssumption
<1>a. pc[o] = "install_trans" /\ boot = "up" /\ boot' = "up" /\ pc[o] \in Committing
  BY DEF install_trans, Committing
<1>b. /\ head = lh /\ tail \in 1 .. Len(lh) /\ Logged(Len(lh)) /\ Installed(tail - 1)
      /\ lh[tail] \in Home /\ tail \in 1 .. (FSSIZE - 1)
  BY <1>a, CommitterFacts DEF IInv, CommitInv, StepInv, TypeOK
<1>c. InstallBlock /\ UNCHANGED <<lh, head, wbuf>>
  BY DEF install_trans
<1>d. \A p \in Op : wbuf[p] = NoBlock
  BY <1>a, CommitterFacts
<1>1. Recovered' = Recovered
  BY <1>b, <1>c, <1>d, InstallSim
<1>2. ASSUME NEW b \in Home PROVE bread(b)' = bread(b)
  <2>1. /\ \A i \in 1 .. (FSSIZE - 1) : i # lh[tail] => disk'[i] = disk[i]
        /\ cache'[lh[tail]] = disk[tail]
        /\ \A x \in Home : x # lh[tail] => cache'[x] = cache[x]
    BY <1>b, <1>c, <1>d, InstallFacts
  <2>2. CASE b = lh[tail]
    <3>1. disk[tail] \in Val /\ disk[tail] = bread(lh[tail])
      BY <1>b DEF Logged, IInv, TypeOK
    <3> QED BY <2>1, <2>2, <3>1 DEF bread
  <2>3. CASE b # lh[tail]
    BY <2>1, <2>3 DEF bread, Home
  <2> QED BY <2>2, <2>3
<1>3. Active' = Active
  BY <1>a DEF Active, install_trans, IInv, TypeOK
<1> QED BY <1>1, <1>2, <1>3, <1>a, CurrentSame

(* Erasing the installed transaction is a stutter of AtomicFS.             *)
LEMMA ClearHeadSim ==
  ASSUME LogHasRoom, IInv, NEW o \in Op, clear_head(o)
  PROVE  Recovered' = Recovered /\ Current' = Current /\ Active' = Active
<1>a. pc[o] = "clear" /\ boot = "up" /\ head' = <<>> /\ disk' = disk
  BY DEF clear_head
<1>1. Recovered = [b \in Home |-> disk[b]]
  BY <1>a, RecoveredInstalled DEF IInv, CommitInv, StepInv
<1>2. Recovered' = [b \in Home |-> disk'[b]]
  <2>1. Range(head)' = {} BY <1>a DEF Range
  <2> QED BY <2>1 DEF Recovered
<1>3. Current' = Current
  BY <1>a, CurrentSame DEF clear_head, bread
<1>4. Active' = Active
  BY <1>a DEF Active, clear_head, IInv, TypeOK
<1> QED BY <1>1, <1>2, <1>3, <1>4, <1>a

(* Loading and recycling buffers is a stutter of AtomicFS.                 *)
LEMMA CacheSim ==
  ASSUME IInv, NEW b \in Home, load(b) \/ recycle(b)
  PROVE  Recovered' = Recovered /\ Current' = Current /\ Active' = Active
<1> USE LogAssumption
<1>1. \A c \in Home : bread(c)' = bread(c)
  <2>1. CASE load(b)
    <3>1. disk[b] \in Val BY DEF IInv, TypeOK, Home
    <3> QED BY <2>1, <3>1 DEF load, bread, IInv, TypeOK
  <2>2. CASE recycle(b)
    <3>1. bread(b) = disk[b]
      BY <2>2, SMTT(30) DEF recycle, IInv, BufInv
    <3> QED BY <2>2, <3>1, SMTT(30) DEF recycle, bread, IInv, TypeOK
  <2> QED BY <2>1, <2>2
<1>2. boot = "up" /\ UNCHANGED <<boot, disk, head, pc>>
  BY DEF load, recycle
<1> QED BY <1>1, <1>2, CurrentSame, ViewFrame DEF Active

(* recover_from_log() is a stutter of AtomicFS: the crash did it all.      *)
LEMMA RecoverSim ==
  ASSUME LogHasRoom, IInv, IInv', recover_from_log
  PROVE  Recovered' = Recovered /\ Current' = Current /\ Active' = Active
<1> USE LogAssumption
<1>0. Active' = Active
  BY DEF recover_from_log, read_head, recover_install, recover_clear, Active
<1>1. CASE read_head
  <2>1. Recovered' = Recovered
    BY <1>1, ViewFrame DEF read_head
  <2>2. boot \notin {"up", "panic"} /\ boot' \notin {"up", "panic"}
    BY <1>1 DEF read_head
  <2> QED BY <1>0, <2>1, <2>2 DEF Current
<1>2. CASE recover_install
  <2>1. /\ wbuf = [o \in Op |-> NoBlock] /\ head = lh
        /\ tail <= Len(lh) /\ Installed(tail - 1)
    BY <1>2 DEF IInv, CommitInv, BootInv, recover_install
  <2>2. tail \in 1 .. Len(lh) BY <2>1 DEF IInv, TypeOK
  <2>3. Recovered' = Recovered
    BY <1>2, <2>1, <2>2, InstallSim DEF recover_install
  <2>4. boot \notin {"up", "panic"} /\ boot' \notin {"up", "panic"}
    BY <1>2 DEF recover_install
  <2> QED BY <1>0, <2>3, <2>4 DEF Current
<1>3. CASE recover_clear
  <2>1. boot = "clear" /\ boot' = "up" /\ head' = <<>> /\ disk' = disk
    BY <1>3 DEF recover_clear
  <2>2. Recovered = [b \in Home |-> disk[b]]
    BY <2>1, RecoveredInstalled DEF IInv, CommitInv, BootInv
  <2>3. Recovered' = [b \in Home |-> disk'[b]]
    <3>1. Range(head)' = {} BY <2>1 DEF Range
    <3> QED BY <3>1 DEF Recovered
  <2>4. Current = Recovered
    BY <2>1 DEF Current
  <2>5. Current' = [b \in Home |-> disk'[b]]
    <3>1. wbuf' = [o \in Op |-> NoBlock] /\ dirty' = {}
      BY <1>3, <2>1 DEF IInv, CommitInv, BootInv, recover_clear
    <3>2. \A b \in Home : Recyclable(b)'
      BY <3>1, SMTT(30) DEF Recyclable, Home, NoBlock
    <3>3. \A b \in Home : bread(b)' = disk'[b]
      BY <3>2 DEF IInv, BufInv
    <3> QED BY <2>1, <3>3 DEF Current
  <2> QED BY <1>0, <2>1, <2>2, <2>3, <2>4, <2>5
<1> QED BY <1>1, <1>2, <1>3 DEF recover_from_log

(* Every step of Log is a step of AtomicFS, or changes nothing it sees.    *)
LEMMA StepSimulation ==
  ASSUME LogHasRoom, IInv, IInv', [Next]_vars
  PROVE  [FS!Next]_(FS!vars)
<1> USE LogAssumption
<1> DEFINE Stutter == Recovered' = Recovered /\ Current' = Current /\ Active' = Active
<1>0. Stutter => [FS!Next]_(FS!vars)
  BY DEF FS!vars
<1>1. ASSUME NEW o \in Op, begin_op(o) PROVE FS!Next
  <2>1. Recovered' = Recovered /\ Current' = Current
    BY <1>1, ViewFrame DEF begin_op
  <2>2. o \notin Active /\ Active' = Active \cup {o}
    BY <1>1 DEF begin_op, Active, IInv, TypeOK
  <2>3. FS!Begin(o) BY <2>1, <2>2 DEF FS!Begin
  <2> QED BY <2>3 DEF FS!Next
<1>2. ASSUME NEW o \in Op, begin_op_sleep(o) \/ log_write_check(o) \/ log_write(o)
      PROVE  Stutter
  <2>1. UNCHANGED <<disk, head, cache>> /\ boot = "up"
    BY <1>2, SMTT(30) DEF begin_op_sleep, log_write_check, log_write
  <2>2. boot' = boot
    BY <1>2, <2>1, SMTT(30) DEF begin_op_sleep, log_write_check, log_write, IInv, SpaceInv
  <2>3. Active' = Active
    BY <1>2, <2>2 DEF begin_op_sleep, log_write_check, log_write, Active, IInv,
                      TypeOK
  <2> QED BY <2>1, <2>2, <2>3, ViewFrame
<1>3. ASSUME NEW o \in Op, end_op(o) PROVE FS!Next
  <2>1. UNCHANGED <<disk, head, cache>> /\ o \in Active /\ boot = "up"
    BY <1>3 DEF end_op, Active
  <2>2. ~committing BY <2>1, ActiveNotCommitting DEF IInv
  <2>3. boot' = boot BY <1>3, <2>2 DEF end_op
  <2>4. Active' = Active \ {o}
    <3> DEFINE f == [pc EXCEPT ![o] = "begin"]
    <3>1. CASE outstanding = 1
      BY <1>3, <2>2, <3>1, SMTT(30) DEF end_op, Active, IInv, TypeOK
    <3>2. CASE outstanding # 1
      <4>1. \A p \in Op : pc'[p] = IF f[p] = "asleep" THEN "begin" ELSE f[p]
        BY <1>3, <2>2, <3>2 DEF end_op, Wakeup
      <4>2. f[o] = "begin" /\ \A p \in Op : p # o => f[p] = pc[p]
        BY DEF IInv, TypeOK
      <4> HIDE DEF f
      <4> QED BY <4>1, <4>2 DEF Active
    <3> QED BY <3>1, <3>2
  <2>5. Recovered' = Recovered /\ Current' = Current
    BY <2>1, <2>3, ViewFrame
  <2>6. FS!End(o) BY <2>1, <2>4, <2>5 DEF FS!End
  <2> QED BY <2>6 DEF FS!Next
<1>4. ASSUME NEW o \in Op, commit(o) PROVE [FS!Next]_(FS!vars)
  <2>1. CASE write_head(o)
    <3>1. FS!Commit BY <2>1, WriteHeadSim DEF FS!Commit
    <3> QED BY <3>1 DEF FS!Next
  <2>2. CASE end_commit(o)
    <3> DEFINE f == [pc EXCEPT ![o] = "begin"]
    <3>1. Recovered' = Recovered /\ Current' = Current
      BY <2>2, ViewFrame DEF end_commit
    <3>2. Active' = Active
      <4>1. \A p \in Op : pc'[p] = IF f[p] = "asleep" THEN "begin" ELSE f[p]
        BY <2>2 DEF end_commit, Wakeup
      <4>2. f[o] = "begin" /\ \A p \in Op : p # o => f[p] = pc[p]
        BY DEF IInv, TypeOK
      <4>3. pc[o] = "committed" BY <2>2 DEF end_commit
      <4> HIDE DEF f
      <4> QED BY <4>1, <4>2, <4>3 DEF Active
    <3> QED BY <3>1, <3>2, <1>0
  <2>3. CASE write_log(o) BY <2>3, <1>0, WriteLogSim
  <2>4. CASE install_trans(o) BY <2>4, <1>0, InstallTransSim
  <2>5. CASE clear_head(o) BY <2>5, <1>0, ClearHeadSim
  <2> QED BY <1>4, <2>1, <2>2, <2>3, <2>4, <2>5 DEF commit
<1>5. ASSUME NEW o \in Op, NEW b \in Home, NEW v \in Val, modify(o, b, v)
      PROVE  FS!Next
  <2>1. o \in Active /\ Active' = Active
    BY <1>5 DEF modify, Active, IInv, TypeOK
  <2>2. Recovered' = Recovered
    BY <1>5, ViewFrame DEF modify
  <2>3. Current' = [Current EXCEPT ![b] = v]
    <3>1. boot = "up" /\ boot' = "up" BY <1>5 DEF modify
    <3>2. bread(b)' = v /\ \A c \in Home : c # b => bread(c)' = bread(c)
      BY <1>5 DEF modify, bread, IInv, TypeOK
    <3> QED BY <3>1, <3>2, Zenon DEF Current
  <2>4. FS!Write(o, b, v) BY <2>1, <2>2, <2>3 DEF FS!Write
  <2> QED BY <2>4 DEF FS!Next
<1>6. ASSUME NEW b \in Home, load(b) \/ recycle(b) PROVE Stutter
  BY <1>6, CacheSim
<1>7. CASE recover_from_log
  BY <1>7, <1>0, RecoverSim
<1>8. ASSUME Crash PROVE FS!Next
  <2>1. Recovered' = Recovered BY <1>8, ViewFrame DEF Crash
  <2>2. Current' = Recovered' BY <1>8 DEF Crash, Current
  <2>3. Active' = {} BY <1>8 DEF Crash, Active
  <2>4. FS!Crash BY <2>1, <2>2, <2>3 DEF FS!Crash
  <2> QED BY <2>4 DEF FS!Next
<1>9. CASE UNCHANGED vars
  <2>1. Stutter BY <1>9, ViewFrame DEF vars, Active
  <2> QED BY <2>1, <1>0
<1> HIDE DEF Stutter
<1> QED
  BY <1>0, <1>1, <1>2, <1>3, <1>4, <1>5, <1>6, <1>7, <1>8, <1>9 DEF Next

(* log.c implements AtomicFS: whatever step a crash interrupts, recovery   *)
(* finds the blocks of the last group commit, and a group commit happens   *)
(* only while no FS call is half done.                                     *)
THEOREM LogImplementsAtomicFS == LogHasRoom => (Spec => ImplementsAtomicFS)
<1> SUFFICES ASSUME LogHasRoom PROVE Spec => ImplementsAtomicFS
  OBVIOUS
<1>1. Init => FS!Init
  <2> SUFFICES ASSUME Init PROVE FS!Init
    OBVIOUS
  <2>1. Recovered = [b \in Home |-> disk[b]]
    BY RecoveredEmpty DEF Init
  <2>2. Recovered \in [Home -> Val]
    BY <2>1, LogAssumption DEF Init, Home
  <2>3. Current = Recovered /\ Active = {}
    BY DEF Init, Current, Active
  <2> QED BY <2>2, <2>3 DEF FS!Init
<1>2. IInv /\ IInv' /\ [Next]_vars => [FS!Next]_(FS!vars)
  BY StepSimulation
<1>3. Spec => []IInv
  BY LogInvariant
<1> QED BY <1>1, <1>2, <1>3, PTL DEF Spec, ImplementsAtomicFS, FS!Spec
=============================================================================
