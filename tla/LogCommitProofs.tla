-------------------------- MODULE LogCommitProofs ---------------------------
(***************************************************************************)
(* The rest of the inductive invariant's proof: the steps of commit(), of  *)
(* the buffer cache, of the recovery at boot and of a crash, and then      *)
(* every step of Log.                                                      *)
(***************************************************************************)
EXTENDS LogProofs

(* In commit() nobody holds a modified buffer, and the log blocks and the  *)
(* home blocks are apart.                                                  *)
LEMMA CommitterFacts ==
  ASSUME IInv, NEW o \in Op, pc[o] \in Committing
  PROVE  /\ committing /\ Active = {}
         /\ \A p \in Op : p # o => pc[p] \notin Committing
         /\ \A p \in Op : wbuf[p] = NoBlock
         /\ lh \in Seq(Home) /\ DOMAIN lh = 1 .. Len(lh) /\ Len(lh) \in Nat
         /\ Len(lh) < logsize
         /\ \A i \in DOMAIN lh : lh[i] \in Home /\ lh[i] >= logsize
                                 /\ lh[i] \in 1 .. (FSSIZE - 1)
         /\ \A i \in 1 .. Len(lh) : i \in 1 .. (FSSIZE - 1) /\ i \notin Home
<1> USE LogAssumption DEF Home
<1>1. committing /\ Active = {} /\ \A p \in Op : p # o => pc[p] \notin Committing
  BY DEF IInv, CountInv
<1>2. \A p \in Op : wbuf[p] = NoBlock
  BY <1>1 DEF IInv, HoldInv, Active
<1>3. lh \in Seq(Home) /\ DOMAIN lh = 1 .. Len(lh) /\ Len(lh) \in Nat /\ Len(lh) < logsize
  BY DEF IInv, TypeOK, SpaceInv
<1>4. \A i \in DOMAIN lh : lh[i] \in Home
  BY <1>3
<1>5. \A b \in Home : b >= logsize /\ b \in 1 .. (FSSIZE - 1)
  OBVIOUS
<1>6. \A i \in 1 .. Len(lh) : i \in 1 .. (FSSIZE - 1) /\ i \notin Home
  BY <1>3
<1> QED BY <1>1, <1>2, <1>3, <1>4, <1>5, <1>6

(* bread() of a home block yields contents.                                *)
LEMMA BreadType ==
  ASSUME TypeOK, NEW b \in Home
  PROVE  bread(b) \in Val
BY LogAssumption DEF TypeOK, bread, Home

(* A turn of write_log() preserves it.                                     *)
LEMMA WriteLogInv ==
  ASSUME LogHasRoom, IInv, NEW o \in Op, write_log(o)
  PROVE  IInv'
<1> USE LogAssumption
<1>a. pc[o] = "write_log" /\ boot = "up" /\ pc[o] \in Committing
  BY DEF write_log, Committing
<1>b. head = <<>> /\ tail <= Len(lh) /\ Logged(tail - 1) /\ Pinned(1)
  BY <1>a DEF IInv, CommitInv, StepInv
<1>c. tail \in DOMAIN lh /\ tail \in 1 .. Len(lh)
  BY <1>a, <1>b, CommitterFacts DEF IInv, TypeOK
<1>d. /\ disk' = [disk EXCEPT ![tail] = bread(lh[tail])]
      /\ UNCHANGED <<head, cache, dirty, lh, outstanding, committing, wbuf, wrote, boot>>
  BY DEF write_log
<1>e. /\ \A b \in Home : disk'[b] = disk[b] /\ bread(b)' = bread(b)
      /\ \A i \in 1 .. (FSSIZE - 1) : i # tail => disk'[i] = disk[i]
      /\ disk'[tail] = bread(lh[tail])
  <2>1. \A b \in Home : b # tail /\ b \in 1 .. (FSSIZE - 1)
    BY <1>a, <1>c, CommitterFacts DEF Home
  <2>2. tail \in 1 .. (FSSIZE - 1)
    BY <1>a, <1>c, CommitterFacts
  <2>3. \A b \in Home : disk'[b] = disk[b]
    BY <1>d, <2>1 DEF IInv, TypeOK
  <2> QED BY <1>d, <2>2, <2>3 DEF IInv, TypeOK, bread
<1>f. \A p \in Op : p # o => pc'[p] = pc[p]
  BY DEF write_log, IInv, TypeOK
<1>g. \/ tail < Len(lh) /\ tail' = tail + 1 /\ pc'[o] = "write_log"
      \/ tail = Len(lh) /\ tail' = 1 /\ pc'[o] = "write_head"
  <2>1. Len(lh) \in Nat /\ tail \in Nat
    BY <1>a, CommitterFacts DEF IInv, TypeOK
  <2>2. CASE tail < Len(lh)
    BY <1>a, <2>2 DEF write_log
  <2>3. CASE ~(tail < Len(lh))
    BY <1>a, <1>b, <2>1, <2>3 DEF write_log, IInv, TypeOK
  <2> QED BY <2>2, <2>3
<1>0. Active' = Active
  BY <1>a, <1>f, <1>g DEF Active, IInv, TypeOK
<1>1. TypeOK'
  <2>1. disk' \in [1 .. (FSSIZE - 1) -> Val]
    BY <1>a, <1>c, <1>d, BreadType, CommitterFacts DEF IInv, TypeOK
  <2>2. tail' \in Nat \ {0}
    BY <1>g, SMTT(30) DEF IInv, TypeOK
  <2> QED BY <1>d, <2>1, <2>2, SMTT(30) DEF IInv, TypeOK, write_log
<1>2. CountInv'
  BY <1>0, <1>a, <1>d, <1>f, <1>g, Zenon DEF IInv, CountInv, Committing
<1>3. HoldInv'
  BY <1>a, <1>d, <1>f, <1>g, Zenon DEF IInv, HoldInv
<1>4. SpaceInv'
  BY <1>0, <1>d, SpaceFrame, SMTT(30) DEF IInv
<1>5. BufInv'
  <2>1. \A b \in Home : Recyclable(b)' => bread(b)' = disk'[b]
    BY <1>d, <1>e DEF IInv, BufInv, Recyclable
  <2> QED BY <1>d, <2>1 DEF IInv, BufInv, Injective, Range
<1>6. CommitInv'
  <2>1. \A i \in 1 .. tail : disk'[i] = bread(lh[i])'
    <3> SUFFICES ASSUME NEW i \in 1 .. tail PROVE disk'[i] = bread(lh[i])'
      OBVIOUS
    <3>1. i \in DOMAIN lh /\ lh[i] \in Home /\ i \in 1 .. (FSSIZE - 1) /\ tail \in Nat
      BY <1>a, <1>c, CommitterFacts
    <3>2. bread(lh[i])' = bread(lh[i])
      BY <1>d, <1>e, <3>1 DEF bread
    <3>3. CASE i = tail
      BY <3>2, <3>3, <1>e
    <3>4. CASE i # tail
      BY <3>1, <3>2, <3>4, <1>b, <1>e DEF Logged
    <3> QED BY <3>3, <3>4
  <2>2. Pinned(1)'
    BY <1>b, <1>d DEF Pinned
  <2>3. ASSUME NEW p \in Op PROVE StepInv(pc[p])'
    <3>1. CASE p # o
      <4>1. pc'[p] \notin Committing
        BY <3>1, <1>a, <1>f, CommitterFacts
      <4> QED BY <4>1 DEF StepInv, Committing
    <3>2. CASE p = o /\ tail < Len(lh)
      <4>1. tail' = tail + 1 /\ pc'[o] = "write_log" /\ tail' <= Len(lh') /\ tail' - 1 = tail
        BY <3>2, <1>a, <1>d, <1>g, CommitterFacts DEF IInv, TypeOK
      <4>2. Logged(tail - 1)'
        BY <4>1, <2>1 DEF Logged
      <4> QED BY <3>2, <4>1, <4>2, <2>2, <1>b, <1>d, SMTT(30) DEF StepInv
    <3>3. CASE p = o /\ ~(tail < Len(lh))
      <4>1. tail = Len(lh) /\ tail' = 1 /\ pc'[o] = "write_head"
        BY <3>3, <1>g
      <4>2. Logged(Len(lh))'
        BY <4>1, <2>1, <1>d DEF Logged
      <4>3. lh' # <<>>
        BY <1>c, <1>d
      <4> QED BY <3>3, <4>1, <4>2, <4>3, <2>2, <1>b, <1>d DEF StepInv
    <3> QED BY <3>1, <3>2, <3>3, SMTT(30)
  <2>4. QuietInv' BY <1>a, <1>d, CommitterFacts DEF QuietInv
  <2>5. BootInv' BY <1>a, <1>d DEF BootInv
  <2> QED BY <2>3, <2>4, <2>5 DEF CommitInv
<1> QED BY <1>1, <1>2, <1>3, <1>4, <1>5, <1>6 DEF IInv

(* write_head(), the commit point, preserves it.                           *)
LEMMA WriteHeadInv ==
  ASSUME LogHasRoom, IInv, NEW o \in Op, write_head(o)
  PROVE  IInv'
<1> USE LogAssumption
<1>a. pc[o] = "write_head" /\ boot = "up" /\ pc[o] \in Committing
  BY DEF write_head, Committing
<1>b. tail = 1 /\ lh # <<>> /\ Logged(Len(lh)) /\ Pinned(1)
  BY <1>a DEF IInv, CommitInv, StepInv
<1>d. /\ head' = lh
      /\ UNCHANGED <<disk, cache, dirty, lh, outstanding, committing, wbuf, wrote,
                     tail, boot>>
  BY DEF write_head
<1>f. pc'[o] = "install_trans" /\ \A p \in Op : p # o => pc'[p] = pc[p]
  BY DEF write_head, IInv, TypeOK
<1>0. Active' = Active
  BY <1>a, <1>f DEF Active, IInv, TypeOK
<1>1. TypeOK'
  BY <1>d DEF IInv, TypeOK, write_head
<1>2. CountInv'
  BY <1>0, <1>a, <1>d, <1>f, SMTT(30) DEF IInv, CountInv, Committing
<1>3. HoldInv'
  BY <1>a, <1>d, <1>f, SMTT(30) DEF IInv, HoldInv
<1>4. SpaceInv'
  <2>1. Owed' = Owed BY <1>0, <1>d DEF Owed
  <2> QED BY <1>0, <1>d, <2>1, Zenon DEF IInv, SpaceInv
<1>5. BufInv'
  BY <1>d DEF IInv, BufInv, Injective, Range, Recyclable, bread
<1>6. CommitInv'
  <2>1. Len(lh) >= 1
    BY <1>b DEF IInv, TypeOK
  <2>2. Logged(Len(lh))' /\ Pinned(tail)' /\ Installed(tail - 1)'
    BY <1>b, <1>d DEF Logged, Pinned, Installed, bread
  <2>3. ASSUME NEW p \in Op PROVE StepInv(pc[p])'
    <3>1. CASE p # o
      <4>1. pc'[p] \notin Committing
        BY <3>1, <1>a, <1>f, CommitterFacts
      <4> QED BY <4>1 DEF StepInv, Committing
    <3>2. CASE p = o
      BY <3>2, <1>b, <1>d, <1>f, <2>1, <2>2 DEF StepInv
    <3> QED BY <3>1, <3>2, SMTT(30)
  <2>4. QuietInv' BY <1>a, <1>d, CommitterFacts DEF QuietInv
  <2>5. BootInv' BY <1>a, <1>d DEF BootInv
  <2> QED BY <2>3, <2>4, <2>5 DEF CommitInv
<1> QED BY <1>1, <1>2, <1>3, <1>4, <1>5, <1>6 DEF IInv

(* One turn of install_trans(), in a commit or at boot: the block reaches  *)
(* its home, and what was installed or logged before stays so.             *)
LEMMA InstallFacts ==
  ASSUME LogHasRoom, IInv, InstallBlock, UNCHANGED <<lh, head, wbuf>>,
         tail \in 1 .. Len(lh), Installed(tail - 1), head = lh,
         \A o \in Op : wbuf[o] = NoBlock
  PROVE  /\ disk' \in [1 .. (FSSIZE - 1) -> Val]
         /\ cache' \in [Home -> Val \cup {NoBuf}]
         /\ dirty' \subseteq Home
         /\ BufInv'
         /\ \A i \in 1 .. tail : disk'[lh[i]] = disk'[i] /\ lh[i] \notin dirty'
         /\ \A i \in 1 .. (FSSIZE - 1) : i # lh[tail] => disk'[i] = disk[i]
         /\ disk'[lh[tail]] = disk[tail] /\ cache'[lh[tail]] = disk[tail]
         /\ \A b \in Home : b # lh[tail] => cache'[b] = cache[b]
<1> USE LogAssumption
<1>1. lh \in Seq(Home) /\ Len(lh) \in Nat /\ DOMAIN lh = 1 .. Len(lh) /\ Len(lh) < logsize - 1
  BY DEF IInv, TypeOK, SpaceInv
<1>2. /\ lh[tail] \in Home /\ lh[tail] \in 1 .. (FSSIZE - 1) /\ lh[tail] >= logsize
      /\ tail \in 1 .. (FSSIZE - 1) /\ tail < logsize
  <2>1. lh[tail] \in Home BY <1>1
  <2> QED BY <1>1, <2>1 DEF Home
<1>3. /\ disk' \in [1 .. (FSSIZE - 1) -> Val] /\ disk[tail] \in Val
      /\ cache' \in [Home -> Val \cup {NoBuf}]
      /\ dirty' \subseteq Home
  BY <1>2 DEF InstallBlock, IInv, TypeOK
<1>4. /\ \A i \in 1 .. (FSSIZE - 1) : i # lh[tail] => disk'[i] = disk[i]
      /\ disk'[lh[tail]] = disk[tail] /\ cache'[lh[tail]] = disk[tail]
      /\ \A b \in Home : b # lh[tail] => cache'[b] = cache[b]
      /\ dirty' = dirty \ {lh[tail]}
  BY <1>2 DEF InstallBlock, IInv, TypeOK
<1>5. ASSUME NEW i \in 1 .. tail
      PROVE  disk'[lh[i]] = disk'[i] /\ lh[i] \notin dirty'
  <2>1. /\ i \in DOMAIN lh /\ tail \in DOMAIN lh /\ i \in 1 .. (FSSIZE - 1)
        /\ i # lh[tail] /\ lh[i] \in Home
    BY <1>1, <1>2
  <2>2. disk'[i] = disk[i]
    BY <2>1, <1>4
  <2>3. CASE i = tail
    BY <2>2, <2>3, <1>4
  <2>4. CASE i # tail
    <3>1. lh[i] # lh[tail]
      BY <2>1, <2>4 DEF IInv, BufInv, Injective
    <3>2. disk[lh[i]] = disk[i] /\ lh[i] \notin dirty
      BY <2>4, <1>2 DEF Installed
    <3>3. lh[i] \in 1 .. (FSSIZE - 1)
      BY <2>1, SMTT(30) DEF Home
    <3> QED BY <2>2, <3>1, <3>2, <3>3, <1>4, SMTT(30)
  <2> QED BY <2>3, <2>4
<1>6. BufInv'
  <2>1. ASSUME NEW b \in Home, Recyclable(b)' PROVE bread(b)' = disk'[b]
    <3>1. CASE b = lh[tail]
      BY <3>1, <1>4, SMTT(30) DEF bread
    <3>2. CASE b # lh[tail]
      <4>1. Recyclable(b)
        BY <2>1, <3>2, <1>4 DEF Recyclable
      <4>2. b \in 1 .. (FSSIZE - 1)
        BY DEF Home
      <4> QED BY <3>2, <4>1, <4>2, <1>4, SMTT(30) DEF IInv, BufInv, bread
    <3> QED BY <3>1, <3>2
  <2>2. \A b \in dirty' : cache'[b] # NoBuf
    BY <1>3, <1>4, SMTT(30) DEF IInv, BufInv, TypeOK
  <2>3. Injective(lh)' /\ Injective(head)' /\ (dirty \subseteq Range(lh))'
    <3>1. Injective(lh)' /\ Injective(head)'
      BY DEF IInv, BufInv, Injective
    <3>2. Range(lh)' = Range(lh)
      BY DEF Range
    <3>3. dirty' \subseteq Range(lh)
      BY <1>4 DEF IInv, BufInv
    <3> QED BY <3>1, <3>2, <3>3
  <2> QED BY <2>1, <2>2, <2>3, SMTT(30) DEF BufInv
<1> QED BY <1>3, <1>4, <1>5, <1>6, Zenon

(* A turn of install_trans() in a commit preserves it.                     *)
LEMMA InstallTransInv ==
  ASSUME LogHasRoom, IInv, NEW o \in Op, install_trans(o)
  PROVE  IInv'
<1> USE LogAssumption
<1>a. pc[o] = "install_trans" /\ boot = "up" /\ pc[o] \in Committing
  BY DEF install_trans, Committing
<1>b. /\ head = lh /\ tail <= Len(lh) /\ Logged(Len(lh)) /\ Installed(tail - 1)
      /\ Pinned(tail)
  BY <1>a DEF IInv, CommitInv, StepInv
<1>c. tail \in DOMAIN lh /\ tail \in 1 .. Len(lh) /\ Len(lh) \in Nat /\ tail \in Nat
  BY <1>a, <1>b, CommitterFacts DEF IInv, TypeOK
<1>d. UNCHANGED <<head, lh, outstanding, committing, wbuf, wrote, boot>> /\ InstallBlock
  BY DEF install_trans
<1>e. /\ disk' \in [1 .. (FSSIZE - 1) -> Val]
      /\ cache' \in [Home -> Val \cup {NoBuf}]
      /\ dirty' \subseteq Home
      /\ BufInv'
      /\ \A i \in 1 .. tail : disk'[lh[i]] = disk'[i] /\ lh[i] \notin dirty'
      /\ \A i \in 1 .. (FSSIZE - 1) : i # lh[tail] => disk'[i] = disk[i]
      /\ disk'[lh[tail]] = disk[tail] /\ cache'[lh[tail]] = disk[tail]
      /\ \A b \in Home : b # lh[tail] => cache'[b] = cache[b]
  BY <1>a, <1>b, <1>c, <1>d, CommitterFacts, InstallFacts
<1>f. \A p \in Op : p # o => pc'[p] = pc[p]
  BY DEF install_trans, IInv, TypeOK
<1>g. \/ tail < Len(lh) /\ tail' = tail + 1 /\ pc'[o] = "install_trans"
      \/ tail = Len(lh) /\ tail' = 1 /\ pc'[o] = "clear"
  <2>1. CASE tail < Len(lh)
    BY <1>a, <2>1 DEF install_trans
  <2>2. CASE ~(tail < Len(lh))
    BY <1>b, <1>c, <2>2 DEF install_trans, IInv, TypeOK
  <2> QED BY <2>1, <2>2
<1>0. Active' = Active
  BY <1>a, <1>f, <1>g, SMTT(30) DEF Active, IInv, TypeOK
<1>1. TypeOK'
  <2>1. tail' \in Nat \ {0}
    BY <1>c, <1>g
  <2> QED BY <1>d, <1>e, <2>1, Zenon DEF IInv, TypeOK, install_trans
<1>2. CountInv'
  BY <1>0, <1>a, <1>d, <1>f, <1>g DEF IInv, CountInv, Committing
<1>3. HoldInv'
  BY <1>a, <1>d, <1>f, <1>g DEF IInv, HoldInv
<1>4. SpaceInv'
  BY <1>0, <1>d, SpaceFrame DEF IInv
<1>6. CommitInv'
  <2>1. \A i \in 1 .. Len(lh) : disk'[i] = bread(lh[i])'
    <3> SUFFICES ASSUME NEW i \in 1 .. Len(lh) PROVE disk'[i] = bread(lh[i])'
      OBVIOUS
    <3>1. /\ i \in DOMAIN lh /\ lh[i] \in Home /\ i \in 1 .. (FSSIZE - 1)
          /\ lh[tail] \in Home /\ i \notin Home /\ lh[i] \in 1 .. (FSSIZE - 1)
      BY <1>a, <1>c, CommitterFacts
    <3>2. disk'[i] = disk[i]
      BY <1>e, <3>1
    <3>3. CASE i = tail
      <4>1. disk[tail] # NoBuf
        BY <3>1, <3>3, SMTT(30) DEF IInv, TypeOK
      <4> QED BY <1>d, <1>e, <3>2, <3>3, <4>1 DEF bread
    <3>4. CASE i # tail
      <4>1. lh[i] # lh[tail]
        BY <3>1, <3>4, <1>c DEF IInv, BufInv, Injective
      <4>2. disk[i] = bread(lh[i])
        BY <1>b DEF Logged
      <4> QED BY <1>d, <1>e, <3>1, <3>2, <4>1, <4>2, Zenon DEF bread
    <3> QED BY <3>3, <3>4
  <2>2. \A i \in DOMAIN lh : i > tail => lh[i] \in dirty'
    BY <1>b, <1>c, <1>d DEF Pinned, InstallBlock, IInv, BufInv, Injective
  <2>3. ASSUME NEW p \in Op PROVE StepInv(pc[p])'
    <3>1. CASE p # o
      <4>1. pc'[p] \notin Committing
        BY <3>1, <1>a, <1>f, CommitterFacts
      <4> QED BY <4>1 DEF StepInv, Committing
    <3>2. CASE p = o /\ tail < Len(lh)
      <4>1. tail' = tail + 1 /\ pc'[o] = "install_trans" /\ tail' <= Len(lh') /\ tail' - 1 = tail
        BY <3>2, <1>c, <1>d, <1>g, SMTT(30)
      <4>2. Installed(tail - 1)' /\ Logged(Len(lh))'
        BY <4>1, <2>1, <1>d, <1>e DEF Installed, Logged
      <4>3. Pinned(tail)'
        BY <4>1, <2>2, <1>c, <1>d DEF Pinned
      <4> QED BY <3>2, <4>1, <4>2, <4>3, <1>b, <1>d DEF StepInv
    <3>3. CASE p = o /\ ~(tail < Len(lh))
      <4>1. tail = Len(lh) /\ tail' = 1 /\ pc'[o] = "clear"
        BY <3>3, <1>g
      <4>2. Installed(Len(lh))'
        BY <4>1, <1>d, <1>e DEF Installed
      <4> QED BY <3>3, <4>1, <4>2, <1>b, <1>d DEF StepInv
    <3> QED BY <3>1, <3>2, <3>3
  <2>4. QuietInv' BY <1>a, <1>d, CommitterFacts DEF QuietInv
  <2>5. BootInv' BY <1>a, <1>d DEF BootInv
  <2> QED BY <2>3, <2>4, <2>5 DEF CommitInv
<1> QED BY <1>1, <1>2, <1>3, <1>4, <1>e, <1>6 DEF IInv

(* Once everything is installed no buffer is dirty.                        *)
LEMMA InstalledClean ==
  ASSUME TypeOK, BufInv, Installed(Len(lh))
  PROVE  dirty = {}
<1>1. DOMAIN lh = 1 .. Len(lh) BY DEF TypeOK
<1>2. \A b \in Range(lh) : b \notin dirty
  BY <1>1 DEF Range, Installed
<1> QED BY <1>2 DEF BufInv

(* Erasing the committed transaction preserves it.                         *)
LEMMA ClearHeadInv ==
  ASSUME LogHasRoom, IInv, NEW o \in Op, clear_head(o)
  PROVE  IInv'
<1> USE LogAssumption
<1>a. pc[o] = "clear" /\ boot = "up" /\ pc[o] \in Committing
  BY DEF clear_head, Committing
<1>b. Installed(Len(lh)) /\ dirty = {}
  BY <1>a, InstalledClean DEF IInv, CommitInv, StepInv
<1>d. /\ lh' = <<>> /\ head' = <<>>
      /\ UNCHANGED <<disk, cache, dirty, outstanding, committing, wbuf, wrote,
                     tail, boot>>
  BY DEF clear_head
<1>f. pc'[o] = "committed" /\ \A p \in Op : p # o => pc'[p] = pc[p]
  BY DEF clear_head, IInv, TypeOK
<1>0. Active' = Active
  BY <1>a, <1>f DEF Active, IInv, TypeOK
<1>1. TypeOK'
  <2>1. lh' \in Seq(Home) /\ head' \in Seq(Home) BY <1>d, SMTT(30)
  <2> QED BY <1>d, <2>1 DEF IInv, TypeOK, clear_head
<1>2. CountInv'
  BY <1>0, <1>a, <1>d, <1>f, SMTT(30) DEF IInv, CountInv, Committing
<1>3. HoldInv'
  BY <1>a, <1>d, <1>f, Zenon DEF IInv, HoldInv
<1>4. SpaceInv'
  <2>1. Active' = {} BY <1>0, <1>a, CommitterFacts
  <2>2. Len(lh') = 0 /\ Len(head') = 0 BY <1>d
  <2>3. boot' # "panic" BY <1>a, <1>d
  <2> QED BY <2>1, <2>2, <2>3 DEF SpaceInv, LogHasRoom
<1>5. BufInv'
  BY <1>b, <1>d, SMTT(30) DEF IInv, BufInv, Injective, Range, Recyclable, bread
<1>6. CommitInv'
  <2>3. ASSUME NEW p \in Op PROVE StepInv(pc[p])'
    <3>1. CASE p # o
      <4>1. pc'[p] \notin Committing
        BY <3>1, <1>a, <1>f, CommitterFacts
      <4> QED BY <4>1 DEF StepInv, Committing
    <3>2. CASE p = o
      BY <3>2, <1>d, <1>f DEF StepInv
    <3> QED BY <3>1, <3>2
  <2>4. QuietInv' BY <1>a, <1>d, CommitterFacts DEF QuietInv
  <2>5. BootInv' BY <1>a, <1>d DEF BootInv
  <2> QED BY <2>3, <2>4, <2>5 DEF CommitInv
<1> QED BY <1>1, <1>2, <1>3, <1>4, <1>5, <1>6 DEF IInv

(* Resetting log.committing and waking the sleepers preserves it.          *)
LEMMA EndCommitInv ==
  ASSUME LogHasRoom, IInv, NEW o \in Op, end_commit(o)
  PROVE  IInv'
<1> USE LogAssumption
<1>a. pc[o] = "committed" /\ boot = "up" /\ pc[o] \in Committing
  BY DEF end_commit, Committing
<1>b. head = <<>> /\ lh = <<>>
  BY <1>a DEF IInv, CommitInv, StepInv
<1>d. /\ committing' = FALSE /\ pc' = Wakeup([pc EXCEPT ![o] = "begin"])
      /\ UNCHANGED <<disk, head, cache, dirty, lh, outstanding, wbuf, wrote, tail, boot>>
  BY DEF end_commit
<1>f. /\ pc'[o] = "begin"
      /\ \A p \in Op : p # o =>
           pc'[p] = pc[p] \/ (pc[p] = "asleep" /\ pc'[p] = "begin")
  <2> DEFINE f == [pc EXCEPT ![o] = "begin"]
  <2>1. f[o] = "begin" /\ \A p \in Op : p # o => f[p] = pc[p]
    BY DEF IInv, TypeOK
  <2>2. \A p \in Op : pc'[p] = IF f[p] = "asleep" THEN "begin" ELSE f[p]
    BY <1>d DEF Wakeup
  <2> HIDE DEF f
  <2>3. pc'[o] = "begin"
    BY <2>1, <2>2
  <2>4. ASSUME NEW p \in Op, p # o
        PROVE  pc'[p] = pc[p] \/ (pc[p] = "asleep" /\ pc'[p] = "begin")
    BY <2>1, <2>2, <2>4
  <2> QED BY <2>3, <2>4
<1>0. Active' = Active
  BY <1>a, <1>f, Zenon DEF Active, IInv, TypeOK
<1>1. TypeOK'
  BY <1>d, Zenon DEF IInv, TypeOK, Wakeup
<1>2. CountInv'
  <2>1. \A p \in Op : pc'[p] \notin Committing
    BY <1>a, <1>f, CommitterFacts, SMTT(30) DEF Committing
  <2> QED BY <1>0, <1>d, <2>1, Zenon DEF IInv, CountInv
<1>3. HoldInv'
  BY <1>a, <1>d, <1>f, Zenon DEF IInv, HoldInv
<1>4. SpaceInv'
  BY <1>0, <1>d, SpaceFrame DEF IInv
<1>5. BufInv'
  BY <1>d, BufFrame DEF IInv
<1>6. CommitInv'
  <2>2. \A p \in Op : StepInv(pc[p])'
    BY <1>2, <1>d, NoCommitter, Zenon
  <2>3. QuietInv'
    BY <1>b, <1>d DEF QuietInv, Pinned
  <2>4. BootInv'
    BY <1>a, <1>d DEF BootInv
  <2> QED BY <2>2, <2>3, <2>4 DEF CommitInv
<1> QED BY <1>1, <1>2, <1>3, <1>4, <1>5, <1>6 DEF IInv

(* A step of the buffer cache alone, invisible through bread().            *)
LEMMA CacheStep ==
  ASSUME IInv, boot = "up",
         UNCHANGED <<disk, head, dirty, lh, outstanding, committing, pc, wbuf,
                     wrote, tail, boot>>,
         cache' \in [Home -> Val \cup {NoBuf}],
         \A b \in Home : bread(b)' = bread(b),
         \A b \in Home : cache[b] # NoBuf => cache'[b] # NoBuf \/ Recyclable(b)
  PROVE  IInv'
<1> USE LogAssumption
<1>0. Active' = Active BY DEF Active
<1>1. TypeOK' BY DEF IInv, TypeOK
<1>2. CountInv' BY <1>0, SMTT(30) DEF IInv, CountInv
<1>3. HoldInv' BY DEF IInv, HoldInv
<1>4. SpaceInv' BY <1>0, SpaceFrame, SMTT(30) DEF IInv
<1>5. BufInv'
  <2>1. \A b \in dirty' : cache'[b] # NoBuf
    BY DEF IInv, BufInv, TypeOK, Recyclable
  <2>2. \A o \in Op : wbuf'[o] # NoBlock => cache'[wbuf'[o]] # NoBuf
    BY DEF IInv, BufInv, TypeOK, Recyclable
  <2>3. \A b \in Home : Recyclable(b)' => bread(b)' = disk'[b]
    BY DEF IInv, BufInv, Recyclable
  <2> QED BY <2>1, <2>2, <2>3 DEF IInv, BufInv, Injective, Range
<1>6. CommitInv'
  <2>1. \A i \in DOMAIN lh : bread(lh[i])' = bread(lh[i])
    <3>1. \A i \in DOMAIN lh : lh[i] \in Home
      BY DEF IInv, TypeOK
    <3> QED BY <3>1 DEF bread
  <2>2. ASSUME NEW p \in Op PROVE StepInv(pc[p])'
    <3>1. StepInv(pc[p]) BY DEF IInv, CommitInv
    <3>2. DOMAIN lh = 1 .. Len(lh) /\ Len(lh) \in Nat /\ tail \in Nat
      BY DEF IInv, TypeOK
    <3>3. CASE pc[p] = "write_log"
      <4>1. Logged(tail - 1)'
        BY <3>1, <3>2, <3>3, <2>1, SMTT(30) DEF StepInv, Logged
      <4> QED BY <3>1, <3>3, <4>1 DEF StepInv, Pinned
    <3>4. CASE pc[p] \in {"write_head", "install_trans"}
      <4>1. Logged(Len(lh))'
        BY <3>1, <3>2, <3>4, <2>1 DEF StepInv, Logged
      <4> QED BY <3>1, <3>4, <4>1 DEF StepInv, Pinned, Installed
    <3>5. CASE pc[p] \notin {"write_log", "write_head", "install_trans"}
      BY <3>1, <3>5 DEF StepInv, Installed
    <3> QED BY <3>3, <3>4, <3>5
  <2>3. QuietInv' BY DEF IInv, CommitInv, QuietInv, Pinned
  <2>4. BootInv' BY DEF BootInv
  <2> QED BY <2>2, <2>3, <2>4 DEF CommitInv
<1> QED BY <1>1, <1>2, <1>3, <1>4, <1>5, <1>6 DEF IInv

(* Reading a block into the cache preserves it.                            *)
LEMMA LoadInv ==
  ASSUME IInv, NEW b \in Home, load(b)
  PROVE  IInv'
<1>1. disk[b] \in Val
  BY LogAssumption DEF IInv, TypeOK, Home
<1>2. cache' \in [Home -> Val \cup {NoBuf}]
  BY <1>1 DEF load, IInv, TypeOK
<1>3. \A c \in Home : bread(c)' = bread(c)
  BY <1>1, LogAssumption DEF load, bread, IInv, TypeOK
<1>4. \A c \in Home : cache[c] # NoBuf => cache'[c] # NoBuf \/ Recyclable(c)
  BY DEF load, IInv, TypeOK
<1> QED BY <1>2, <1>3, <1>4, CacheStep DEF load

(* bget() recycling a clean unheld buffer preserves it.                    *)
LEMMA RecycleInv ==
  ASSUME IInv, NEW b \in Home, recycle(b)
  PROVE  IInv'
<1>2. cache' \in [Home -> Val \cup {NoBuf}]
  BY DEF recycle, IInv, TypeOK
<1>3. \A c \in Home : bread(c)' = bread(c)
  <2>1. bread(b) = disk[b]
    BY DEF recycle, IInv, BufInv
  <2> QED BY <2>1 DEF recycle, bread, IInv, TypeOK
<1>4. \A c \in Home : cache[c] # NoBuf => cache'[c] # NoBuf \/ Recyclable(c)
  BY DEF recycle, IInv, TypeOK
<1> QED BY <1>2, <1>3, <1>4, CacheStep DEF recycle

(* read_head() at boot preserves it.                                       *)
LEMMA ReadHeadInv ==
  ASSUME LogHasRoom, IInv, read_head
  PROVE  IInv'
<1> USE LogAssumption
<1>a. boot = "read_head" BY DEF read_head
<1>b. /\ lh' = head /\ tail' = 1
      /\ boot' = IF head = <<>> THEN "clear" ELSE "install_trans"
      /\ UNCHANGED <<disk, head, cache, dirty, outstanding, committing, pc, wbuf, wrote>>
  BY DEF read_head
<1>c. /\ pc = [o \in Op |-> "begin"] /\ wbuf = [o \in Op |-> NoBlock]
      /\ dirty = {} /\ outstanding = 0 /\ ~committing
      /\ cache = [b \in Home |-> NoBuf]
  BY <1>a DEF IInv, CommitInv, BootInv
<1>0. Active = {} /\ Active' = {}
  BY <1>b, <1>c DEF Active
<1>1. TypeOK'
  BY <1>b DEF IInv, TypeOK
<1>2. CountInv' BY <1>0, <1>b, Zenon DEF IInv, CountInv
<1>3. HoldInv' BY <1>b DEF IInv, HoldInv
<1>4. SpaceInv' BY <1>0, <1>b, SMTT(30) DEF IInv, SpaceInv
<1>5. BufInv'
  BY <1>b, <1>c DEF IInv, BufInv, Injective, Range, Recyclable, bread
<1>6. CommitInv'
  <2>1. CASE head = <<>>
    BY <1>b, <1>c, <2>1 DEF CommitInv, QuietInv, BootInv, Installed
  <2>2. CASE head # <<>>
    <3>1. 1 <= Len(head) BY <2>2 DEF IInv, TypeOK
    <3> QED BY <1>b, <1>c, <2>2, <3>1 DEF CommitInv, QuietInv, BootInv, Installed
  <2> QED BY <2>1, <2>2
<1> QED BY <1>1, <1>2, <1>3, <1>4, <1>5, <1>6 DEF IInv

(* A turn of install_trans() at boot preserves it.                         *)
LEMMA RecoverInstallInv ==
  ASSUME LogHasRoom, IInv, recover_install
  PROVE  IInv'
<1> USE LogAssumption
<1>a. boot = "install_trans" BY DEF recover_install
<1>b. /\ InstallBlock
      /\ UNCHANGED <<head, lh, outstanding, committing, pc, wbuf, wrote>>
  BY DEF recover_install
<1>c. /\ pc = [o \in Op |-> "begin"] /\ wbuf = [o \in Op |-> NoBlock]
      /\ dirty = {} /\ outstanding = 0 /\ ~committing
      /\ head = lh /\ tail <= Len(lh) /\ Installed(tail - 1)
  BY <1>a DEF IInv, CommitInv, BootInv
<1>d. tail \in 1 .. Len(lh) /\ tail \in Nat /\ Len(lh) \in Nat
  BY <1>c, SMTT(30) DEF IInv, TypeOK
<1>e. /\ disk' \in [1 .. (FSSIZE - 1) -> Val]
      /\ cache' \in [Home -> Val \cup {NoBuf}]
      /\ dirty' \subseteq Home
      /\ BufInv'
      /\ \A i \in 1 .. tail : disk'[lh[i]] = disk'[i] /\ lh[i] \notin dirty'
  BY <1>b, <1>c, <1>d, InstallFacts
<1>g. \/ tail < Len(lh) /\ tail' = tail + 1 /\ boot' = boot
      \/ tail = Len(lh) /\ tail' = 1 /\ boot' = "clear"
  BY <1>d DEF recover_install
<1>0. Active = {} /\ Active' = {}
  BY <1>b, <1>c DEF Active
<1>1. TypeOK'
  <2>1. tail' \in Nat \ {0} /\ boot' \in {"install_trans", "clear"}
    BY <1>a, <1>d, <1>g
  <2> QED BY <1>b, <1>e, <2>1 DEF IInv, TypeOK
<1>2. CountInv' BY <1>0, <1>b, SMTT(30) DEF IInv, CountInv
<1>3. HoldInv' BY <1>b, SMTT(30) DEF IInv, HoldInv
<1>4. SpaceInv' BY <1>0, <1>a, <1>b, <1>g, Zenon DEF IInv, SpaceInv
<1>6. CommitInv'
  <2>1. dirty' = {} BY <1>b, <1>c DEF InstallBlock
  <2>2. CASE tail < Len(lh)
    <3>1. tail' = tail + 1 /\ boot' = "install_trans" /\ tail' - 1 = tail /\ tail' <= Len(lh')
      BY <1>a, <1>b, <1>d, <1>g, <2>2
    <3>2. Installed(tail - 1)' BY <3>1, <1>b, <1>e DEF Installed
    <3> QED BY <1>b, <1>c, <2>1, <3>1, <3>2 DEF CommitInv, QuietInv, BootInv
  <2>3. CASE ~(tail < Len(lh))
    <3>1. tail = Len(lh) /\ boot' = "clear"
      BY <1>d, <1>g, <2>3
    <3>2. Installed(Len(lh))' BY <3>1, <1>b, <1>e DEF Installed
    <3> QED BY <1>b, <1>c, <2>1, <3>1, <3>2 DEF CommitInv, QuietInv, BootInv
  <2> QED BY <2>2, <2>3
<1> QED BY <1>1, <1>2, <1>3, <1>4, <1>e, <1>6 DEF IInv

(* Erasing the recovered transaction preserves it.                         *)
LEMMA RecoverClearInv ==
  ASSUME LogHasRoom, IInv, recover_clear
  PROVE  IInv'
<1> USE LogAssumption
<1>a. boot = "clear" BY DEF recover_clear
<1>b. /\ lh' = <<>> /\ head' = <<>> /\ boot' = "up"
      /\ UNCHANGED <<disk, cache, dirty, outstanding, committing, pc, wbuf, wrote, tail>>
  BY DEF recover_clear
<1>c. /\ pc = [o \in Op |-> "begin"] /\ wbuf = [o \in Op |-> NoBlock]
      /\ dirty = {} /\ outstanding = 0 /\ ~committing
  BY <1>a DEF IInv, CommitInv, BootInv
<1>0. Active = {} /\ Active' = {}
  BY <1>b, <1>c DEF Active
<1>1. TypeOK'
  <2>1. lh' \in Seq(Home) /\ head' \in Seq(Home) BY <1>b
  <2> QED BY <1>b, <2>1 DEF IInv, TypeOK
<1>2. CountInv' BY <1>0, <1>b, Zenon DEF IInv, CountInv
<1>3. HoldInv' BY <1>b DEF IInv, HoldInv
<1>4. SpaceInv'
  <2>1. Len(lh') = 0 /\ Len(head') = 0 BY <1>b
  <2> QED BY <1>0, <1>b, <2>1 DEF SpaceInv, LogHasRoom
<1>5. BufInv'
  BY <1>b, <1>c DEF IInv, BufInv, Injective, Range, Recyclable, bread
<1>6. CommitInv'
  <2>1. ~committing' BY <1>b, <1>c
  <2>2. \A p \in Op : StepInv(pc[p])'
    BY <1>2, <2>1, NoCommitter
  <2> QED BY <1>b, <1>c, <2>2 DEF CommitInv, QuietInv, BootInv, Pinned
<1> QED BY <1>1, <1>2, <1>3, <1>4, <1>5, <1>6 DEF IInv

(* A crash at any point preserves it.                                      *)
LEMMA CrashInv ==
  ASSUME LogHasRoom, IInv, Crash
  PROVE  IInv'
<1> USE LogAssumption
<1>a. /\ boot' = "read_head" /\ cache' = [b \in Home |-> NoBuf] /\ dirty' = {}
      /\ lh' = <<>> /\ outstanding' = 0 /\ committing' = FALSE
      /\ pc' = [o \in Op |-> "begin"] /\ wbuf' = [o \in Op |-> NoBlock]
      /\ wrote' = [o \in Op |-> {}] /\ tail' = 1 /\ disk' = disk /\ head' = head
  BY DEF Crash
<1>0. Active' = {} BY <1>a DEF Active
<1>1. TypeOK'
  <2>1. lh' \in Seq(Home) BY <1>a
  <2>2. cache' \in [Home -> Val \cup {NoBuf}] BY <1>a
  <2>3. wrote' \in [Op -> SUBSET Home] BY <1>a
  <2>4. wbuf' \in [Op -> Home \cup {NoBlock}] BY <1>a
  <2>5. committing' \in BOOLEAN BY <1>a, Zenon
  <2>6. pc' \in [Op -> {"begin", "asleep", "inop", "log_write", "log_append",
                        "write_log", "write_head", "install_trans", "clear",
                        "committed"}]
    BY <1>a
  <2>7. outstanding' \in Nat /\ tail' \in Nat \ {0} /\ dirty' \subseteq Home
    BY <1>a
  <2>8. disk' \in [1 .. (FSSIZE - 1) -> Val] /\ head' \in Seq(Home)
    BY <1>a DEF IInv, TypeOK
  <2> QED BY <1>a, <2>1, <2>2, <2>3, <2>4, <2>5, <2>6, <2>7, <2>8 DEF TypeOK
<1>2. CountInv' BY <1>0, <1>a, FS_EmptySet DEF CountInv, Committing
<1>3. HoldInv' BY <1>a DEF HoldInv
<1>4. SpaceInv'
  <2>1. Len(lh') = 0 BY <1>a
  <2>2. boot' # "panic" BY DEF Crash
  <2>3. Len(head') < logsize - 1 /\ Len(head') < LOGSIZE
    BY <1>a, SMTT(30) DEF IInv, SpaceInv
  <2> QED BY <1>0, <2>1, <2>2, <2>3 DEF SpaceInv, LogHasRoom
<1>5. BufInv'
  <2>1. Injective(lh)' /\ Injective(head)'
    BY <1>a DEF IInv, BufInv, Injective
  <2>2. \A b \in Home : bread(b)' = disk'[b]
    BY <1>a DEF bread
  <2>3. dirty' = {} /\ \A o \in Op : wbuf'[o] = NoBlock
    BY <1>a
  <2> QED BY <2>1, <2>2, <2>3, SMTT(30) DEF BufInv
<1>6. CommitInv' BY <1>a DEF CommitInv, QuietInv, BootInv
<1> QED BY <1>1, <1>2, <1>3, <1>4, <1>5, <1>6 DEF IInv

-----------------------------------------------------------------------------
(* Every step preserves the inductive invariant, stuttering included.      *)
LEMMA NextInv ==
  ASSUME LogHasRoom, IInv, [Next]_vars
  PROVE  IInv'
<1>1. CASE UNCHANGED vars
  <2>1. Active' = Active BY <1>1 DEF vars, Active
  <2>2. SpaceInv' BY <1>1, <2>1, SpaceFrame DEF IInv, vars
  <2>3. BufInv' BY <1>1, BufFrame DEF IInv, vars
  <2>4. TypeOK' /\ HoldInv' BY <1>1 DEF IInv, vars, TypeOK, HoldInv
  <2>5. CountInv' BY <1>1, <2>1, SMTT(30) DEF IInv, vars, CountInv
  <2>6. CommitInv'
    BY <1>1, Zenon DEF IInv, vars, CommitInv, StepInv, QuietInv, BootInv, Logged,
                Installed, Pinned, bread
  <2> QED BY <2>2, <2>3, <2>4, <2>5, <2>6 DEF IInv
<1>2. ASSUME NEW o \in Op, begin_op(o) PROVE IInv' BY <1>2, BeginOpInv
<1>3. ASSUME NEW o \in Op, begin_op_sleep(o) PROVE IInv' BY <1>3, BeginOpSleepInv
<1>4. ASSUME NEW o \in Op, log_write_check(o) PROVE IInv' BY <1>4, LogWriteCheckInv
<1>5. ASSUME NEW o \in Op, log_write(o) PROVE IInv' BY <1>5, LogWriteInv
<1>6. ASSUME NEW o \in Op, end_op(o) PROVE IInv' BY <1>6, EndOpInv
<1>7. ASSUME NEW o \in Op, commit(o) PROVE IInv'
  BY <1>7, WriteLogInv, WriteHeadInv, InstallTransInv, ClearHeadInv, EndCommitInv
     DEF commit
<1>8. ASSUME NEW o \in Op, NEW b \in Home, NEW v \in Val, modify(o, b, v) PROVE IInv'
  BY <1>8, ModifyInv
<1>9. ASSUME NEW b \in Home, load(b) \/ recycle(b) PROVE IInv'
  BY <1>9, LoadInv, RecycleInv
<1>10. CASE recover_from_log
  BY <1>10, ReadHeadInv, RecoverInstallInv, RecoverClearInv DEF recover_from_log
<1>11. CASE Crash BY <1>11, CrashInv
<1> QED
  BY <1>1, <1>2, <1>3, <1>4, <1>5, <1>6, <1>7, <1>8, <1>9, <1>10, <1>11 DEF Next

(* The inductive invariant holds in every reachable state of log.c.        *)
THEOREM LogInvariant == LogHasRoom => (Spec => []IInv)
<1> SUFFICES ASSUME LogHasRoom PROVE Spec => []IInv
  OBVIOUS
<1>1. Init => IInv BY InitInv
<1>2. IInv /\ [Next]_vars => IInv' BY NextInv
<1> QED BY <1>1, <1>2, PTL DEF Spec
=============================================================================
