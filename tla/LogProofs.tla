----------------------------- MODULE LogProofs ------------------------------
(***************************************************************************)
(* Proofs about Log for every number of processes, blocks and values: the  *)
(* initial states satisfy the inductive invariant IInv, and the steps of   *)
(* an FS call (begin_op, log_write, end_op) preserve it.                   *)
(***************************************************************************)
EXTENDS Log, FiniteSetTheorems, TLAPS

(* What log_write()'s append does to the header's list of blocks.          *)
LEMMA RangeAppend ==
  ASSUME NEW S, NEW s \in Seq(S), NEW x \in S
  PROVE  /\ Append(s, x) \in Seq(S)
         /\ Len(Append(s, x)) = Len(s) + 1
         /\ Range(Append(s, x)) = Range(s) \cup {x}
         /\ \A i \in DOMAIN s : Append(s, x)[i] = s[i]
         /\ DOMAIN Append(s, x) = 1 .. (Len(s) + 1)
         /\ Append(s, x)[Len(s) + 1] = x
<1>1. DOMAIN Append(s, x) = 1 .. (Len(s) + 1) /\ DOMAIN s = 1 .. Len(s)
  OBVIOUS
<1>2. /\ \A i \in DOMAIN s : Append(s, x)[i] = s[i]
      /\ Append(s, x)[Len(s) + 1] = x
  OBVIOUS
<1>3. Range(Append(s, x)) = Range(s) \cup {x}
  <2>1. ASSUME NEW y \in Range(Append(s, x)) PROVE y \in Range(s) \cup {x}
    <3>1. PICK i \in 1 .. (Len(s) + 1) : y = Append(s, x)[i]
      BY <1>1 DEF Range
    <3>2. CASE i = Len(s) + 1
      BY <3>1, <3>2, <1>2
    <3>3. CASE i \in 1 .. Len(s)
      BY <3>1, <3>3, <1>1, <1>2 DEF Range
    <3> QED BY <3>2, <3>3
  <2>2. x \in Range(Append(s, x))
    BY <1>1, <1>2 DEF Range
  <2>3. ASSUME NEW y \in Range(s) PROVE y \in Range(Append(s, x))
    BY <1>1, <1>2 DEF Range
  <2> QED BY <2>1, <2>2, <2>3
<1> QED BY <1>1, <1>2, <1>3

(* A set of (process, slot) tokens has at most m tokens per process.       *)
LEMMA ProductBound ==
  ASSUME NEW A, IsFiniteSet(A), NEW m \in Nat, NEW T \in SUBSET (A \X (1 .. m))
  PROVE  /\ IsFiniteSet(T)
         /\ Cardinality(T) \in Nat
         /\ Cardinality(T) <= Cardinality(A) * m
<1>1. IsFiniteSet(1 .. m) /\ Cardinality(1 .. m) = m
  BY FS_Interval
<1>2. /\ IsFiniteSet(A \X (1 .. m))
      /\ Cardinality(A \X (1 .. m)) = Cardinality(A) * Cardinality(1 .. m)
  BY <1>1, FS_Product, Zenon
<1>3. Cardinality(A \X (1 .. m)) = Cardinality(A) * m
  BY <1>1, <1>2, Zenon
<1>4. /\ IsFiniteSet(T)
      /\ Cardinality(T) <= Cardinality(A \X (1 .. m))
  BY <1>2, FS_Subset, Zenon
<1>5. Cardinality(T) \in Nat
  BY <1>4, FS_CardinalityType
<1> QED BY <1>3, <1>4, <1>5, Zenon

(* Removing an element of a finite set takes one off its size.             *)
LEMMA RemoveOne ==
  ASSUME NEW T, IsFiniteSet(T), NEW x \in T
  PROVE  Cardinality(T \ {x}) = Cardinality(T) - 1
BY FS_RemoveElement

(* The calls in progress, which log.outstanding counts, are finitely many. *)
LEMMA ActiveFinite ==
  /\ IsFiniteSet(Active)
  /\ Cardinality(Active) \in Nat
  /\ Cardinality(Active) = 0 <=> Active = {}
<1>1. Active \in SUBSET Op BY DEF Active
<1> QED BY <1>1, LogAssumption, FS_Subset, FS_CardinalityType, FS_EmptySet

(* A freshly made file system, about to boot, satisfies the invariant.     *)
LEMMA InitInv == LogHasRoom /\ Init => IInv
<1> SUFFICES ASSUME LogHasRoom, Init PROVE IInv
  OBVIOUS
<1> USE LogAssumption DEF Init, Home, NoBlock
<1>1. TypeOK
  <2>1. head \in Seq(Home) /\ lh \in Seq(Home) OBVIOUS
  <2>2. cache \in [Home -> Val \cup {NoBuf}] OBVIOUS
  <2>3. wrote \in [Op -> SUBSET Home] OBVIOUS
  <2>4. wbuf \in [Op -> Home \cup {NoBlock}] OBVIOUS
  <2>5. committing \in BOOLEAN BY Zenon
  <2>6. disk \in [1 .. (FSSIZE - 1) -> Val] OBVIOUS
  <2>7. pc \in [Op -> {"begin", "asleep", "inop", "log_write", "log_append",
                    "write_log", "write_head", "install_trans", "clear",
                    "committed"}] OBVIOUS
  <2> QED BY <2>1, <2>2, <2>3, <2>4, <2>5, <2>6, <2>7 DEF TypeOK
<1>2. Active = {} BY DEF Active
<1>3. CountInv BY <1>2, FS_EmptySet DEF CountInv, Committing
<1>4. HoldInv BY DEF HoldInv
<1>5. SpaceInv
  <2>1. Len(lh) = 0 /\ Len(head) = 0 OBVIOUS
  <2> QED BY <1>2, <2>1, FS_EmptySet DEF SpaceInv, LogHasRoom
<1>6. BufInv BY DEF BufInv, Injective, Range, Recyclable, bread
<1>7. CommitInv BY DEF CommitInv, QuietInv, BootInv
<1> QED BY <1>1, <1>3, <1>4, <1>5, <1>6, <1>7 DEF IInv
-----------------------------------------------------------------------------
(* What a step that leaves some variables alone preserves.                 *)

(* A step that moves no log space keeps the space accounting.              *)
LEMMA SpaceFrame ==
  ASSUME SpaceInv, Active' = Active, UNCHANGED <<wrote, lh, wbuf, head, boot>>
  PROVE  SpaceInv'
<1>1. Owed' = Owed BY DEF Owed
<1> QED BY <1>1, Zenon DEF SpaceInv

(* The space accounting of one call in progress.                           *)
LEMMA SpaceOf ==
  ASSUME SpaceInv, NEW o \in Active
  PROVE  /\ wrote[o] \subseteq Range(lh)
         /\ Cardinality(wrote[o]) <= OpBlocks
         /\ wbuf[o] # NoBlock => Cardinality(wrote[o] \cup {wbuf[o]}) <= OpBlocks
BY Zenon DEF SpaceInv

(* A step that touches no buffer, disk block or header keeps the buffers.  *)
LEMMA BufFrame ==
  ASSUME BufInv, UNCHANGED <<lh, head, dirty, cache, wbuf, disk>>
  PROVE  BufInv'
BY DEF BufInv, Injective, Range, Recyclable, bread

(* Steps of processes outside commit() while the kernel is up.             *)
LEMMA StepFrame ==
  ASSUME boot = "up", CommitInv, UNCHANGED <<head, tail, lh, disk, cache, dirty>>,
         NEW p \in Op, pc'[p] = pc[p] \/ pc'[p] \notin Committing
  PROVE  StepInv(pc[p])'
<1>1. CASE pc'[p] = pc[p]
  BY <1>1 DEF CommitInv, StepInv, Logged, Installed, Pinned, bread
<1>2. CASE pc'[p] \notin Committing
  BY <1>2 DEF StepInv, Committing
<1> QED BY <1>1, <1>2

(* While log.committing is clear no process is at a step of commit().      *)
LEMMA NoCommitter ==
  ASSUME CountInv', ~committing', NEW p \in Op
  PROVE  StepInv(pc[p])'
BY DEF CountInv, StepInv, Committing

-----------------------------------------------------------------------------
(* One lemma per action: it preserves the inductive invariant.             *)

(* begin_op() going to sleep preserves the invariant.                      *)
LEMMA BeginOpSleepInv ==
  ASSUME LogHasRoom, IInv, NEW o \in Op, begin_op_sleep(o)
  PROVE  IInv'
<1> USE LogAssumption DEF Home, NoBlock
<1>0. Active' = Active BY DEF IInv, TypeOK, Active, begin_op_sleep
<1>1. TypeOK'
  BY DEF IInv, TypeOK, begin_op_sleep
<1>2. CountInv'
  BY <1>0 DEF IInv, TypeOK, CountInv, Committing, begin_op_sleep
<1>3. HoldInv'
  BY DEF IInv, TypeOK, HoldInv, begin_op_sleep
<1>4. SpaceInv'
  BY <1>0, SpaceFrame DEF IInv, begin_op_sleep
<1>5. BufInv'
  BY BufFrame DEF IInv, begin_op_sleep
<1>6. CommitInv'
  <2>1. \A p \in Op : pc'[p] = pc[p] \/ pc'[p] \notin Committing
    BY DEF IInv, TypeOK, begin_op_sleep, Committing
  <2>2. \A p \in Op : StepInv(pc[p])'
    BY <2>1, StepFrame DEF IInv, begin_op_sleep
  <2>3. QuietInv'
    BY DEF IInv, CommitInv, QuietInv, Pinned, begin_op_sleep
  <2>4. BootInv'
    BY DEF BootInv, begin_op_sleep
  <2> QED BY <2>2, <2>3, <2>4 DEF CommitInv
<1> QED BY <1>1, <1>2, <1>3, <1>4, <1>5, <1>6 DEF IInv

(* begin_op() admitting a call preserves it: it reserves MAXOPBLOCKS.      *)
LEMMA BeginOpInv ==
  ASSUME LogHasRoom, IInv, NEW o \in Op, begin_op(o)
  PROVE  IInv'
<1> USE LogAssumption DEF Home, NoBlock
<1>0. Active' = Active \cup {o} /\ o \notin Active
  BY DEF IInv, TypeOK, Active, begin_op
<1>1. TypeOK'
  BY DEF IInv, TypeOK, begin_op
<1>2. CountInv'
  <2>1. Cardinality(Active') = Cardinality(Active) + 1
    BY <1>0, ActiveFinite, FS_AddElement, Zenon
  <2>2. ~committing /\ ~committing'
    BY DEF IInv, TypeOK, begin_op, MustWait
  <2> QED
    BY <1>0, <2>1, <2>2 DEF IInv, TypeOK, CountInv, Committing, begin_op
<1>3. HoldInv'
  BY Zenon DEF IInv, TypeOK, HoldInv, begin_op
<1>4. SpaceInv'
  <2>1. wrote'[o] = {} /\ wbuf'[o] = NoBlock
    BY Zenon DEF IInv, TypeOK, HoldInv, begin_op
  <2>2. \A p \in Active : wrote'[p] = wrote[p] /\ wbuf'[p] = wbuf[p]
    BY <1>0 DEF IInv, TypeOK, begin_op, Active
  <2>3. Owed' \subseteq Active' \X (1 .. MAXOPBLOCKS)
    BY DEF Owed
  <2>4. /\ IsFiniteSet(Active') /\ Cardinality(Active') = outstanding + 1
    BY <1>0, ActiveFinite, FS_AddElement DEF IInv, CountInv
  <2>7. /\ Cardinality(Owed') \in Nat
        /\ Cardinality(Owed') <= (outstanding + 1) * MAXOPBLOCKS
    BY <2>3, <2>4, ProductBound
  <2>8. Len(lh) + (outstanding + 1) * MAXOPBLOCKS <= LOGSIZE
    BY DEF begin_op, MustWait, IInv, TypeOK
  <2>9. Len(lh') + Cardinality(Owed') <= LOGSIZE
    BY <2>7, <2>8 DEF begin_op, IInv, TypeOK
  <2>10. lh' = lh /\ head' = head /\ boot' = boot
    BY DEF begin_op
  <2>11. ASSUME NEW p \in Active'
         PROVE  /\ wrote'[p] \subseteq Range(lh')
                /\ Cardinality(wrote'[p]) <= OpBlocks
                /\ wbuf'[p] # NoBlock =>
                     Cardinality(wrote'[p] \cup {wbuf'[p]}) <= OpBlocks
    <3>1. CASE p = o
      BY <3>1, <2>1, FS_EmptySet
    <3>2. CASE p # o
      BY <3>2, <1>0, <2>2, <2>10, SpaceOf DEF IInv
    <3> QED BY <3>1, <3>2
  <2> QED
    BY <2>9, <2>10, <2>11 DEF IInv, SpaceInv
<1>5. BufInv'
  BY BufFrame DEF IInv, begin_op
<1>6. CommitInv'
  <2>1. ~committing' BY DEF IInv, TypeOK, begin_op, MustWait
  <2>2. \A p \in Op : StepInv(pc[p])'
    BY <1>2, <2>1, NoCommitter
  <2>3. QuietInv'
    BY DEF IInv, TypeOK, CommitInv, QuietInv, Pinned, begin_op
  <2>4. BootInv'
    BY DEF BootInv, begin_op
  <2> QED BY <2>2, <2>3, <2>4 DEF CommitInv
<1> QED BY <1>1, <1>2, <1>3, <1>4, <1>5, <1>6 DEF IInv

(* A call in progress rules out a commit.                                  *)
LEMMA ActiveNotCommitting ==
  ASSUME CountInv, NEW o \in Active
  PROVE  ~committing /\ outstanding >= 1 /\ outstanding \in Nat
BY ActiveFinite DEF CountInv

(* Changing a held buffer preserves it.                                    *)
LEMMA ModifyInv ==
  ASSUME LogHasRoom, IInv, NEW o \in Op, NEW b \in Home, NEW v \in Val,
         modify(o, b, v)
  PROVE  IInv'
<1> USE LogAssumption DEF Home, NoBlock
<1>0. Active' = Active /\ o \in Active
  BY DEF IInv, TypeOK, Active, modify
<1>1. TypeOK'
  BY DEF IInv, TypeOK, modify
<1>2. CountInv'
  BY <1>0 DEF IInv, TypeOK, CountInv, Committing, modify
<1>3. HoldInv'
  BY DEF IInv, TypeOK, HoldInv, modify
<1>4. SpaceInv'
  <2>1. Owed' = Owed BY <1>0 DEF Owed, modify
  <2>2. /\ wbuf'[o] = b /\ wrote' = wrote /\ lh' = lh /\ head' = head /\ boot' = boot
        /\ \A p \in Active : p # o => wbuf'[p] = wbuf[p]
        /\ Cardinality(wrote[o] \cup {b}) <= OpBlocks
    BY DEF IInv, TypeOK, modify, Active
  <2>3. ASSUME NEW p \in Active
        PROVE  wbuf'[p] # NoBlock => Cardinality(wrote[p] \cup {wbuf'[p]}) <= OpBlocks
    <3>1. CASE p = o BY <3>1, <2>2
    <3>2. CASE p # o BY <3>2, <2>2, SpaceOf DEF IInv
    <3> QED BY <3>1, <3>2
  <2> QED
    BY <1>0, <2>1, <2>2, <2>3, Zenon DEF IInv, SpaceInv
<1>5. BufInv'
  <2>1. wbuf[o] = NoBlock BY DEF IInv, HoldInv, modify
  <2>2. ASSUME NEW x \in Home, Recyclable(x)' PROVE bread(x)' = disk'[x]
    <3>1. x # b /\ Recyclable(x)
      BY <2>1, <2>2 DEF Recyclable, modify, IInv, TypeOK
    <3> QED BY <3>1 DEF IInv, TypeOK, BufInv, bread, modify
  <2>3. \A x \in dirty' : cache'[x] # NoBuf
    BY DEF IInv, TypeOK, BufInv, modify
  <2>4. \A p \in Op : wbuf'[p] # NoBlock => cache'[wbuf'[p]] # NoBuf
    BY DEF IInv, TypeOK, BufInv, modify
  <2> QED
    BY <2>2, <2>3, <2>4 DEF IInv, BufInv, Injective, Range, modify
<1>6. CommitInv'
  <2>1. ~committing' BY <1>0, ActiveNotCommitting DEF IInv, modify
  <2>2. \A p \in Op : StepInv(pc[p])'
    BY <1>2, <2>1, NoCommitter
  <2>3. QuietInv'
    BY DEF IInv, TypeOK, CommitInv, QuietInv, Pinned, modify
  <2>4. BootInv'
    BY DEF BootInv, modify
  <2> QED BY <2>2, <2>3, <2>4 DEF CommitInv
<1> QED BY <1>1, <1>2, <1>3, <1>4, <1>5, <1>6 DEF IInv

(* log_write()'s size test preserves it: it never panics.                  *)
LEMMA LogWriteCheckInv ==
  ASSUME LogHasRoom, IInv, NEW o \in Op, log_write_check(o)
  PROVE  IInv'
<1> USE LogAssumption DEF Home, NoBlock
<1>a. o \in Active
  BY DEF IInv, TypeOK, Active, log_write_check
<1>b. ~TooBig /\ ~(outstanding < 1)
  BY <1>a, ActiveNotCommitting DEF IInv, TypeOK, SpaceInv, TooBig
<1>c. pc' = [pc EXCEPT ![o] = "log_append"] /\ boot' = boot
  BY <1>b DEF log_write_check
<1>0. Active' = Active
  BY <1>a, <1>c DEF IInv, TypeOK, Active
<1>1. TypeOK'
  BY <1>c DEF IInv, TypeOK, log_write_check
<1>2. CountInv'
  BY <1>0, <1>c DEF IInv, TypeOK, CountInv, Committing, log_write_check
<1>3. HoldInv'
  BY <1>c DEF IInv, TypeOK, HoldInv, log_write_check
<1>4. SpaceInv'
  BY <1>0, <1>c, SpaceFrame DEF IInv, log_write_check
<1>5. BufInv'
  BY BufFrame DEF IInv, log_write_check
<1>6. CommitInv'
  <2>1. ~committing' BY <1>a, ActiveNotCommitting DEF IInv, log_write_check
  <2>2. \A p \in Op : StepInv(pc[p])'
    BY <1>2, <2>1, NoCommitter
  <2>3. QuietInv'
    BY <1>c DEF IInv, TypeOK, CommitInv, QuietInv, Pinned, log_write_check
  <2>4. BootInv'
    BY <1>c DEF BootInv, log_write_check
  <2> QED BY <2>2, <2>3, <2>4 DEF CommitInv
<1> QED BY <1>1, <1>2, <1>3, <1>4, <1>5, <1>6 DEF IInv

(* A column of tokens bounds the size of the set that contains it.         *)
LEMMA ColumnBound ==
  ASSUME NEW T, IsFiniteSet(T), NEW x, NEW k \in Nat, {x} \X (1 .. k) \subseteq T
  PROVE  k <= Cardinality(T)
<1>1. IsFiniteSet(1 .. k) /\ Cardinality(1 .. k) = k
  BY FS_Interval
<1>2. IsFiniteSet({x}) /\ Cardinality({x}) = 1
  BY FS_Singleton
<1>3. Cardinality({x} \X (1 .. k)) = Cardinality({x}) * Cardinality(1 .. k)
  BY <1>1, <1>2, FS_Product, Zenon
<1>4. Cardinality({x} \X (1 .. k)) = 1 * k
  BY <1>1, <1>2, <1>3, Zenon
<1>5. Cardinality({x} \X (1 .. k)) <= Cardinality(T)
  BY FS_Subset, Zenon
<1>6. 1 * k = k OBVIOUS
<1> QED BY <1>4, <1>5, <1>6, Zenon

(* The log space still owed is finite.                                     *)
LEMMA OwedFinite == IsFiniteSet(Owed) /\ Cardinality(Owed) \in Nat
<1>1. Owed \in SUBSET (Active \X (1 .. MAXOPBLOCKS)) BY DEF Owed
<1> QED BY <1>1, ActiveFinite, ProductBound, LogAssumption

(* A call in progress has written finitely many blocks.                    *)
LEMMA WroteFinite ==
  ASSUME TypeOK, NEW o \in Op
  PROVE  IsFiniteSet(wrote[o]) /\ Cardinality(wrote[o]) \in Nat
<1>1. wrote[o] \in SUBSET Home BY DEF TypeOK
<1>2. IsFiniteSet(Home) BY LogAssumption, FS_Interval DEF Home
<1> QED BY <1>1, <1>2, FS_Subset, FS_CardinalityType

(* ... and so it has after the next step.                                  *)
LEMMA WroteFiniteNext ==
  ASSUME TypeOK', NEW o \in Op
  PROVE  IsFiniteSet(wrote'[o]) /\ Cardinality(wrote'[o]) \in Nat
<1>1. wrote'[o] \in SUBSET Home BY DEF TypeOK
<1>2. IsFiniteSet(Home) BY LogAssumption, FS_Interval DEF Home
<1> QED BY <1>1, <1>2, FS_Subset, FS_CardinalityType

(* log_write() of a block not yet logged: the call uses up one token.      *)
LEMMA AppendUsesToken ==
  ASSUME LogHasRoom, IInv, NEW o \in Op, log_write(o), wbuf[o] \notin Range(lh)
  PROVE  /\ Cardinality(wrote'[o]) = Cardinality(wrote[o]) + 1
         /\ Cardinality(Owed') = Cardinality(Owed) - 1
         /\ Len(lh) + MAXOPBLOCKS - Cardinality(wrote[o]) <= LOGSIZE
         /\ Cardinality(wrote[o]) + 1 <= OpBlocks
<1> USE LogAssumption DEF Home, NoBlock
<1> DEFINE c == Cardinality(wrote[o])
<1>1. o \in Active /\ Active' = Active
  BY DEF IInv, TypeOK, Active, log_write
<1>2. wbuf[o] \in Home /\ wbuf[o] # NoBlock /\ wbuf[o] \notin wrote[o]
  <2>1. pc[o] = "log_append" BY DEF log_write
  <2>2. wbuf[o] # NoBlock BY <2>1 DEF IInv, HoldInv
  <2>3. wrote[o] \subseteq Range(lh) BY <1>1, SpaceOf, Zenon DEF IInv
  <2> QED BY <2>2, <2>3 DEF IInv, TypeOK
<1>3. c \in Nat /\ Cardinality(wrote[o] \cup {wbuf[o]}) = c + 1
  BY <1>2, WroteFinite, FS_AddElement, Zenon DEF IInv
<1>4. c + 1 <= OpBlocks /\ OpBlocks < MAXOPBLOCKS
  <2>1. Cardinality(wrote[o] \cup {wbuf[o]}) <= OpBlocks
    BY <1>1, <1>2, SpaceOf DEF IInv
  <2> QED BY <2>1, <1>3 DEF LogHasRoom
<1>5. /\ wrote'[o] = wrote[o] \cup {wbuf[o]}
      /\ \A p \in Active : p # o => wrote'[p] = wrote[p]
  BY DEF IInv, TypeOK, log_write, Active
<1>6. MAXOPBLOCKS - c \in 1 .. MAXOPBLOCKS
  BY <1>3, <1>4
<1>7. <<o, MAXOPBLOCKS - c>> \in Owed
  BY <1>1, <1>3, <1>6 DEF Owed
<1>8. Owed' = Owed \ {<<o, MAXOPBLOCKS - c>>}
  <2>1. ASSUME NEW t \in Active \X (1 .. MAXOPBLOCKS)
        PROVE  t \in Owed' <=> t \in Owed /\ t # <<o, MAXOPBLOCKS - c>>
    <3>1. t = <<t[1], t[2]>> /\ t[1] \in Active /\ t[2] \in 1 .. MAXOPBLOCKS
      BY <2>1
    <3>2. CASE t[1] = o
      <4>1. t \in Owed' <=> t[2] + (c + 1) <= MAXOPBLOCKS
        BY <1>1, <1>3, <1>5, <3>1, <3>2, Zenon DEF Owed
      <4>2. t \in Owed <=> t[2] + c <= MAXOPBLOCKS
        BY <3>1, <3>2 DEF Owed
      <4>3. t # <<o, MAXOPBLOCKS - c>> <=> t[2] # MAXOPBLOCKS - c
        BY <3>1, <3>2
      <4> QED BY <4>1, <4>2, <4>3, <3>1, <1>3
    <3>3. CASE t[1] # o
      BY <1>1, <1>5, <3>1, <3>3 DEF Owed
    <3> QED BY <3>2, <3>3
  <2>2. Owed \subseteq Active \X (1 .. MAXOPBLOCKS) BY DEF Owed
  <2>3. Owed' \subseteq Active \X (1 .. MAXOPBLOCKS) BY <1>1 DEF Owed
  <2> QED BY <2>1, <2>2, <2>3
<1>9. Cardinality(Owed') = Cardinality(Owed) - 1
  <2>1. Cardinality(Owed \ {<<o, MAXOPBLOCKS - c>>}) = Cardinality(Owed) - 1
    BY <1>7, OwedFinite, RemoveOne, Zenon
  <2> QED BY <2>1, <1>8, Zenon
<1>10. {o} \X (1 .. (MAXOPBLOCKS - c)) \subseteq Owed
  BY <1>1, <1>3, <1>4 DEF Owed
<1>11. MAXOPBLOCKS - c <= Cardinality(Owed)
  <2>1. MAXOPBLOCKS - c \in Nat BY <1>6
  <2> QED BY <2>1, <1>10, OwedFinite, ColumnBound, Zenon
<1>12. Len(lh) + Cardinality(Owed) <= LOGSIZE /\ Len(lh) \in Nat
  BY <1>1 DEF IInv, TypeOK, SpaceInv
<1> QED BY <1>3, <1>4, <1>5, <1>9, <1>11, <1>12, OwedFinite

(* log_write() appending or absorbing a block preserves the invariant.     *)
LEMMA LogWriteInv ==
  ASSUME LogHasRoom, IInv, NEW o \in Op, log_write(o)
  PROVE  IInv'
<1> USE LogAssumption DEF Home, NoBlock
<1>0. Active' = Active /\ o \in Active
  BY DEF IInv, TypeOK, Active, log_write
<1>a. wbuf[o] \in Home /\ wbuf[o] # NoBlock
  BY DEF IInv, TypeOK, HoldInv, log_write
<1>b. lh \in Seq(Home) /\ DOMAIN lh = 1 .. Len(lh) /\ Len(lh) \in Nat
  BY DEF IInv, TypeOK
<1>c. /\ lh' \in Seq(Home)
      /\ Range(lh') = Range(lh) \cup {wbuf[o]}
      /\ Injective(lh')
      /\ DOMAIN lh \subseteq DOMAIN lh' /\ \A i \in DOMAIN lh : lh'[i] = lh[i]
      /\ \A i \in DOMAIN lh' : i \notin DOMAIN lh => lh'[i] = wbuf[o]
  <2>1. CASE wbuf[o] \in Range(lh)
    BY <2>1, <1>b DEF IInv, BufInv, log_write, Injective
  <2>2. CASE wbuf[o] \notin Range(lh)
    <3>1. lh' = Append(lh, wbuf[o]) BY <2>2 DEF log_write
    <3>2. /\ lh' \in Seq(Home) /\ Range(lh') = Range(lh) \cup {wbuf[o]}
          /\ DOMAIN lh' = 1 .. (Len(lh) + 1)
          /\ \A i \in DOMAIN lh : lh'[i] = lh[i]
          /\ lh'[Len(lh) + 1] = wbuf[o]
      BY <3>1, <1>a, <1>b, RangeAppend
    <3>3. \A i \in DOMAIN lh : lh[i] # wbuf[o]
      BY <2>2 DEF Range
    <3>4. Injective(lh)
      BY DEF IInv, BufInv
    <3>5. \A i \in DOMAIN lh' : i \in DOMAIN lh \/ i = Len(lh) + 1
      BY <1>b, <3>2
    <3>6. Injective(lh')
      <4> SUFFICES ASSUME NEW i \in DOMAIN lh', NEW j \in DOMAIN lh', lh'[i] = lh'[j]
                   PROVE  i = j
        BY DEF Injective
      <4>1. CASE i \in DOMAIN lh /\ j \in DOMAIN lh
        BY <4>1, <3>2, <3>4 DEF Injective
      <4>2. CASE i = Len(lh) + 1 /\ j = Len(lh) + 1
        BY <4>2
      <4>3. CASE i \in DOMAIN lh /\ j = Len(lh) + 1
        BY <4>3, <3>2, <3>3
      <4>4. CASE i = Len(lh) + 1 /\ j \in DOMAIN lh
        BY <4>4, <3>2, <3>3
      <4> QED BY <3>5, <4>1, <4>2, <4>3, <4>4
    <3>7. DOMAIN lh \subseteq DOMAIN lh'
      BY <1>b, <3>2
    <3> QED BY <3>2, <3>5, <3>6, <3>7
  <2> QED BY <2>1, <2>2
<1>1. TypeOK'
  BY <1>a, <1>c, Zenon DEF IInv, TypeOK, log_write
<1>2. CountInv'
  BY <1>0 DEF IInv, TypeOK, CountInv, Committing, log_write
<1>3. HoldInv'
  BY SMTT(30) DEF IInv, TypeOK, HoldInv, log_write
<1>4. SpaceInv'
  <2>1. /\ wrote'[o] = wrote[o] \cup {wbuf[o]} /\ wbuf'[o] = NoBlock
        /\ \A p \in Active : p # o => wrote'[p] = wrote[p] /\ wbuf'[p] = wbuf[p]
        /\ head' = head /\ boot' = boot
    BY DEF IInv, TypeOK, log_write, Active
  <2>2. ASSUME NEW p \in Active'
        PROVE  /\ wrote'[p] \subseteq Range(lh')
               /\ Cardinality(wrote'[p]) <= OpBlocks
               /\ wbuf'[p] # NoBlock =>
                    Cardinality(wrote'[p] \cup {wbuf'[p]}) <= OpBlocks
    <3>1. CASE p = o
      BY <3>1, <2>1, <1>0, <1>a, <1>c, SpaceOf, Zenon DEF IInv
    <3>2. CASE p # o
      BY <3>2, <1>0, <2>1, <1>c, SpaceOf, Zenon DEF IInv
    <3> QED BY <3>1, <3>2
  <2>3. /\ Len(lh') + Cardinality(Owed') <= LOGSIZE
        /\ Len(lh') < logsize - 1 /\ Len(lh') < LOGSIZE
    <3>1. CASE wbuf[o] \notin Range(lh)
      <4>1. Len(lh') = Len(lh) + 1
        BY <3>1, <1>a, <1>b, RangeAppend DEF log_write
      <4>2. Len(lh) + Cardinality(Owed) <= LOGSIZE
        BY <1>0 DEF IInv, SpaceInv
      <4>3. Cardinality(wrote[o]) \in Nat
        BY WroteFinite DEF IInv
      <4> QED
        BY <3>1, <4>1, <4>2, <4>3, <1>b, AppendUsesToken, OwedFinite, SMTT(30) DEF LogHasRoom
    <3>2. CASE wbuf[o] \in Range(lh)
      <4>1. lh' = lh BY <3>2 DEF log_write
      <4>2. Cardinality(wrote[o]) <= Cardinality(wrote'[o])
        <5>1. IsFiniteSet(wrote[o] \cup {wbuf[o]})
          BY WroteFinite, FS_AddElement, Zenon DEF IInv
        <5>2. wrote[o] \in SUBSET (wrote[o] \cup {wbuf[o]})
          OBVIOUS
        <5>3. Cardinality(wrote[o]) <= Cardinality(wrote[o] \cup {wbuf[o]})
          BY <5>1, <5>2, FS_Subset, Zenon
        <5> QED BY <5>3, <2>1
      <4>3. Owed' \in SUBSET Owed
        <5>1. ASSUME NEW t \in Owed' PROVE t \in Owed
          <6>1. /\ t \in Active \X (1 .. MAXOPBLOCKS)
                /\ t[2] + Cardinality(wrote'[t[1]]) <= MAXOPBLOCKS
            BY <5>1, <1>0 DEF Owed
          <6>2. t[1] \in Op /\ t[1] \in Active /\ t[2] \in Nat
            BY <6>1 DEF Active
          <6>3. Cardinality(wrote[t[1]]) <= Cardinality(wrote'[t[1]])
            <7>1. CASE t[1] = o BY <7>1, <4>2
            <7>2. CASE t[1] # o
              <8>1. Cardinality(wrote[t[1]]) \in Nat
                BY <6>2, WroteFinite DEF IInv
              <8> QED BY <7>2, <8>1, <6>2, <2>1
            <7> QED BY <7>1, <7>2
          <6>4. /\ Cardinality(wrote[t[1]]) \in Nat
                /\ Cardinality(wrote'[t[1]]) \in Nat
            BY <6>2, <1>1, WroteFinite, WroteFiniteNext DEF IInv
          <6> QED BY <6>1, <6>2, <6>3, <6>4 DEF Owed
        <5> QED BY <5>1
      <4>4. Cardinality(Owed') <= Cardinality(Owed) /\ Cardinality(Owed') \in Nat
        BY <4>3, OwedFinite, FS_Subset, FS_CardinalityType
      <4> QED
        BY <4>1, <4>4, <1>0, <1>b, OwedFinite DEF IInv, SpaceInv
    <3> QED BY <3>1, <3>2
  <2> QED
    BY <2>1, <2>2, <2>3 DEF IInv, SpaceInv
<1>5. BufInv'
  <2>1. ASSUME NEW x \in Home, Recyclable(x)' PROVE bread(x)' = disk'[x]
    <3>1. Recyclable(x)
      <4>1. x \notin dirty /\ x # wbuf[o]
        BY <2>1 DEF Recyclable, log_write
      <4>2. \A p \in Op : wbuf[p] # x
        BY <2>1, <4>1 DEF Recyclable, log_write, IInv, TypeOK
      <4> QED BY <4>1, <4>2 DEF Recyclable
    <3> QED BY <3>1 DEF IInv, BufInv, bread, log_write
  <2>2. \A x \in dirty' : cache'[x] # NoBuf
    BY <1>a DEF IInv, BufInv, log_write
  <2>3. \A p \in Op : wbuf'[p] # NoBlock => cache'[wbuf'[p]] # NoBuf
    BY DEF IInv, TypeOK, BufInv, log_write
  <2>4. Injective(head)' /\ dirty' \subseteq Range(lh')
    BY <1>c DEF IInv, BufInv, log_write, Injective
  <2>5. Injective(lh)'
    BY <1>c DEF Injective
  <2> QED
    BY <2>1, <2>2, <2>3, <2>4, <2>5 DEF BufInv
<1>6. CommitInv'
  <2>1. ~committing /\ ~committing' /\ outstanding >= 1 /\ outstanding' = outstanding
    BY <1>0, ActiveNotCommitting DEF IInv, log_write
  <2>2. \A p \in Op : StepInv(pc[p])'
    BY <1>2, <2>1, NoCommitter
  <2>3. QuietInv'
    <3>1. head = <<>> /\ Pinned(1)
      BY <2>1 DEF IInv, CommitInv, QuietInv, log_write
    <3>2. Pinned(1)'
      BY <3>1, <1>c DEF Pinned, log_write
    <3> QED BY <2>1, <3>1, <3>2 DEF QuietInv, log_write, IInv, TypeOK
  <2>4. BootInv'
    BY DEF BootInv, log_write
  <2> QED BY <2>2, <2>3, <2>4 DEF CommitInv
<1> QED BY <1>1, <1>2, <1>3, <1>4, <1>5, <1>6 DEF IInv

(* end_op() preserves it, whether or not the call was the last one.        *)
LEMMA EndOpInv ==
  ASSUME LogHasRoom, IInv, NEW o \in Op, end_op(o)
  PROVE  IInv'
<1> USE LogAssumption DEF Home, NoBlock
<1>a. o \in Active /\ ~committing /\ outstanding >= 1
  <2>1. o \in Active BY DEF Active, end_op
  <2> QED BY <2>1, ActiveNotCommitting DEF IInv
<1>b. /\ boot = "up" /\ boot' = "up" /\ outstanding' = outstanding - 1
      /\ UNCHANGED <<disk, head, cache, dirty, lh, wbuf, wrote>>
  BY <1>a DEF end_op
<1>c. CASE outstanding = 1
  <2>a. /\ committing' = TRUE /\ tail' = 1
        /\ pc' = [pc EXCEPT ![o] = IF lh = <<>> THEN "committed" ELSE "write_log"]
    BY <1>a, <1>c DEF end_op
  <2>b. Active = {o}
    <3>1. Cardinality(Active) = 1
      BY <1>c DEF IInv, CountInv
    <3>2. PICK x : Active = {x}
      BY <3>1, ActiveFinite, FS_Singleton
    <3> QED BY <3>2, <1>a
  <2>0. Active' = {}
    BY <2>a, <2>b DEF IInv, TypeOK, Active
  <2>1. TypeOK'
    BY <1>b, <2>a, <1>a DEF IInv, TypeOK
  <2>2. CountInv'
    <3>1. \A p \in Op : p # o => pc[p] \notin Committing /\ pc'[p] = pc[p]
      BY <1>a, <2>a DEF IInv, TypeOK, CountInv
    <3>2. pc'[o] \in Committing
      BY <2>a DEF IInv, TypeOK, Committing
    <3> QED BY <1>b, <1>c, <2>a, <2>0, <3>1, <3>2, FS_EmptySet DEF CountInv
  <2>3. HoldInv'
    BY <1>b, <2>a, SMTT(30) DEF IInv, TypeOK, HoldInv, end_op
  <2>4. SpaceInv'
    BY <1>b, <2>0 DEF IInv, SpaceInv
  <2>5. BufInv'
    BY <1>b, BufFrame DEF IInv
  <2>6. CommitInv'
    <3>1. head = <<>> /\ Pinned(1)
      BY <1>a, <1>b DEF IInv, CommitInv, QuietInv
    <3>2. ASSUME NEW p \in Op PROVE StepInv(pc[p])'
      <4>1. CASE p # o
        <5>1. pc'[p] \notin Committing
          BY <4>1, <1>a, <2>a DEF IInv, TypeOK, CountInv
        <5> QED BY <5>1 DEF StepInv, Committing
      <4>2. CASE p = o /\ lh = <<>>
        <5>1. pc'[p] = "committed"
          BY <4>2, <2>a DEF IInv, TypeOK
        <5> QED BY <5>1, <4>2, <3>1, <1>b DEF StepInv
      <4>3. CASE p = o /\ lh # <<>>
        <5>1. pc'[p] = "write_log"
          BY <4>3, <2>a DEF IInv, TypeOK
        <5>2. Pinned(1)' /\ Logged(tail - 1)' /\ tail' <= Len(lh')
          <6>1. Len(lh) >= 1 BY <4>3 DEF IInv, TypeOK
          <6> QED BY <6>1, <3>1, <1>b, <2>a DEF Pinned, Logged
        <5> QED BY <5>1, <5>2, <3>1, <1>b DEF StepInv
      <4> QED BY <4>1, <4>2, <4>3
    <3>3. QuietInv' BY <2>a DEF QuietInv
    <3>4. BootInv' BY <1>b DEF BootInv
    <3> QED BY <3>2, <3>3, <3>4 DEF CommitInv
  <2> QED BY <2>1, <2>2, <2>3, <2>4, <2>5, <2>6 DEF IInv
<1>d. CASE outstanding # 1
  <2>a. /\ committing' = committing /\ tail' = tail
        /\ pc' = Wakeup([pc EXCEPT ![o] = "begin"])
    BY <1>a, <1>d DEF end_op
  <2>b. /\ pc'[o] = "begin"
        /\ \A p \in Op : p # o =>
             pc'[p] = pc[p] \/ (pc[p] = "asleep" /\ pc'[p] = "begin")
    <3> DEFINE f == [pc EXCEPT ![o] = "begin"]
    <3>1. f[o] = "begin" /\ \A p \in Op : p # o => f[p] = pc[p]
      BY DEF IInv, TypeOK
    <3>2. \A p \in Op : pc'[p] = IF f[p] = "asleep" THEN "begin" ELSE f[p]
      BY <2>a DEF Wakeup
    <3> HIDE DEF f
    <3>3. pc'[o] = "begin"
      BY <3>1, <3>2
    <3>4. ASSUME NEW p \in Op, p # o
          PROVE  pc'[p] = pc[p] \/ (pc[p] = "asleep" /\ pc'[p] = "begin")
      BY <3>1, <3>2, <3>4
    <3> QED BY <3>3, <3>4
  <2>0. Active' = Active \ {o}
    BY <2>b DEF IInv, TypeOK, Active
  <2>1. TypeOK'
    BY <1>b, <2>a, <1>a DEF IInv, TypeOK, Wakeup
  <2>2. CountInv'
    <3>1. Cardinality(Active') = Cardinality(Active) - 1
      BY <2>0, <1>a, ActiveFinite, RemoveOne
    <3>2. \A p \in Op : pc'[p] \notin Committing
      BY <1>a, <2>b DEF IInv, CountInv, Committing
    <3> QED BY <3>1, <3>2, <1>a, <1>b, <2>a, Zenon DEF IInv, CountInv
  <2>3. HoldInv'
    BY <1>b, <2>b, SMTT(30) DEF IInv, TypeOK, HoldInv, end_op
  <2>4. SpaceInv'
    <3>1. Owed' \in SUBSET Owed
      BY <2>0, <1>b DEF Owed
    <3>2. Cardinality(Owed') <= Cardinality(Owed) /\ Cardinality(Owed') \in Nat
      BY <3>1, OwedFinite, FS_Subset, FS_CardinalityType
    <3>3. Len(lh) + Cardinality(Owed') <= LOGSIZE
      BY <3>2, <1>a, OwedFinite DEF IInv, SpaceInv, TypeOK
    <3> QED BY <3>3, <1>b, <2>0, Zenon DEF IInv, SpaceInv
  <2>5. BufInv'
    BY <1>b, BufFrame DEF IInv
  <2>6. CommitInv'
    <3>1. \A p \in Op : StepInv(pc[p])'
      BY <1>a, <2>a, <2>2, NoCommitter, Zenon
    <3>2. QuietInv'
      BY <1>a, <1>b, <1>d, <2>a DEF IInv, TypeOK, CommitInv, QuietInv, Pinned
    <3>3. BootInv' BY <1>b DEF BootInv
    <3> QED BY <3>1, <3>2, <3>3 DEF CommitInv
  <2> QED BY <2>1, <2>2, <2>3, <2>4, <2>5, <2>6 DEF IInv
<1> QED BY <1>c, <1>d
=============================================================================
