------------------------------ MODULE AtomicFS ------------------------------
(***************************************************************************)
(* What the logging layer (log.c) promises the file system above it: FS    *)
(* calls overlap freely in memory, and the state a crash falls back to     *)
(* only ever moves to a state in which no FS call is half done.            *)
(***************************************************************************)

CONSTANTS
  Op,      (* the processes that make FS system calls *)
  Block,   (* the home blocks of the file system      *)
  Val      (* what a block can hold                   *)

VARIABLES
  durable,  (* the contents a crash falls back to                      *)
  current,  (* the contents the running FS calls read and write        *)
  active    (* the processes between begin_op() and end_op()           *)

vars == <<durable, current, active>>

Init ==
  /\ durable \in [Block -> Val]
  /\ current = durable
  /\ active = {}

Begin(o) ==
  /\ o \notin active
  /\ active' = active \cup {o}
  /\ UNCHANGED <<durable, current>>

Write(o, b, v) ==
  /\ o \in active
  /\ current' = [current EXCEPT ![b] = v]
  /\ UNCHANGED <<durable, active>>

End(o) ==
  /\ o \in active
  /\ active' = active \ {o}
  /\ UNCHANGED <<durable, current>>

(* The group commit: every finished call becomes durable at once, and only *)
(* while no call is in progress.                                           *)
Commit ==
  /\ active = {}
  /\ durable' = current
  /\ UNCHANGED <<current, active>>

Crash ==
  /\ current' = durable
  /\ active' = {}
  /\ UNCHANGED durable

Next ==
  \/ \E o \in Op : Begin(o) \/ End(o)
  \/ \E o \in Op, b \in Block, v \in Val : Write(o, b, v)
  \/ Commit
  \/ Crash

Spec == Init /\ [][Next]_vars
=============================================================================
