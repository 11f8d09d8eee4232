-------------------------------- MODULE Fifo --------------------------------
(***************************************************************************)
(* What a pipe promises: the bytes come out in the order they went in,     *)
(* each of them once, at most Capacity of them are under way, and a read   *)
(* reports the end of the stream only when no writer and no byte is left.  *)
(***************************************************************************)
EXTENDS Naturals, Sequences

CONSTANTS Byte, Capacity, NONE, EOF

VARIABLES
  q,      (* the bytes under way                                           *)
  wopen,  (* whether somebody may still write                              *)
  out     (* what the last read got                                        *)

Init ==
  /\ q = << >> /\ wopen = FALSE
  /\ out = NONE

Open ==
  /\ q' = << >> /\ wopen' = TRUE
  /\ UNCHANGED out

Put(b) ==
  /\ wopen /\ Len(q) < Capacity
  /\ q' = Append(q, b)
  /\ UNCHANGED <<wopen, out>>

Get ==
  /\ q # << >>
  /\ out' = Head(q)
  /\ q' = Tail(q)
  /\ UNCHANGED wopen

End ==
  /\ q = << >> /\ ~wopen
  /\ out' = EOF
  /\ UNCHANGED <<q, wopen>>

Close ==
  /\ wopen' = FALSE
  /\ UNCHANGED <<q, out>>

Next ==
  \/ Open \/ Close
  \/ \E b \in Byte : Put(b)
  \/ Get \/ End

Spec == Init /\ [][Next]_<<q, wopen, out>>
=============================================================================
