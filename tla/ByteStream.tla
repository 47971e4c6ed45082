----------------------------- MODULE ByteStream -----------------------------
(***************************************************************************)
(* What buffered output promises: the texts that are written reach the     *)
(* terminal as one stream, each byte once and in order, in portions of any *)
(* size.  Only when the kernel refuses a write may bytes be missing: those *)
(* it still had to take, never bytes behind them.                          *)
(***************************************************************************)
EXTENDS Naturals, Sequences

CONSTANT Texts  \* what may be written at a time

VARIABLES
  queue,  \* bytes written and not delivered
  kernel  \* what the kernel did in the last step: [got: the bytes it took, failed]

vars == <<queue, kernel>>

Quiet == [got |-> << >>, failed |-> FALSE]

Init == queue = << >> /\ kernel = Quiet

Write ==
  /\ \E text \in Texts : queue' = queue \o text
  /\ kernel' = Quiet

Deliver ==
  /\ kernel' = [got |-> kernel'.got, failed |-> FALSE]
  /\ queue = kernel'.got \o queue'

Refuse ==
  /\ kernel' = [got |-> << >>, failed |-> TRUE]
  /\ \E n \in 0 .. Len(queue) : queue' = SubSeq(queue, n + 1, Len(queue))

Next == Write \/ Deliver \/ Refuse

Spec == Init /\ [][Next]_vars
=============================================================================
