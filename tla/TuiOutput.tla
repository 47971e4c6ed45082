------------------------------ MODULE TuiOutput ------------------------------
(***************************************************************************)
(* The output buffer of the text interface ("csrc/tui copy.c"): texts are  *)
(* copied into a pool and gathered for writev, or, where that is not       *)
(* available, put together in one buffer for write.  The kernel may take   *)
(* less than it is offered; the rest is offered again.                     *)
(*                                                                         *)
(* A call that flushes takes as many steps as the kernel needs.  A call    *)
(* interrupted by a signal is made again and changes nothing.  In the code *)
(* the bytes gathered (total_bytes) and the bytes of the pool in use are   *)
(* two counters that always agree.  memory is the pool or the buffer.      *)
(***************************************************************************)
EXTENDS Integers, Sequences, SequencesExt

CONSTANTS
  Texts,                   \* what is written at a time; no text exceeds the pool
  MAX_IOVECS,              \* 128 in the source
  VEC_FLUSH_THRESHOLD,     \* 64
  WRITEV_BUFFER_SIZE,      \* 4096
  WRITEV_DATA_POOL_SIZE,   \* 8192
  OUTPUT_BUFFER_SIZE,      \* 8192
  BUFFER_FLUSH_THRESHOLD   \* 6144

VARIABLES
  use_writev,
  auto_flush,  \* auto_flush_enabled of the buffer in use
  memory,
  used,        \* data_pool_used, or len of the buffer
  vecs,        \* [base, len]: what is offered to the kernel, the buffer as one vector
  pc,          \* "idle", "flush" or "direct": write of a text that exceeds the buffer
  waiting,     \* the text of the call that flushes, if it has not been added yet
  kernel       \* what the kernel did in the last step: [got, failed]

vars == <<use_writev, auto_flush, memory, used, vecs, pc, waiting, kernel>>

Quiet == [got |-> << >>, failed |-> FALSE]
Capacity == IF use_writev THEN WRITEV_DATA_POOL_SIZE ELSE OUTPUT_BUFFER_SIZE

bytes_of(v) == SubSeq(IF pc = "direct" THEN waiting[1] ELSE memory, v.base, v.base + v.len - 1)
bytes_up_to(k) == FlattenSeq([i \in 1 .. k |-> bytes_of(vecs[i])])
offered == bytes_up_to(Len(vecs))

\* The bytes that have been written and are not with the kernel.
Queue == offered \o (IF pc = "flush" THEN FlattenSeq(waiting) ELSE << >>)

Init ==
  /\ use_writev \in BOOLEAN
  /\ auto_flush = TRUE
  /\ memory = [i \in 1 .. Capacity |-> 0]
  /\ used = 0 /\ vecs = << >> /\ pc = "idle" /\ waiting = << >>
  /\ kernel = Quiet

-----------------------------------------------------------------------------
(***************************************************************************)
(* Adding a text, and what makes a call flush before or after.             *)
(***************************************************************************)
full(text) ==
  \/ use_writev /\ Len(vecs) >= MAX_IOVECS
  \/ used + Len(text) > Capacity

due(vectors, n) ==
  auto_flush /\ IF use_writev
                THEN Len(vectors) >= VEC_FLUSH_THRESHOLD \/ n >= WRITEV_BUFFER_SIZE
                ELSE n >= BUFFER_FLUSH_THRESHOLD

\* The text is copied behind the n bytes that older vectors stand for.
add(text, older, n) ==
  LET vectors == IF use_writev THEN Append(older, [base |-> n + 1, len |-> Len(text)])
                 ELSE IF n + Len(text) = 0 THEN << >>
                 ELSE <<[base |-> 1, len |-> n + Len(text)]>>
  IN /\ memory' = [i \in DOMAIN memory |->
                     IF i \in n + 1 .. n + Len(text) THEN text[i - n] ELSE memory[i]]
     /\ used' = n + Len(text)
     /\ vecs' = vectors
     /\ pc' = IF due(vectors, n + Len(text)) THEN "flush" ELSE "idle"
     /\ waiting' = << >>

\* A text that exceeds the buffer is written from where it stands.
write_direct(text) ==
  /\ vecs' = <<[base |-> 1, len |-> Len(text)]>>
  /\ used' = 0 /\ pc' = "direct" /\ waiting' = <<text>>
  /\ UNCHANGED memory

tui_write(text) ==
  /\ pc = "idle"
  /\ IF full(text) /\ vecs # << >>
     THEN pc' = "flush" /\ waiting' = <<text>> /\ UNCHANGED <<memory, used, vecs>>
     ELSE IF Len(text) > Capacity THEN write_direct(text)
     ELSE add(text, vecs, used)
  /\ kernel' = Quiet
  /\ UNCHANGED <<use_writev, auto_flush>>

tui_flush(enable) ==
  /\ pc = "idle"
  /\ pc' = IF vecs = << >> THEN "idle" ELSE "flush"
  /\ auto_flush' = (auto_flush \/ enable)
  /\ kernel' = Quiet
  /\ UNCHANGED <<use_writev, memory, used, vecs, waiting>>

tui_set_auto_flush(enabled) ==
  /\ pc = "idle"
  /\ auto_flush' = enabled
  /\ kernel' = Quiet
  /\ UNCHANGED <<use_writev, memory, used, vecs, pc, waiting>>

-----------------------------------------------------------------------------
(***************************************************************************)
(* The loop around writev and write.                                       *)
(***************************************************************************)
\* The vectors behind those that n bytes complete, the first without what was
\* taken of it.  Vectors without bytes behind the last byte taken stay.
completed(n) ==
  CHOOSE i \in 0 .. Len(vecs) :
    LET sum(k) == Len(bytes_up_to(k))
    IN /\ sum(i) <= n /\ (i > 0 => sum(i - 1) < n)
       /\ (i < Len(vecs) /\ sum(i) < n => sum(i + 1) > n)

\* Variant: what is left of a vector is shortened, and starts where it started.
advance_iovecs_shortens(n) ==
  LET i == completed(n)
      rest == n - Len(bytes_up_to(i))
      left == SubSeq(vecs, i + 1, Len(vecs))
  IN IF rest = 0 THEN left ELSE [left EXCEPT ![1].len = @ - rest]

advance_iovecs(n) ==
  LET i == completed(n)
      rest == n - Len(bytes_up_to(i))
      left == SubSeq(vecs, i + 1, Len(vecs))
  IN IF rest = 0 THEN left ELSE [left EXCEPT ![1] = [base |-> @.base + rest, len |-> @.len - rest]]

\* The kernel takes some of what it is offered.
KernelTakes ==
  /\ pc # "idle"
  /\ \E n \in 1 .. Len(offered) :
       /\ kernel' = [got |-> SubSeq(offered, 1, n), failed |-> FALSE]
       /\ vecs' = advance_iovecs(n)
  /\ UNCHANGED <<use_writev, auto_flush, memory, used, pc, waiting>>

\* An error, or nothing taken because there is nothing but empty vectors: the loop
\* gives up, and what it still had is dropped.
KernelRefuses ==
  /\ pc # "idle" /\ vecs # << >>
  /\ kernel' = [got |-> << >>, failed |-> offered # << >>]
  /\ vecs' = << >>
  /\ UNCHANGED <<use_writev, auto_flush, memory, used, pc, waiting>>

\* The flush is over: the buffer is reset and the call goes on.
FlushEnds ==
  /\ pc # "idle" /\ vecs = << >>
  /\ IF pc = "direct" \/ waiting = << >>
     THEN /\ used' = 0 /\ pc' = "idle" /\ waiting' = << >>
          /\ UNCHANGED <<memory, vecs>>
     ELSE IF Len(waiting[1]) > Capacity THEN write_direct(waiting[1])
     ELSE add(waiting[1], << >>, 0)
  /\ kernel' = Quiet
  /\ UNCHANGED <<use_writev, auto_flush>>

Next ==
  \/ \E text \in Texts : (Len(text) <= Capacity \/ ~use_writev) /\ tui_write(text)
  \/ \E enable \in BOOLEAN : tui_flush(enable)
  \/ \E enabled \in BOOLEAN : tui_set_auto_flush(enabled)
  \/ KernelTakes
  \/ KernelRefuses
  \/ FlushEnds

Spec == Init /\ [][Next]_vars

-----------------------------------------------------------------------------
TypeOK ==
  /\ used \in 0 .. Capacity
  /\ \A i \in DOMAIN vecs : pc # "direct" => vecs[i].base + vecs[i].len - 1 <= Capacity
  /\ Len(vecs) <= MAX_IOVECS
  /\ pc \in {"idle", "flush", "direct"}

Stream == INSTANCE ByteStream WITH queue <- Queue

\* WritesArriveInOrder: under short writes, flushes at any time and both buffers,
\* each byte reaches the terminal once and in order, unless the kernel refuses
\* (tui copy.c:777-1018).
WritesArriveInOrder == Stream!Spec
=============================================================================
