------------------------- MODULE ReturnAddressStack -------------------------
(***************************************************************************)
(* The return address stack (riscv/core/ReturnAddressStack.scala).  The    *)
(* restore port is left out: PipelinedCPU ties it low.                     *)
(***************************************************************************)
EXTENDS Naturals

CONSTANTS Words, RasDepth

VARIABLES stack, sp

Address == 0 .. Words - 1

TypeOK ==
  /\ stack \in [0 .. RasDepth - 1 -> Address]
  /\ sp \in 0 .. RasDepth

\* The words are not reset; below sp they have been written.
Init ==
  /\ stack = [i \in 0 .. RasDepth - 1 |-> 0]
  /\ sp = 0

\* sp - 1 in log2(depth) bits: an empty stack has its top at the last word.
tos_index == (sp + RasDepth - 1) % RasDepth

valid == sp > 0
predicted_addr == IF valid THEN stack[tos_index] ELSE 0

-----------------------------------------------------------------------------
\* A call resolves in ID while a return is fetched: the top is replaced.
Replace(addr) ==
  /\ stack' = [stack EXCEPT ![tos_index] = addr]
  /\ UNCHANGED sp

\* Variant: no test for a full stack.
PushUnchecked(addr) ==
  /\ stack' = [stack EXCEPT ![sp] = addr]
  /\ sp' = sp + 1

Push(addr) ==
  /\ sp < RasDepth
  /\ stack' = [stack EXCEPT ![sp] = addr]
  /\ sp' = sp + 1

\* A full stack loses its oldest address.
PushFull(addr) ==
  /\ sp = RasDepth
  /\ stack' = [i \in 0 .. RasDepth - 1 |->
                 IF i = RasDepth - 1 THEN addr ELSE stack[i + 1]]
  /\ UNCHANGED sp

Pop ==
  /\ sp' = IF valid THEN sp - 1 ELSE 0
  /\ UNCHANGED stack

Step(push, addr, pop) ==
  \/ push /\ pop /\ Replace(addr)
  \/ push /\ ~pop /\ (Push(addr) \/ PushFull(addr))
  \/ ~push /\ pop /\ Pop
  \/ ~push /\ ~pop /\ UNCHANGED <<stack, sp>>
=============================================================================
