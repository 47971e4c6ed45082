-------------------------------- MODULE CLINT --------------------------------
(***************************************************************************)
(* The core local interrupt controller (riscv/core/CLINT.scala), which has *)
(* no state: in each cycle it looks at the instruction in ID and at the    *)
(* interrupt line, redirects the fetch and rewrites three of the CSRs.     *)
(* The parameter w carries its input wires,                                *)
(*   instruction_id, instruction_address_if, jump_flag, jump_address,      *)
(*   interrupt_flag    (a BOOLEAN: the board has the timer bit only),      *)
(*   csr               the registers with the write of EX merged in.       *)
(* ebreak differs from ecall by its cause and is left out.                 *)
(***************************************************************************)
EXTENDS Instructions, CSR

\* The low bits of the two causes, 11 and 0x80000007.
ECALL_CAUSE == 11 % Words
TIMER_CAUSE == 7 % Words

\* Variant: the address in IF, also while a jump is decided in ID.
instruction_address_in_if(w) == w.instruction_address_if

\* Where the program is to go on: behind the instruction in ID.
instruction_address(w) ==
  IF w.jump_flag THEN w.jump_address ELSE w.instruction_address_if

is_ecall(w) == w.instruction_id.op = "ecall"

interrupts(w) ==
  /\ ~is_ecall(w)
  /\ w.interrupt_flag
  /\ mstatus_MIE(w.csr[MSTATUS]) = 1
  /\ mie_MTIE(w.csr[MIE]) = 1

is_mret(w) == w.instruction_id.op = "mret" /\ ~interrupts(w)

interrupt_assert(w) == is_ecall(w) \/ interrupts(w) \/ is_mret(w)

interrupt_handler_address(w) ==
  IF is_ecall(w) \/ interrupts(w) THEN w.csr[MTVEC]
  ELSE IF is_mret(w) THEN w.csr[MEPC] ELSE 0

mstatus_disable_interrupt(m) == with_bits(m, 0, mstatus_MIE(m))
mstatus_recover_interrupt(m) == with_bits(m, mstatus_MPIE(m), 1)

\* The registers at the end of the cycle.
direct_write(w) ==
  IF is_ecall(w) \/ interrupts(w)
  THEN [w.csr EXCEPT ![MSTATUS] = mstatus_disable_interrupt(@),
                     ![MEPC]    = instruction_address(w),
                     ![MCAUSE]  = IF is_ecall(w) THEN ECALL_CAUSE ELSE TIMER_CAUSE]
  ELSE IF is_mret(w) THEN [w.csr EXCEPT ![MSTATUS] = mstatus_recover_interrupt(@)]
  ELSE w.csr
=============================================================================
