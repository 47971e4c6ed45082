--------------------------------- MODULE CSR ---------------------------------
(***************************************************************************)
(* The trap registers of the core (riscv/core/CSR.scala), a function from  *)
(* their numbers to words.  The bits of mstatus and mie that the hardware  *)
(* looks at lie next to each other here; the others are kept as written.   *)
(* The counters and their shadow words are left out.                       *)
(***************************************************************************)
EXTENDS Integers

MSTATUS  == 0
MIE      == 1
MTVEC    == 2
MSCRATCH == 3
MEPC     == 4
MCAUSE   == 5
Registers == 0 .. 5

csr_reset == [r \in Registers |-> 0]

\* Bits 3 and 7 of mstatus, and the bit of the timer in mie.
mstatus_MIE(m)  == (m \div 2) % 2
mstatus_MPIE(m) == m % 2
mie_MTIE(m)     == (m \div 2) % 2
with_bits(m, mie, mpie) == (m - (m % 4)) + 2 * mie + mpie

\* id_reg_read_data: the registers before the writes of this cycle.
read_data(csr, address) == IF address \in Registers THEN csr[address] ELSE 0

\* The registers with the write w = [enable, address, data] of EX: what the CLINT sees.
written(csr, w) ==
  IF w.enable /\ w.address \in Registers THEN [csr EXCEPT ![w.address] = w.data] ELSE csr
=============================================================================
