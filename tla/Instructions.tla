---------------------------- MODULE Instructions ----------------------------
(***************************************************************************)
(* The instructions the pipeline tells apart and what ID decodes of them.  *)
(* An instruction is a record [op, rd, rs1, rs2, imm].  rd is the field of *)
(* bits 11..7, which a store or a branch uses for its immediate: ID passes *)
(* it on as the register address all the same.  Addresses and register     *)
(* values are the words 0..Words-1; a jump or a branch names its target, a *)
(* CSR instruction its register.  csrr is csrrs with x0, which writes back  *)
(* the word it has read.                                                   *)
(***************************************************************************)
EXTENDS Naturals

CONSTANTS Words, Regs, LinkRegs

ASSUME InstructionsAssumption ==
  /\ Words \in Nat \ {0}
  /\ 0 \in Regs
  /\ LinkRegs \subseteq Regs \ {0}

Word == 0 .. Words - 1
Ops  == {"addi", "lw", "sw", "beq", "jal", "jalr", "csrrw", "csrr", "ecall", "mret"}
Instruction == [ op: Ops \cup {"bubble"}, rd: Regs, rs1: Regs, rs2: Regs, imm: Word ]

Inst(op, rd, rs1, rs2, imm) ==
  [ op |-> op, rd |-> rd, rs1 |-> rs1, rs2 |-> rs2, imm |-> imm ]

\* What IF2ID holds after a flush, and ID2EX after one.
NOP    == Inst("addi", 0, 0, 0, 0)
Bubble == Inst("bubble", 0, 0, 0, 0)

Succ(w) == (w + 1) % Words

\* The register addresses ID reads: 0 for an operand that is not used.
rs1_id(i) == IF i.op \in {"addi", "lw", "sw", "beq", "jalr", "csrrw"} THEN i.rs1 ELSE 0
rs2_id(i) == IF i.op \in {"sw", "beq"} THEN i.rs2 ELSE 0

is_jalr(i)   == i.op = "jalr"
is_jump(i)   == i.op \in {"jal", "jalr", "beq"}
is_link(i)   == i.op \in {"jal", "jalr"}
is_load(i)   == i.op = "lw"
is_store(i)  == i.op = "sw"
is_csr(i)    == i.op \in {"csrrw", "csrr"}
writes(i)    == i.op \in {"addi", "lw", "jal", "jalr", "csrrw", "csrr"}

\* jalr x0, ra is a return; jal and jalr with a link register are calls.
is_return(i) == i.op = "jalr" /\ i.rs1 \in LinkRegs /\ i.rd = 0
is_call(i)   == is_link(i) /\ i.rd \in LinkRegs

\* Branch decision and jump target, from the operands.
taken(i, reg1, reg2) ==
  \/ i.op \in {"jal", "jalr"}
  \/ i.op = "beq" /\ reg1 = reg2
target(i, reg1) ==
  CASE i.op = "jalr" -> (reg1 + i.imm) % Words
    [] i.op \in {"beq", "jal"} -> i.imm
    [] OTHER -> 0

\* The word an instruction that writes rd puts there, loads apart.
result(i, at, reg1) == IF is_link(i) THEN Succ(at) ELSE (reg1 + i.imm) % Words
=============================================================================
