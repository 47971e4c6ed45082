-------------------------------- MODULE Hart --------------------------------
(***************************************************************************)
(* What a program does: one instruction after the other, each with one     *)
(* effect on the registers, on the memory or on the CSRs.  An interrupt    *)
(* comes between two instructions, once the program stands where it is     *)
(* due.  Only changes of registers and memory can be seen, so a step goes  *)
(* from one change to the next.                                            *)
(***************************************************************************)
EXTENDS Instructions, Sequences, CSR

VARIABLES
  prog,  \* the program: prog[a] is the instruction at address a; never written
  at,    \* address of the next instruction
  regs,
  mem,   \* a single word of memory
  csr,
  due    \* the addresses at which the next interrupts come

State == [ at: Word, regs: [Regs -> Word], mem: Word, csr: [Registers -> Word], due: Seq(Word) ]

\* A trap turns interrupts off and keeps what they were, and where to resume.
Trap(h, resume, cause) ==
  LET off == with_bits(h.csr[MSTATUS], 0, mstatus_MIE(h.csr[MSTATUS])) IN
  [h EXCEPT !.at = h.csr[MTVEC],
            !.csr = [h.csr EXCEPT ![MSTATUS] = off, ![MEPC] = resume, ![MCAUSE] = cause]]

Return(h) ==
  LET on == with_bits(h.csr[MSTATUS], mstatus_MPIE(h.csr[MSTATUS]), 1) IN
  [h EXCEPT !.at = h.csr[MEPC], !.csr = [h.csr EXCEPT ![MSTATUS] = on]]

Instruct(h) ==
  LET i  == prog[h.at]
      r1 == h.regs[rs1_id(i)]
      r2 == h.regs[rs2_id(i)]
      value == IF is_load(i) THEN h.mem ELSE IF is_csr(i) THEN read_data(h.csr, i.imm)
               ELSE result(i, h.at, r1) IN
  [ at   |-> IF taken(i, r1, r2) THEN target(i, r1) ELSE Succ(h.at),
    regs |-> IF ~writes(i) \/ i.rd = 0 THEN h.regs ELSE [h.regs EXCEPT ![i.rd] = value],
    mem  |-> IF is_store(i) THEN r2 ELSE h.mem,
    csr  |-> IF i.op = "csrrw" THEN [h.csr EXCEPT ![i.imm] = r1] ELSE h.csr,
    due  |-> h.due ]

interrupted(h) ==
  /\ h.due # << >> /\ h.at = Head(h.due)
  /\ mstatus_MIE(h.csr[MSTATUS]) = 1 /\ mie_MTIE(h.csr[MIE]) = 1

Execute(h) ==
  IF interrupted(h) THEN [Trap(h, h.at, 7 % Words) EXCEPT !.due = Tail(@)]
  ELSE IF prog[h.at].op = "ecall" THEN Trap(h, Succ(h.at), 11 % Words)
  ELSE IF prog[h.at].op = "mret" THEN Return(h)
  ELSE Instruct(h)

Visible(h) == <<h.regs, h.mem>>

\* A program that changes nothing in Words instructions, and in as many of a
\* handler, is in a loop that never will.  The states after n steps: there is one.
Advance(h) ==
  LET after[n \in 0 .. 2 * Words] ==
        IF n = 0 THEN {h}
        ELSE {IF Visible(s) # Visible(h) THEN s ELSE Execute(s) : s \in after[n - 1]}
  IN CHOOSE s \in after[2 * Words] : TRUE

Now == [ at |-> at, regs |-> regs, mem |-> mem, csr |-> csr, due |-> due ]

Start == [ at |-> 0, regs |-> [r \in Regs |-> 0], mem |-> 0, csr |-> csr_reset, due |-> << >> ]

Init == Now = Start

\* The program goes on to its next change, and an interrupt may fall due behind it.
Run ==
  LET h == Advance(Now) IN
  /\ <<at', regs', mem', csr'>> = <<h.at, h.regs, h.mem, h.csr>>
  /\ <<regs', mem'>> # <<regs, mem>>
  /\ due' = h.due \/ \E a \in Word : due' = Append(h.due, a)
  /\ UNCHANGED prog

Raise ==
  /\ \E a \in Word : due' = Append(due, a)
  /\ UNCHANGED <<prog, at, regs, mem, csr>>

Next == Run \/ Raise

Spec == Init /\ [][Next]_<<prog, at, regs, mem, csr, due>>
=============================================================================
