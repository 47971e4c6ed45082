----------------------------- MODULE MCPipeline -----------------------------
(***************************************************************************)
(* Instances of PipelinedCPU: sets of programs of Words instructions, from *)
(* which a configuration picks.  A program that runs off its end starts    *)
(* again at 0.                                                             *)
(***************************************************************************)
EXTENDS PipelinedCPU

\* Every order of one instruction of each kind.
MixedPrograms ==
  [Word -> { Inst("addi", 1, 1, 0, 1), Inst("addi", 2, 1, 0, 0), Inst("lw", 1, 0, 0, 0),
             Inst("sw", 0, 0, 1, 0), Inst("beq", 0, 1, 0, 0), Inst("jal", 1, 0, 0, 2),
             Inst("jalr", 0, 1, 0, 0), Inst("jalr", 1, 2, 0, 0) }]

-----------------------------------------------------------------------------
(***************************************************************************)
(* Programs that run as they should.                                       *)
(***************************************************************************)
Adds     == {Inst("addi", 1, 1, 0, 1), Inst("addi", 2, 1, 0, 1)}
Branches == {Inst("beq", 0, 1, 0, t) : t \in {0, 3}}
Loads    == {Inst("lw", 1, 0, 0, 0)}
Stores   == {Inst("sw", 0, 0, 2, 0)}

BranchPrograms == [Word -> Adds \cup Branches]

\* No load directly follows a store.
AccessPrograms ==
  {p \in [Word -> Adds \cup Loads \cup Stores] :
     \A a \in Word : is_store(p[a]) => ~is_load(p[Succ(a)])}

\* Programs that run forward to a last jump to itself: no jump but that one is
\* executed twice, so none is predicted.  Nor does a jump directly follow an
\* access to memory.
Ahead(a) ==
  LET targets == {t \in Word : t > a + 1 /\ t <= a + 3} IN
  { Inst("addi", 1, 1, 0, 1), Inst("addi", 2, 1, 0, 1), Inst("lw", 2, 0, 0, 0),
    Inst("sw", 0, 0, 1, 0) } \cup {Inst("beq", 0, 2, 0, t) : t \in targets}
    \cup {Inst("jal", 0, 0, 0, t) : t \in targets}

ForwardJumps ==
  LET last == Words - 1
      end  == Inst("jal", 0, 0, 0, last)
  IN {p \in [Word -> UNION {Ahead(a) : a \in Word} \cup {end}] :
        /\ p[last] = end
        /\ \A a \in Word \ {last} :
             /\ p[a] \in Ahead(a)
             /\ is_load(p[a]) \/ is_store(p[a]) => ~is_jump(p[a + 1])
             /\ is_store(p[a]) => ~is_load(p[a + 1])}

\* Plain programs: loops of jumps, accesses and additions.
PlainPrograms ==
  {p \in [Word -> { Inst("addi", 1, 1, 0, 1), Inst("lw", 2, 0, 0, 0), Inst("sw", 0, 0, 1, 0),
                     Inst("beq", 0, 1, 2, 0), Inst("beq", 0, 1, 0, 2), Inst("jal", 0, 0, 0, 1) }] : Plain(p)}

\* Calls, returns and indirect calls, predicted by the return address stack and by the
\* IndirectBTB.  The instruction behind a call may be executed twice without being noticed;
\* no jump directly follows an access to memory, and no load a store.
Repeatable(i) == is_load(i) \/ is_store(i) \/ (i.op = "addi" /\ i.rd # i.rs1)

CallPrograms ==
  LET calls == {Inst("jal", 1, 0, 0, 2), Inst("jal", 1, 0, 0, 3), Inst("jalr", 1, 2, 0, 0)}
      others == {Inst("addi", 2, 2, 0, 1), Inst("addi", 2, 1, 0, 1), Inst("lw", 2, 0, 0, 0),
                 Inst("sw", 0, 0, 2, 0), Inst("jalr", 0, 1, 0, 0), Inst("jal", 0, 0, 0, 0)}
  IN {p \in [Word -> calls \cup others] :
        /\ p[0] \in calls
        /\ \E a \in Word : is_return(p[a])
        /\ \A a \in Word :
             /\ is_call(p[a]) => Repeatable(p[Succ(a)])
             /\ is_load(p[a]) \/ is_store(p[a]) => ~is_jump(p[Succ(a)])
             /\ is_store(p[a]) => ~is_load(p[Succ(a)])}

\* Indirect jumps and returns to words that change, predicted wrong: either no return, or a
\* single indirect jump; every word that is not a jump may be executed twice without being
\* noticed.
IndirectPrograms ==
  LET others == {Inst("addi", 2, 1, 0, 1), Inst("addi", 2, 0, 0, 3), Inst("lw", 2, 0, 0, 0),
                 Inst("sw", 0, 0, 1, 0), Inst("jalr", 0, 1, 0, 0), Inst("jalr", 1, 2, 0, 0),
                 Inst("jalr", 0, 2, 0, 0)}
  IN {p \in [Word -> others \cup {Inst("jal", 1, 0, 0, 3), Inst("addi", 1, 1, 0, 1)}] :
        /\ p[0].op # "lw" /\ p[0].op # "sw" /\ ~is_return(p[0])
        /\ \E a \in Word : p[a].op = "jalr"
        /\ \A a \in Word \ {0} : p[a] # Inst("jal", 1, 0, 0, 3)
        /\ \/ \A a \in Word : ~is_return(p[a])
           \/ \A a, b \in Word : p[a].op = "jalr" /\ p[b].op = "jalr" => a = b
        /\ \A a \in Word :
             /\ p[a] = Inst("addi", 1, 1, 0, 1) => is_return(p[Succ(a)])
             /\ is_load(p[a]) \/ is_store(p[a]) => ~is_jump(p[Succ(a)])
             /\ is_store(p[a]) => ~is_load(p[Succ(a)])}

SequentialPrograms ==
  BranchPrograms \cup AccessPrograms \cup ForwardJumps \cup PlainPrograms
    \cup CallPrograms \cup IndirectPrograms

-----------------------------------------------------------------------------
(***************************************************************************)
(* Programs with interrupts: the first four words let them come, two run   *)
(* in a loop, and three are the handler, which always changes a register.  *)
(* No instruction of them waits in ID, and none reads a CSR right behind   *)
(* its write.  The write of mstatus, in EX, may meet an interrupt in ID.   *)
(***************************************************************************)
TrapProgram(first, second, handler) ==
  LET seq == << Inst("addi", 1, 0, 0, 6), Inst("csrrw", 0, 1, 0, MTVEC),
                Inst("csrrw", 0, 1, 0, MIE), Inst("csrrw", 0, 1, 0, MSTATUS),
                first, second, Inst("addi", 2, 2, 0, 4), handler, Inst("mret", 0, 0, 0, 0) >>
  IN [a \in Word |-> IF a < Len(seq) THEN seq[a + 1] ELSE NOP]

TrapPrograms ==
  {TrapProgram(first, second, handler) :
     first \in { Inst("addi", 2, 2, 0, 4), Inst("csrrw", 2, 2, 0, MSCRATCH),
                 Inst("jal", 1, 0, 0, 5), Inst("ecall", 0, 0, 0, 0), NOP },
     second \in {Inst("jal", 0, 0, 0, t) : t \in {4, 5}} \cup {Inst("beq", 0, 0, 0, t) : t \in {4, 5}},
     handler \in { Inst("addi", 2, 2, 0, 4), Inst("csrr", 1, 0, 0, MEPC),
                   Inst("csrr", 1, 0, 0, MCAUSE) }}

-----------------------------------------------------------------------------
(***************************************************************************)
(* Programs that do not: an instruction is executed twice, or lost, a jump *)
(* goes wrong, or the pipeline stops.                                      *)
(***************************************************************************)
Only(seq) == {[a \in Word |-> seq[a + 1]]}

StoreThenLoad == Only(<< Inst("sw", 0, 0, 1, 0), Inst("lw", 2, 0, 0, 0), Inst("addi", 1, 1, 0, 1) >>)

JumpBehindLoad ==
  Only(<< Inst("lw", 2, 0, 0, 0), Inst("jal", 0, 0, 0, 3), NOP, Inst("addi", 1, 1, 0, 1),
          Inst("sw", 0, 0, 1, 0) >>)

JumpThroughItsLink ==
  Only(<< Inst("addi", 1, 0, 0, 1), Inst("jalr", 1, 1, 0, 2), NOP, Inst("addi", 2, 2, 0, 1), NOP >>)

LoadBeforeBackJump ==
  Only(<< Inst("addi", 1, 1, 0, 1), Inst("lw", 2, 0, 0, 0), Inst("addi", 2, 1, 0, 1),
          Inst("jal", 0, 0, 0, 0) >>)

CallAndReturn ==
  Only(<< Inst("jal", 1, 0, 0, 3), Inst("addi", 2, 2, 0, 1), Inst("jal", 0, 0, 0, 2),
          NOP, NOP, NOP, Inst("jalr", 0, 1, 0, 0) >>)

LinkReadBehindLoad ==
  Only(<< Inst("jal", 1, 0, 0, 1), Inst("lw", 2, 0, 0, 0), Inst("addi", 2, 0, 0, 2),
          Inst("addi", 1, 1, 0, 1) >>)

FieldNamesOperand ==
  Only(<< Inst("addi", 1, 0, 0, 1), Inst("beq", 1, 1, 0, 0), NOP >>)

CsrTwice ==
  Only(<< Inst("addi", 2, 2, 0, 1), Inst("csrrw", 2, 2, 0, MSCRATCH),
          Inst("csrrw", 2, 2, 0, MSCRATCH), NOP >>)

\* With interrupts: a branch that is not taken, and a back jump behind a load.
BranchNotTaken ==
  {TrapProgram(Inst("beq", 0, 1, 0, 8), Inst("jal", 0, 0, 0, 4), NOP)}

LoadInLoop ==
  {TrapProgram(Inst("lw", 2, 0, 0, 0), Inst("jal", 0, 0, 0, 4), Inst("addi", 2, 2, 0, 4))}
=============================================================================
