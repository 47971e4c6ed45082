---------------------------- MODULE PipelineProofs ----------------------------
(***************************************************************************)
(* Theorems about PipelinedCPU, for every program, number of words and     *)
(* registers, and every size of the predictors: types, the operands that   *)
(* EX and the jumps work with, the predictors; and, for programs that give *)
(* the pipeline no occasion to go wrong, that it executes them one         *)
(* instruction after the other.                                            *)
(***************************************************************************)
EXTENDS PipelinedCPU, WellFoundedInduction, FiniteSetTheorems, TLAPS

\* Training keeps no entry that can no longer come to predict taken.
LEMMA BtbStep ==
  ASSUME Fetch!BTB!TypeOK, Fetch!BTB!LiveEntries, NEW u, Fetch!BTB!Step(u)
  PROVE  Fetch!BTB!LiveEntries'
<1> SUFFICES ASSUME NEW i \in DOMAIN btb', btb'[i].valid
             PROVE  btb'[i].counter > 0
  BY DEF Fetch!BTB!LiveEntries
<1> USE DEF Fetch!BTB!TypeOK, Fetch!BTB!Entry
<1>1. CASE btb' = [btb EXCEPT ![Fetch!BTB!index(u.pc)] = Fetch!BTB!TakenEntry(u)]
  BY <1>1 DEF Fetch!BTB!LiveEntries, Fetch!BTB!TakenEntry
<1>2. CASE btb' = [btb EXCEPT ![Fetch!BTB!index(u.pc)] = Fetch!BTB!NotTakenEntry(u)]
  BY <1>2 DEF Fetch!BTB!LiveEntries, Fetch!BTB!NotTakenEntry
<1>3. CASE UNCHANGED btb
  BY <1>3 DEF Fetch!BTB!LiveEntries
<1> QED
  BY <1>1, <1>2, <1>3 DEF Fetch!BTB!Step

\* The priority encoder finds a member.
LEMMA FirstIsMember ==
  ASSUME NEW n \in Nat, NEW S \in SUBSET (0 .. n), S # {}
  PROVE  Fetch!IBTB!First(S) \in S
<1> DEFINE less == OpToRel(<, Nat)
<1>1. IsWellFoundedOn(less, Nat)
  BY NatLessThanWellFounded
<1>2. \A k, m \in Nat : <<k, m>> \notin less => m <= k
  BY DEF OpToRel
<1> HIDE DEF less
<1>3. S \subseteq Nat
  OBVIOUS
<1>4. PICK m \in S : \A k \in S : <<k, m>> \notin less
  BY <1>1, <1>3, WFMin, Zenon
<1>5. \A k \in S : m <= k
  BY <1>2, <1>3, <1>4
<1> QED
  BY <1>5, Zenon DEF Fetch!IBTB!First

\* Training finds the entry of a pair, so that none gets a second one.
LEMMA IbtbStep ==
  ASSUME Fetch!IBTB!TypeOK, Fetch!IBTB!NoTwins, NEW u, NEW a, Fetch!IBTB!Step(a, u)
  PROVE  Fetch!IBTB!NoTwins'
<1> USE DEF Fetch!IBTB!TypeOK
<1>1. CASE Fetch!IBTB!Train(u)
  <2> DEFINE t == Fetch!IBTB!target_index(u)
  <2> DEFINE existing == {i \in Fetch!IBTB!hits(u.pc) : ibtb[i].hash = u.hash}
  <2>1. existing # {} => t \in existing
    <3>1. existing \in SUBSET (0 .. IbtbEntries - 1)
      BY DEF Fetch!IBTB!hits, Fetch!IBTB!Index
    <3>2. IbtbEntries - 1 \in Nat
      BY CPUAssumption
    <3> QED
      BY <3>1, <3>2, FirstIsMember DEF Fetch!IBTB!target_index
  <2> HIDE DEF t
  <2>2. \A i \in Fetch!IBTB!Index \ {t} :
          /\ ibtb'[i].valid = ibtb[i].valid /\ ibtb'[i].pc = ibtb[i].pc
          /\ ibtb'[i].hash = ibtb[i].hash
    BY <1>1 DEF Fetch!IBTB!Train, Fetch!IBTB!Older, t
  <2>3. t \in Fetch!IBTB!Index => ibtb'[t].pc = u.pc /\ ibtb'[t].hash = u.hash
    BY <1>1 DEF Fetch!IBTB!Train, t
  <2>4. \A i \in Fetch!IBTB!Index \ {t} :
          ibtb[i].valid => <<ibtb[i].pc, ibtb[i].hash>> # <<u.pc, u.hash>>
    BY <2>1 DEF Fetch!IBTB!NoTwins, Fetch!IBTB!hits
  <2> QED
    BY <2>2, <2>3, <2>4 DEF Fetch!IBTB!NoTwins
<1>2. CASE Fetch!IBTB!Touch(a)
  <2>1. \A i \in Fetch!IBTB!Index :
          /\ ibtb'[i].valid = ibtb[i].valid /\ ibtb'[i].pc = ibtb[i].pc
          /\ ibtb'[i].hash = ibtb[i].hash
    BY <1>2 DEF Fetch!IBTB!Touch, Fetch!IBTB!Older
  <2> QED
    BY <2>1 DEF Fetch!IBTB!NoTwins
<1>3. CASE UNCHANGED ibtb
  BY <1>3 DEF Fetch!IBTB!NoTwins
<1> QED
  BY <1>1, <1>2, <1>3 DEF Fetch!IBTB!Step

-----------------------------------------------------------------------------
(***************************************************************************)
(* Types of the wires.                                                     *)
(***************************************************************************)
\* A word is a natural number, and any number wraps round to a word.
LEMMA WordFacts == Word \subseteq Nat /\ 0 \in Word /\ \A n \in Nat : n % Words \in Word
  BY InstructionsAssumption DEF Word

\* The next address is an address.
LEMMA SuccType == \A a \in Word : Succ(a) \in Word
  BY InstructionsAssumption DEF Word, Succ

\* What a flush leaves in IF2ID and ID2EX are instructions.
LEMMA FlushedTypes == NOP \in Instruction /\ Bubble \in Instruction
  BY WordFacts, InstructionsAssumption DEF NOP, Bubble, Inst, Instruction, Ops

\* Decoding yields register addresses, and jumps and results are words.
LEMMA DecodedTypes ==
  ASSUME NEW i \in Instruction, NEW a \in Word, NEW r \in Word
  PROVE  /\ rs1_id(i) \in Regs /\ rs2_id(i) \in Regs
         /\ target(i, r) \in Word /\ result(i, a, r) \in Word
<1>1. rs1_id(i) \in Regs /\ rs2_id(i) \in Regs
  BY InstructionsAssumption DEF Instruction, rs1_id, rs2_id
<1>2. (r + i.imm) % Words \in Word
  <2>1. i.imm \in Word
    BY DEF Instruction
  <2>2. r \in Nat /\ i.imm \in Nat
    BY <2>1, WordFacts
  <2>3. r + i.imm \in Nat
    BY <2>2
  <2> QED
    BY <2>3, WordFacts
<1>3. target(i, r) \in Word
  BY <1>2, WordFacts DEF target, Instruction
<1>4. result(i, a, r) \in Word
  BY <1>2, SuccType DEF result
<1> QED
  BY <1>1, <1>3, <1>4

\* What the programs may do with mstatus: either a word has room for its two bits
\* below others, or no program takes a trap.
TrapsFit ==
  \/ Words % 4 = 0
  \/ /\ Interrupts = {FALSE}
     /\ \A p \in Programs : \A a \in Word : p[a].op \notin {"ecall", "mret"}

\* MEM waits for what the instruction in EX2MEM has asked for.
MemWaits ==
  /\ mem_access_state = "Read" => is_load(ex2mem.inst)
  /\ mem_access_state = "Write" => is_store(ex2mem.inst)

\* The value that EX holds of a register is that of the register file, unless an
\* instruction ahead of it still has to write the register: then it can be forwarded.
InReach(rs, value) ==
  IF rs = 0 THEN value = 0
  ELSE \/ writes(ex2mem.inst) /\ ex2mem.inst.rd = rs
       \/ mem2wb.enable /\ mem2wb.rd = rs
       \/ value = regs[rs]

OperandsInReach ==
  InReach(rs1_id(id2ex.inst), id2ex.reg1) /\ InReach(rs2_id(id2ex.inst), id2ex.reg2)

FromProgram == if2id.inst \in {NOP} \cup {prog[a] : a \in Word}

IInv ==
  /\ HardwareTypeOK
  /\ MemWaits
  /\ OperandsInReach
  /\ FromProgram
  /\ PredictorsConsistent

-----------------------------------------------------------------------------
(***************************************************************************)
(* The MEM stage and the operands.                                         *)
(***************************************************************************)
\* What MEM hands on, to write-back and to forwarding, is typed in every cycle.
LEMMA WriteBackTypes ==
  ASSUME HardwareTypeOK
  PROVE  /\ MEM!ToWriteBack(MemIns, BusWires).rd \in Regs
         /\ MEM!ToWriteBack(MemIns, BusWires).enable \in BOOLEAN
         /\ forward_to_ex \in Word
<1>1. /\ latched.rd \in Regs /\ latched.enable \in BOOLEAN /\ latched.data \in Word
      /\ ex2mem.inst.rd \in Regs /\ ex2mem.data \in Word /\ mem \in Word
  BY DEF HardwareTypeOK, MEM!TypeOK, Instruction
<1>2. MEM!ToWriteBack(MemIns, BusWires).rd \in Regs
  BY <1>1 DEF MEM!ToWriteBack, MemIns
<1>3. MEM!ToWriteBack(MemIns, BusWires).enable \in BOOLEAN
  <2>1. MEM!regs_write_enable(MemIns) \in BOOLEAN
    BY DEF MEM!regs_write_enable
  <2> QED
    BY <1>1, <2>1 DEF MEM!ToWriteBack
<1>4. forward_to_ex \in Word
  BY <1>1 DEF MEM!ToWriteBack, MEM!wb_memory_read_data, MemIns, BusWires, forward_to_ex
<1> QED
  BY <1>2, <1>3, <1>4

\* Once MEM releases the pipeline, its result is that of the instruction in EX2MEM.
LEMMA WriteBackIsResult ==
  ASSUME HardwareTypeOK, MemWaits, ~mem_stall
  PROVE  /\ MEM!ToWriteBack(MemIns, BusWires).rd = ex2mem.inst.rd
         /\ MEM!ToWriteBack(MemIns, BusWires).enable <=> writes(ex2mem.inst)
         /\ forward_to_ex = IF is_load(ex2mem.inst) THEN mem ELSE ex2mem.data
<1> DEFINE ins == MemIns
<1> USE DEF HardwareTypeOK, MEM!TypeOK
<1>1. ins.rd = ex2mem.inst.rd /\ ins.data = ex2mem.data
  BY DEF MemIns
<1>2. /\ ins.kind = "load" <=> is_load(ex2mem.inst)
      /\ ins.kind = "store" <=> is_store(ex2mem.inst)
      /\ ins.kind \in {"alu", "load"} <=> writes(ex2mem.inst)
  BY DEF MemIns, kind, is_load, is_store, writes
<1> HIDE DEF ins
<1>3. ~MEM!in_active_read(BusWires)
  BY DEF mem_stall, MEM!ctrl_stall_flag, MEM!in_active_read
<1>4. CASE mem_access_state = "Read"
  <2>1. is_load(ex2mem.inst) /\ BusWires.read_valid
    BY <1>3, <1>4 DEF MemWaits, MEM!in_active_read
  <2> QED
    BY <1>1, <1>2, <1>3, <1>4, <2>1
    DEF MEM!ToWriteBack, MEM!regs_write_enable, MEM!regs_write_source, MEM!wb_memory_read_data,
        forward_to_ex, ins, BusWires
<1>5. CASE mem_access_state # "Read"
  <2>1. ~is_load(ex2mem.inst)
    BY <1>2, <1>5 DEF MemWaits, mem_stall, MEM!ctrl_stall_flag, MEM!memory_read_enable,
                      MEM!memory_write_enable, is_load, is_store, ins
  <2>2. ins.kind # "load"
    BY <1>2, <2>1
  <2>3. /\ MEM!ToWriteBack(ins, BusWires).rd = ins.rd
        /\ MEM!ToWriteBack(ins, BusWires).enable = MEM!regs_write_enable(ins)
        /\ MEM!ToWriteBack(ins, BusWires).value = ins.data
    BY <1>3, <2>2 DEF MEM!ToWriteBack, MEM!regs_write_source
  <2>4. MEM!regs_write_enable(ins) <=> writes(ex2mem.inst)
    BY <1>2 DEF MEM!regs_write_enable
  <2> QED
    BY <1>1, <2>1, <2>3, <2>4 DEF forward_to_ex, ins
<1> QED
  BY <1>4, <1>5

\* A register read is a word.
LEMMA ReadType ==
  ASSUME HardwareTypeOK, NEW rs \in Regs
  PROVE  Read(rs) \in Word
  BY WordFacts DEF HardwareTypeOK, Read

\* An operand is a word from whichever stage it comes.
LEMMA OperandType ==
  ASSUME HardwareTypeOK, NEW rs \in Regs, NEW own \in Word
  PROVE  Operand(rs, own) \in Word
<1>1. mem2wb.value \in Word
  BY DEF HardwareTypeOK
<1> QED
  BY <1>1, WriteBackTypes DEF Operand

\* What the register file shows is in reach of forwarding.
LEMMA ReadInReach == \A rs : InReach(rs, Read(rs))
  BY DEF InReach, Read

\* What forwarding picks is the newest value.
LEMMA OperandIsNewest ==
  ASSUME HardwareTypeOK, MemWaits, ~mem_stall, NEW rs \in Regs, NEW own, InReach(rs, own)
  PROVE  Operand(rs, own) = AfterMEM(rs)
<1>1. Visible[rs] = Read(rs)
  BY DEF Visible
<1> DEFINE inMEM == writes(ex2mem.inst) /\ ex2mem.inst.rd = rs
           inWB  == mem2wb.enable /\ mem2wb.rd = rs
<1>2. CASE rs = 0
  BY <1>1, <1>2 DEF InReach, Operand, Forward, FromMEM, FromWB, AfterMEM, Read
<1>3. CASE rs # 0 /\ inMEM
  BY <1>3, WriteBackIsResult DEF Operand, Forward, FromMEM, AfterMEM
<1>4. CASE rs # 0 /\ ~inMEM /\ inWB
  BY <1>1, <1>4 DEF Operand, Forward, FromMEM, FromWB, AfterMEM, Read
<1>5. CASE rs # 0 /\ ~inMEM /\ ~inWB
  BY <1>1, <1>5 DEF InReach, Operand, Forward, FromMEM, FromWB, AfterMEM, Read
<1> QED
  BY <1>2, <1>3, <1>4, <1>5

\* An operand picked up in ID is in reach one cycle later, in EX.
LEMMA LeavingID ==
  ASSUME HardwareTypeOK, MemWaits, ~mem_stall, MEM2WBStep, RegisterFileStep,
         NEW CONSTANT rs \in Regs, NEW CONSTANT v, v = Operand(rs, Read(rs))
  PROVE  InReach(rs, v)'
<1> DEFINE inMEM == writes(ex2mem.inst) /\ ex2mem.inst.rd = rs
           inWB  == mem2wb.enable /\ mem2wb.rd = rs
<1>1. /\ mem2wb'.rd = ex2mem.inst.rd
      /\ mem2wb'.enable <=> writes(ex2mem.inst)
  BY WriteBackIsResult DEF MEM2WBStep
<1>2. regs \in [Regs -> Word]
  BY DEF HardwareTypeOK
<1>3. CASE rs = 0
  BY <1>3 DEF InReach, Operand, Forward, FromMEM, FromWB, Read
<1>4. CASE rs # 0 /\ inMEM
  BY <1>1, <1>4 DEF InReach
<1>5. CASE rs # 0 /\ ~inMEM /\ inWB
  <2>1. v = mem2wb.value
    BY <1>5 DEF Operand, Forward, FromMEM, FromWB
  <2>2. regs'[rs] = mem2wb.value
    BY <1>2, <1>5 DEF RegisterFileStep
  <2> QED
    BY <1>5, <2>1, <2>2 DEF InReach
<1>6. CASE rs # 0 /\ ~inMEM /\ ~inWB
  <2>1. v = regs[rs]
    BY <1>6 DEF Operand, Forward, FromMEM, FromWB, Read
  <2>2. regs'[rs] = regs[rs]
    BY <1>2, <1>6 DEF RegisterFileStep
  <2> QED
    BY <1>6, <2>1, <2>2 DEF InReach
<1> QED
  BY <1>3, <1>4, <1>5, <1>6

\* It stays in reach while MEM holds the pipeline.
LEMMA HeldInEX ==
  ASSUME HardwareTypeOK, mem_stall, EX2MEMStep, MEM2WBStep, RegisterFileStep,
         NEW CONSTANT rs \in Regs, NEW CONSTANT v, InReach(rs, v)
  PROVE  InReach(rs, v)'
<1>1. ex2mem' = ex2mem /\ mem2wb' = mem2wb
  BY DEF EX2MEMStep, MEM2WBStep
<1>2. regs \in [Regs -> Word]
  BY DEF HardwareTypeOK
<1>3. CASE mem2wb.enable /\ mem2wb.rd = rs
  BY <1>1, <1>3 DEF InReach
<1>4. CASE ~(mem2wb.enable /\ mem2wb.rd = rs)
  <2>1. regs'[rs] = regs[rs]
    BY <1>2, <1>4 DEF RegisterFileStep
  <2> QED
    BY <1>1, <2>1 DEF InReach
<1> QED
  BY <1>3, <1>4

\* The operands of ID and of EX, and what EX writes to a CSR, are words.
LEMMA OperandTypes ==
  ASSUME HardwareTypeOK
  PROVE  /\ reg1 \in Word /\ reg2 \in Word
         /\ ex_reg1 \in Word /\ ex_reg2 \in Word
         /\ csr_write.data \in Word
<1>1. ID \in Instruction /\ id2ex.inst \in Instruction
  BY DEF HardwareTypeOK, ID
<1>2. /\ rs1_id(ID) \in Regs /\ rs2_id(ID) \in Regs
      /\ rs1_id(id2ex.inst) \in Regs /\ rs2_id(id2ex.inst) \in Regs
  BY <1>1, WordFacts, DecodedTypes
<1>3. id2ex.reg1 \in Word /\ id2ex.reg2 \in Word /\ id2ex.csr \in Word
  BY DEF HardwareTypeOK
<1>4. reg1 \in Word /\ reg2 \in Word
  BY <1>2, ReadType, OperandType DEF reg1, reg2
<1>5. ex_reg1 \in Word /\ ex_reg2 \in Word
  BY <1>2, <1>3, OperandType DEF ex_reg1, ex_reg2
<1>6. csr_write.data \in Word
  BY <1>3, <1>5 DEF csr_write
<1> QED
  BY <1>4, <1>5, <1>6

-----------------------------------------------------------------------------
(***************************************************************************)
(* The CSRs and the interrupt controller.                                  *)
(***************************************************************************)
\* Setting the two interrupt bits of mstatus leaves a word.
LEMMA WithBitsType ==
  ASSUME Words % 4 = 0, NEW m \in Word, NEW a \in {0, 1}, NEW b \in {0, 1}
  PROVE  with_bits(m, a, b) \in Word
<1>1. Words \in Nat /\ m \in Nat /\ m < Words
  BY InstructionsAssumption DEF Word
<1> DEFINE q == Words \div 4
           k == m \div 4
           r == m % 4
<1>2. Words = 4 * q /\ q \in Nat
  BY <1>1
<1>3. m = 4 * k + r /\ k \in Nat /\ r \in 0 .. 3
  BY <1>1
<1>4. with_bits(m, a, b) = (m - r) + 2 * a + b
  BY DEF with_bits
<1> HIDE DEF q, k, r
<1>5. k < q
  BY <1>1, <1>2, <1>3
<1>6. with_bits(m, a, b) = 4 * k + 2 * a + b
  BY <1>3, <1>4
<1>7. 2 * a + b \in 0 .. 3
  OBVIOUS
<1> QED
  BY <1>1, <1>2, <1>3, <1>5, <1>6, <1>7 DEF Word

\* The CSRs with the write of EX merged in are words.
LEMMA WrittenType ==
  ASSUME HardwareTypeOK
  PROVE  written(csr, csr_write) \in [Registers -> Word]
<1>1. csr \in [Registers -> Word]
  BY DEF HardwareTypeOK
<1>2. csr_write.data \in Word
  BY OperandTypes
<1>3. CASE ~(csr_write.enable /\ csr_write.address \in Registers)
  BY <1>1, <1>3 DEF written
<1>4. CASE csr_write.enable /\ csr_write.address \in Registers
  <2>1. written(csr, csr_write) = [csr EXCEPT ![csr_write.address] = csr_write.data]
    BY <1>4 DEF written
  <2> QED
    BY <1>1, <1>2, <1>4, <2>1
<1> QED
  BY <1>3, <1>4

\* Where no program takes a trap, none is taken.
LEMMA NoTraps ==
  ASSUME HardwareTypeOK, FromProgram, TrapsFit, Words % 4 # 0
  PROVE  ~is_ecall(ToClint) /\ ~interrupts(ToClint) /\ ~is_mret(ToClint)
<1>1. ~ToClint.interrupt_flag
  BY ZenonT(60) DEF TrapsFit, HardwareTypeOK, ToClint
<1>2. prog \in Programs
  BY DEF HardwareTypeOK
<1>3. \A a \in Word : prog[a].op \notin {"ecall", "mret"}
  BY <1>2 DEF TrapsFit
<1>4. NOP.op \notin {"ecall", "mret"}
  BY DEF NOP, Inst
<1>5. ID = NOP \/ \E a \in Word : ID = prog[a]
  BY DEF FromProgram, ID
<1>6. ID.op \notin {"ecall", "mret"}
  BY <1>3, <1>4, <1>5
<1>7. ToClint.instruction_id = ID
  BY DEF ToClint
<1> QED
  BY <1>1, <1>6, <1>7 DEF is_ecall, interrupts, is_mret

\* The interrupt controller redirects to a word and leaves words in the CSRs.
LEMMA ClintTypes ==
  ASSUME HardwareTypeOK, FromProgram, TrapsFit
  PROVE  /\ interrupt_handler_address(ToClint) \in Word
         /\ instruction_address(ToClint) \in Word
         /\ direct_write(ToClint) \in [Registers -> Word]
<1>1. ToClint.csr \in [Registers -> Word]
  BY WrittenType DEF ToClint
<1>2. target(ID, reg1) \in Word
  <2>1. ID \in Instruction
    BY DEF HardwareTypeOK, ID
  <2> QED
    BY <2>1, OperandTypes, WordFacts, DecodedTypes
<1>3. instruction_address(ToClint) \in Word
  <2>1. ToClint.jump_address = target(ID, reg1) /\ ToClint.instruction_address_if = pc
    BY DEF ToClint
  <2>2. pc \in Word
    BY DEF HardwareTypeOK, Fetch!TypeOK, Fetch!Word, Word
  <2> QED
    BY <1>2, <2>1, <2>2 DEF instruction_address
<1>4. interrupt_handler_address(ToClint) \in Word
  BY <1>1, WordFacts DEF interrupt_handler_address, Registers, MTVEC, MEPC
<1>5. direct_write(ToClint) \in [Registers -> Word]
  <2>1. CASE Words % 4 # 0
    BY <1>1, <2>1, NoTraps DEF direct_write
  <2>2. CASE Words % 4 = 0
    <3> DEFINE status == ToClint.csr[MSTATUS]
    <3>1. status \in Word /\ status \in Nat
      BY <1>1, WordFacts DEF Registers, MSTATUS
    <3>2. mstatus_MIE(status) \in {0, 1} /\ mstatus_MPIE(status) \in {0, 1}
      BY <3>1 DEF mstatus_MIE, mstatus_MPIE
    <3>3. mstatus_disable_interrupt(status) \in Word /\ mstatus_recover_interrupt(status) \in Word
      BY <2>2, <3>1, <3>2, WithBitsType
      DEF mstatus_disable_interrupt, mstatus_recover_interrupt
    <3>4. ECALL_CAUSE \in Word /\ TIMER_CAUSE \in Word
      BY WordFacts DEF ECALL_CAUSE, TIMER_CAUSE
    <3> HIDE DEF status
    <3> QED
      BY <1>1, <1>3, <3>3, <3>4 DEF direct_write, status
  <2> QED
    BY <2>1, <2>2
<1> QED
  BY <1>3, <1>4, <1>5


-----------------------------------------------------------------------------
(***************************************************************************)
(* The front end: predictions, corrections and the next pc.                *)
(***************************************************************************)
\* A remainder is an index.
LEMMA ModIndex == \A n \in Nat \ {0} : \A a \in Nat : a % n \in 0 .. n - 1
OBVIOUS

\* A quotient does not exceed the dividend.
LEMMA DivTag ==
  ASSUME NEW n \in Nat \ {0}, NEW a \in Nat
  PROVE  a \div n \in Nat /\ a \div n <= a
<1> DEFINE q == a \div n
           r == a % n
<1>1. /\ q \in Int /\ r \in 0 .. n - 1
      /\ a = n * q + r
  OBVIOUS
<1> HIDE DEF q, r
<1>2. q >= 0
  <2>1. CASE q < 0
    <3>1. n * q <= 0 - n
      <4>1. q <= 0 - 1
        BY <1>1, <2>1
      <4>2. PICK k \in Nat : q = 0 - 1 - k
        BY <1>1, <4>1
      <4>3. n * k >= 0
        BY <4>2
      <4>4. n * q = (0 - n) - (n * k)
        BY <4>2
      <4> QED
        BY <4>3, <4>4
    <3> QED
      BY <1>1, <3>1
  <2> QED
    BY <1>1, <2>1
<1>3. n * q >= q
  <2>1. (n - 1) * q >= 0
    BY <1>1, <1>2
  <2>2. n * q = (n - 1) * q + q
    BY <1>1
  <2> QED
    BY <1>1, <2>1, <2>2
<1>4. q <= a
  BY <1>1, <1>3
<1> QED
  BY <1>1, <1>2, <1>4 DEF q


\* An address has a slot in the BTB and its tag fits.
LEMMA BtbPlaces ==
  ASSUME NEW a \in Word
  PROVE  /\ Fetch!BTB!index(a) \in 0 .. BtbEntries - 1
         /\ Fetch!BTB!tag(a) \in Word
<1>1. BtbEntries \in Nat \ {0} /\ Words \in Nat
  BY CPUAssumption, InstructionsAssumption
<1>2. a \in Nat /\ a < Words
  BY <1>1 DEF Word
<1>3. a \div BtbEntries \in Nat /\ a \div BtbEntries <= a
  BY <1>1, <1>2, DivTag
<1>4. Fetch!BTB!tag(a) \in Word
  BY <1>1, <1>2, <1>3 DEF Fetch!BTB!tag, Word
<1> QED
  BY <1>1, <1>2, <1>4, ModIndex DEF Fetch!BTB!index

\* The BTB predicts a word.
LEMMA BtbTypes ==
  ASSUME Fetch!BTB!TypeOK, NEW a \in Word
  PROVE  /\ Fetch!BTB!predicted_taken(a) \in BOOLEAN
         /\ Fetch!BTB!predicted_pc(a) \in Word
<1>1. Fetch!BTB!predicted_taken(a) \in BOOLEAN
  BY DEF Fetch!BTB!predicted_taken, Fetch!BTB!hit
<1>2. btb[Fetch!BTB!index(a)].target \in Word
  BY BtbPlaces DEF Fetch!BTB!TypeOK, Fetch!BTB!Entry, Fetch!BTB!Address, Word
<1>3. Fetch!BTB!Succ(a) \in Word
  BY SuccType DEF Succ, Fetch!BTB!Succ
<1> QED
  BY <1>1, <1>2, <1>3 DEF Fetch!BTB!predicted_pc

\* Training keeps the types of the BTB; its counters saturate.
LEMMA BtbTypeStep ==
  ASSUME Fetch!BTB!TypeOK, NEW u, u.pc \in Word, u.target \in Word, Fetch!BTB!Step(u)
  PROVE  Fetch!BTB!TypeOK'
<1> DEFINE i == Fetch!BTB!index(u.pc)
           e == btb[i]
<1>1. i \in 0 .. BtbEntries - 1 /\ Fetch!BTB!tag(u.pc) \in Word
  BY BtbPlaces
<1>2. /\ e \in Fetch!BTB!Entry
      /\ e.counter \in 0 .. 3
  BY <1>1 DEF Fetch!BTB!TypeOK, Fetch!BTB!Entry
<1>3. Fetch!BTB!TakenEntry(u) \in Fetch!BTB!Entry
  <2>1. (IF ~Fetch!BTB!hit(u.pc) THEN 2 ELSE IF e.counter = 3 THEN 3 ELSE e.counter + 1) \in 0 .. 3
    BY <1>2
  <2> QED
    BY <1>1, <2>1 DEF Fetch!BTB!TakenEntry, Fetch!BTB!Entry, Fetch!BTB!Address, Word
<1>4. Fetch!BTB!NotTakenEntry(u) \in Fetch!BTB!Entry
  <2>1. CASE e.counter = 1
    <3>1. Fetch!BTB!NotTakenEntry(u) = [e EXCEPT !.valid = FALSE]
      BY <2>1 DEF Fetch!BTB!NotTakenEntry
    <3> HIDE DEF e
    <3> QED
      BY <1>2, <3>1 DEF Fetch!BTB!Entry
  <2>2. CASE e.counter > 1
    <3>1. Fetch!BTB!NotTakenEntry(u) = [e EXCEPT !.counter = e.counter - 1]
      BY <1>2, <2>2 DEF Fetch!BTB!NotTakenEntry
    <3> HIDE DEF e
    <3> QED
      BY <1>2, <2>2, <3>1 DEF Fetch!BTB!Entry
  <2>3. CASE e.counter = 0
    BY <1>2, <2>3 DEF Fetch!BTB!NotTakenEntry
  <2> QED
    BY <1>2, <2>1, <2>2, <2>3
<1> HIDE DEF i
<1>5. btb' \in {[btb EXCEPT ![i] = Fetch!BTB!TakenEntry(u)],
                [btb EXCEPT ![i] = Fetch!BTB!NotTakenEntry(u)], btb}
  BY Zenon DEF Fetch!BTB!Step, i
<1> QED
  BY <1>1, <1>3, <1>4, <1>5 DEF Fetch!BTB!TypeOK

\* The top of the return stack is one of its places, also when it is empty.
LEMMA RasTypes ==
  ASSUME Fetch!RAS!TypeOK
  PROVE  /\ Fetch!RAS!valid \in BOOLEAN /\ Fetch!RAS!predicted_addr \in Word
         /\ Fetch!RAS!tos_index \in 0 .. RasDepth - 1
<1>1. RasDepth \in Nat \ {0}
  BY CPUAssumption
<1>2. sp + RasDepth - 1 \in Nat
  BY <1>1 DEF Fetch!RAS!TypeOK
<1>3. Fetch!RAS!tos_index \in 0 .. RasDepth - 1
  BY <1>1, <1>2, ModIndex DEF Fetch!RAS!tos_index
<1>4. stack[Fetch!RAS!tos_index] \in Word
  BY <1>3 DEF Fetch!RAS!TypeOK, Fetch!RAS!Address, Word
<1> QED
  BY <1>3, <1>4, WordFacts DEF Fetch!RAS!predicted_addr, Fetch!RAS!valid

\* No push or pop takes the stack pointer out of its range.
LEMMA RasTypeStep ==
  ASSUME Fetch!RAS!TypeOK, NEW push, NEW a \in Word, NEW pop, Fetch!RAS!Step(push, a, pop)
  PROVE  Fetch!RAS!TypeOK'
<1> USE DEF Fetch!RAS!TypeOK
<1>1. RasDepth \in Nat \ {0}
  BY CPUAssumption
<1>2. a \in Fetch!RAS!Address
  BY DEF Fetch!RAS!Address, Word
<1>3. CASE Fetch!RAS!Replace(a)
  BY <1>2, <1>3, RasTypes DEF Fetch!RAS!Replace
<1>4. CASE Fetch!RAS!Push(a)
  BY <1>1, <1>2, <1>4 DEF Fetch!RAS!Push
<1>5. CASE Fetch!RAS!PushFull(a)
  BY <1>1, <1>2, <1>5 DEF Fetch!RAS!PushFull
<1>6. CASE Fetch!RAS!Pop
  BY <1>1, <1>6 DEF Fetch!RAS!Pop, Fetch!RAS!valid
<1>7. CASE UNCHANGED <<stack, sp>>
  BY <1>7
<1> QED
  BY <1>3, <1>4, <1>5, <1>6, <1>7 DEF Fetch!RAS!Step


\* A function into the naturals has a least value.
LEMMA Least ==
  ASSUME NEW S, S # {}, NEW f \in [S -> Nat]
  PROVE  \E i \in S : \A j \in S : f[i] <= f[j]
<1> DEFINE less == OpToRel(<, Nat)
<1>1. IsWellFoundedOn(less, Nat)
  BY NatLessThanWellFounded
<1>2. \A k, m \in Nat : <<k, m>> \notin less => m <= k
  BY DEF OpToRel
<1> HIDE DEF less
<1> DEFINE T == {f[i] : i \in S}
<1>3. T \subseteq Nat /\ T # {}
  OBVIOUS
<1> HIDE DEF T
<1>4. PICK m \in T : \A k \in T : <<k, m>> \notin less
  BY <1>1, <1>3, WFMin, Zenon
<1>5. \A k \in T : m <= k
  BY <1>2, <1>3, <1>4
<1> QED
  BY <1>5 DEF T

\* An IndirectBTB that hits has a youngest entry to predict from.
LEMMA IbtbTypes ==
  ASSUME Fetch!IBTB!TypeOK, NEW a \in Word
  PROVE  Fetch!IBTB!hit(a) \in BOOLEAN /\ Fetch!IBTB!predicted_target(a) \in Word
<1> DEFINE H == Fetch!IBTB!hits(a)
           M == Fetch!IBTB!mru(a)
<1>1. H \subseteq Fetch!IBTB!Index /\ IbtbEntries - 1 \in Nat
  BY CPUAssumption DEF Fetch!IBTB!hits
<1>2. ASSUME H # {}
      PROVE  M # {}
  <2> DEFINE age == [i \in H |-> ibtb[i].age]
  <2>1. age \in [H -> Nat]
    BY <1>1 DEF Fetch!IBTB!TypeOK, Fetch!IBTB!MaxAge
  <2> HIDE DEF age
  <2>2. PICK i \in H : \A j \in H : age[i] <= age[j]
    BY <1>2, <2>1, Least
  <2> QED
    BY <2>2 DEF Fetch!IBTB!mru, age
<1>3. ASSUME H # {}
      PROVE  ibtb[Fetch!IBTB!First(M)].target \in Word
  <2>1. M \subseteq Fetch!IBTB!Index
    BY <1>1 DEF Fetch!IBTB!mru
  <2>2. Fetch!IBTB!First(M) \in M
    BY <1>1, <1>2, <1>3, <2>1, FirstIsMember DEF Fetch!IBTB!Index
  <2> QED
    BY <2>1, <2>2 DEF Fetch!IBTB!TypeOK, Fetch!IBTB!Address, Word
<1> QED
  BY <1>3, WordFacts DEF Fetch!IBTB!predicted_target, Fetch!IBTB!hit


\* Growing older keeps the type of an entry; ages saturate.
LEMMA OlderType ==
  ASSUME Fetch!IBTB!TypeOK, NEW i \in Fetch!IBTB!Index
  PROVE  Fetch!IBTB!Older(ibtb[i]) \in
           [ valid: BOOLEAN, pc: Fetch!IBTB!Address, hash: 0 .. Hashes - 1,
             target: Fetch!IBTB!Address, age: 0 .. Fetch!IBTB!MaxAge ]
<1> DEFINE e == ibtb[i]
<1>1. e \in [ valid: BOOLEAN, pc: Fetch!IBTB!Address, hash: 0 .. Hashes - 1,
              target: Fetch!IBTB!Address, age: 0 .. Fetch!IBTB!MaxAge ]
  BY DEF Fetch!IBTB!TypeOK
<1> HIDE DEF e
<1>2. IbtbEntries - 1 \in Nat
  BY CPUAssumption
<1>3. CASE e.valid /\ e.age < Fetch!IBTB!MaxAge
  <2>1. Fetch!IBTB!Older(e) = [e EXCEPT !.age = e.age + 1]
    BY <1>3 DEF Fetch!IBTB!Older
  <2>2. e.age + 1 \in 0 .. Fetch!IBTB!MaxAge
    BY <1>1, <1>2, <1>3 DEF Fetch!IBTB!MaxAge
  <2> QED
    BY <1>1, <2>1, <2>2 DEF e
<1>4. CASE ~(e.valid /\ e.age < Fetch!IBTB!MaxAge)
  BY <1>1, <1>4 DEF Fetch!IBTB!Older, e
<1> QED
  BY <1>3, <1>4

\* Training and look-ups keep the types of the IndirectBTB.
LEMMA IbtbTypeStep ==
  ASSUME Fetch!IBTB!TypeOK, NEW u, u.pc \in Word, u.hash \in 0 .. Hashes - 1, u.target \in Word,
         NEW a, Fetch!IBTB!Step(a, u)
  PROVE  Fetch!IBTB!TypeOK'
<1> DEFINE Row == [ valid: BOOLEAN, pc: Fetch!IBTB!Address, hash: 0 .. Hashes - 1,
                    target: Fetch!IBTB!Address, age: 0 .. Fetch!IBTB!MaxAge ]
<1>1. \A i \in Fetch!IBTB!Index : ibtb[i] \in Row /\ Fetch!IBTB!Older(ibtb[i]) \in Row
  BY OlderType DEF Fetch!IBTB!TypeOK
<1>2. 0 \in 0 .. Fetch!IBTB!MaxAge
  BY CPUAssumption DEF Fetch!IBTB!MaxAge
<1>3. CASE Fetch!IBTB!Train(u)
  <2> DEFINE new == [ valid |-> TRUE, pc |-> u.pc, hash |-> u.hash, target |-> u.target,
                      age |-> 0 ]
             t == Fetch!IBTB!target_index(u)
  <2>1. new \in Row
    BY <1>2 DEF Fetch!IBTB!Address, Word
  <2>2. ibtb' = [i \in Fetch!IBTB!Index |-> IF i = t THEN new ELSE Fetch!IBTB!Older(ibtb[i])]
    BY <1>3, Zenon DEF Fetch!IBTB!Train
  <2> HIDE DEF new, t, Row
  <2>3. ibtb' \in [Fetch!IBTB!Index -> Row]
    BY <1>1, <2>1, <2>2
  <2> QED
    BY <2>3 DEF Fetch!IBTB!TypeOK, Row
<1>4. CASE Fetch!IBTB!Touch(a)
  <2>1. \A i \in Fetch!IBTB!Index : [ibtb[i] EXCEPT !.age = 0] \in Row
    BY <1>1, <1>2
  <2>2. ibtb' = [i \in Fetch!IBTB!Index |->
                   IF i \in Fetch!IBTB!mru(a) THEN [ibtb[i] EXCEPT !.age = 0]
                   ELSE Fetch!IBTB!Older(ibtb[i])]
    BY <1>4, Zenon DEF Fetch!IBTB!Touch
  <2> HIDE DEF Row
  <2>3. ibtb' \in [Fetch!IBTB!Index -> Row]
    BY <1>1, <2>1, <2>2
  <2> QED
    BY <2>3 DEF Fetch!IBTB!TypeOK, Row
<1>5. CASE UNCHANGED ibtb
  BY <1>5 DEF Fetch!IBTB!TypeOK
<1> QED
  BY <1>3, <1>4, <1>5 DEF Fetch!IBTB!Step


\* A flag and a word make a redirect.
LEMMA RedirectType ==
  ASSUME NEW flag \in BOOLEAN, NEW addr \in Word
  PROVE  [ flag |-> flag, addr |-> addr ] \in Fetch!Redirect
BY DEF Fetch!Redirect, Fetch!Word, Word

\* The predictions that travel with an instruction are redirects.
LEMMA PredictionTypes ==
  ASSUME HardwareTypeOK, NEW f
  PROVE  /\ Fetch!Predictions(f).btb \in Fetch!Redirect
         /\ Fetch!Predictions(f).ras \in Fetch!Redirect
         /\ Fetch!Predictions(f).ibtb \in Fetch!Redirect
         /\ Fetch!default_next_pc(f) \in Word
<1>1. Fetch!BTB!TypeOK /\ Fetch!RAS!TypeOK /\ Fetch!IBTB!TypeOK /\ pc \in Word
  BY DEF HardwareTypeOK, Fetch!TypeOK, Fetch!Word, Word
<1> DEFINE b == Fetch!BTB!predicted_taken(pc)
           r == Fetch!RAS!valid /\ Fetch!speculative_ras_pop(f)
           i == Fetch!IBTB!hit(pc) /\ Fetch!is_jalr(f.inst) /\ ~Fetch!is_return(f.inst)
                /\ Fetch!fetching(f)
           p == Fetch!Predictions(f)
<1>2. b \in BOOLEAN /\ r \in BOOLEAN /\ i \in BOOLEAN
  <2>1. b \in BOOLEAN
    BY <1>1, BtbTypes
  <2> QED
    BY <2>1
<1>3. /\ Fetch!BTB!predicted_pc(pc) \in Word
      /\ Fetch!RAS!predicted_addr \in Word
      /\ Fetch!IBTB!predicted_target(pc) \in Word
  BY <1>1, BtbTypes, RasTypes, IbtbTypes
<1>4. /\ p.btb = [ flag |-> b, addr |-> Fetch!BTB!predicted_pc(pc) ]
      /\ p.ras = [ flag |-> r, addr |-> Fetch!RAS!predicted_addr ]
      /\ p.ibtb = [ flag |-> i, addr |-> Fetch!IBTB!predicted_target(pc) ]
  BY DEF Fetch!Predictions
<1> HIDE DEF b, r, i, p
<1>5. p.btb \in Fetch!Redirect /\ p.ras \in Fetch!Redirect /\ p.ibtb \in Fetch!Redirect
  BY <1>2, <1>3, <1>4, RedirectType
<1>6. p.btb.addr \in Word /\ p.ras.addr \in Word /\ p.ibtb.addr \in Word
  BY <1>3, <1>4
<1>7. Fetch!default_next_pc(f) \in Word
  BY <1>6 DEF Fetch!default_next_pc, p
<1> QED
  BY <1>5, <1>7 DEF p

\* The wires from ID to IF are typed.
LEMMA WireTypes ==
  ASSUME HardwareTypeOK, FromProgram, TrapsFit
  PROVE  /\ if_jump_flag \in BOOLEAN /\ if_jump_address \in Word
         /\ btb_mispredict_raw \in BOOLEAN
         /\ btb_correction_addr_raw \in Word /\ btb_correction_addr \in Word
<1>1. ID \in Instruction /\ if2id.pc \in Word /\ btb_pending.addr \in Word
  BY DEF HardwareTypeOK, ID, Fetch!Redirect, Fetch!Word, Word
<1>2. target(ID, reg1) \in Word
  BY <1>1, OperandTypes, WordFacts, DecodedTypes
<1>3. if_jump_address \in Word
  BY <1>2, ClintTypes DEF if_jump_address
<1>4. Succ(if2id.pc) \in Word
  BY <1>1, SuccType
<1>5. btb_correction_addr_raw \in Word
  BY <1>3, <1>4 DEF btb_correction_addr_raw
<1>6. btb_correction_addr \in Word
  BY <1>1, <1>5 DEF btb_correction_addr
<1>7. if_jump_flag \in BOOLEAN
  BY DEF if_jump_flag, interrupt_assert
<1>8. btb_mispredict_raw \in BOOLEAN
  BY DEF btb_mispredict_raw
<1> QED
  BY <1>3, <1>5, <1>6, <1>7, <1>8

\* A clock edge keeps the types of IF, its latch and its predictors.
LEMMA FetchTypeStep ==
  ASSUME HardwareTypeOK, FromProgram, TrapsFit, Fetch!Step(ToFetch)
  PROVE  Fetch!TypeOK'
<1> DEFINE f == ToFetch
<1>1. /\ f.jump_flag = if_jump_flag /\ f.jump_address = if_jump_address
      /\ f.correction = btb_correction_addr
      /\ f.btb_update.pc = if2id.pc /\ f.btb_update.target = if_jump_address
      /\ f.push_addr = Succ(if2id.pc)
      /\ f.ibtb_update.pc = if2id.pc /\ f.ibtb_update.target = if_jump_address
      /\ f.ibtb_update.hash = Fetch!IBTB!hash(reg1)
  BY DEF ToFetch
<1>2. /\ if2id.pc \in Word /\ pc \in Word
      /\ pending_jump \in Fetch!Redirect /\ prev_jump \in Fetch!Redirect
      /\ pending_jump.addr \in Word
      /\ Fetch!BTB!TypeOK /\ Fetch!RAS!TypeOK /\ Fetch!IBTB!TypeOK
  BY DEF HardwareTypeOK, Fetch!TypeOK, Fetch!Redirect, Fetch!Word, Word
<1>3. Fetch!IBTB!hash(reg1) \in 0 .. Hashes - 1
  BY CPUAssumption, OperandTypes, WordFacts, ModIndex DEF Fetch!IBTB!hash
<1> HIDE DEF f
<1>4. pc' \in Word
  <2>1. pc' = Fetch!next_pc(f)
    BY DEF Fetch!Step, f
  <2>2. Fetch!default_next_pc(f) \in Word
    BY PredictionTypes
  <2> QED
    BY <1>1, <1>2, <2>1, <2>2, WireTypes DEF Fetch!next_pc
<1>5. [ flag |-> f.jump_flag, addr |-> f.jump_address ] \in Fetch!Redirect
  BY <1>1, WireTypes, RedirectType
<1>6. prev_jump' \in Fetch!Redirect
  BY <1>5 DEF Fetch!Step, f
<1>7. pending_jump' \in Fetch!Redirect
  <2>1. CASE pending_jump' = [pending_jump EXCEPT !.flag = FALSE]
    BY <1>2, <2>1 DEF Fetch!Redirect
  <2>2. CASE pending_jump' = [ flag |-> TRUE, addr |-> f.jump_address ]
    BY <1>1, <2>2, WireTypes, RedirectType
  <2>3. CASE pending_jump' \in {prev_jump, pending_jump}
    BY <1>2, <2>3
  <2>4. Fetch!LatchJump(f)
    BY DEF Fetch!Step, f
  <2> QED
    BY <2>1, <2>2, <2>3, <2>4 DEF Fetch!LatchJump
<1>8. Fetch!BTB!TypeOK'
  <2>1. Fetch!BTB!Step(f.btb_update)
    BY DEF Fetch!Step, f
  <2> QED
    BY <1>1, <1>2, <2>1, WireTypes, BtbTypeStep
<1>9. Fetch!RAS!TypeOK'
  <2>1. Fetch!RAS!Step(f.push, f.push_addr, Fetch!speculative_ras_pop(f))
    BY DEF Fetch!Step, f
  <2>2. f.push_addr \in Word
    BY <1>1, <1>2, SuccType
  <2> QED
    BY <1>2, <2>1, <2>2, RasTypeStep
<1>10. Fetch!IBTB!TypeOK'
  <2>1. Fetch!IBTB!Step(pc, f.ibtb_update)
    BY DEF Fetch!Step, f
  <2> QED
    BY <1>1, <1>2, <1>3, <2>1, WireTypes, IbtbTypeStep
<1> QED
  BY <1>4, <1>6, <1>7, <1>8, <1>9, <1>10 DEF Fetch!TypeOK, Fetch!Word, Word


-----------------------------------------------------------------------------
(***************************************************************************)
(* One clock edge, register by register.                                   *)
(***************************************************************************)
\* IF2ID holds a bubble or an instruction of the program.
LEMMA IF2IDPreserved ==
  ASSUME HardwareTypeOK, FromProgram, IF2IDStep, UNCHANGED prog
  PROVE  /\ if2id' \in [ inst: Instruction, pc: Word, btb: Fetch!Redirect,
                         ras: Fetch!Redirect, ibtb: Fetch!Redirect ]
         /\ FromProgram'
<1> DEFINE Slot == [ inst: Instruction, pc: Word, btb: Fetch!Redirect,
                     ras: Fetch!Redirect, ibtb: Fetch!Redirect ]
           p == Fetch!Predictions(ToFetch)
           word == IF load_finished THEN prog[pc] ELSE NOP
           next == [ inst |-> word, pc |-> pc, btb |-> p.btb, ras |-> p.ras, ibtb |-> p.ibtb ]
<1>1. pc \in Word /\ prog \in [Word -> Instruction] /\ if2id \in Slot
  BY CPUAssumption DEF HardwareTypeOK, Fetch!TypeOK, Fetch!Word, Word
<1>2. word \in Instruction /\ word \in {NOP} \cup {prog[a] : a \in Word}
  BY <1>1, FlushedTypes
<1>3. p.btb \in Fetch!Redirect /\ p.ras \in Fetch!Redirect /\ p.ibtb \in Fetch!Redirect
  BY PredictionTypes
<1>4. NoJump \in Fetch!Redirect
  BY WordFacts, RedirectType DEF NoJump
<1>5. if2id' \in {FlushedIF2ID, if2id, next}
  BY Zenon DEF IF2IDStep
<1> HIDE DEF word, p
<1>6. FlushedIF2ID \in Slot /\ FlushedIF2ID.inst = NOP
  BY <1>4, FlushedTypes, WordFacts DEF FlushedIF2ID
<1>7. next \in Slot /\ next.inst = word
  BY <1>1, <1>2, <1>3
<1> HIDE DEF Slot, next
<1>8. if2id' \in Slot
  BY <1>1, <1>5, <1>6, <1>7
<1>9. if2id'.inst \in {NOP} \cup {prog[a] : a \in Word}
  BY <1>2, <1>5, <1>6, <1>7 DEF FromProgram
<1> QED
  BY <1>8, <1>9 DEF Slot, FromProgram

\* Whether ID2EX is flushed, held or filled, its operands are in reach.
LEMMA ID2EXPreserved ==
  ASSUME HardwareTypeOK, MemWaits, OperandsInReach,
         ID2EXStep, EX2MEMStep, MEM2WBStep, RegisterFileStep
  PROVE  /\ id2ex' \in [ inst: Instruction, pc: Word, reg1: Word, reg2: Word, csr: Word ]
         /\ OperandsInReach'
<1> DEFINE Slot == [ inst: Instruction, pc: Word, reg1: Word, reg2: Word, csr: Word ]
           read == IF is_csr(ID) THEN read_data(csr, ID.imm) ELSE 0
           next == [ inst |-> ID, pc |-> if2id.pc, reg1 |-> reg1, reg2 |-> reg2, csr |-> read ]
<1>1. ID \in Instruction /\ if2id.pc \in Word /\ id2ex \in Slot
  BY DEF HardwareTypeOK, ID
<1>2. id2ex.inst \in Instruction
  BY <1>1
<1>3. read \in Word
  BY WordFacts DEF read_data, HardwareTypeOK
<1>4. reg1 \in Word /\ reg2 \in Word
  BY OperandTypes
<1>5. FlushedID2EX \in Slot
  BY FlushedTypes, WordFacts DEF FlushedID2EX
<1>6. rs1_id(Bubble) = 0 /\ rs2_id(Bubble) = 0
  BY DEF rs1_id, rs2_id, Bubble, Inst
<1>7. /\ rs1_id(ID) \in Regs /\ rs2_id(ID) \in Regs
      /\ rs1_id(id2ex.inst) \in Regs /\ rs2_id(id2ex.inst) \in Regs
  BY <1>1, <1>2, WordFacts, DecodedTypes
<1> HIDE DEF read
<1>8. next \in Slot
  BY <1>1, <1>3, <1>4
<1>9. CASE id2ex' = FlushedID2EX
  <2>1. id2ex'.inst = Bubble /\ id2ex'.reg1 = 0 /\ id2ex'.reg2 = 0
    BY <1>9 DEF FlushedID2EX
  <2>2. OperandsInReach'
    BY <1>6, <2>1 DEF OperandsInReach, InReach
  <2> QED
    BY <1>5, <1>9, <2>2
<1>10. CASE mem_stall /\ id2ex' = id2ex
  <2>1. InReach(rs1_id(id2ex.inst), id2ex.reg1) /\ InReach(rs2_id(id2ex.inst), id2ex.reg2)
    BY DEF OperandsInReach
  <2>2. \A rs \in Regs, v \in Word : InReach(rs, v) => InReach(rs, v)'
    BY <1>10, HeldInEX
  <2> QED
    BY <1>1, <1>7, <1>10, <2>1, <2>2 DEF OperandsInReach
<1>11. CASE ~mem_stall /\ id2ex' = next
  <2>1. PICK r1 \in Regs, r2 \in Regs, v1 \in Word, v2 \in Word :
          /\ r1 = rs1_id(ID) /\ v1 = reg1 /\ v1 = Operand(r1, Read(r1))
          /\ r2 = rs2_id(ID) /\ v2 = reg2 /\ v2 = Operand(r2, Read(r2))
    BY <1>4, <1>7 DEF reg1, reg2
  <2>2. \A rs \in Regs, v \in Word : v = Operand(rs, Read(rs)) => InReach(rs, v)'
    BY <1>11, LeavingID
  <2>3. InReach(r1, v1)' /\ InReach(r2, v2)'
    BY <2>1, <2>2
  <2>4. id2ex'.inst = ID /\ id2ex'.reg1 = v1 /\ id2ex'.reg2 = v2
    BY <1>11, <2>1
  <2>5. rs1_id(id2ex.inst)' = r1 /\ rs2_id(id2ex.inst)' = r2
    BY <2>1, <2>4
  <2>6. OperandsInReach'
    BY <2>3, <2>4, <2>5 DEF OperandsInReach
  <2> QED
    BY <1>8, <1>11, <2>6
<1> QED
  BY <1>9, <1>10, <1>11 DEF ID2EXStep, read


\* EX hands on a word.
LEMMA EX2MEMPreserved ==
  ASSUME HardwareTypeOK, EX2MEMStep
  PROVE  ex2mem' \in [ inst: Instruction, pc: Word, data: Word ]
<1> DEFINE data == IF is_store(id2ex.inst) THEN ex_reg2
                   ELSE IF is_csr(id2ex.inst) THEN id2ex.csr
                   ELSE IF writes(id2ex.inst) /\ ~is_load(id2ex.inst)
                   THEN result(id2ex.inst, id2ex.pc, ex_reg1) ELSE 0
<1>1. id2ex.inst \in Instruction /\ id2ex.pc \in Word /\ id2ex.csr \in Word
  BY DEF HardwareTypeOK
<1>2. ex_reg1 \in Word /\ ex_reg2 \in Word
  BY OperandTypes
<1>3. result(id2ex.inst, id2ex.pc, ex_reg1) \in Word
  BY <1>1, <1>2, DecodedTypes
<1>4. data \in Word
  BY <1>1, <1>2, <1>3, WordFacts
<1>5. ex2mem' = IF mem_stall THEN ex2mem
                ELSE [ inst |-> id2ex.inst, pc |-> id2ex.pc, data |-> data ]
  BY Zenon DEF EX2MEMStep
<1> HIDE DEF data
<1>6. ex2mem \in [ inst: Instruction, pc: Word, data: Word ]
  BY DEF HardwareTypeOK
<1> QED
  BY <1>1, <1>4, <1>5, <1>6

\* MEM waits for nothing but what the instruction in EX2MEM asked for.
LEMMA MemPreserved ==
  ASSUME HardwareTypeOK, MemWaits, MEM!Step(MemIns, BusWires), EX2MEMStep
  PROVE  MEM!TypeOK' /\ MemWaits'
<1> DEFINE ins == MemIns
<1>1. /\ ins.kind = "load" <=> is_load(ex2mem.inst)
      /\ ins.kind = "store" <=> is_store(ex2mem.inst)
      /\ ins.rd = ex2mem.inst.rd /\ ins.rd \in Regs
  BY DEF MemIns, kind, is_load, is_store, writes, HardwareTypeOK, Instruction
<1>2. BusWires.read_data \in Word
  BY DEF BusWires, HardwareTypeOK
<1>3. mem_access_state \in {"Idle", "Read", "Write"}
  BY DEF HardwareTypeOK, MEM!TypeOK
<1>4. latched \in [ data: Word, source: MEM!Sources, rd: Regs, enable: BOOLEAN ]
  BY DEF HardwareTypeOK, MEM!TypeOK
<1> HIDE DEF ins
<1>5. /\ MEM!regs_write_source(ins) \in MEM!Sources
      /\ MEM!regs_write_enable(ins) \in BOOLEAN
  BY DEF MEM!regs_write_source, MEM!Sources, MEM!regs_write_enable
<1>6. MEM!TypeOK'
  <2>1. CASE UNCHANGED <<mem_access_state, latched>>
    BY <1>3, <1>4, <2>1 DEF MEM!TypeOK
  <2>2. CASE MEM!FinishRead(BusWires)
    BY <1>2, <1>4, <2>2 DEF MEM!FinishRead, MEM!TypeOK
  <2>3. CASE MEM!FinishWrite(BusWires)
    BY <1>4, <2>3 DEF MEM!FinishWrite, MEM!TypeOK
  <2>4. CASE MEM!StartRead(ins, BusWires)
    <3>1. mem_access_state' \in {"Idle", "Read", "Write"}
      BY <2>4 DEF MEM!StartRead
    <3>2. latched' = [latched EXCEPT !.source = MEM!regs_write_source(ins), !.rd = ins.rd,
                                     !.enable = MEM!regs_write_enable(ins)]
      BY <2>4, Zenon DEF MEM!StartRead
    <3>3. latched' \in [ data: Word, source: MEM!Sources, rd: Regs, enable: BOOLEAN ]
      BY <1>1, <1>4, <1>5, <3>2
    <3> QED
      BY <3>1, <3>3 DEF MEM!TypeOK
  <2>5. CASE MEM!StartWrite(ins, BusWires)
    BY <1>4, <2>5 DEF MEM!StartWrite, MEM!TypeOK
  <2> QED
    BY <2>1, <2>2, <2>3, <2>4, <2>5
    DEF MEM!Step, MEM!AwaitRead, MEM!AwaitWrite, MEM!Pass, ins
<1>7. MemWaits'
  <2>1. mem_stall => ex2mem' = ex2mem
    BY DEF EX2MEMStep
  <2>2. CASE mem_access_state' = "Idle"
    BY <2>2 DEF MemWaits
  <2>3. CASE UNCHANGED mem_access_state /\ mem_stall
    BY <2>1, <2>3 DEF MemWaits
  <2>4. CASE /\ mem_access_state = "Idle" /\ MEM!memory_read_enable(ins)
             /\ mem_access_state' = "Read"
    <3>1. mem_stall
      BY <2>4 DEF mem_stall, MEM!ctrl_stall_flag, ins
    <3> QED
      BY <1>1, <2>1, <2>4, <3>1 DEF MemWaits, MEM!memory_read_enable
  <2>5. CASE /\ mem_access_state = "Idle" /\ MEM!memory_write_enable(ins)
             /\ mem_access_state' = "Write"
    <3>1. mem_stall
      BY <2>5 DEF mem_stall, MEM!ctrl_stall_flag, ins
    <3> QED
      BY <1>1, <2>1, <2>5, <3>1 DEF MemWaits, MEM!memory_write_enable
  <2>6. MEM!AwaitRead(BusWires) \/ MEM!AwaitWrite(BusWires)
          => UNCHANGED mem_access_state /\ mem_stall
    BY DEF MEM!AwaitRead, MEM!AwaitWrite, mem_stall, MEM!ctrl_stall_flag
  <2> QED
    BY <2>2, <2>3, <2>4, <2>5, <2>6
    DEF MEM!Step, MEM!FinishRead, MEM!FinishWrite, MEM!StartRead, MEM!StartWrite, MEM!Pass, ins
<1> QED
  BY <1>6, <1>7

\* Write-back puts a word into a register.
LEMMA MEM2WBPreserved ==
  ASSUME HardwareTypeOK, MEM2WBStep, RegisterFileStep
  PROVE  /\ mem2wb' \in [ rd: Regs, enable: BOOLEAN, value: Word, inst: Instruction ]
         /\ regs' \in [Regs -> Word]
<1> DEFINE w == MEM!ToWriteBack(MemIns, BusWires)
<1>1. w.rd \in Regs /\ w.enable \in BOOLEAN /\ w.value \in Word
  BY WriteBackTypes DEF forward_to_ex
<1>2. mem2wb' = IF mem_stall THEN mem2wb
                ELSE [ rd |-> w.rd, enable |-> w.enable, value |-> w.value,
                       inst |-> ex2mem.inst ]
  BY Zenon DEF MEM2WBStep
<1> HIDE DEF w
<1>3. mem2wb' \in [ rd: Regs, enable: BOOLEAN, value: Word, inst: Instruction ]
  BY <1>1, <1>2 DEF HardwareTypeOK
<1>4. regs' \in [Regs -> Word]
  BY DEF RegisterFileStep, HardwareTypeOK
<1> QED
  BY <1>3, <1>4

\* A correction that a stall holds back is a redirect.
LEMMA BtbPendingPreserved ==
  ASSUME HardwareTypeOK, FromProgram, TrapsFit, BtbPendingStep
  PROVE  btb_pending' \in Fetch!Redirect
<1>1. [ flag |-> TRUE, addr |-> btb_correction_addr_raw ] \in Fetch!Redirect
  BY WireTypes, RedirectType
<1>2. [btb_pending EXCEPT !.flag = @ /\ mem_stall] \in Fetch!Redirect
  BY DEF HardwareTypeOK, Fetch!Redirect, mem_stall
<1> QED
  BY <1>1, <1>2 DEF BtbPendingStep


-----------------------------------------------------------------------------
(***************************************************************************)
(* The inductive invariant.                                                *)
(***************************************************************************)
\* The reset state satisfies the invariant.
LEMMA InitIInv == Init => IInv
<1> SUFFICES ASSUME Init
             PROVE  IInv
  OBVIOUS
<1> USE DEF Init
<1>1. NoJump \in Fetch!Redirect /\ NoJump.flag = FALSE
  BY WordFacts, RedirectType DEF NoJump
<1>2. {BtbEntries, RasDepth, IbtbEntries, Hashes} \subseteq Nat \ {0}
  BY CPUAssumption
<1>3. Fetch!TypeOK
  <2>1. Fetch!BTB!TypeOK
    BY WordFacts DEF Fetch!Init, Fetch!BTB!Init, Fetch!BTB!TypeOK, Fetch!BTB!Entry,
                     Fetch!BTB!Address, Word
  <2>2. Fetch!RAS!TypeOK
    BY <1>2, WordFacts DEF Fetch!Init, Fetch!RAS!Init, Fetch!RAS!TypeOK, Fetch!RAS!Address, Word
  <2>3. Fetch!IBTB!TypeOK
    <3>1. 0 \in 0 .. Hashes - 1 /\ 0 \in 0 .. IbtbEntries - 1
      BY <1>2
    <3> QED
      BY <3>1, WordFacts DEF Fetch!Init, Fetch!IBTB!Init, Fetch!IBTB!TypeOK, Fetch!IBTB!MaxAge,
                             Fetch!IBTB!Address, Word
  <2>4. pc \in Fetch!Word /\ {pending_jump, prev_jump} \subseteq Fetch!Redirect
    BY <1>1, WordFacts DEF Fetch!Init, NoJump, Fetch!Word, Word
  <2> QED
    BY <2>1, <2>2, <2>3, <2>4 DEF Fetch!TypeOK
<1>4. HardwareTypeOK
  <2>1. /\ if2id \in [ inst: Instruction, pc: Word, btb: Fetch!Redirect,
                       ras: Fetch!Redirect, ibtb: Fetch!Redirect ]
        /\ id2ex \in [ inst: Instruction, pc: Word, reg1: Word, reg2: Word, csr: Word ]
        /\ ex2mem \in [ inst: Instruction, pc: Word, data: Word ]
    BY <1>1, FlushedTypes, WordFacts DEF FlushedIF2ID, FlushedID2EX
  <2>2. /\ mem2wb \in [ rd: Regs, enable: BOOLEAN, value: Word, inst: Instruction ]
        /\ regs \in [Regs -> Word]
    BY FlushedTypes, WordFacts, InstructionsAssumption
  <2>3. MEM!TypeOK
    BY WordFacts, InstructionsAssumption DEF MEM!Init, MEM!TypeOK, MEM!Sources
  <2>4. csr \in [Registers -> Word] /\ mem \in Word
    BY WordFacts DEF csr_reset
  <2> QED
    BY <1>1, <1>3, <2>1, <2>2, <2>3, <2>4 DEF HardwareTypeOK
<1>5. MemWaits
  BY DEF MemWaits, MEM!Init
<1>6. OperandsInReach
  BY DEF OperandsInReach, InReach, FlushedID2EX, Bubble, Inst, rs1_id, rs2_id
<1>7. FromProgram
  BY DEF FromProgram, FlushedIF2ID
<1>8. PredictorsConsistent
  BY DEF PredictorsConsistent, Fetch!Init, Fetch!BTB!Init, Fetch!BTB!LiveEntries,
         Fetch!IBTB!Init, Fetch!IBTB!NoTwins
<1> QED
  BY <1>4, <1>5, <1>6, <1>7, <1>8 DEF IInv

\* Every clock edge preserves the invariant.
LEMMA StepIInv ==
  ASSUME TrapsFit, IInv, [Next]_vars
  PROVE  IInv'
<1> USE DEF IInv
<1>1. CASE UNCHANGED vars
  <2>1. HardwareTypeOK'
    BY <1>1 DEF HardwareTypeOK, vars, fetch_vars, Fetch!TypeOK, Fetch!BTB!TypeOK,
                Fetch!RAS!TypeOK, Fetch!IBTB!TypeOK, MEM!TypeOK
  <2>2. MemWaits' /\ OperandsInReach' /\ FromProgram'
    BY <1>1 DEF MemWaits, OperandsInReach, InReach, FromProgram, vars
  <2>3. PredictorsConsistent'
    BY <1>1 DEF PredictorsConsistent, Fetch!BTB!LiveEntries, Fetch!IBTB!NoTwins, vars, fetch_vars
  <2> QED
    BY <2>1, <2>2, <2>3
<1>2. ASSUME NEW answer \in BOOLEAN, Tick(answer)
      PROVE  IInv'
  <2>1. Fetch!TypeOK'
    BY <1>2, FetchTypeStep DEF Tick
  <2>2. /\ if2id' \in [ inst: Instruction, pc: Word, btb: Fetch!Redirect,
                        ras: Fetch!Redirect, ibtb: Fetch!Redirect ]
        /\ FromProgram'
    BY <1>2, IF2IDPreserved DEF Tick
  <2>3. /\ id2ex' \in [ inst: Instruction, pc: Word, reg1: Word, reg2: Word, csr: Word ]
        /\ OperandsInReach'
    BY <1>2, ID2EXPreserved DEF Tick
  <2>4. ex2mem' \in [ inst: Instruction, pc: Word, data: Word ]
    BY <1>2, EX2MEMPreserved DEF Tick
  <2>5. MEM!TypeOK' /\ MemWaits'
    BY <1>2, MemPreserved DEF Tick
  <2>6. /\ mem2wb' \in [ rd: Regs, enable: BOOLEAN, value: Word, inst: Instruction ]
        /\ regs' \in [Regs -> Word]
    BY <1>2, MEM2WBPreserved DEF Tick
  <2>7. btb_pending' \in Fetch!Redirect
    BY <1>2, BtbPendingPreserved DEF Tick
  <2>8. csr' \in [Registers -> Word]
    BY <1>2, ClintTypes DEF Tick, CSRStep
  <2>9. /\ prog' \in Programs /\ load_finished' \in BOOLEAN
        /\ bus' \in {"free", "busy", "done"} /\ mem' \in Word /\ interrupt' \in Interrupts
    BY <1>2 DEF HardwareTypeOK, Tick, BusStep, MemoryStep
  <2>10. HardwareTypeOK'
    BY <2>1, <2>2, <2>3, <2>4, <2>5, <2>6, <2>7, <2>8, <2>9 DEF HardwareTypeOK
  <2>11. PredictorsConsistent'
    <3>1. Fetch!BTB!TypeOK /\ Fetch!IBTB!TypeOK
      BY DEF HardwareTypeOK, Fetch!TypeOK
    <3>2. /\ Fetch!BTB!Step(ToFetch.btb_update)
          /\ Fetch!IBTB!Step(pc, ToFetch.ibtb_update)
      BY <1>2 DEF Tick, Fetch!Step
    <3> QED
      BY <3>1, <3>2, BtbStep, IbtbStep DEF PredictorsConsistent
  <2> QED
    BY <2>2, <2>3, <2>5, <2>10, <2>11
<1> QED
  BY <1>1, <1>2 DEF Next

\* The registers of the pipeline hold values of their types, whatever the
\* interrupts, the bus and the predictors do.
THEOREM HardwareTypeCorrect == ASSUME TrapsFit PROVE Spec => []HardwareTypeOK
<1>1. IInv /\ [Next]_vars => IInv'
  BY StepIInv
<1>2. IInv => HardwareTypeOK
  BY DEF IInv
<1> QED
  BY InitIInv, <1>1, <1>2, PTL DEF Spec

\* An instruction that leaves EX has computed with the newest values of its
\* operands, whatever the distance to the instructions that produce them and
\* however many cycles MEM has held it.
THEOREM NewestOperands == ASSUME TrapsFit PROVE Spec => []OperandsAreNewest
<1>1. IInv /\ [Next]_vars => IInv'
  BY StepIInv
<1>2. IInv => OperandsAreNewest
  <2> SUFFICES ASSUME IInv, ~mem_stall
               PROVE  /\ ex_reg1 = AfterMEM(rs1_id(id2ex.inst))
                      /\ ex_reg2 = AfterMEM(rs2_id(id2ex.inst))
    BY DEF OperandsAreNewest
  <2>1. rs1_id(id2ex.inst) \in Regs /\ rs2_id(id2ex.inst) \in Regs
    BY WordFacts, DecodedTypes DEF IInv, HardwareTypeOK
  <2> QED
    BY <2>1, OperandIsNewest DEF IInv, OperandsInReach, ex_reg1, ex_reg2
<1> QED
  BY InitIInv, <1>1, <1>2, PTL DEF Spec

\* A jump that decides in ID does so with values that no instruction ahead of
\* it is still to produce: the branch hazards leave no case out.
THEOREM NewestForJumps == ASSUME TrapsFit PROVE Spec => []JumpsDecideOnNewest
<1>1. IInv /\ [Next]_vars => IInv'
  BY StepIInv
<1>2. IInv => JumpsDecideOnNewest
  <2> SUFFICES ASSUME IInv, is_jump(ID), ~hazard, ~mem_stall,
                      NEW rs \in {rs1_id(ID), rs2_id(ID)}
               PROVE  /\ rs # 0 => ~(writes(id2ex.inst) /\ id2ex.inst.rd = rs)
                      /\ Operand(rs, Read(rs)) = AfterMEM(rs)
    BY DEF JumpsDecideOnNewest
  <2>1. rs \in Regs
    BY WordFacts, DecodedTypes DEF IInv, HardwareTypeOK, ID
  <2>2. Operand(rs, Read(rs)) = AfterMEM(rs)
    BY <2>1, ReadInReach, OperandIsNewest DEF IInv
  <2>3. rs # 0 => ~(writes(id2ex.inst) /\ id2ex.inst.rd = rs)
    BY DEF hazard, branch_hazard, ex_hazard_for_branch, reads, Hazards
  <2> QED
    BY <2>2, <2>3
<1> QED
  BY InitIInv, <1>1, <1>2, PTL DEF Spec

\* No schedule of training and look-ups leaves a dead entry in the BTB or two
\* entries for one jump in the IndirectBTB, whatever their sizes.
THEOREM ConsistentPredictors == ASSUME TrapsFit PROVE Spec => []PredictorsConsistent
<1>1. IInv /\ [Next]_vars => IInv'
  BY StepIInv
<1>2. IInv => PredictorsConsistent
  BY DEF IInv
<1> QED
  BY InitIInv, <1>1, <1>2, PTL DEF Spec

-----------------------------------------------------------------------------
(***************************************************************************)
(* Sequential execution.                                                   *)
(***************************************************************************)
\* The states of a hart; without room for the bits of mstatus no interrupt is due.
Harts == {h \in Sequential!State : Words % 4 # 0 => h.due = << >>}

\* The hart decodes as the pipeline does.
LEMMA SameDecoding ==
  /\ \A i : /\ Sequential!rs1_id(i) = rs1_id(i) /\ Sequential!rs2_id(i) = rs2_id(i)
            /\ Sequential!is_load(i) = is_load(i) /\ Sequential!is_store(i) = is_store(i)
            /\ Sequential!writes(i) = writes(i) /\ Sequential!is_csr(i) = is_csr(i)
  /\ \A i, r : Sequential!target(i, r) = target(i, r)
  /\ \A i, a, r : Sequential!result(i, a, r) = result(i, a, r)
  /\ \A i, r, s : Sequential!taken(i, r, s) = taken(i, r, s)
  /\ \A a : Sequential!Succ(a) = Succ(a)
  /\ Sequential!Word = Word /\ Sequential!Registers = Registers
<1>1. \A a : Sequential!Succ(a) = Succ(a)
  BY DEF Sequential!Succ, Succ
<1>2. \A i, r : Sequential!target(i, r) = target(i, r)
  BY DEF Sequential!target, target
<1>3. \A i, a, r : Sequential!result(i, a, r) = result(i, a, r)
  BY DEF Sequential!result, result, Sequential!is_link, is_link, Sequential!Succ, Succ
<1>4. \A i, r, s : Sequential!taken(i, r, s) = taken(i, r, s)
  BY DEF Sequential!taken, taken
<1>5. \A i : /\ Sequential!rs1_id(i) = rs1_id(i) /\ Sequential!rs2_id(i) = rs2_id(i)
             /\ Sequential!is_load(i) = is_load(i) /\ Sequential!is_store(i) = is_store(i)
             /\ Sequential!writes(i) = writes(i) /\ Sequential!is_csr(i) = is_csr(i)
  BY DEF Sequential!rs1_id, rs1_id, Sequential!rs2_id, rs2_id, Sequential!is_load, is_load,
         Sequential!is_store, is_store, Sequential!writes, writes, Sequential!is_csr, is_csr
<1>6. Sequential!Word = Word /\ Sequential!Registers = Registers
  BY DEF Sequential!Word, Word, Sequential!Registers, Registers
<1> QED
  BY <1>1, <1>2, <1>3, <1>4, <1>5, <1>6

\* What a hart is made of.
LEMMA HartIs ==
  /\ \A h \in Harts :
       /\ h = [at |-> h.at, regs |-> h.regs, mem |-> h.mem, csr |-> h.csr, due |-> h.due]
       /\ h.at \in Word /\ h.regs \in [Regs -> Word] /\ h.mem \in Word
       /\ h.csr \in [Registers -> Word] /\ h.due \in Seq(Word)
       /\ Words % 4 # 0 => h.due = << >>
  /\ \A a \in Word, r \in [Regs -> Word], m \in Word, c \in [Registers -> Word], d \in Seq(Word) :
       (Words % 4 # 0 => d = << >>)
         => [at |-> a, regs |-> r, mem |-> m, csr |-> c, due |-> d] \in Harts
BY SameDecoding DEF Harts, Sequential!State

\* A hart that goes elsewhere with other CSRs.
Moved(h, a, c) == [h EXCEPT !.at = a, !.csr = c]
LEMMA HartMoved ==
  ASSUME NEW h \in Harts, NEW a \in Word, NEW c \in [Registers -> Word]
  PROVE  Moved(h, a, c) \in Harts
<1> DEFINE S == [at : Word, regs : [Regs -> Word], mem : Word, csr : [Registers -> Word],
                 due : Seq(Word)]
<1>1. h \in S /\ (Words % 4 # 0 => h.due = << >>)
  BY SameDecoding DEF Harts, Sequential!State
<1>2. PICK k : k = Moved(h, a, c) /\ k = [h EXCEPT !.at = a, !.csr = c]
  BY DEF Moved
<1>3. k \in S
  BY <1>1, <1>2
<1>4. k.due = h.due
  BY <1>1, <1>2
<1> QED
  BY <1>1, <1>2, <1>3, <1>4, SameDecoding DEF Harts, Sequential!State

\* A trap leaves a hart.
LEMMA TrapType ==
  ASSUME NEW h \in Harts, Words % 4 = 0, NEW a \in Word, NEW c \in Word
  PROVE  Sequential!Trap(h, a, c) \in Harts
<1> DEFINE m == h.csr[0]
           on == Sequential!mstatus_MIE(m)
           status == Sequential!with_bits(m, 0, on)
           new == [[[h.csr EXCEPT ![0] = status] EXCEPT ![4] = a] EXCEPT ![5] = c]
<1>1. /\ h = [at |-> h.at, regs |-> h.regs, mem |-> h.mem, csr |-> h.csr, due |-> h.due]
      /\ h.regs \in [Regs -> Word] /\ h.mem \in Word
      /\ h.csr \in [Registers -> Word] /\ h.due \in Seq(Word)
  BY HartIs
<1>2. m \in Word /\ h.csr[2] \in Word
  BY <1>1 DEF Registers
<1>3. status \in Word
  <2>1. on \in {0, 1}
    <3>1. \A n \in Nat : (n \div 2) % 2 \in {0, 1}
      OBVIOUS
    <3>2. m \in Nat /\ on = (m \div 2) % 2
      BY <1>2, WordFacts DEF Sequential!mstatus_MIE
    <3> HIDE DEF m, on
    <3> QED
      BY <3>1, <3>2
  <2> HIDE DEF on
  <2>2. \A x, y, z : Sequential!with_bits(x, y, z) = with_bits(x, y, z)
    BY DEF Sequential!with_bits, with_bits
  <2> HIDE DEF m
  <2> QED
    BY <1>2, <2>1, <2>2, WithBitsType
<1> HIDE DEF status
<1>4. new \in [Registers -> Word]
  BY <1>1, <1>3
<1> HIDE DEF new
<1>5. PICK x \in Word, y \in [Registers -> Word] : x = h.csr[2] /\ y = new
  BY <1>2, <1>4
<1>6. Sequential!Trap(h, a, c) = Moved(h, x, y)
  BY <1>5 DEF Moved, Sequential!Trap, Sequential!MTVEC, Sequential!MSTATUS, Sequential!MEPC,
         Sequential!MCAUSE, status, on, m, new
<1> QED
  BY <1>6, HartMoved

\* So does a return.
LEMMA ReturnType ==
  ASSUME NEW h \in Harts, Words % 4 = 0
  PROVE  Sequential!Return(h) \in Harts
<1> DEFINE m == h.csr[0]
           on == Sequential!mstatus_MPIE(m)
           status == Sequential!with_bits(m, on, 1)
           new == [h.csr EXCEPT ![0] = status]
<1>1. /\ h = [at |-> h.at, regs |-> h.regs, mem |-> h.mem, csr |-> h.csr, due |-> h.due]
      /\ h.regs \in [Regs -> Word] /\ h.mem \in Word
      /\ h.csr \in [Registers -> Word] /\ h.due \in Seq(Word)
  BY HartIs
<1>2. m \in Word /\ h.csr[4] \in Word
  BY <1>1 DEF Registers
<1>3. status \in Word
  <2>1. on \in {0, 1}
    BY <1>2, WordFacts DEF Sequential!mstatus_MPIE
  <2> HIDE DEF on
  <2>2. \A x, y, z : Sequential!with_bits(x, y, z) = with_bits(x, y, z)
    BY DEF Sequential!with_bits, with_bits
  <2> HIDE DEF m
  <2> QED
    BY <1>2, <2>1, <2>2, WithBitsType
<1> HIDE DEF status
<1>4. new \in [Registers -> Word]
  BY <1>1, <1>3
<1> HIDE DEF new
<1>5. PICK x \in Word, y \in [Registers -> Word] : x = h.csr[4] /\ y = new
  BY <1>2, <1>4
<1>6. Sequential!Return(h) = Moved(h, x, y)
  BY <1>5 DEF Moved, Sequential!Return, Sequential!MSTATUS, Sequential!MEPC, status, on, m, new
<1> QED
  BY <1>6, HartMoved

\* And an instruction.
LEMMA InstructType ==
  ASSUME NEW h \in Harts, prog \in [Word -> Instruction]
  PROVE  Sequential!Instruct(h) \in Harts
<1> DEFINE i == prog[h.at]
           r1 == h.regs[rs1_id(i)]
           r2 == h.regs[rs2_id(i)]
           value == IF is_load(i) THEN h.mem ELSE IF is_csr(i) THEN Sequential!read_data(h.csr, i.imm)
                    ELSE result(i, h.at, r1)
           a == IF taken(i, r1, r2) THEN target(i, r1) ELSE Succ(h.at)
           r == IF ~writes(i) \/ i.rd = 0 THEN h.regs ELSE [h.regs EXCEPT ![i.rd] = value]
           m == IF is_store(i) THEN r2 ELSE h.mem
           c == IF i.op = "csrrw" THEN [h.csr EXCEPT ![i.imm] = r1] ELSE h.csr
<1>1. /\ h.at \in Word /\ h.regs \in [Regs -> Word] /\ h.mem \in Word
      /\ h.csr \in [Registers -> Word] /\ h.due \in Seq(Word)
      /\ Words % 4 # 0 => h.due = << >>
  BY HartIs
<1>2. i \in Instruction
  BY <1>1
<1>3. Sequential!Instruct(h) = [at |-> a, regs |-> r, mem |-> m, csr |-> c, due |-> h.due]
  BY SameDecoding DEF Sequential!Instruct
<1>4. i.rd \in Regs
  BY <1>2 DEF Instruction
<1> HIDE DEF i
<1>5. r1 \in Word /\ r2 \in Word
  BY <1>1, <1>2, WordFacts, DecodedTypes
<1> HIDE DEF r1, r2
<1>6. a \in Word
  BY <1>1, <1>2, <1>5, DecodedTypes, SuccType
<1>7. value \in Word
  <2>1. Sequential!read_data(h.csr, i.imm) \in Word
    BY <1>1, WordFacts, SameDecoding DEF Sequential!read_data
  <2> QED
    BY <1>1, <1>2, <1>5, <2>1, DecodedTypes
<1> HIDE DEF value
<1>8. r \in [Regs -> Word] /\ m \in Word /\ c \in [Registers -> Word]
  BY <1>1, <1>4, <1>5, <1>7
<1> HIDE DEF a, r, m, c
<1> QED
  BY <1>1, <1>3, <1>6, <1>8, HartIs

\* So does whatever comes next.
LEMMA ExecuteType ==
  ASSUME HardwareTypeOK, TrapsFit, NEW h \in Harts
  PROVE  Sequential!Execute(h) \in Harts
<1>1. prog \in [Word -> Instruction] /\ prog \in Programs
  BY CPUAssumption DEF HardwareTypeOK
<1>2. /\ h.at \in Word /\ h.due \in Seq(Word)
      /\ Words % 4 # 0 => h.due = << >>
  BY HartIs
<1>3. Words % 4 # 0 => prog[h.at].op \notin {"ecall", "mret"}
  BY <1>1, <1>2 DEF TrapsFit
<1>4. CASE Sequential!interrupted(h)
  <2>1. h.due # << >> /\ Words % 4 = 0
    BY <1>2, <1>4, WordFacts DEF Sequential!interrupted
  <2>2. PICK c \in Word : c = 7 % Words
    BY WordFacts
  <2>3. PICK k \in Harts : k = Sequential!Trap(h, h.at, c)
    BY <1>2, <2>1, TrapType
  <2>4. Sequential!Execute(h) = [k EXCEPT !.due = Tail(@)]
    BY <1>4, <2>2, <2>3 DEF Sequential!Execute
  <2>5. k.due = h.due
    <3>1. h \in [at : Word, regs : [Regs -> Word], mem : Word, csr : [Registers -> Word],
                 due : Seq(Word)]
      BY SameDecoding DEF Harts, Sequential!State
    <3> QED
      BY <2>3, <3>1 DEF Sequential!Trap
  <2>6. Tail(k.due) \in Seq(Word)
    BY <1>2, <2>1, <2>5
  <2>7. k \in [at : Word, regs : [Regs -> Word], mem : Word, csr : [Registers -> Word],
               due : Seq(Word)]
    BY SameDecoding DEF Harts, Sequential!State
  <2>8. [k EXCEPT !.due = Tail(@)] \in [at : Word, regs : [Regs -> Word], mem : Word,
                                        csr : [Registers -> Word], due : Seq(Word)]
    BY <2>6, <2>7
  <2> QED
    BY <2>1, <2>4, <2>8, SameDecoding DEF Harts, Sequential!State
<1>5. CASE ~Sequential!interrupted(h) /\ prog[h.at].op = "ecall"
  <2>1. Words % 4 = 0
    BY <1>3, <1>5
  <2>2. PICK c \in Word, a \in Word : c = 11 % Words /\ a = Succ(h.at)
    BY <1>2, WordFacts, SuccType
  <2> QED
    BY <1>5, <2>1, <2>2, TrapType, SameDecoding DEF Sequential!Execute
<1>6. CASE ~Sequential!interrupted(h) /\ prog[h.at].op = "mret"
  BY <1>3, <1>6, ReturnType DEF Sequential!Execute
<1>7. CASE ~Sequential!interrupted(h) /\ prog[h.at].op \notin {"ecall", "mret"}
  BY <1>1, <1>7, InstructType DEF Sequential!Execute
<1> QED
  BY <1>4, <1>5, <1>6, <1>7

-----------------------------------------------------------------------------
(***************************************************************************)
(* From one change to the next.                                            *)
(***************************************************************************)
\* Every set of natural numbers that is not empty has a least element.
LEMMA LeastNumber ==
  ASSUME NEW T, T \subseteq Nat, T # {}
  PROVE  \E x \in T : \A y \in T : x <= y
<1> DEFINE less == OpToRel(<, Nat)
<1>1. IsWellFoundedOn(less, Nat)
  BY NatLessThanWellFounded
<1>2. \A k, m \in Nat : <<k, m>> \in less <=> k < m
  BY DEF OpToRel
<1> HIDE DEF less
<1>3. PICK x \in T : \A y \in T : ~(<<y, x>> \in less)
  BY <1>1, WFMin
<1>4. ASSUME NEW y \in T
      PROVE  x <= y
  <2>1. x \in Nat /\ y \in Nat
    OBVIOUS
  <2>2. ~(y < x)
    BY <1>2, <1>3, <2>1
  <2> QED
    BY <2>1, <2>2
<1> QED
  BY <1>4

\* A set that holds zero and with each number the next holds all.
LEMMA Counting ==
  ASSUME NEW S, 0 \in S, \A n \in Nat : n \in S => n + 1 \in S
  PROVE  Nat \subseteq S
<1> DEFINE T == Nat \ S
<1> SUFFICES ASSUME T # {} PROVE FALSE
  OBVIOUS
<1>1. PICK x \in T : \A y \in T : x <= y
  BY LeastNumber
<1>2. x # 0 /\ x - 1 \in Nat
  OBVIOUS
<1>3. x - 1 \in S
  BY <1>1, <1>2
<1> QED
  BY <1>2, <1>3

\* N steps of a function.
Iterates(p, F, x, N) == p[0] = x /\ \A n \in 1 .. N : p[n] = F[p[n - 1]]

\* They exist.
LEMMA IteratesExist ==
  ASSUME NEW X, NEW F \in [X -> X], NEW x \in X, NEW N \in Nat
  PROVE  \E p \in [0 .. N -> X] : Iterates(p, F, x, N)
<1> DEFINE Path(p, m) == p \in [0 .. m -> X] /\ Iterates(p, F, x, m)
           S == {m \in Nat : \E p : Path(p, m)}
<1>1. 0 \in S
  <2>1. Path([n \in 0 .. 0 |-> x], 0)
    BY DEF Iterates
  <2> HIDE DEF Path
  <2> QED
    BY <2>1
<1>2. ASSUME NEW m \in Nat, m \in S
      PROVE  m + 1 \in S
  <2>1. PICK p : Path(p, m)
    BY <1>2
  <2> DEFINE q == [n \in 0 .. m + 1 |-> IF n = m + 1 THEN F[p[m]] ELSE p[n]]
  <2>2. \A n \in 0 .. m : q[n] = p[n] /\ p[n] \in X
    BY <2>1
  <2>3. q[m + 1] = F[q[m]] /\ q[m + 1] \in X
    BY <2>1, <2>2
  <2>4. q \in [0 .. m + 1 -> X]
    BY <2>2, <2>3
  <2> HIDE DEF q
  <2>5. q[0] = x
    BY <2>1, <2>2 DEF Iterates
  <2>6. ASSUME NEW n \in 1 .. m + 1
        PROVE  q[n] = F[q[n - 1]]
    <3>1. CASE n = m + 1
      BY <2>3, <3>1
    <3>2. CASE n # m + 1
      <4>1. n \in 1 .. m /\ n \in 0 .. m /\ n - 1 \in 0 .. m
        BY <3>2
      <4>2. p[n] = F[p[n - 1]]
        BY <2>1, <4>1 DEF Iterates
      <4> QED
        BY <2>2, <4>1, <4>2
    <3> QED
      BY <3>1, <3>2
  <2>7. Path(q, m + 1)
    BY <2>4, <2>5, <2>6 DEF Iterates
  <2> HIDE DEF Path
  <2> QED
    BY <2>7
<1> HIDE DEF S
<1>3. N \in S
  BY <1>1, <1>2, Counting
<1> HIDE DEF Path
<1>4. \E p : Path(p, N)
  BY <1>3 DEF S
<1> QED
  BY <1>4 DEF Path

\* The hart after n steps, until something can be seen of it.
Steps(p, h) ==
  /\ p[0] = h
  /\ \A n \in 1 .. 2 * Words :
       p[n] = IF Sequential!Visible(p[n - 1]) # Sequential!Visible(h) THEN p[n - 1]
              ELSE Sequential!Execute(p[n - 1])

\* There is such a path.
LEMMA StepsExist ==
  ASSUME HardwareTypeOK, TrapsFit, NEW h \in Harts
  PROVE  \E p \in [0 .. 2 * Words -> Harts] : Steps(p, h)
<1> DEFINE onward(s) == IF Sequential!Visible(s) # Sequential!Visible(h) THEN s
                        ELSE Sequential!Execute(s)
<1>1. \A s \in Harts : onward(s) \in Harts
  BY ExecuteType
<1>2. PICK F : F = [s \in Harts |-> onward(s)]
  OBVIOUS
<1>3. 2 * Words \in Nat
  BY InstructionsAssumption
<1>4. F \in [Harts -> Harts]
  BY <1>1, <1>2
<1>5. PICK p \in [0 .. 2 * Words -> Harts] : Iterates(p, F, h, 2 * Words)
  <2>1. PICK N \in Nat : N = 2 * Words
    BY <1>3
  <2> QED
    BY <1>4, <2>1, IteratesExist
<1> HIDE DEF onward
<1>6. \A n \in 1 .. 2 * Words : p[n] = onward(p[n - 1])
  <2> TAKE n \in 1 .. 2 * Words
  <2>1. n - 1 \in 0 .. 2 * Words
    BY <1>3
  <2> QED
    BY <1>2, <1>5, <2>1 DEF Iterates
<1> QED
  BY <1>5, <1>6 DEF Steps, Iterates, onward

\* Where it ends the hart has advanced to.
LEMMA AdvanceIs ==
  ASSUME NEW h, NEW p, DOMAIN p = 0 .. 2 * Words, Steps(p, h)
  PROVE  Sequential!Advance(h) = p[2 * Words]
<1> DEFINE onward(s) == IF Sequential!Visible(s) # Sequential!Visible(h) THEN s
                        ELSE Sequential!Execute(s)
           Solves(g) == g = [n \in 0 .. 2 * Words |-> IF n = 0 THEN {h}
                                                      ELSE {onward(s) : s \in g[n - 1]}]
           after == CHOOSE g : Solves(g)
           q == [n \in 0 .. 2 * Words |-> {p[n]}]
<1>1. Sequential!Advance(h) = CHOOSE s \in after[2 * Words] : TRUE
  BY DEF Sequential!Advance
<1>2. 2 * Words \in Nat
  BY InstructionsAssumption
<1> HIDE DEF onward
<1>3. p[0] = h /\ \A n \in 1 .. 2 * Words : p[n] = onward(p[n - 1])
  BY DEF Steps, onward
<1>4. \A n \in 0 .. 2 * Words : q[n] = {p[n]}
  OBVIOUS
<1>5. Solves(q)
  <2> DEFINE next(n) == IF n = 0 THEN {h} ELSE {onward(s) : s \in q[n - 1]}
  <2>1. ASSUME NEW n \in 0 .. 2 * Words
        PROVE  q[n] = next(n)
    <3>1. CASE n = 0
      BY <1>3, <1>4, <3>1
    <3>2. CASE n # 0
      <4>1. n \in 1 .. 2 * Words /\ n - 1 \in 0 .. 2 * Words
        BY <1>2, <3>2
      <4>2. q[n - 1] = {p[n - 1]} /\ q[n] = {p[n]}
        BY <1>4, <4>1
      <4>3. p[n] = onward(p[n - 1])
        BY <1>3, <4>1
      <4> HIDE DEF q
      <4>4. {onward(s) : s \in q[n - 1]} = {onward(p[n - 1])}
        BY <4>2
      <4> QED
        BY <3>2, <4>2, <4>3, <4>4
    <3> QED
      BY <3>1, <3>2
  <2> HIDE DEF next
  <2>2. q = [n \in 0 .. 2 * Words |-> next(n)]
    BY <2>1
  <2> QED
    BY <2>2 DEF next
<1> HIDE DEF q
<1>6. Solves(after)
  BY <1>5
<1> HIDE DEF after
<1> DEFINE S == {n \in Nat : n <= 2 * Words => after[n] = {p[n]}}
<1>7. 0 \in S
  BY <1>2, <1>3, <1>6
<1>8. ASSUME NEW n \in Nat, n \in S
      PROVE  n + 1 \in S
  <2> SUFFICES ASSUME n + 1 <= 2 * Words PROVE after[n + 1] = {p[n + 1]}
    OBVIOUS
  <2>1. PICK k \in 1 .. 2 * Words : k = n + 1 /\ k - 1 = n /\ k # 0 /\ k \in 0 .. 2 * Words
    BY <1>2
  <2>2. after[k - 1] = {p[k - 1]}
    BY <1>2, <1>8, <2>1
  <2>3. after[k] = {onward(s) : s \in after[k - 1]}
    BY <1>6, <2>1
  <2>4. after[k] = {onward(p[k - 1])}
    BY <2>2, <2>3
  <2> QED
    BY <1>3, <2>1, <2>4
<1> HIDE DEF S
<1>9. 2 * Words \in S
  BY <1>2, <1>7, <1>8, Counting
<1>10. after[2 * Words] = {p[2 * Words]}
  BY <1>2, <1>9 DEF S
<1> QED
  BY <1>1, <1>10

\* Advancing, a hart stays one.
LEMMA AdvanceType ==
  ASSUME HardwareTypeOK, TrapsFit, NEW h \in Harts
  PROVE  Sequential!Advance(h) \in Harts
<1>1. PICK p \in [0 .. 2 * Words -> Harts] : Steps(p, h)
  BY StepsExist
<1>2. 2 * Words \in 0 .. 2 * Words
  BY InstructionsAssumption
<1> QED
  BY <1>1, <1>2, AdvanceIs

-----------------------------------------------------------------------------
(***************************************************************************)
(* Plain programs, one instruction after the other.                        *)
(***************************************************************************)
\* Where an instruction leads, and what it does to the registers and the memory.
Goes(i, a, V) == IF taken(i, V[rs1_id(i)], V[rs2_id(i)]) THEN target(i, V[rs1_id(i)]) ELSE Succ(a)
Puts(i, V, M) ==
  [r \in Regs |-> IF r # 0 /\ writes(i) /\ i.rd = r
                  THEN IF is_load(i) THEN M ELSE (V[rs1_id(i)] + i.imm) % Words ELSE V[r]]
Stores(i, V, M) == IF is_store(i) THEN V[rs2_id(i)] ELSE M

\* A hart without interrupts.
Hart(a, V, M, c) == [at |-> a, regs |-> V, mem |-> M, csr |-> c, due |-> << >>]

\* It is one.
LEMMA HartType ==
  ASSUME NEW a \in Word, NEW V \in [Regs -> Word], NEW M \in Word, NEW c \in [Registers -> Word]
  PROVE  Hart(a, V, M, c) \in Harts
<1>1. << >> \in Seq(Word)
  OBVIOUS
<1> QED
  BY <1>1, HartIs DEF Hart

\* A plain program executes an instruction.
LEMMA PlainExecutes ==
  ASSUME HardwareTypeOK, Plain(prog), NEW a \in Word, NEW V \in [Regs -> Word], NEW M \in Word,
         NEW c \in [Registers -> Word]
  PROVE  Sequential!Execute(Hart(a, V, M, c))
           = Hart(Goes(prog[a], a, V), Puts(prog[a], V, M), Stores(prog[a], V, M), c)
<1> DEFINE h == Hart(a, V, M, c)
           i == prog[a]
           value == IF is_load(i) THEN M ELSE IF is_csr(i) THEN Sequential!read_data(c, i.imm)
                    ELSE result(i, a, V[rs1_id(i)])
           r == IF ~writes(i) \/ i.rd = 0 THEN V ELSE [V EXCEPT ![i.rd] = value]
<1>1. h.at = a /\ h.regs = V /\ h.mem = M /\ h.csr = c /\ h.due = << >>
  BY DEF Hart
<1>2. /\ i \in Instruction
      /\ i.op \in {"addi", "lw", "sw", "beq", "jal"}
      /\ is_jump(i) => i.rd = 0
  BY CPUAssumption DEF HardwareTypeOK, Plain
<1>3. ~Sequential!interrupted(h)
  BY <1>1 DEF Sequential!interrupted
<1>4. Sequential!Execute(h) = Sequential!Instruct(h)
  BY <1>1, <1>2, <1>3 DEF Sequential!Execute
<1> HIDE DEF h
<1>5. Sequential!Instruct(h)
        = [at |-> Goes(i, a, V), regs |-> r, mem |-> Stores(i, V, M),
           csr |-> IF i.op = "csrrw" THEN [c EXCEPT ![i.imm] = V[rs1_id(i)]] ELSE c,
           due |-> << >>]
  BY <1>1, SameDecoding DEF Sequential!Instruct, Goes, Stores
<1>6. i.op # "csrrw" /\ ~is_csr(i)
  BY <1>2 DEF is_csr
<1>7. r = Puts(i, V, M)
  <2>1. CASE ~writes(i) \/ i.rd = 0
    BY <2>1 DEF Puts
  <2>2. CASE writes(i) /\ i.rd # 0
    <3>1. ~is_link(i)
      BY <1>2, <2>2 DEF is_link, is_jump
    <3>2. value = IF is_load(i) THEN M ELSE (V[rs1_id(i)] + i.imm) % Words
      BY <1>6, <3>1 DEF result
    <3>3. i.rd \in Regs
      BY <1>2 DEF Instruction
    <3> HIDE DEF value, i
    <3> QED
      BY <2>2, <3>2, <3>3 DEF Puts
  <2> QED
    BY <2>1, <2>2
<1> QED
  BY <1>4, <1>5, <1>6, <1>7 DEF Hart, h

\* The types of what it does.
LEMMA PlainTypes ==
  ASSUME NEW i \in Instruction, NEW a \in Word, NEW V \in [Regs -> Word], NEW M \in Word
  PROVE  Goes(i, a, V) \in Word /\ Puts(i, V, M) \in [Regs -> Word] /\ Stores(i, V, M) \in Word
<1>1. rs1_id(i) \in Regs /\ rs2_id(i) \in Regs
  BY WordFacts, DecodedTypes
<1>2. PICK v \in Word : v = V[rs1_id(i)]
  BY <1>1
<1>3. Goes(i, a, V) \in Word
  BY <1>2, DecodedTypes, SuccType DEF Goes
<1>4. (v + i.imm) % Words \in Word
  <2>1. i.imm \in Word
    BY DEF Instruction
  <2>2. v \in Nat /\ i.imm \in Nat
    BY <2>1, WordFacts
  <2>3. v + i.imm \in Nat
    BY <2>2
  <2> QED
    BY <2>3, WordFacts
<1> QED
  BY <1>1, <1>2, <1>3, <1>4 DEF Puts, Stores

\* Until something can be seen of a hart, nothing could.
LEMMA SilentPast ==
  ASSUME NEW h, NEW p, Steps(p, h), NEW n \in 0 .. 2 * Words,
         Sequential!Visible(p[n]) = Sequential!Visible(h)
  PROVE  \A i \in 0 .. n : Sequential!Visible(p[i]) = Sequential!Visible(h)
<1> DEFINE silent(i) == Sequential!Visible(p[i]) = Sequential!Visible(h)
           S == {k \in Nat : k <= n => silent(n - k)}
<1>0. n \in Nat /\ 2 * Words \in Nat /\ n <= 2 * Words
  BY InstructionsAssumption
<1>1. \A i \in 1 .. 2 * Words : ~silent(i - 1) => p[i] = p[i - 1]
  BY DEF Steps
<1>2. \A i \in 1 .. 2 * Words : silent(i) => silent(i - 1)
  BY <1>1
<1>3. silent(n - 0)
  BY <1>0
<1> HIDE DEF silent
<1>4. 0 \in S
  BY <1>3
<1>5. ASSUME NEW k \in Nat, k \in S
      PROVE  k + 1 \in S
  <2> SUFFICES ASSUME k + 1 <= n PROVE silent(n - (k + 1))
    OBVIOUS
  <2>1. PICK i \in 1 .. 2 * Words : i = n - k /\ i - 1 = n - (k + 1)
    BY <1>0
  <2>2. silent(i)
    BY <1>0, <1>5, <2>1
  <2> QED
    BY <1>2, <2>1, <2>2
<1> HIDE DEF S
<1>6. Nat \subseteq S
  BY <1>4, <1>5, Counting
<1>7. \A i \in 0 .. n : silent(i)
  <2> TAKE i \in 0 .. n
  <2>1. PICK k \in Nat : k = n - i /\ k <= n /\ n - k = i
    BY <1>0
  <2>2. k \in S
    BY <1>6
  <2> QED
    BY <2>1, <2>2 DEF S
<1> QED
  BY <1>7 DEF silent

\* Once it could, the hart has arrived.
LEMMA Arrived ==
  ASSUME NEW h, NEW p, Steps(p, h), NEW n \in 0 .. 2 * Words,
         Sequential!Visible(p[n]) # Sequential!Visible(h)
  PROVE  p[2 * Words] = p[n]
<1> DEFINE S == {k \in Nat : n + k <= 2 * Words => p[n + k] = p[n]}
<1>0. n \in Nat /\ 2 * Words \in Nat /\ n <= 2 * Words
  BY InstructionsAssumption
<1>1. 0 \in S
  BY <1>0
<1>2. ASSUME NEW k \in Nat, k \in S
      PROVE  k + 1 \in S
  <2> SUFFICES ASSUME n + (k + 1) <= 2 * Words PROVE p[n + (k + 1)] = p[n]
    OBVIOUS
  <2>1. PICK i \in 1 .. 2 * Words : i = n + (k + 1) /\ i - 1 = n + k
    BY <1>0
  <2>2. p[i - 1] = p[n]
    BY <1>0, <1>2, <2>1
  <2>3. p[i] = p[i - 1]
    BY <2>2 DEF Steps
  <2> QED
    BY <2>1, <2>2, <2>3
<1> HIDE DEF S
<1>3. Nat \subseteq S
  BY <1>1, <1>2, Counting
<1>4. PICK k \in Nat : k = 2 * Words - n /\ n + k = 2 * Words
  BY <1>0
<1>5. k \in S
  BY <1>3
<1> QED
  BY <1>0, <1>4, <1>5 DEF S

\* Nothing but the address of a silent hart changes.
LEMMA SilentHarts ==
  ASSUME HardwareTypeOK, Plain(prog), NEW a \in Word, NEW V \in [Regs -> Word], NEW M \in Word,
         NEW c \in [Registers -> Word], NEW p, Steps(p, Hart(a, V, M, c)),
         NEW n \in 0 .. 2 * Words, Sequential!Visible(p[n]) = <<V, M>>
  PROVE  \A i \in 0 .. n : \E b \in Word : p[i] = Hart(b, V, M, c)
<1> DEFINE h == Hart(a, V, M, c)
           S == {i \in Nat : i <= n => \E b \in Word : p[i] = Hart(b, V, M, c)}
<1>0. n \in Nat /\ 2 * Words \in Nat /\ n <= 2 * Words
  BY InstructionsAssumption
<1>1. Sequential!Visible(h) = <<V, M>>
  BY DEF Sequential!Visible, Hart
<1>2. \A i \in 0 .. n : Sequential!Visible(p[i]) = <<V, M>>
  BY <1>1, SilentPast
<1>3. 0 \in S
  BY DEF Steps
<1>4. ASSUME NEW i \in Nat, i \in S
      PROVE  i + 1 \in S
  <2> SUFFICES ASSUME i + 1 <= n PROVE \E b \in Word : p[i + 1] = Hart(b, V, M, c)
    OBVIOUS
  <2>1. PICK k \in 1 .. 2 * Words : k = i + 1 /\ k - 1 = i /\ k \in 0 .. n /\ i \in 0 .. n
    BY <1>0
  <2>2. PICK b \in Word : p[i] = Hart(b, V, M, c)
    BY <1>4, <2>1
  <2>3. p[k] = Sequential!Execute(p[i])
    BY <1>1, <1>2, <2>1 DEF Steps
  <2>a. prog[b] \in Instruction
    BY CPUAssumption DEF HardwareTypeOK
  <2>b. PICK b2, V2, M2 : /\ b2 = Goes(prog[b], b, V)
                          /\ V2 = Puts(prog[b], V, M)
                          /\ M2 = Stores(prog[b], V, M)
    OBVIOUS
  <2>4. b2 \in Word /\ p[k] = Hart(b2, V2, M2, c)
    BY <2>2, <2>3, <2>a, <2>b, PlainExecutes, PlainTypes
  <2>5. Sequential!Visible(p[k]) = <<V2, M2>>
    BY <2>4 DEF Sequential!Visible, Hart
  <2>6. V2 = V /\ M2 = M
    BY <1>2, <2>1, <2>5
  <2> QED
    BY <2>1, <2>4, <2>6
<1> HIDE DEF S
<1>5. Nat \subseteq S
  BY <1>3, <1>4, Counting
<1> QED
  <2> TAKE i \in 0 .. n
  <2>1. i \in Nat /\ i <= n
    BY <1>0
  <2> QED
    BY <1>5, <2>1 DEF S

Repeated(p, n) == \E m \in 0 .. 2 * Words - 1 : p[m] = p[n]

\* A hart that is silent for all its steps has been there before: it is in a loop.
LEMMA Repeats ==
  ASSUME HardwareTypeOK, Plain(prog), NEW a \in Word, NEW V \in [Regs -> Word], NEW M \in Word,
         NEW c \in [Registers -> Word], NEW p, Steps(p, Hart(a, V, M, c)),
         NEW n \in 0 .. 2 * Words, Sequential!Visible(p[n]) = <<V, M>>
  PROVE  Repeated(p, n)
<1>0. Words \in Nat /\ Words >= 1 /\ 2 * Words \in Nat
  BY InstructionsAssumption
<1>1. CASE n # 2 * Words
  BY <1>0, <1>1 DEF Repeated
<1>2. CASE n = 2 * Words
  <2>1. \A i \in 0 .. 2 * Words : \E b \in Word : p[i] = Hart(b, V, M, c)
    BY <1>2, SilentHarts
  <2> DEFINE f == [i \in 0 .. Words |-> p[i].at]
  <2>2. f \in [0 .. Words -> Word]
    <3>1. ASSUME NEW i \in 0 .. Words
          PROVE  p[i].at \in Word
      <4>1. i \in 0 .. 2 * Words
        BY <1>0
      <4>2. PICK b \in Word : p[i] = Hart(b, V, M, c)
        BY <2>1, <4>1
      <4> QED
        BY <4>2 DEF Hart
    <3> QED
      BY <3>1
  <2>3. /\ IsFiniteSet(0 .. Words) /\ Cardinality(0 .. Words) = Words + 1
        /\ IsFiniteSet(Word) /\ Cardinality(Word) = Words
    <3>1. 0 \in Int /\ Words \in Int /\ Words - 1 \in Int /\ ~(0 > Words) /\ ~(0 > Words - 1)
      BY <1>0
    <3>2. /\ IsFiniteSet(0 .. Words)
          /\ Cardinality(0 .. Words) = IF 0 > Words THEN 0 ELSE Words - 0 + 1
      BY <3>1, FS_Interval
    <3>3. /\ IsFiniteSet(0 .. Words - 1)
          /\ Cardinality(0 .. Words - 1) = IF 0 > Words - 1 THEN 0 ELSE (Words - 1) - 0 + 1
      BY <3>1, FS_Interval
    <3> QED
      BY <1>0, <3>1, <3>2, <3>3 DEF Word
  <2> HIDE DEF f
  <2>4. PICK x, y \in 0 .. Words : x # y /\ f[x] = f[y]
    <3>1. Cardinality(Word) < Cardinality(0 .. Words)
      BY <1>0, <2>3
    <3> QED
      BY <2>2, <2>3, <3>1, FS_PigeonHole, ZenonT(90)
  <2>5. PICK i, j \in 0 .. Words : i < j /\ f[i] = f[j]
    <3>1. x < y \/ y < x
      BY <1>0, <2>4
    <3> QED
      BY <2>4, <3>1
  <2>6. p[i] = p[j]
    <3>1. i \in 0 .. 2 * Words /\ j \in 0 .. 2 * Words
      BY <1>0
    <3>2. PICK b1 \in Word : p[i] = Hart(b1, V, M, c)
      BY <2>1, <3>1
    <3>3. PICK b2 \in Word : p[j] = Hart(b2, V, M, c)
      BY <2>1, <3>1
    <3>4. b1 = b2
      BY <2>5, <3>2, <3>3 DEF f, Hart
    <3> QED
      BY <3>2, <3>3, <3>4
  <2> DEFINE S == {k \in Nat : j + k <= 2 * Words => p[i + k] = p[j + k]}
  <2>7. 0 \in S
    BY <2>6, <1>0
  <2>8. ASSUME NEW k \in Nat, k \in S
        PROVE  k + 1 \in S
    <3> SUFFICES ASSUME j + (k + 1) <= 2 * Words PROVE p[i + (k + 1)] = p[j + (k + 1)]
      OBVIOUS
    <3>1. PICK x1 \in 1 .. 2 * Words : x1 = i + (k + 1) /\ x1 - 1 = i + k
      BY <1>0, <2>5
    <3>2. PICK y1 \in 1 .. 2 * Words : y1 = j + (k + 1) /\ y1 - 1 = j + k
      BY <1>0, <2>5
    <3>3. p[x1 - 1] = p[y1 - 1]
      BY <1>0, <2>8, <3>1, <3>2
    <3>4. p[x1] = p[y1]
      BY <3>3 DEF Steps
    <3> QED
      BY <3>1, <3>2, <3>4
  <2> HIDE DEF S
  <2>9. Nat \subseteq S
    BY <2>7, <2>8, Counting
  <2>10. PICK k \in Nat : k = 2 * Words - j /\ j + k = 2 * Words /\ i + k \in 0 .. 2 * Words - 1
    <3>1. /\ 2 * Words - j \in Nat /\ j + (2 * Words - j) = 2 * Words
          /\ i + (2 * Words - j) \in 0 .. 2 * Words - 1
      BY <1>0, <2>5
    <3> QED
      BY <3>1
  <2>11. p[i + k] = p[j + k]
    <3>1. k \in S
      BY <2>9
    <3> QED
      BY <1>0, <2>10, <3>1 DEF S
  <2> QED
    BY <1>2, <2>10, <2>11 DEF Repeated
<1> QED
  BY <1>1, <1>2

\* Hart(a) comes to b, and nothing of it can be seen on the way.
Reaches(a, b, V, M, c) ==
  \E p \in [0 .. 2 * Words -> Harts], n \in 0 .. 2 * Words :
    Steps(p, Hart(a, V, M, c)) /\ p[n] = Hart(b, V, M, c)

\* It begins where it stands.
LEMMA ReachesItself ==
  ASSUME HardwareTypeOK, TrapsFit, NEW a \in Word, NEW V \in [Regs -> Word], NEW M \in Word,
         NEW c \in [Registers -> Word]
  PROVE  Reaches(a, a, V, M, c)
<1>1. PICK p \in [0 .. 2 * Words -> Harts] : Steps(p, Hart(a, V, M, c))
  BY StepsExist, HartType
<1>2. p[0] = Hart(a, V, M, c)
  BY <1>1 DEF Steps
<1>3. 0 \in 0 .. 2 * Words
  BY InstructionsAssumption
<1> QED
  BY <1>1, <1>2, <1>3 DEF Reaches

\* What a hart that has come to b does next is what prog[b] does.
LEMMA NextAfter ==
  ASSUME HardwareTypeOK, Plain(prog), NEW a \in Word, NEW b \in Word, NEW V \in [Regs -> Word],
         NEW M \in Word, NEW c \in [Registers -> Word], Reaches(a, b, V, M, c)
  PROVE  \E p \in [0 .. 2 * Words -> Harts], n \in 0 .. 2 * Words :
           /\ Steps(p, Hart(a, V, M, c))
           /\ p[n] = Hart(Goes(prog[b], b, V), Puts(prog[b], V, M), Stores(prog[b], V, M), c)
<1>1. PICK p \in [0 .. 2 * Words -> Harts], n \in 0 .. 2 * Words :
        Steps(p, Hart(a, V, M, c)) /\ p[n] = Hart(b, V, M, c)
  BY DEF Reaches
<1>2. /\ Sequential!Visible(p[n]) = <<V, M>>
      /\ Sequential!Visible(Hart(a, V, M, c)) = <<V, M>>
  BY <1>1 DEF Sequential!Visible, Hart
<1>3. PICK m \in 0 .. 2 * Words - 1 : p[m] = p[n]
  <2>1. Steps(p, Hart(a, V, M, c)) /\ n \in 0 .. 2 * Words
    BY <1>1
  <2>2. Repeated(p, n)
    BY <1>2, <2>1, Repeats
  <2> QED
    BY <2>2 DEF Repeated
<1>4. m + 1 \in 1 .. 2 * Words /\ (m + 1) - 1 = m /\ m + 1 \in 0 .. 2 * Words
  BY InstructionsAssumption
<1>5. p[m + 1] = Sequential!Execute(p[m])
  BY <1>1, <1>2, <1>3, <1>4 DEF Steps
<1>6. p[m + 1] = Hart(Goes(prog[b], b, V), Puts(prog[b], V, M), Stores(prog[b], V, M), c)
  BY <1>1, <1>3, <1>5, PlainExecutes
<1> QED
  BY <1>1, <1>4, <1>6

\* It goes on, if that cannot be seen.
LEMMA ReachesOn ==
  ASSUME HardwareTypeOK, Plain(prog), NEW a \in Word, NEW b \in Word, NEW V \in [Regs -> Word],
         NEW M \in Word, NEW c \in [Registers -> Word], Reaches(a, b, V, M, c),
         Puts(prog[b], V, M) = V, Stores(prog[b], V, M) = M
  PROVE  Reaches(a, Goes(prog[b], b, V), V, M, c)
<1>1. PICK p \in [0 .. 2 * Words -> Harts], n \in 0 .. 2 * Words :
        Steps(p, Hart(a, V, M, c)) /\ p[n] = Hart(Goes(prog[b], b, V), V, M, c)
  BY NextAfter
<1> QED
  BY <1>1 DEF Reaches

\* And has advanced, if it can.
LEMMA AdvancesOn ==
  ASSUME HardwareTypeOK, Plain(prog), NEW a \in Word, NEW b \in Word, NEW V \in [Regs -> Word],
         NEW M \in Word, NEW c \in [Registers -> Word], Reaches(a, b, V, M, c),
         <<Puts(prog[b], V, M), Stores(prog[b], V, M)>> # <<V, M>>
  PROVE  Sequential!Advance(Hart(a, V, M, c))
           = Hart(Goes(prog[b], b, V), Puts(prog[b], V, M), Stores(prog[b], V, M), c)
<1> DEFINE h == Hart(a, V, M, c)
           k == Hart(Goes(prog[b], b, V), Puts(prog[b], V, M), Stores(prog[b], V, M), c)
<1>1. PICK p \in [0 .. 2 * Words -> Harts], n \in 0 .. 2 * Words : Steps(p, h) /\ p[n] = k
  BY NextAfter, SMTT(60)
<1>2. Sequential!Visible(k) # Sequential!Visible(h)
  BY DEF Sequential!Visible, Hart
<1> HIDE DEF h, k
<1>3. p[2 * Words] = k
  BY <1>1, <1>2, Arrived
<1>4. DOMAIN p = 0 .. 2 * Words
  OBVIOUS
<1>5. Sequential!Advance(h) = p[2 * Words]
  BY <1>1, <1>4, AdvanceIs
<1> QED
  BY <1>3, <1>5 DEF h, k

\* The program does not change, and so neither does what harts do.
LEMMA SameProgram ==
  ASSUME UNCHANGED prog, NEW CONSTANT a, NEW CONSTANT b, NEW CONSTANT V, NEW CONSTANT M,
         NEW CONSTANT c
  PROVE  Reaches(a, b, V, M, c)' <=> Reaches(a, b, V, M, c)
<1>1. ASSUME NEW CONSTANT h
      PROVE  Sequential!Instruct(h)' = Sequential!Instruct(h)
  BY DEF Sequential!Instruct
<1>2. ASSUME NEW CONSTANT h
      PROVE  Sequential!Execute(h)' = Sequential!Execute(h)
  BY <1>1 DEF Sequential!Execute
<1>3. ASSUME NEW CONSTANT p, NEW CONSTANT h
      PROVE  Steps(p, h)' <=> Steps(p, h)
  BY <1>2 DEF Steps
<1> QED
  BY <1>3 DEF Reaches

-----------------------------------------------------------------------------
(***************************************************************************)
(* The pipeline holds the program: from WB to IF, one instruction after    *)
(* the other, with bubbles between them.                                   *)
(***************************************************************************)
AllPlain == Interrupts = {FALSE} /\ \A p \in Programs : Plain(p)

\* What the instruction in EX finds in the registers.
Behind == [r \in Regs |-> AfterMEM(r)]

Idle(i) ==
  /\ i.op \in {"bubble", "addi", "beq", "jal"}
  /\ writes(i) \/ is_jump(i) => i.rd = 0

\* i is the instruction at a, which with the registers V leads to b; or it does nothing.
Leads(i, a, b, V) ==
  \/ i = prog[a] /\ b = Goes(i, a, V)
  \/ Idle(i) /\ b = a

\* IF2ID holds the instruction at c, and the fetch goes where the BTB says; or nothing,
\* and c is to be fetched.
Fetched(c) ==
  \/ /\ if2id.inst = prog[c] /\ if2id.pc = c /\ pc = if2id.btb.addr
     /\ ~if2id.btb.flag => pc = Succ(c)
     /\ if2id.btb.flag => is_jump(prog[c])
  \/ if2id.inst = NOP /\ ~if2id.btb.flag /\ pc = c

Chain(a, b, c) ==
  /\ Reaches(at, a, Visible, mem, csr_at)
  /\ Leads(ex2mem.inst, a, b, Visible)
  /\ Leads(id2ex.inst, b, c, Behind)
  /\ Fetched(c)

DataRight ==
  /\ writes(ex2mem.inst) /\ ~is_load(ex2mem.inst) /\ ~is_link(ex2mem.inst)
       => ex2mem.data = (Visible[rs1_id(ex2mem.inst)] + ex2mem.inst.imm) % Words
  /\ is_store(ex2mem.inst) => ex2mem.data = Visible[rs2_id(ex2mem.inst)]

\* No stall holds a jump or a correction back.
Latches ==
  /\ ~pending_jump.flag /\ ~btb_pending.flag
  /\ ~if2id.ras.flag /\ ~if2id.ibtb.flag
  /\ prev_jump.flag => /\ is_jump(id2ex.inst)
                       /\ ~is_load(ex2mem.inst) /\ ~is_store(ex2mem.inst)

BtbJumps ==
  \A i \in DOMAIN btb : btb[i].valid => is_jump(prog[btb[i].tag * BtbEntries + i])

Loading == ~load_finished => if2id.inst = NOP /\ \A i \in DOMAIN btb : ~btb[i].valid

JumpsNameZero ==
  \A i \in {id2ex.inst, ex2mem.inst, mem2wb.inst} : is_jump(i) => i.rd = 0

History ==
  /\ at \in Word /\ csr_at \in [Registers -> Word]
  /\ due = << >> /\ marks = [ id |-> << >>, ex |-> << >>, mem |-> << >> ]

Chained == \E a, b, c \in Word : Chain(a, b, c)

SeqInv ==
  /\ Chained /\ DataRight /\ Latches /\ BtbJumps /\ Loading /\ JumpsNameZero /\ History

\* What is assumed of the programs, for the one that runs.
LEMMA PlainProgram ==
  ASSUME HardwareTypeOK, AllPlain
  PROVE  /\ Plain(prog) /\ TrapsFit /\ ~interrupt
         /\ prog \in [Word -> Instruction]
         /\ \A a \in Word : /\ prog[a].op \in {"addi", "lw", "sw", "beq", "jal"}
                            /\ is_jump(prog[a]) => prog[a].rd = 0
<1>1. prog \in Programs /\ interrupt \in Interrupts
  BY DEF HardwareTypeOK
<1>2. prog \in [Word -> Instruction]
  BY <1>1, CPUAssumption
<1>3. \A p \in Programs : \A a \in Word : p[a].op \notin {"ecall", "mret"}
  BY DEF AllPlain, Plain
<1> QED
  BY <1>1, <1>2, <1>3 DEF AllPlain, Plain, TrapsFit

\* The registers as they are seen, and as they will be, are words.
LEMMA VisibleTypes ==
  ASSUME HardwareTypeOK
  PROVE  Visible \in [Regs -> Word] /\ Behind \in [Regs -> Word] /\ mem \in Word
<1>1. \A r \in Regs : Read(r) \in Word
  BY ReadType
<1>2. Visible \in [Regs -> Word]
  BY <1>1 DEF Visible
<1>3. ex2mem.data \in Word /\ mem \in Word
  BY DEF HardwareTypeOK
<1>4. \A r \in Regs : AfterMEM(r) \in Word
  BY <1>2, <1>3 DEF AfterMEM
<1> QED
  BY <1>2, <1>3, <1>4 DEF Behind

\* The interrupt controller keeps still; only a jump in ID redirects the fetch.
LEMMA OnlyJumps ==
  ASSUME HardwareTypeOK, FromProgram, AllPlain
  PROVE  /\ ID.op \in {"addi", "lw", "sw", "beq", "jal"}
         /\ is_jump(ID) => ID.rd = 0
         /\ ~interrupts(ToClint)
         /\ if_jump_flag <=> ~hazard /\ taken(ID, reg1, reg2)
         /\ if_jump_address = target(ID, reg1)
<1>1. ID.op \in {"addi", "lw", "sw", "beq", "jal"} /\ (is_jump(ID) => ID.rd = 0)
  BY PlainProgram DEF FromProgram, ID, NOP, Inst
<1>2. ToClint.instruction_id = ID /\ ~ToClint.interrupt_flag
  BY PlainProgram DEF ToClint
<1>3. ~interrupt_assert(ToClint) /\ ~interrupts(ToClint)
  BY <1>1, <1>2 DEF interrupt_assert, interrupts, is_ecall, is_mret
<1> QED
  BY <1>1, <1>3 DEF if_jump_flag, if_jump_address

\* Behind an instruction that does not jump comes the next.
LEMMA Straight == \A i, a, V : ~is_jump(i) => Goes(i, a, V) = Succ(a)
BY DEF Goes, taken, is_jump

\* Jumps and loads keep their distance from accesses to memory.
LEMMA Spaced ==
  ASSUME HardwareTypeOK, AllPlain, NEW a \in Word, NEW b \in Word, NEW c \in Word, Chain(a, b, c)
  PROVE  /\ is_load(ex2mem.inst) \/ is_store(ex2mem.inst) => ~is_jump(ID)
         /\ is_store(ex2mem.inst) => ~is_load(id2ex.inst)
         /\ is_load(id2ex.inst) \/ is_store(id2ex.inst) => ~is_jump(ID)
         /\ if2id.btb.flag => is_jump(ID)
<1>1. /\ \A x \in Word :
           /\ is_store(prog[x]) => ~is_load(prog[Succ(x)])
           /\ is_load(prog[x]) \/ is_store(prog[x])
                => ~is_jump(prog[Succ(x)]) /\ ~is_jump(prog[Succ(Succ(x))])
      /\ \A x \in Word : is_load(prog[x]) \/ is_store(prog[x]) => ~is_jump(prog[x])
  BY PlainProgram DEF Plain, is_load, is_store, is_jump
<1>2. \A i : Idle(i) => ~is_load(i) /\ ~is_store(i)
  BY DEF Idle, is_load, is_store
<1>3. ID = prog[c] \/ ID = NOP
  BY DEF Chain, Fetched, ID
<1>4. ~is_jump(NOP)
  BY DEF is_jump, NOP, Inst
<1>5. is_load(id2ex.inst) \/ is_store(id2ex.inst)
        => /\ id2ex.inst = prog[b] /\ c = Succ(b)
           /\ ~is_jump(ID)
  BY <1>1, <1>2, <1>3, <1>4, Straight DEF Chain, Leads
<1>6. is_load(ex2mem.inst) \/ is_store(ex2mem.inst)
        => ex2mem.inst = prog[a] /\ b = Succ(a)
  BY <1>1, <1>2, Straight DEF Chain, Leads
<1>7. is_store(ex2mem.inst) => ~is_load(id2ex.inst)
  BY <1>1, <1>5, <1>6
<1>8. ASSUME is_load(ex2mem.inst) \/ is_store(ex2mem.inst)
      PROVE  ~is_jump(ID)
  <2>1. ~is_jump(prog[b]) /\ ~is_jump(prog[Succ(b)])
    BY <1>1, <1>6, <1>8
  <2>2. c = b \/ c = Succ(b)
    BY <2>1, Straight DEF Chain, Leads
  <2> QED
    BY <1>3, <1>4, <2>1, <2>2
<1>9. if2id.btb.flag => is_jump(ID)
  BY DEF Chain, Fetched, ID
<1> QED
  BY <1>5, <1>7, <1>8, <1>9

\* What stalls the pipeline: a load in EX or the wait of a jump for an operand; and MEM,
\* with no jump in ID.
LEMMA Stalls ==
  ASSUME HardwareTypeOK, MemWaits, FromProgram, AllPlain, NEW a \in Word, NEW b \in Word,
         NEW c \in Word, Chain(a, b, c), Latches, JumpsNameZero
  PROVE  /\ mem_stall => ~is_jump(ID)
         /\ ~jal_jalr_hazard(Hazards)
         /\ pc_stall(Hazards) => IF is_jump(ID) THEN hazard ELSE id_flush(Hazards)
         /\ id_flush(Hazards) => pc_stall(Hazards)
         /\ hazard => pc_stall(Hazards) /\ is_jump(ID)
         /\ prev_jump.flag => ~pc_stall(Hazards) /\ ~mem_stall
<1>1. mem_stall => is_load(ex2mem.inst) \/ is_store(ex2mem.inst)
  BY DEF mem_stall, MEM!ctrl_stall_flag, MEM!memory_read_enable, MEM!memory_write_enable, MemIns,
         kind, MemWaits, HardwareTypeOK, MEM!TypeOK, is_load, is_store
<1>2. ~jal_jalr_hazard(Hazards)
  <2>1. \A i \in {id2ex.inst, ex2mem.inst, mem2wb.inst} : is_link(i) => i.rd = 0
    BY DEF JumpsNameZero, is_link, is_jump
  <2> QED
    BY <2>1 DEF jal_jalr_hazard, Hazards, reads
<1>3. ~store_load_hazard(Hazards)
  BY Spaced DEF store_load_hazard, Hazards
<1>4. pc_stall(Hazards) => IF is_jump(ID) THEN hazard ELSE id_flush(Hazards)
  BY <1>2, <1>3 DEF pc_stall, hazard, branch_hazard, id_flush, ex_hazard_for_branch,
     mem_hazard_for_branch, is_load_use_hazard, Hazards
<1>5. id_flush(Hazards) => pc_stall(Hazards)
  BY DEF id_flush, pc_stall
<1>6. hazard => pc_stall(Hazards) /\ is_jump(ID)
  BY DEF pc_stall, hazard, branch_hazard, ex_hazard_for_branch, mem_hazard_for_branch, Hazards
<1>7. prev_jump.flag => ~pc_stall(Hazards) /\ ~mem_stall
  <2>1. ~(is_jump(id2ex.inst) /\ is_load(id2ex.inst))
    BY DEF is_jump, is_load
  <2>2. is_jump(id2ex.inst) => ~reads(Hazards, id2ex.inst)
    BY DEF JumpsNameZero, reads
  <2> QED
    BY <1>1, <1>2, <1>3, <2>1, <2>2 DEF Latches, pc_stall, ex_hazard_for_branch,
       mem_hazard_for_branch, is_load_use_hazard, Hazards
<1> QED
  BY <1>1, <1>2, <1>4, <1>5, <1>6, <1>7, Spaced

-----------------------------------------------------------------------------
(***************************************************************************)
(* What can be seen of a step.                                             *)
(***************************************************************************)
\* While MEM waits, nothing.
LEMMA NothingSeen ==
  ASSUME HardwareTypeOK, mem_stall, MEM2WBStep, RegisterFileStep, MemoryStep
  PROVE  Visible' = Visible /\ mem' = mem
<1>1. mem2wb' = mem2wb
  BY DEF MEM2WBStep
<1>2. regs \in [Regs -> Word]
  BY DEF HardwareTypeOK
<1>3. ASSUME NEW CONSTANT r \in Regs
      PROVE  Read(r)' = Read(r)
  <2>1. CASE mem2wb.enable /\ mem2wb.rd = r
    BY <1>1, <2>1 DEF Read
  <2>2. CASE ~(mem2wb.enable /\ mem2wb.rd = r)
    <3>1. regs'[r] = regs[r]
      BY <1>2, <2>2 DEF RegisterFileStep
    <3> QED
      BY <1>1, <2>2, <3>1 DEF Read
  <2> QED
    BY <2>1, <2>2
<1>4. Visible' = Visible
  BY <1>3 DEF Visible
<1>5. ~BusWires.write_valid
  BY DEF mem_stall, MEM!ctrl_stall_flag, BusWires, HardwareTypeOK, MEM!TypeOK
<1> QED
  BY <1>4, <1>5 DEF MemoryStep

\* At its end, the effect of the instruction in MEM.
LEMMA EffectSeen ==
  ASSUME HardwareTypeOK, MemWaits, ~mem_stall, MEM2WBStep, RegisterFileStep, MemoryStep
  PROVE  Visible' = Behind /\ mem' = IF is_store(ex2mem.inst) THEN ex2mem.data ELSE mem
<1>1. /\ mem2wb'.rd = ex2mem.inst.rd
      /\ mem2wb'.enable <=> writes(ex2mem.inst)
      /\ mem2wb'.value = IF is_load(ex2mem.inst) THEN mem ELSE ex2mem.data
  BY WriteBackIsResult DEF MEM2WBStep, forward_to_ex
<1>2. regs \in [Regs -> Word]
  BY DEF HardwareTypeOK
<1>3. ASSUME NEW CONSTANT r \in Regs
      PROVE  Read(r)' = AfterMEM(r)
  <2>1. CASE r = 0
    BY <2>1 DEF Read, AfterMEM, Visible
  <2>2. CASE r # 0 /\ writes(ex2mem.inst) /\ ex2mem.inst.rd = r
    BY <1>1, <2>2 DEF Read, AfterMEM
  <2>3. CASE r # 0 /\ ~(writes(ex2mem.inst) /\ ex2mem.inst.rd = r)
    <3>1. Read(r)' = regs'[r]
      BY <1>1, <2>3 DEF Read
    <3>2. AfterMEM(r) = Read(r)
      BY <2>3 DEF AfterMEM, Visible
    <3>3. regs'[r] = Read(r)
      <4>1. CASE mem2wb.enable /\ mem2wb.rd = r
        <5>1. regs' = [regs EXCEPT ![r] = mem2wb.value]
          BY <2>3, <4>1 DEF RegisterFileStep
        <5> QED
          BY <1>2, <2>3, <4>1, <5>1 DEF Read
      <4>2. CASE ~(mem2wb.enable /\ mem2wb.rd = r)
        <5>1. regs'[r] = regs[r]
          BY <1>2, <4>2 DEF RegisterFileStep
        <5> QED
          BY <2>3, <4>2, <5>1 DEF Read
      <4> QED
        BY <4>1, <4>2
    <3> QED
      BY <3>1, <3>2, <3>3
  <2> QED
    BY <2>1, <2>2, <2>3
<1>4. Visible' = Behind
  BY <1>3 DEF Visible, Behind
<1>5. BusWires.write_valid <=> is_store(ex2mem.inst)
  <2>1. BusWires.write_valid => is_store(ex2mem.inst)
    BY DEF BusWires, MemWaits
  <2>2. ASSUME is_store(ex2mem.inst)
        PROVE  BusWires.write_valid
    <3>1. ~is_load(ex2mem.inst) /\ ~writes(ex2mem.inst)
      BY <2>2 DEF is_load, is_store, writes
    <3>2. MemIns.kind = "store"
      BY <2>2, <3>1 DEF MemIns, kind
    <3>3. mem_access_state \in {"Idle", "Write"}
      BY <3>1 DEF MemWaits, HardwareTypeOK, MEM!TypeOK
    <3> QED
      BY <3>2, <3>3 DEF mem_stall, MEM!ctrl_stall_flag, MEM!memory_write_enable
  <2> QED
    BY <2>1, <2>2
<1> QED
  BY <1>4, <1>5 DEF MemoryStep

\* It is what the program says.
LEMMA EffectRight ==
  ASSUME HardwareTypeOK, AllPlain, NEW a \in Word, DataRight, ex2mem.inst = prog[a]
  PROVE  /\ Behind = Puts(prog[a], Visible, mem)
         /\ (IF is_store(ex2mem.inst) THEN ex2mem.data ELSE mem) = Stores(prog[a], Visible, mem)
<1> DEFINE i == ex2mem.inst
<1>1. i.op \in {"addi", "lw", "sw", "beq", "jal"} /\ (is_jump(i) => i.rd = 0)
  BY PlainProgram
<1>2. writes(i) /\ i.rd # 0 => ~is_link(i)
  BY <1>1 DEF is_link, is_jump
<1>3. writes(i) /\ i.rd # 0 /\ ~is_load(i)
        => ex2mem.data = (Visible[rs1_id(i)] + i.imm) % Words
  BY <1>2 DEF DataRight
<1> HIDE DEF i
<1>4. \A r \in Regs : AfterMEM(r) = IF r # 0 /\ writes(i) /\ i.rd = r
                                    THEN IF is_load(i) THEN mem
                                         ELSE (Visible[rs1_id(i)] + i.imm) % Words
                                    ELSE Visible[r]
  <2> TAKE r \in Regs
  <2>1. CASE r # 0 /\ writes(i) /\ i.rd = r
    BY <1>3, <2>1 DEF AfterMEM, i
  <2>2. CASE ~(r # 0 /\ writes(i) /\ i.rd = r)
    BY <2>2 DEF AfterMEM, i
  <2> QED
    BY <2>1, <2>2
<1>5. Behind = Puts(i, Visible, mem)
  BY <1>4 DEF Behind, Puts
<1>6. (IF is_store(i) THEN ex2mem.data ELSE mem) = Stores(i, Visible, mem)
  BY DEF DataRight, Stores, i
<1> QED
  BY <1>5, <1>6 DEF i

\* Or nothing, for an idle one.
LEMMA IdleUnseen ==
  ASSUME HardwareTypeOK, Idle(ex2mem.inst)
  PROVE  Behind = Visible /\ ~is_store(ex2mem.inst)
<1>1. \A r \in Regs : AfterMEM(r) = Visible[r]
  BY DEF AfterMEM, Idle
<1>2. Visible = [r \in Regs |-> Visible[r]]
  BY VisibleTypes
<1>3. Behind = Visible
  BY <1>1, <1>2 DEF Behind
<1> QED
  BY <1>3 DEF Idle, is_store

\* Where a hart has come to is where the same hart has come to.
LEMMA ReachedBy ==
  ASSUME NEW CONSTANT x, NEW CONSTANT b, NEW CONSTANT V, NEW CONSTANT M, NEW CONSTANT c,
         UNCHANGED prog, Reaches(x, b, V, M, c),
         at' = x, Visible' = V, mem' = M, csr_at' = c
  PROVE  Reaches(at, b, Visible, mem, csr_at)'
<1>1. Reaches(x, b, V, M, c)'
  BY SameProgram
<1> QED
  BY <1>1 DEF Reaches, Steps

SequentialStep ==
  [Sequential!Next]_<<prog, at, Visible, mem, csr_at, due>>

\* When an instruction leaves MEM, sequential execution does what it has done, if that
\* can be seen; and comes to the next.
LEMMA LeavesMEM ==
  ASSUME HardwareTypeOK, MemWaits, AllPlain, NEW CONSTANT a \in Word, NEW CONSTANT b \in Word,
         Reaches(at, a, Visible, mem, csr_at), Leads(ex2mem.inst, a, b, Visible),
         DataRight, History, ~mem_stall, MEM2WBStep, RegisterFileStep, MemoryStep, HistoryStep,
         UNCHANGED prog
  PROVE  /\ Reaches(at, b, Visible, mem, csr_at)'
         /\ at' \in Word /\ csr_at' \in [Registers -> Word] /\ due' = << >>
         /\ SequentialStep
<1>1. PICK x \in Word, V \in [Regs -> Word], M \in Word, c \in [Registers -> Word] :
        x = at /\ V = Visible /\ M = mem /\ c = csr_at
  BY VisibleTypes DEF History
<1>2. Reaches(x, a, V, M, c) /\ Plain(prog) /\ TrapsFit /\ prog[a] \in Instruction
  BY <1>1, PlainProgram
<1> DEFINE now == [at |-> at, regs |-> Visible, mem |-> mem, csr |-> csr_at, due |-> due]
           next == IF <<Visible', mem'>> # <<Visible, mem>> THEN Sequential!Advance(now)
                   ELSE now
<1>3. now = Hart(x, V, M, c) /\ Sequential!Now = Hart(x, V, M, c)
  BY <1>1 DEF History, Hart, Sequential!Now
<1>4. at' = next.at /\ csr_at' = next.csr /\ due' = next.due \o << >>
  BY DEF HistoryStep, History
<1> HIDE DEF now
<1>5. CASE Visible' = V /\ mem' = M
  <2>1. next = Hart(x, V, M, c)
    BY <1>1, <1>3, <1>5
  <2>2. at' = x /\ csr_at' = c /\ due' = << >>
    BY <1>4, <2>1 DEF Hart
  <2>3. Reaches(x, b, V, M, c)
    <3>1. CASE ex2mem.inst = prog[a] /\ b = Goes(ex2mem.inst, a, Visible)
      <4>1. Puts(prog[a], V, M) = V /\ Stores(prog[a], V, M) = M
        BY <1>1, <1>5, <3>1, EffectSeen, EffectRight
      <4> QED
        BY <1>1, <1>2, <3>1, <4>1, ReachesOn
    <3>2. CASE Idle(ex2mem.inst) /\ b = a
      BY <1>2, <3>2
    <3> QED
      BY <3>1, <3>2 DEF Leads
  <2>4. Reaches(at, b, Visible, mem, csr_at)'
    BY <1>5, <2>2, <2>3, ReachedBy
  <2>5. SequentialStep
    BY <1>1, <1>5, <2>2 DEF SequentialStep, History
  <2> QED
    BY <2>2, <2>4, <2>5
<1>6. CASE <<Visible', mem'>> # <<V, M>>
  <2>1. ex2mem.inst = prog[a] /\ b = Goes(prog[a], a, V)
    <3>1. Visible' = Behind /\ mem' = IF is_store(ex2mem.inst) THEN ex2mem.data ELSE mem
      BY EffectSeen
    <3>2. ~(Idle(ex2mem.inst) /\ b = a)
      BY <1>1, <1>6, <3>1, IdleUnseen
    <3> QED
      BY <1>1, <3>2 DEF Leads
  <2>2. PICK V2 \in [Regs -> Word], M2 \in Word :
          V2 = Puts(prog[a], V, M) /\ M2 = Stores(prog[a], V, M)
    BY <1>2, PlainTypes
  <2>3. Visible' = V2 /\ mem' = M2
    BY <1>1, <2>1, <2>2, EffectSeen, EffectRight
  <2>4. Sequential!Advance(Hart(x, V, M, c)) = Hart(b, V2, M2, c)
    BY <1>2, <1>6, <2>1, <2>2, <2>3, AdvancesOn
  <2>5. next = Hart(b, V2, M2, c)
    BY <1>1, <1>3, <1>6, <2>4
  <2>6. at' = b /\ csr_at' = c /\ due' = << >>
    BY <1>4, <2>5 DEF Hart
  <2>7. Reaches(b, b, V2, M2, c)
    BY <1>2, ReachesItself
  <2>8. Reaches(at, b, Visible, mem, csr_at)'
    BY <2>3, <2>6, <2>7, ReachedBy
  <2>9. Sequential!Run
    <3>1. Sequential!Advance(Sequential!Now) = Hart(b, V2, M2, c)
      BY <1>3, <2>4
    <3>2. /\ Hart(b, V2, M2, c).at = b /\ Hart(b, V2, M2, c).regs = V2
          /\ Hart(b, V2, M2, c).mem = M2 /\ Hart(b, V2, M2, c).csr = c
          /\ Hart(b, V2, M2, c).due = << >>
      BY DEF Hart
    <3> QED
      BY <1>1, <1>6, <2>3, <2>6, <3>1, <3>2 DEF Sequential!Run
  <2> QED
    BY <2>6, <2>8, <2>9 DEF SequentialStep, Sequential!Next
<1> QED
  BY <1>5, <1>6

\* While MEM waits, sequential execution stands still.
LEMMA WaitsInMEM ==
  ASSUME HardwareTypeOK, NEW CONSTANT a \in Word, Reaches(at, a, Visible, mem, csr_at),
         History, mem_stall, MEM2WBStep, RegisterFileStep, MemoryStep, HistoryStep, UNCHANGED prog
  PROVE  /\ Reaches(at, a, Visible, mem, csr_at)'
         /\ at' \in Word /\ csr_at' \in [Registers -> Word] /\ due' = << >>
         /\ SequentialStep
<1>1. PICK x \in Word, V \in [Regs -> Word], M \in Word, c \in [Registers -> Word] :
        x = at /\ V = Visible /\ M = mem /\ c = csr_at
  BY VisibleTypes DEF History
<1>2. Visible' = V /\ mem' = M
  BY <1>1, NothingSeen
<1>3. at' = x /\ csr_at' = c /\ due' = << >>
  BY <1>1, <1>2 DEF HistoryStep, History
<1>4. Reaches(at, a, Visible, mem, csr_at)'
  BY <1>1, <1>2, <1>3, ReachedBy
<1> QED
  BY <1>1, <1>2, <1>3, <1>4 DEF SequentialStep, History

-----------------------------------------------------------------------------
(***************************************************************************)
(* What is fetched next.                                                   *)
(***************************************************************************)
\* The BTB names jumps only.
LEMMA BtbNames ==
  ASSUME HardwareTypeOK, BtbJumps, NEW a \in Word, Fetch!BTB!hit(a)
  PROVE  is_jump(prog[a])
<1>1. BtbEntries \in Nat \ {0} /\ a \in Nat
  BY CPUAssumption, WordFacts
<1> DEFINE q == a \div BtbEntries
           r == a % BtbEntries
<1>2. /\ q \in Int /\ r \in 0 .. BtbEntries - 1
      /\ a = BtbEntries * q + r
  BY <1>1
<1>3. r \in DOMAIN btb /\ btb[r].valid /\ btb[r].tag = q
  BY <1>2, BtbPlaces DEF HardwareTypeOK, Fetch!TypeOK, Fetch!BTB!TypeOK, Fetch!BTB!hit,
     Fetch!BTB!index, Fetch!BTB!tag
<1> HIDE DEF q, r
<1>4. q * BtbEntries + r = a
  BY <1>1, <1>2
<1> QED
  BY <1>3, <1>4 DEF BtbJumps

\* With no jump that fetches elsewhere, the word at pc comes into IF2ID, and
\* the BTB says where the fetch goes.
LEMMA FetchesNext ==
  ASSUME HardwareTypeOK, AllPlain, NEW CONSTANT d \in Word, pc = d, Latches, BtbJumps, Loading,
         ~pc_stall(Hazards), ~mem_stall, ~need_if_flush,
         if_jump_flag => btb_correct_prediction,
         IF2IDStep, Fetch!Step(ToFetch), UNCHANGED prog
  PROVE  Fetched(d)' /\ ~if2id'.ras.flag /\ ~if2id'.ibtb.flag
<1> DEFINE p == Fetch!Predictions(ToFetch)
<1>1. prog[d].op \in {"addi", "lw", "sw", "beq", "jal"}
  BY PlainProgram
<1>2. ~is_return(prog[d]) /\ ~is_jalr(prog[d])
  BY <1>1 DEF is_return, is_jalr
<1>3. /\ ToFetch.inst = prog[d] /\ ToFetch.instruction_valid = load_finished
      /\ ~ToFetch.stall /\ ToFetch.mispredict = btb_mispredict
      /\ ToFetch.jump_flag = if_jump_flag
      /\ ToFetch.correct_prediction = btb_correct_prediction
  BY DEF ToFetch
<1>4. ~p.ras.flag /\ ~p.ibtb.flag
  BY <1>2, <1>3 DEF Fetch!Predictions, Fetch!speculative_ras_pop, Fetch!is_return, is_return,
     Fetch!is_jalr, is_jalr
<1>5. p.btb.flag = Fetch!BTB!predicted_taken(d) /\ p.btb.addr = Fetch!BTB!predicted_pc(d)
  BY DEF Fetch!Predictions
<1>6. ~btb_mispredict
  BY DEF need_if_flush
<1>7. pc' = IF load_finished THEN p.btb.addr ELSE d
  <2>1. /\ ~Fetch!take_pending(ToFetch) /\ ~Fetch!take_btb_correction(ToFetch)
        /\ ~Fetch!take_current(ToFetch)
    BY <1>3, <1>6 DEF Fetch!take_pending, Fetch!take_btb_correction, Fetch!take_current, Latches
  <2>2. Fetch!fetching(ToFetch) = load_finished
    BY <1>3 DEF Fetch!fetching, HardwareTypeOK
  <2>3. Fetch!default_next_pc(ToFetch) = p.btb.addr
    BY <1>4 DEF Fetch!default_next_pc
  <2> HIDE DEF p
  <2> QED
    BY <2>1, <2>2, <2>3 DEF Fetch!Step, Fetch!next_pc
<1>8. /\ if2id'.inst = IF load_finished THEN prog[d] ELSE NOP
      /\ if2id'.pc = d /\ if2id'.btb = p.btb
      /\ if2id'.ras = p.ras /\ if2id'.ibtb = p.ibtb
  <2>1. if2id' = [ inst |-> IF load_finished THEN prog[d] ELSE NOP, pc |-> d,
                   btb |-> p.btb, ras |-> p.ras, ibtb |-> p.ibtb ]
    BY DEF IF2IDStep
  <2> HIDE DEF p
  <2> QED
    BY <2>1
<1> HIDE DEF p
<1>9. CASE load_finished
  <2>1. p.btb.flag => is_jump(prog[d])
    BY <1>5, BtbNames DEF Fetch!BTB!predicted_taken
  <2>2. ~p.btb.flag => p.btb.addr = Succ(d)
    BY <1>5 DEF Fetch!BTB!predicted_pc, Fetch!BTB!Succ, Succ
  <2>3. Fetched(d)'
    BY <1>7, <1>8, <1>9, <2>1, <2>2 DEF Fetched
  <2> QED
    BY <1>4, <1>8, <2>3
<1>10. CASE ~load_finished
  <2>1. ~p.btb.flag
    <3>1. Fetch!BTB!index(d) \in DOMAIN btb
      BY BtbPlaces DEF HardwareTypeOK, Fetch!TypeOK, Fetch!BTB!TypeOK
    <3> QED
      BY <1>5, <1>10, <3>1 DEF Loading, Fetch!BTB!predicted_taken, Fetch!BTB!hit
  <2>2. Fetched(d)'
    BY <1>7, <1>8, <1>10, <2>1 DEF Fetched
  <2> QED
    BY <1>4, <1>8, <2>2
<1> QED
  BY <1>9, <1>10

\* A flush sends the fetch to the correction, or to the jump.
LEMMA FetchesElsewhere ==
  ASSUME NEW CONSTANT d \in Word, Latches, ~pc_stall(Hazards), ~mem_stall, need_if_flush,
         \/ btb_mispredict /\ d = btb_correction_addr
         \/ /\ ~btb_mispredict /\ if_jump_flag /\ ~btb_correct_prediction
            /\ d = if_jump_address,
         IF2IDStep, Fetch!Step(ToFetch)
  PROVE  Fetched(d)' /\ ~if2id'.ras.flag /\ ~if2id'.ibtb.flag
<1>1. if2id' = FlushedIF2ID
  BY DEF IF2IDStep
<1>2. /\ ~ToFetch.stall /\ ToFetch.mispredict = btb_mispredict
      /\ ToFetch.jump_flag = if_jump_flag /\ ToFetch.jump_address = if_jump_address
      /\ ToFetch.correction = btb_correction_addr
      /\ ToFetch.correct_prediction = btb_correct_prediction
  BY DEF ToFetch
<1>3. pc' = d
  BY <1>2 DEF Fetch!Step, Fetch!next_pc, Fetch!take_pending, Fetch!take_btb_correction,
     Fetch!take_current, Latches
<1> QED
  BY <1>1, <1>3 DEF Fetched, FlushedIF2ID, NoJump

\* A stall keeps IF2ID and the fetch where they are.
LEMMA FetchStalls ==
  ASSUME NEW CONSTANT d \in Word, Fetched(d), pc_stall(Hazards) \/ mem_stall,
         mem_stall \/ ~need_if_flush, IF2IDStep, Fetch!Step(ToFetch), UNCHANGED prog
  PROVE  Fetched(d)' /\ if2id' = if2id
<1>1. if2id' = if2id
  BY DEF IF2IDStep
<1>2. ToFetch.stall
  BY DEF ToFetch
<1>3. pc' = pc
  BY <1>2 DEF Fetch!Step, Fetch!next_pc, Fetch!take_pending, Fetch!take_btb_correction,
     Fetch!take_current, Fetch!fetching
<1> QED
  BY <1>1, <1>3 DEF Fetched

\* Behind the instruction in ID the fetch goes on where that instruction leads.
GoesOn(c, V) == \E d \in Word : Leads(ID, c, d, V) /\ Fetched(d)'

LEMMA Decides ==
  ASSUME HardwareTypeOK, MemWaits, FromProgram, AllPlain, NEW CONSTANT a \in Word,
         NEW CONSTANT b \in Word, NEW CONSTANT c \in Word, Chain(a, b, c), Latches, JumpsNameZero,
         BtbJumps, Loading, ~pc_stall(Hazards), ~mem_stall, NEW CONSTANT V,
         is_jump(ID) => V[rs1_id(ID)] = reg1 /\ V[rs2_id(ID)] = reg2,
         IF2IDStep, Fetch!Step(ToFetch), UNCHANGED prog
  PROVE  GoesOn(c, V) /\ ~if2id'.ras.flag /\ ~if2id'.ibtb.flag
<1>1. ~hazard
  BY Stalls
<1>2. if_jump_flag <=> taken(ID, reg1, reg2)
  BY <1>1, OnlyJumps
<1>3. if_jump_flag => is_jump(ID)
  BY <1>2 DEF taken, is_jump
<1>4. if_jump_address = target(ID, reg1) /\ target(ID, reg1) \in Word
  <2>1. ID \in Instruction
    BY DEF HardwareTypeOK, ID
  <2>2. reg1 \in Word
    BY OperandTypes
  <2>3. target(ID, reg1) \in Word
    BY <2>1, <2>2, DecodedTypes
  <2> QED
    BY <2>1, <2>3, OnlyJumps
<1>5. ~btb_non_branch
  BY Spaced DEF btb_non_branch
<1>6. btb_correct_prediction <=> if2id.btb.flag /\ if_jump_flag /\ if2id.btb.addr = if_jump_address
  BY DEF btb_correct_prediction, btb_actually_used, Latches
<1>7. btb_wrong_target <=> if2id.btb.flag /\ if_jump_flag /\ if2id.btb.addr # if_jump_address
  BY DEF btb_wrong_target, btb_actually_used, Latches
<1>8. btb_wrong_direction <=> if2id.btb.flag /\ ~if_jump_flag
  BY Spaced DEF btb_wrong_direction
<1>9. /\ btb_mispredict <=> btb_wrong_direction \/ btb_wrong_target
      /\ btb_correction_addr = IF btb_wrong_target THEN if_jump_address ELSE Succ(if2id.pc)
  BY <1>1, <1>5 DEF btb_mispredict, btb_mispredict_raw, correct_pending, btb_correction_addr,
     btb_correction_addr_raw, Latches
<1>10. need_if_flush <=> (if_jump_flag /\ ~btb_correct_prediction) \/ btb_mispredict
  BY DEF need_if_flush, if_flush, prediction_correct, ras_matches, ibtb_matches,
     ras_wrong_target, ibtb_wrong_target, Latches
<1>11. CASE if2id.inst = NOP /\ ~if2id.btb.flag /\ pc = c
  <2>1. Idle(ID) /\ ~is_jump(ID)
    BY <1>11 DEF ID, NOP, Inst, Idle, is_jump
  <2>2. ~need_if_flush /\ ~if_jump_flag
    BY <1>3, <1>7, <1>8, <1>9, <1>10, <1>11, <2>1
  <2>3. Fetched(c)' /\ ~if2id'.ras.flag /\ ~if2id'.ibtb.flag
    BY <1>11, <2>2, FetchesNext
  <2> QED
    BY <2>1, <2>3 DEF GoesOn, Leads
<1>12. CASE /\ if2id.inst = prog[c] /\ if2id.pc = c /\ pc = if2id.btb.addr
            /\ ~if2id.btb.flag => pc = Succ(c)
            /\ if2id.btb.flag => is_jump(prog[c])
  <2>1. ID = prog[c]
    BY <1>12 DEF ID
  <2>2. Goes(ID, c, V) = IF if_jump_flag THEN if_jump_address ELSE Succ(c)
    <3>1. CASE is_jump(ID)
      BY <1>2, <1>4, <3>1 DEF Goes
    <3>2. CASE ~is_jump(ID)
      BY <1>3, <3>2, Straight
    <3> QED
      BY <3>1, <3>2
  <2>3. PICK d \in Word : d = Goes(ID, c, V)
    BY <1>4, <2>2, SuccType
  <2>4. Leads(ID, c, d, V)
    BY <2>1, <2>3 DEF Leads
  <2>5. CASE need_if_flush
    <3>1. \/ btb_mispredict /\ d = btb_correction_addr
          \/ /\ ~btb_mispredict /\ if_jump_flag /\ ~btb_correct_prediction
             /\ d = if_jump_address
      BY <1>7, <1>8, <1>9, <1>10, <1>12, <2>2, <2>3, <2>5
    <3>2. Fetched(d)' /\ ~if2id'.ras.flag /\ ~if2id'.ibtb.flag
      BY <2>5, <3>1, FetchesElsewhere
    <3> QED
      BY <2>4, <3>2 DEF GoesOn
  <2>6. CASE ~need_if_flush
    <3>1. if_jump_flag => btb_correct_prediction
      BY <1>10, <2>6
    <3>2. pc = d
      BY <1>6, <1>8, <1>9, <1>10, <1>12, <2>2, <2>3, <2>6
    <3>3. Fetched(d)' /\ ~if2id'.ras.flag /\ ~if2id'.ibtb.flag
      BY <2>6, <3>1, <3>2, FetchesNext
    <3> QED
      BY <2>4, <3>3 DEF GoesOn
  <2> QED
    BY <2>5, <2>6
<1> QED
  BY <1>11, <1>12 DEF Chain, Fetched

-----------------------------------------------------------------------------
(***************************************************************************)
(* Each part of the invariant over a step.                                 *)
(***************************************************************************)
\* A jump that does not wait has read what EX will leave in its registers as well.
LEMMA JumpReads ==
  ASSUME HardwareTypeOK, MemWaits, is_jump(ID), ~hazard, ~mem_stall,
         ex2mem'.inst = id2ex.inst, Visible' = Behind
  PROVE  Behind'[rs1_id(ID)] = reg1 /\ Behind'[rs2_id(ID)] = reg2
<1>1. ASSUME NEW CONSTANT rs \in Regs, rs \in {rs1_id(ID), rs2_id(ID)}
      PROVE  Behind'[rs] = Operand(rs, Read(rs))
  <2>1. rs # 0 => ~(writes(id2ex.inst) /\ id2ex.inst.rd = rs)
    BY <1>1 DEF hazard, branch_hazard, ex_hazard_for_branch, reads, Hazards
  <2>2. Behind'[rs] = Behind[rs]
    BY <2>1 DEF Behind, AfterMEM
  <2>3. Operand(rs, Read(rs)) = AfterMEM(rs)
    BY <1>1, ReadInReach, OperandIsNewest
  <2> QED
    BY <2>2, <2>3 DEF Behind
<1>2. rs1_id(ID) \in Regs /\ rs2_id(ID) \in Regs
  BY WordFacts, DecodedTypes DEF HardwareTypeOK, ID
<1>3. PICK r1 \in Regs, r2 \in Regs : r1 = rs1_id(ID) /\ r2 = rs2_id(ID)
  BY <1>2
<1>4. Behind'[r1] = Operand(r1, Read(r1)) /\ Behind'[r2] = Operand(r2, Read(r2))
  BY <1>1, <1>3
<1> QED
  BY <1>3, <1>4 DEF reg1, reg2

\* While MEM waits the chain stands still.
LEMMA ChainWaits ==
  ASSUME IInv, AllPlain, SeqInv, NEW CONSTANT answer, Tick(answer), mem_stall
  PROVE  /\ Chained' /\ SequentialStep
         /\ at' \in Word /\ csr_at' \in [Registers -> Word] /\ due' = << >>
         /\ if2id' = if2id /\ id2ex' = id2ex /\ ex2mem' = ex2mem
         /\ Visible' = Visible /\ mem' = mem
<1>1. PICK a \in Word, b \in Word, c \in Word : Chain(a, b, c)
  BY DEF SeqInv, Chained
<1>2. /\ HardwareTypeOK /\ MemWaits /\ FromProgram /\ Latches /\ JumpsNameZero /\ History
      /\ IF2IDStep /\ ID2EXStep /\ EX2MEMStep /\ Fetch!Step(ToFetch)
      /\ MEM2WBStep /\ RegisterFileStep /\ MemoryStep /\ HistoryStep /\ prog' = prog
  BY DEF IInv, SeqInv, Tick
<1>3. Visible' = Visible /\ mem' = mem
  BY <1>2, NothingSeen
<1>4. ex2mem' = ex2mem /\ id2ex' = id2ex
  BY <1>1, <1>2, Stalls DEF EX2MEMStep, ID2EXStep
<1>5. Fetched(c) /\ Reaches(at, a, Visible, mem, csr_at)
  BY <1>1 DEF Chain
<1>6. Fetched(c)' /\ if2id' = if2id
  BY <1>2, <1>5, FetchStalls
<1>7. /\ Reaches(at, a, Visible, mem, csr_at)'
      /\ at' \in Word /\ csr_at' \in [Registers -> Word] /\ due' = << >>
      /\ SequentialStep
  BY <1>2, <1>5, WaitsInMEM
<1>8. Behind' = Behind
  BY <1>3, <1>4 DEF Behind, AfterMEM
<1>9. Leads(ex2mem.inst, a, b, Visible)' /\ Leads(id2ex.inst, b, c, Behind)'
  BY <1>1, <1>2, <1>3, <1>4, <1>8 DEF Chain, Leads
<1>10. Chain(a, b, c)'
  BY <1>6, <1>7, <1>9 DEF Chain
<1> QED
  BY <1>3, <1>4, <1>6, <1>7, <1>10 DEF Chained

\* When it does not, the instruction in EX moves to MEM.
LEMMA ChainMoves ==
  ASSUME IInv, AllPlain, SeqInv, NEW CONSTANT answer, Tick(answer), ~mem_stall,
         NEW CONSTANT a \in Word, NEW CONSTANT b \in Word, NEW CONSTANT c \in Word, Chain(a, b, c)
  PROVE  /\ Reaches(at, b, Visible, mem, csr_at)'
         /\ Leads(ex2mem.inst, b, c, Visible)'
         /\ Visible' = Behind /\ ex2mem'.inst = id2ex.inst
         /\ at' \in Word /\ csr_at' \in [Registers -> Word] /\ due' = << >>
         /\ SequentialStep
<1>1. /\ HardwareTypeOK /\ MemWaits /\ DataRight /\ History /\ EX2MEMStep
      /\ MEM2WBStep /\ RegisterFileStep /\ MemoryStep /\ HistoryStep /\ prog' = prog
  BY DEF IInv, SeqInv, Tick
<1>2. Visible' = Behind
  BY <1>1, EffectSeen
<1>3. ex2mem'.inst = id2ex.inst
  BY <1>1 DEF EX2MEMStep
<1>4. /\ Reaches(at, a, Visible, mem, csr_at) /\ Leads(ex2mem.inst, a, b, Visible)
      /\ Leads(id2ex.inst, b, c, Behind)
  BY DEF Chain
<1>5. /\ Reaches(at, b, Visible, mem, csr_at)'
      /\ at' \in Word /\ csr_at' \in [Registers -> Word] /\ due' = << >>
      /\ SequentialStep
  BY <1>1, <1>4, LeavesMEM
<1>6. Leads(ex2mem.inst, b, c, Visible)'
  BY <1>1, <1>2, <1>3, <1>4 DEF Leads
<1> QED
  BY <1>2, <1>3, <1>5, <1>6

\* Behind it comes nothing, if ID waits.
LEMMA ChainGaps ==
  ASSUME IInv, AllPlain, SeqInv, NEW CONSTANT answer, Tick(answer), ~mem_stall, pc_stall(Hazards)
  PROVE  Chained' /\ if2id' = if2id /\ ~if_jump_flag /\ ~is_store(id2ex'.inst)
<1>1. PICK a \in Word, b \in Word, c \in Word : Chain(a, b, c)
  BY DEF SeqInv, Chained
<1>2. /\ HardwareTypeOK /\ MemWaits /\ FromProgram /\ Latches /\ JumpsNameZero
      /\ IF2IDStep /\ ID2EXStep /\ Fetch!Step(ToFetch) /\ prog' = prog
  BY DEF IInv, SeqInv, Tick
<1>3. Reaches(at, b, Visible, mem, csr_at)' /\ Leads(ex2mem.inst, b, c, Visible)'
  BY <1>1, ChainMoves
<1>4. IF is_jump(ID) THEN hazard ELSE id_flush(Hazards)
  BY <1>1, <1>2, Stalls
<1>5. ~if_jump_flag
  BY <1>2, <1>4, OnlyJumps DEF taken, is_jump
<1>6. ~btb_mispredict
  <2>1. if2id.btb.flag => is_jump(ID)
    BY <1>1, <1>2, Spaced
  <2> QED
    BY <1>2, <1>4, <1>5, <2>1 DEF btb_mispredict, btb_mispredict_raw, correct_pending,
       btb_wrong_direction, btb_non_branch, btb_wrong_target, Latches
<1>7. ~need_if_flush
  BY <1>2, <1>6 DEF need_if_flush, if_flush, ras_wrong_target, ibtb_wrong_target, Latches
<1>8. Fetched(c)' /\ if2id' = if2id
  BY <1>1, <1>2, <1>7, FetchStalls DEF Chain
<1>9. Idle(id2ex'.inst)
  <2>1. CASE id_flush(Hazards)
    BY <1>2, <2>1 DEF ID2EXStep, FlushedID2EX, Bubble, Inst, Idle, writes, is_jump
  <2>2. CASE ~id_flush(Hazards)
    <3>1. id2ex'.inst = ID
      BY <1>2, <2>2 DEF ID2EXStep
    <3> QED
      BY <1>2, <1>4, <2>2, <3>1, OnlyJumps DEF Idle, is_jump
  <2> QED
    BY <2>1, <2>2
<1>10. Leads(id2ex.inst, c, c, Behind)'
  BY <1>9 DEF Leads
<1>11. Chain(b, c, c)'
  BY <1>3, <1>8, <1>10 DEF Chain
<1> QED
  BY <1>5, <1>8, <1>9, <1>11 DEF Chained, Idle, is_store

\* And the instruction in ID, if it does not.
LEMMA ChainFlows ==
  ASSUME IInv, AllPlain, SeqInv, NEW CONSTANT answer, Tick(answer), ~mem_stall, ~pc_stall(Hazards)
  PROVE  /\ Chained' /\ ~if2id'.ras.flag /\ ~if2id'.ibtb.flag
         /\ id2ex'.inst = ID
         /\ is_jump(ID) => ~is_load(id2ex.inst) /\ ~is_store(id2ex.inst)
<1>1. PICK a \in Word, b \in Word, c \in Word : Chain(a, b, c)
  BY DEF SeqInv, Chained
<1>2. /\ HardwareTypeOK /\ MemWaits /\ FromProgram /\ Latches /\ JumpsNameZero /\ BtbJumps /\ Loading
      /\ IF2IDStep /\ ID2EXStep /\ Fetch!Step(ToFetch) /\ prog' = prog
  BY DEF IInv, SeqInv, Tick
<1>3. /\ Reaches(at, b, Visible, mem, csr_at)' /\ Leads(ex2mem.inst, b, c, Visible)'
      /\ Visible' = Behind /\ ex2mem'.inst = id2ex.inst
  BY <1>1, ChainMoves
<1>4. ~hazard /\ ~id_flush(Hazards)
  BY <1>1, <1>2, Stalls
<1>5. id2ex'.inst = ID
  BY <1>2, <1>4 DEF ID2EXStep
<1>6. is_jump(ID) => Behind'[rs1_id(ID)] = reg1 /\ Behind'[rs2_id(ID)] = reg2
  BY <1>2, <1>3, <1>4, JumpReads
<1>7. PICK V : V = Behind'
  OBVIOUS
<1>8. GoesOn(c, V) /\ ~if2id'.ras.flag /\ ~if2id'.ibtb.flag
  BY <1>1, <1>2, <1>6, <1>7, Decides
<1>9. PICK d \in Word : Leads(ID, c, d, V) /\ Fetched(d)'
  BY <1>8 DEF GoesOn
<1>10. Leads(id2ex.inst, c, d, Behind)'
  BY <1>2, <1>5, <1>7, <1>9 DEF Leads
<1>11. Chain(b, c, d)'
  BY <1>3, <1>9, <1>10 DEF Chain
<1> QED
  BY <1>1, <1>2, <1>5, <1>8, <1>11, Spaced DEF Chained

\* What MEM carries is computed from what can be seen.
LEMMA DataRightStep ==
  ASSUME IInv, AllPlain, SeqInv, NEW CONSTANT answer, Tick(answer)
  PROVE  DataRight'
<1>1. CASE mem_stall
  BY <1>1, ChainWaits DEF DataRight, SeqInv
<1>2. CASE ~mem_stall
  <2>1. PICK a \in Word, b \in Word, c \in Word : Chain(a, b, c)
    BY DEF SeqInv, Chained
  <2>2. Visible' = Behind /\ HardwareTypeOK /\ MemWaits /\ OperandsInReach /\ EX2MEMStep
    BY <1>2, <2>1, ChainMoves DEF IInv, Tick
  <2>3. PICK i \in Instruction : i = id2ex.inst
    BY <2>2 DEF HardwareTypeOK
  <2>4. PICK r1 \in Regs, r2 \in Regs : r1 = rs1_id(i) /\ r2 = rs2_id(i)
    BY WordFacts, DecodedTypes
  <2>5. ex_reg1 = AfterMEM(r1) /\ ex_reg2 = AfterMEM(r2)
    BY <1>2, <2>2, <2>3, <2>4, OperandIsNewest DEF OperandsInReach, ex_reg1, ex_reg2
  <2>6. Visible'[r1] = ex_reg1 /\ Visible'[r2] = ex_reg2
    BY <2>2, <2>5 DEF Behind
  <2>7. ~is_csr(i)
    <3>1. prog[b].op \in {"addi", "lw", "sw", "beq", "jal"}
      BY <2>2, PlainProgram
    <3>2. i = prog[b] \/ Idle(i)
      BY <2>1, <2>3 DEF Chain, Leads
    <3> QED
      BY <3>1, <3>2 DEF Idle, is_csr
  <2>8. ex2mem' = [ inst |-> i, pc |-> id2ex.pc,
                    data |-> IF is_store(i) THEN ex_reg2
                             ELSE IF writes(i) /\ ~is_load(i) THEN result(i, id2ex.pc, ex_reg1)
                             ELSE 0 ]
    BY <1>2, <2>2, <2>3, <2>7 DEF EX2MEMStep
  <2>9. is_store(i) => ex2mem'.data = Visible'[r2]
    BY <2>6, <2>8
  <2>10. writes(i) /\ ~is_load(i) /\ ~is_link(i) => ex2mem'.data = (Visible'[r1] + i.imm) % Words
    <3>1. writes(i) => ~is_store(i)
      BY DEF writes, is_store
    <3> QED
      BY <2>6, <2>8, <3>1 DEF result
  <2> QED
    BY <2>4, <2>8, <2>9, <2>10 DEF DataRight
<1> QED
  BY <1>1, <1>2

\* No stall comes in the way of a jump.
LEMMA LatchesStep ==
  ASSUME IInv, AllPlain, SeqInv, NEW CONSTANT answer, Tick(answer)
  PROVE  Latches'
<1>1. PICK a \in Word, b \in Word, c \in Word : Chain(a, b, c)
  BY DEF SeqInv, Chained
<1>2. /\ HardwareTypeOK /\ MemWaits /\ FromProgram /\ Latches /\ JumpsNameZero
      /\ Fetch!Step(ToFetch) /\ BtbPendingStep
  BY DEF IInv, SeqInv, Tick
<1>3. pc_stall(Hazards) \/ mem_stall => ~if_jump_flag /\ ~prev_jump.flag
  <2>1. pc_stall(Hazards) \/ mem_stall => ~is_jump(ID) \/ hazard
    BY <1>1, <1>2, Stalls
  <2> QED
    BY <1>1, <1>2, <2>1, Stalls, OnlyJumps DEF taken, is_jump
<1>4. /\ ToFetch.stall <=> pc_stall(Hazards) \/ mem_stall
      /\ ToFetch.jump_flag = if_jump_flag
  BY DEF ToFetch
<1>5. ~pending_jump'.flag
  <2>1. pending_jump' \in {pending_jump, [pending_jump EXCEPT !.flag = FALSE]}
    BY <1>2, <1>3, <1>4 DEF Fetch!Step, Fetch!LatchJump
  <2>2. pending_jump \in [flag : BOOLEAN, addr : Fetch!Word]
    BY <1>2 DEF HardwareTypeOK, Fetch!TypeOK, Fetch!Redirect
  <2> QED
    BY <1>2, <2>1, <2>2 DEF Latches
<1>6. prev_jump'.flag = if_jump_flag
  BY <1>2, <1>4 DEF Fetch!Step
<1>7. ~btb_pending'.flag
  <2>1. mem_stall => ~btb_mispredict_raw
    <3>1. mem_stall => ~is_jump(ID) /\ ~if2id.btb.flag
      BY <1>1, <1>2, Stalls, Spaced
    <3> QED
      BY <1>3, <3>1 DEF btb_mispredict_raw, btb_wrong_direction, btb_non_branch, btb_wrong_target
  <2>2. btb_pending' = [btb_pending EXCEPT !.flag = @ /\ mem_stall]
    BY <1>2, <2>1 DEF BtbPendingStep
  <2>3. btb_pending \in [flag : BOOLEAN, addr : Fetch!Word]
    BY <1>2 DEF HardwareTypeOK, Fetch!Redirect
  <2> QED
    BY <1>2, <2>2, <2>3 DEF Latches
<1>8. ~if2id'.ras.flag /\ ~if2id'.ibtb.flag
  BY <1>2, ChainWaits, ChainGaps, ChainFlows DEF Latches
<1>9. if_jump_flag => /\ is_jump(id2ex'.inst)
                      /\ ~is_load(ex2mem'.inst) /\ ~is_store(ex2mem'.inst)
  <2> SUFFICES ASSUME if_jump_flag
               PROVE  /\ is_jump(id2ex'.inst)
                      /\ ~is_load(ex2mem'.inst) /\ ~is_store(ex2mem'.inst)
    OBVIOUS
  <2>1. ~mem_stall /\ ~pc_stall(Hazards)
    BY <1>3
  <2>2. is_jump(ID)
    BY <1>2, OnlyJumps DEF taken, is_jump
  <2>3. ex2mem'.inst = id2ex.inst
    BY <1>1, <2>1, ChainMoves
  <2> QED
    BY <2>1, <2>2, <2>3, ChainFlows
<1> QED
  BY <1>5, <1>6, <1>7, <1>8, <1>9 DEF Latches

\* The BTB is trained with jumps.
LEMMA BtbJumpsStep ==
  ASSUME IInv, AllPlain, SeqInv, NEW CONSTANT answer, Tick(answer)
  PROVE  BtbJumps' /\ (if2id.inst = NOP => btb' = btb)
<1>1. PICK a \in Word, b \in Word, c \in Word : Chain(a, b, c)
  BY DEF SeqInv, Chained
<1>2. HardwareTypeOK /\ FromProgram /\ BtbJumps /\ Fetch!Step(ToFetch) /\ prog' = prog
  BY DEF IInv, SeqInv, Tick
<1> DEFINE u == ToFetch.btb_update
<1>3. u.pc = if2id.pc /\ (u.valid => is_jump(ID))
  BY <1>1, <1>2, Spaced DEF ToFetch, btb_non_branch
<1>4. Fetch!BTB!Step(u)
  BY <1>2 DEF Fetch!Step
<1> HIDE DEF u
<1>5. ~is_jump(NOP)
  BY DEF is_jump, NOP, Inst
<1>6. CASE ~u.valid
  BY <1>2, <1>4, <1>6 DEF Fetch!BTB!Step, BtbJumps
<1>7. CASE u.valid
  <2>1. if2id.inst # NOP /\ is_jump(prog[c]) /\ u.pc = c
    BY <1>1, <1>3, <1>5, <1>7 DEF Chain, Fetched, ID
  <2> DEFINE q == Fetch!BTB!tag(c)
             r == Fetch!BTB!index(c)
  <2>2. BtbEntries \in Nat \ {0} /\ c \in Nat
    BY CPUAssumption, WordFacts
  <2>3. q * BtbEntries + r = c
    <3>1. c = BtbEntries * (c \div BtbEntries) + (c % BtbEntries) /\ (c \div BtbEntries) \in Int
      BY <2>2
    <3> QED
      BY <2>2, <3>1 DEF Fetch!BTB!tag, Fetch!BTB!index
  <2>4. btb \in [0 .. BtbEntries - 1 -> Fetch!BTB!Entry] /\ r \in 0 .. BtbEntries - 1
    BY <1>2, BtbPlaces DEF HardwareTypeOK, Fetch!TypeOK, Fetch!BTB!TypeOK
  <2>5. PICK e : /\ btb' = [btb EXCEPT ![r] = e] \/ btb' = btb
                 /\ e.valid => e.tag = q \/ (btb[r].valid /\ e.tag = btb[r].tag)
    <3>1. CASE u.taken
      BY <1>4, <1>7, <2>1, <3>1 DEF Fetch!BTB!Step, Fetch!BTB!TakenEntry
    <3>2. CASE ~u.taken
      <4>1. btb' = [btb EXCEPT ![r] = Fetch!BTB!NotTakenEntry(u)] \/ btb' = btb
        BY <1>4, <1>7, <2>1, <3>2 DEF Fetch!BTB!Step
      <4>2. btb[r] \in Fetch!BTB!Entry
        BY <2>4
      <4>3. /\ Fetch!BTB!NotTakenEntry(u).tag = btb[r].tag
            /\ Fetch!BTB!NotTakenEntry(u).valid => btb[r].valid
        BY <2>1, <4>2 DEF Fetch!BTB!NotTakenEntry, Fetch!BTB!Entry
      <4> QED
        BY <4>1, <4>3
    <3> QED
      BY <3>1, <3>2
  <2> HIDE DEF q, r
  <2>6. BtbJumps'
    BY <1>2, <2>1, <2>3, <2>4, <2>5 DEF BtbJumps
  <2> QED
    BY <2>1, <2>6
<1> QED
  BY <1>6, <1>7

\* Until the program is there, nothing is fetched and nothing trained.
LEMMA LoadingStep ==
  ASSUME IInv, AllPlain, SeqInv, NEW CONSTANT answer, Tick(answer)
  PROVE  Loading'
<1> SUFFICES ASSUME ~load_finished'
             PROVE  if2id'.inst = NOP /\ \A i \in DOMAIN btb' : ~btb'[i].valid
  BY DEF Loading
<1>1. ~load_finished
  <2>1. load_finished' \in {load_finished, TRUE}
    BY DEF Tick
  <2>2. load_finished \in BOOLEAN
    BY DEF IInv, HardwareTypeOK
  <2> QED
    BY <2>1, <2>2
<1>2. if2id.inst = NOP /\ \A i \in DOMAIN btb : ~btb[i].valid
  BY <1>1 DEF SeqInv, Loading
<1>3. if2id'.inst = NOP
  BY <1>1, <1>2 DEF Tick, IF2IDStep, FlushedIF2ID
<1> QED
  BY <1>2, <1>3, BtbJumpsStep

\* No jump comes to name a register.
LEMMA JumpsNameZeroStep ==
  ASSUME IInv, AllPlain, SeqInv, NEW CONSTANT answer, Tick(answer)
  PROVE  JumpsNameZero'
<1>1. id2ex'.inst \in {id2ex.inst, Bubble, ID}
  BY DEF Tick, ID2EXStep, FlushedID2EX
<1>2. ex2mem'.inst \in {ex2mem.inst, id2ex.inst}
  BY DEF Tick, EX2MEMStep
<1>3. mem2wb'.inst \in {mem2wb.inst, ex2mem.inst}
  BY DEF Tick, MEM2WBStep
<1>4. ~is_jump(Bubble)
  BY DEF is_jump, Bubble, Inst
<1>5. is_jump(ID) => ID.rd = 0
  BY OnlyJumps DEF IInv
<1> QED
  BY <1>1, <1>2, <1>3, <1>4, <1>5 DEF JumpsNameZero, SeqInv

\* No interrupt falls due.
LEMMA HistoryHolds ==
  ASSUME IInv, AllPlain, SeqInv, NEW CONSTANT answer, Tick(answer)
  PROVE  History' /\ SequentialStep
<1>1. /\ at' \in Word /\ csr_at' \in [Registers -> Word] /\ due' = << >>
      /\ SequentialStep
  <2>1. PICK a \in Word, b \in Word, c \in Word : Chain(a, b, c)
    BY DEF SeqInv, Chained
  <2>2. CASE mem_stall
    BY <2>2, ChainWaits
  <2>3. CASE ~mem_stall
    BY <2>1, <2>3, ChainMoves
  <2> QED
    BY <2>2, <2>3
<1>2. marks' = [ id |-> << >>, ex |-> << >>, mem |-> << >> ]
  <2>1. ~interrupts(ToClint)
    BY OnlyJumps DEF IInv
  <2>2. marks = [ id |-> << >>, ex |-> << >>, mem |-> << >> ]
    BY DEF SeqInv, History
  <2> QED
    BY <2>1, <2>2 DEF Tick, MarkStep
<1> QED
  BY <1>1, <1>2 DEF History

\* The invariant from step to step.
LEMMA StepSeqInv ==
  ASSUME IInv, AllPlain, SeqInv, NEW CONSTANT answer, Tick(answer)
  PROVE  SeqInv'
<1>1. Chained'
  BY ChainWaits, ChainGaps, ChainFlows
<1> QED
  BY <1>1, DataRightStep, LatchesStep, BtbJumpsStep, LoadingStep, JumpsNameZeroStep, HistoryHolds
     DEF SeqInv

\* And where nothing happens.
LEMMA StillSeqInv == ASSUME IInv, SeqInv, UNCHANGED vars PROVE SeqInv' /\ SequentialStep
<1> USE DEF vars, fetch_vars
<1>1. PICK a \in Word, b \in Word, c \in Word : Chain(a, b, c)
  BY DEF SeqInv, Chained
<1>2. Visible' = Visible
  BY DEF Visible, Read
<1>3. Behind' = Behind
  BY <1>2 DEF Behind, AfterMEM
<1>4. PICK x \in Word, V \in [Regs -> Word], M \in Word, k \in [Registers -> Word] :
        x = at /\ V = Visible /\ M = mem /\ k = csr_at
  BY VisibleTypes DEF IInv, SeqInv, History
<1>5. Reaches(x, a, V, M, k)
  BY <1>1, <1>4 DEF Chain
<1>6. Reaches(at, a, Visible, mem, csr_at)'
  BY <1>2, <1>4, <1>5, ReachedBy
<1>7. Chain(a, b, c)'
  BY <1>1, <1>2, <1>3, <1>6 DEF Chain, Leads, Fetched
<1>8. Chained'
  BY <1>7 DEF Chained
<1>9. /\ DataRight' /\ Latches' /\ BtbJumps' /\ Loading' /\ JumpsNameZero' /\ History'
  BY <1>2 DEF SeqInv, DataRight, Latches, BtbJumps, Loading, JumpsNameZero, History
<1>10. SequentialStep
  BY <1>2 DEF SequentialStep
<1> QED
  BY <1>8, <1>9, <1>10 DEF SeqInv

\* The invariant at the start.
LEMMA InitSeqInv == ASSUME Init, IInv, AllPlain PROVE SeqInv /\ Sequential!Init
<1>1. HardwareTypeOK /\ Plain(prog) /\ TrapsFit
  BY PlainProgram DEF IInv
<1>2. /\ if2id = FlushedIF2ID /\ id2ex = FlushedID2EX
      /\ ex2mem = [ inst |-> Bubble, pc |-> 0, data |-> 0 ]
      /\ mem2wb = [ rd |-> 0, enable |-> FALSE, value |-> 0, inst |-> Bubble ]
      /\ regs = [r \in Regs |-> 0] /\ mem = 0
      /\ at = 0 /\ csr_at = csr_reset /\ due = << >>
      /\ marks = [ id |-> << >>, ex |-> << >>, mem |-> << >> ]
      /\ btb_pending = NoJump /\ pc = 0 /\ ~pending_jump.flag /\ ~prev_jump.flag
      /\ \A i \in DOMAIN btb : ~btb[i].valid
  BY DEF Init, Fetch!Init, Fetch!BTB!Init
<1>3. Bubble = [op |-> "bubble", rd |-> 0, rs1 |-> 0, rs2 |-> 0, imm |-> 0]
  BY DEF Bubble, Inst
<1>4. Idle(Bubble) /\ ~is_jump(Bubble) /\ ~writes(Bubble) /\ ~is_store(Bubble) /\ ~is_load(Bubble)
  BY <1>3 DEF Idle, is_jump, writes, is_store, is_load
<1>5. 0 \in Word /\ csr_at \in [Registers -> Word]
  BY <1>2, WordFacts DEF csr_reset
<1>6. Reaches(at, 0, Visible, mem, csr_at)
  <2>1. PICK x \in Word, V \in [Regs -> Word], M \in Word, c \in [Registers -> Word] :
          x = at /\ V = Visible /\ M = mem /\ c = csr_at
    BY <1>1, <1>2, <1>5, VisibleTypes
  <2>2. Reaches(x, x, V, M, c)
    BY <1>1, ReachesItself
  <2> QED
    BY <1>2, <2>1, <2>2
<1>7. Chain(0, 0, 0)
  BY <1>2, <1>4, <1>6 DEF Chain, Leads, Fetched, FlushedIF2ID, FlushedID2EX, NoJump
<1>8. Chained
  BY <1>5, <1>7 DEF Chained
<1>9. DataRight /\ Latches /\ JumpsNameZero /\ Loading /\ BtbJumps
  BY <1>2, <1>4 DEF DataRight, Latches, JumpsNameZero, Loading, BtbJumps, FlushedIF2ID,
     FlushedID2EX, NoJump
<1>10. History
  BY <1>2, <1>5 DEF History
<1>11. Visible = [r \in Regs |-> 0]
  BY <1>2, InstructionsAssumption DEF Visible, Read
<1>12. Sequential!Init
  BY <1>2, <1>11 DEF Sequential!Init, Sequential!Now, Sequential!Start, csr_reset,
     Sequential!csr_reset, Registers, Sequential!Registers
<1> QED
  BY <1>8, <1>9, <1>10, <1>12 DEF SeqInv

\* The pipeline executes a plain program as if one instruction followed the other, whatever
\* its predictors hold, whatever hazards its instructions meet and however long the bus
\* takes: none is lost, repeated, taken from a path not executed or given a stale operand.
THEOREM SequentialExecution == ASSUME AllPlain PROVE Spec => ExecutesSequentially
<1> DEFINE Inv == IInv /\ SeqInv
<1>1. TrapsFit
  BY DEF AllPlain, Plain, TrapsFit
<1>2. Init => Inv /\ Sequential!Init
  BY InitIInv, InitSeqInv
<1>3. Inv /\ [Next]_vars => Inv' /\ SequentialStep
  <2>1. ASSUME Inv, Next
        PROVE  Inv' /\ SequentialStep
    <3>1. PICK answer \in BOOLEAN : Tick(answer)
      BY <2>1 DEF Next
    <3>2. IInv'
      BY <1>1, <2>1, StepIInv
    <3> QED
      BY <2>1, <3>1, <3>2, StepSeqInv, HistoryHolds
  <2>2. ASSUME Inv, UNCHANGED vars
        PROVE  Inv' /\ SequentialStep
    BY <1>1, <2>2, StepIInv, StillSeqInv
  <2> QED
    BY <2>1, <2>2
<1> HIDE DEF Inv
<1> QED
  BY <1>2, <1>3, PTL DEF Spec, ExecutesSequentially, Sequential!Spec, SequentialStep

-----------------------------------------------------------------------------
(***************************************************************************)
(* The types of the history.                                               *)
(***************************************************************************)
HistoryTypes ==
  /\ at \in Word /\ csr_at \in [Registers -> Word]
  /\ marks \in [ id: Mark, ex: Mark, mem: Mark ] /\ due \in Seq(Word)
  /\ Words % 4 # 0 => due = << >> /\ marks = [ id |-> << >>, ex |-> << >>, mem |-> << >> ]

\* Sequential execution goes from hart to hart.
LEMMA HistoryStepTypes ==
  ASSUME HardwareTypeOK, TrapsFit, HistoryTypes, HistoryStep
  PROVE  /\ at' \in Word /\ csr_at' \in [Registers -> Word] /\ due' \in Seq(Word)
         /\ Words % 4 # 0 => due' = << >>
<1> DEFINE now == [ at |-> at, regs |-> Visible, mem |-> mem, csr |-> csr_at, due |-> due ]
           next == IF <<Visible', mem'>> # <<Visible, mem>> THEN Sequential!Advance(now)
                   ELSE now
           more == IF mem_stall THEN << >> ELSE marks.mem
<1>1. now \in Harts
  BY VisibleTypes, HartIs DEF HistoryTypes
<1>2. PICK h : h = now
  OBVIOUS
<1>3. Sequential!Advance(h) \in Harts
  BY <1>1, <1>2, AdvanceType
<1>4. next \in Harts
  BY <1>1, <1>2, <1>3
<1>5. more \in Seq(Word) /\ (Words % 4 # 0 => more = << >>)
  <2>1. marks.mem \in Mark
    BY DEF HistoryTypes
  <2>2. << >> \in Seq(Word) /\ \A a \in Word : <<a>> \in Seq(Word)
    OBVIOUS
  <2>3. marks.mem \in Seq(Word)
    BY <2>1, <2>2 DEF Mark
  <2> QED
    BY <2>2, <2>3 DEF HistoryTypes
<1>6. at' = next.at /\ csr_at' = next.csr /\ due' = next.due \o more
  BY DEF HistoryStep
<1> HIDE DEF now, next, more
<1>7. PICK k : k = next /\ k \in Harts
  BY <1>4
<1>8. /\ k.at \in Word /\ k.csr \in [Registers -> Word] /\ k.due \in Seq(Word)
      /\ Words % 4 # 0 => k.due = << >>
  BY <1>7, HartIs
<1>9. due' \in Seq(Word) /\ (Words % 4 # 0 => due' = << >>)
  BY <1>5, <1>6, <1>7, <1>8
<1> QED
  BY <1>6, <1>7, <1>8, <1>9

\* A mark is an address, and there is one only where interrupts can be.
LEMMA MarkStepTypes ==
  ASSUME HardwareTypeOK, FromProgram, TrapsFit, HistoryTypes, MarkStep
  PROVE  /\ marks' \in [ id: Mark, ex: Mark, mem: Mark ]
         /\ Words % 4 # 0 => marks' = [ id |-> << >>, ex |-> << >>, mem |-> << >> ]
<1> DEFINE id == IF interrupts(ToClint) THEN <<instruction_address(ToClint)>> ELSE marks.id
           stays == pc_stall(Hazards) \/ mem_stall
           x == IF stays THEN id ELSE << >>
           y == IF mem_stall THEN marks.ex ELSE IF stays THEN << >> ELSE id
           z == IF mem_stall THEN marks.mem ELSE marks.ex
<1>1. marks' = [ id |-> x, ex |-> y, mem |-> z ]
  BY DEF MarkStep
<1>2. marks.id \in Mark /\ marks.ex \in Mark /\ marks.mem \in Mark
  BY DEF HistoryTypes
<1>3. id \in Mark
  <2>1. <<instruction_address(ToClint)>> \in Mark
    BY ClintTypes DEF Mark
  <2> QED
    BY <1>2, <2>1
<1>4. << >> \in Mark
  BY DEF Mark
<1>5. Words % 4 # 0 => id = << >> /\ marks.ex = << >> /\ marks.mem = << >>
  BY NoTraps DEF HistoryTypes
<1> HIDE DEF id, stays
<1>6. x \in Mark /\ y \in Mark /\ z \in Mark
  BY <1>2, <1>3, <1>4
<1>7. Words % 4 # 0 => x = << >> /\ y = << >> /\ z = << >>
  BY <1>5
<1> HIDE DEF x, y, z
<1> QED
  BY <1>1, <1>6, <1>7

\* The history as well as the hardware keeps its types.
THEOREM TypeCorrect == ASSUME TrapsFit PROVE Spec => []TypeOK
<1> DEFINE Inv == IInv /\ HistoryTypes
<1>1. Init => Inv
  <2>1. Init => HistoryTypes
    BY WordFacts DEF Init, HistoryTypes, csr_reset, Mark
  <2> QED
    BY <2>1, InitIInv
<1>2. Inv /\ [Next]_vars => Inv'
  <2>1. ASSUME Inv, Next
        PROVE  HistoryTypes'
    <3>1. PICK answer \in BOOLEAN : Tick(answer)
      BY <2>1 DEF Next
    <3>2. HistoryStep /\ MarkStep /\ HardwareTypeOK /\ FromProgram
      BY <2>1, <3>1 DEF Tick, IInv
    <3> QED
      BY <2>1, <3>2, HistoryStepTypes, MarkStepTypes DEF HistoryTypes
  <2>2. ASSUME Inv, UNCHANGED vars
        PROVE  HistoryTypes'
    BY <2>2 DEF vars, HistoryTypes
  <2>3. Inv /\ [Next]_vars => IInv'
    BY StepIInv
  <2> QED
    BY <2>1, <2>2, <2>3
<1>3. Inv => TypeOK
  BY DEF IInv, HistoryTypes, TypeOK
<1> HIDE DEF Inv
<1> QED
  BY <1>1, <1>2, <1>3, PTL DEF Spec
=============================================================================
