---------------------------- MODULE PipelinedCPU ----------------------------
(***************************************************************************)
(* The five-stage pipeline (riscv/core/PipelinedCPU.scala) running a small *)
(* program: IF with its predictors, the hazard and forwarding units, ID    *)
(* with early branch resolution, EX, the MEM stage, write-back, the CSRs   *)
(* and the interrupt controller.  One Tick is one rising edge.             *)
(*                                                                         *)
(* The bus behind the MEM stage is what module BusFabric shows it to be:   *)
(* free, busy for one cycle or more, then done for one cycle.              *)
(***************************************************************************)
EXTENDS Control, Forwarding, CLINT, Sequences

CONSTANTS
  BtbEntries, RasDepth, IbtbEntries, Hashes,
  Programs,     \* the programs to run, functions from Word to Instruction
  Interrupts    \* levels of the interrupt line: {FALSE}, as the harness ties it, or BOOLEAN

ASSUME CPUAssumption ==
  /\ {BtbEntries, RasDepth, IbtbEntries, Hashes} \subseteq Nat \ {0}
  /\ Programs \subseteq [Word -> Instruction]
  /\ Interrupts \subseteq BOOLEAN /\ Interrupts # {}

VARIABLES
  prog,         \* the instruction memory, never written
  load_finished, \* instruction_valid: low only until the program is loaded
  pc, pending_jump, prev_jump,
  btb, stack, sp, ibtb,
  if2id,        \* [inst, pc, btb, ras, ibtb]: instruction and predictions
  id2ex,        \* [inst, pc, reg1, reg2, csr]: csr is the register it names, as read
  ex2mem,       \* [inst, pc, data]: data is alu_result, PC+4, a CSR or the word to store
  mem2wb,       \* [rd, enable, value, inst]
  regs,
  btb_pending,  \* [flag, addr]: btb_mispredict_pending and its address
  mem_access_state, latched,
  bus,          \* "free", "busy", "done": the transaction as MEM sees it
  mem,          \* the word in memory
  csr,
  interrupt,    \* the interrupt line in this cycle
  at, csr_at,   \* history: where sequential execution stands, and its CSRs there
  marks, due    \* history: the interrupts taken in the pipeline, [id, ex, mem], and behind it

fetch_vars == <<pc, pending_jump, prev_jump, btb, stack, sp, ibtb>>
vars == <<prog, load_finished, fetch_vars, if2id, id2ex, ex2mem, mem2wb, regs, btb_pending,
          mem_access_state, latched, bus, mem, csr, interrupt, at, csr_at, marks, due>>

Fetch == INSTANCE InstructionFetch
MEM == INSTANCE MemoryAccess WITH Addr <- {0}, Data <- Word, Reg <- Regs,
                                  Data0 <- 0, Reg0 <- 0

NoJump == [ flag |-> FALSE, addr |-> 0 ]

FlushedIF2ID == [ inst |-> NOP, pc |-> 0, btb |-> NoJump, ras |-> NoJump, ibtb |-> NoJump ]
FlushedID2EX == [ inst |-> Bubble, pc |-> 0, reg1 |-> 0, reg2 |-> 0, csr |-> 0 ]

\* An address, or none.
Mark == {<< >>} \cup {<<a>> : a \in Word}

HardwareTypeOK ==
  /\ prog \in Programs
  /\ load_finished \in BOOLEAN
  /\ Fetch!TypeOK
  /\ if2id \in [ inst: Instruction, pc: Word, btb: Fetch!Redirect, ras: Fetch!Redirect,
                 ibtb: Fetch!Redirect ]
  /\ id2ex \in [ inst: Instruction, pc: Word, reg1: Word, reg2: Word, csr: Word ]
  /\ ex2mem \in [ inst: Instruction, pc: Word, data: Word ]
  /\ mem2wb \in [ rd: Regs, enable: BOOLEAN, value: Word, inst: Instruction ]
  /\ regs \in [Regs -> Word]
  /\ btb_pending \in Fetch!Redirect
  /\ MEM!TypeOK
  /\ bus \in {"free", "busy", "done"}
  /\ mem \in Word
  /\ csr \in [Registers -> Word]
  /\ interrupt \in Interrupts

TypeOK ==
  /\ HardwareTypeOK
  /\ at \in Word
  /\ csr_at \in [Registers -> Word]
  /\ marks \in [ id: Mark, ex: Mark, mem: Mark ]
  /\ due \in Seq(Word)

Init ==
  /\ prog \in Programs
  /\ load_finished \in BOOLEAN
  /\ Fetch!Init
  /\ if2id = FlushedIF2ID
  /\ id2ex = FlushedID2EX
  /\ ex2mem = [ inst |-> Bubble, pc |-> 0, data |-> 0 ]
  /\ mem2wb = [ rd |-> 0, enable |-> FALSE, value |-> 0, inst |-> Bubble ]
  /\ regs = [r \in Regs |-> 0]
  /\ btb_pending = NoJump
  /\ MEM!Init
  /\ bus = "free"
  /\ mem = 0
  /\ csr = csr_reset
  /\ interrupt \in Interrupts
  /\ at = 0
  /\ csr_at = csr_reset
  /\ marks = [ id |-> << >>, ex |-> << >>, mem |-> << >> ]
  /\ due = << >>

-----------------------------------------------------------------------------
(***************************************************************************)
(* MEM and WB.                                                             *)
(***************************************************************************)
kind(i) ==
  CASE is_load(i) -> "load" [] is_store(i) -> "store"
    [] writes(i) /\ ~is_load(i) -> "alu" [] OTHER -> "bubble"

MemIns == [ kind |-> kind(ex2mem.inst), addr |-> 0, data |-> ex2mem.data,
            rd |-> ex2mem.inst.rd ]

BusWires == [ granted |-> bus = "free",
              read_valid  |-> bus = "done" /\ mem_access_state = "Read",
              write_valid |-> bus = "done" /\ mem_access_state = "Write",
              read_data |-> mem ]

mem_stall == MEM!ctrl_stall_flag(MemIns, BusWires)

forward_to_ex == MEM!ToWriteBack(MemIns, BusWires).value

\* A register read sees the word WB writes in the same cycle.
Read(rs) ==
  IF rs = 0 THEN 0
  ELSE IF mem2wb.enable /\ mem2wb.rd = rs THEN mem2wb.value ELSE regs[rs]

\* The newest value of rs, given the one a stage already has.
Operand(rs, own) ==
  LET from == Forward(rs, [ rd |-> ex2mem.inst.rd, enable |-> writes(ex2mem.inst) ], mem2wb) IN
  CASE from = "MEM" -> forward_to_ex [] from = "WB" -> mem2wb.value [] OTHER -> own

(***************************************************************************)
(* ID: hazards, operands, branch decision and the checks of predictions.   *)
(***************************************************************************)
ID   == if2id.inst
Hazards == [ id |-> ID, ex |-> id2ex.inst, mem |-> ex2mem.inst, wb |-> mem2wb.inst ]

hazard == branch_hazard(Hazards)
reg1   == Operand(rs1_id(ID), Read(rs1_id(ID)))
reg2   == Operand(rs2_id(ID), Read(rs2_id(ID)))

\* EX takes the newest values once more, then computes; a CSR it writes in that cycle.
ex_reg1 == Operand(rs1_id(id2ex.inst), id2ex.reg1)
ex_reg2 == Operand(rs2_id(id2ex.inst), id2ex.reg2)

csr_write ==
  [ enable |-> is_csr(id2ex.inst), address |-> id2ex.inst.imm,
    data |-> IF id2ex.inst.op = "csrrw" THEN ex_reg1 ELSE id2ex.csr ]

\* The wires of the interrupt controller: it does not wait for stalls and hazards, and a
\* branch counts as a jump whether or not it is taken.
ToClint ==
  [ instruction_id |-> ID, instruction_address_if |-> pc,
    jump_flag |-> is_jump(ID), jump_address |-> target(ID, reg1),
    interrupt_flag |-> interrupt, csr |-> written(csr, csr_write) ]

if_jump_flag == (~hazard /\ taken(ID, reg1, reg2)) \/ interrupt_assert(ToClint)
if_jump_address ==
  IF interrupt_assert(ToClint) THEN interrupt_handler_address(ToClint) ELSE target(ID, reg1)

btb_actually_used == if2id.btb.flag /\ ~if2id.ras.flag /\ ~if2id.ibtb.flag

btb_wrong_direction == if2id.btb.flag /\ is_jump(ID) /\ ~if_jump_flag
btb_non_branch      == if2id.btb.flag /\ ~is_jump(ID)
btb_wrong_target ==
  btb_actually_used /\ if_jump_flag /\ if2id.btb.addr # if_jump_address
btb_correct_prediction ==
  btb_actually_used /\ if_jump_flag /\ if2id.btb.addr = if_jump_address

\* Variant: a branch predicted taken that is not is left uncorrected.
btb_mispredict_of_target == (btb_non_branch \/ btb_wrong_target) /\ ~hazard

btb_mispredict_raw == (btb_wrong_direction \/ btb_non_branch \/ btb_wrong_target) /\ ~hazard
btb_correction_addr_raw == IF btb_wrong_target THEN if_jump_address ELSE Succ(if2id.pc)

correct_pending == btb_pending.flag /\ ~mem_stall
btb_mispredict  == btb_mispredict_raw \/ correct_pending
btb_correction_addr == IF correct_pending THEN btb_pending.addr ELSE btb_correction_addr_raw

is_indirect_jalr == is_jalr(ID) /\ ~is_return(ID)
ras_matches  == if2id.ras.flag /\ is_return(ID) /\ if2id.ras.addr = if_jump_address
ras_wrong_target ==
  if2id.ras.flag /\ is_return(ID) /\ if2id.ras.addr # if_jump_address /\ ~hazard
ibtb_matches == if2id.ibtb.flag /\ is_indirect_jalr /\ if2id.ibtb.addr = if_jump_address
ibtb_wrong_target ==
  if2id.ibtb.flag /\ is_indirect_jalr /\ if2id.ibtb.addr # if_jump_address /\ ~hazard

prediction_correct == btb_correct_prediction \/ ras_matches \/ ibtb_matches

need_if_flush ==
  \/ if_flush(Hazards, if_jump_flag) /\ ~prediction_correct
  \/ btb_mispredict \/ ras_wrong_target \/ ibtb_wrong_target

(***************************************************************************)
(* The wires to IF.                                                        *)
(***************************************************************************)
resolves == ~hazard /\ ~mem_stall

ToFetch ==
  [ inst |-> prog[pc], instruction_valid |-> load_finished,
    stall |-> pc_stall(Hazards) \/ mem_stall,
    jump_flag |-> if_jump_flag, jump_address |-> if_jump_address,
    mispredict |-> btb_mispredict, correction |-> btb_correction_addr,
    correct_prediction |-> btb_correct_prediction,
    btb_update |-> [ valid |-> (is_jump(ID) \/ btb_non_branch) /\ resolves,
                     pc |-> if2id.pc, target |-> if_jump_address,
                     taken |-> if_jump_flag /\ is_jump(ID) ],
    push |-> is_call(ID) /\ resolves, push_addr |-> Succ(if2id.pc),
    ibtb_update |-> [ valid |-> is_indirect_jalr /\ resolves, pc |-> if2id.pc,
                      hash |-> Fetch!IBTB!hash(reg1), target |-> if_jump_address ] ]

-----------------------------------------------------------------------------
(***************************************************************************)
(* The pipeline registers: a flush wins over a stall.                      *)
(***************************************************************************)
IF2IDStep ==
  LET p == Fetch!Predictions(ToFetch) IN
  if2id' = IF need_if_flush /\ ~mem_stall THEN FlushedIF2ID
           ELSE IF pc_stall(Hazards) \/ mem_stall THEN if2id
           ELSE [ inst |-> IF load_finished THEN prog[pc] ELSE NOP, pc |-> pc,
                  btb |-> p.btb, ras |-> p.ras, ibtb |-> p.ibtb ]

ID2EXStep ==
  id2ex' = IF id_flush(Hazards) /\ (~mem_stall \/ jal_jalr_hazard(Hazards)) THEN FlushedID2EX
           ELSE IF mem_stall THEN id2ex
           ELSE [ inst |-> ID, pc |-> if2id.pc, reg1 |-> reg1, reg2 |-> reg2,
                  csr |-> IF is_csr(ID) THEN read_data(csr, ID.imm) ELSE 0 ]

EX2MEMStep ==
  ex2mem' = IF mem_stall THEN ex2mem
            ELSE [ inst |-> id2ex.inst, pc |-> id2ex.pc,
                   data |-> IF is_store(id2ex.inst) THEN ex_reg2
                            ELSE IF is_csr(id2ex.inst) THEN id2ex.csr
                            ELSE IF writes(id2ex.inst) /\ ~is_load(id2ex.inst)
                            THEN result(id2ex.inst, id2ex.pc, ex_reg1) ELSE 0 ]

MEM2WBStep ==
  LET w == MEM!ToWriteBack(MemIns, BusWires) IN
  mem2wb' = IF mem_stall THEN mem2wb
            ELSE [ rd |-> w.rd, enable |-> w.enable, value |-> w.value,
                   inst |-> ex2mem.inst ]

RegisterFileStep ==
  regs' = IF mem2wb.enable /\ mem2wb.rd # 0
          THEN [regs EXCEPT ![mem2wb.rd] = mem2wb.value] ELSE regs

CSRStep == csr' = direct_write(ToClint)

\* A correction that a memory stall holds back is kept until its release.
BtbPendingStep ==
  btb_pending' = IF mem_stall /\ btb_mispredict_raw
                 THEN [ flag |-> TRUE, addr |-> btb_correction_addr_raw ]
                 ELSE [btb_pending EXCEPT !.flag = @ /\ mem_stall]

(***************************************************************************)
(* The bus and the memory behind it.                                       *)
(***************************************************************************)
BusStep(answer) ==
  \/ /\ bus = "free"
     /\ LET req == MEM!Request(MemIns) IN
        bus' = IF req.read \/ req.write THEN "busy" ELSE "free"
  \/ bus = "busy" /\ bus' = IF answer THEN "done" ELSE "busy"
  \/ bus = "done" /\ bus' = "free"

MemoryStep == mem' = IF BusWires.write_valid THEN ex2mem.data ELSE mem

-----------------------------------------------------------------------------
(***************************************************************************)
(* Sequential execution.  At the edge on which an instruction leaves MEM   *)
(* its effect is in the memory or in MEM2WB; the registers a program sees  *)
(* are the register file with the pending write of MEM2WB.                 *)
(***************************************************************************)
Visible == [r \in Regs |-> Read(r)]

Sequential == INSTANCE Hart WITH regs <- Visible, csr <- csr_at

(***************************************************************************)
(* An interrupt is taken behind the instruction in ID, to resume at the    *)
(* address it saves.  The mark moves with that instruction; when it leaves *)
(* MEM, all that is ahead of the interrupt has been done.                  *)
(***************************************************************************)
MarkStep ==
  LET id == IF interrupts(ToClint) THEN <<instruction_address(ToClint)>> ELSE marks.id
      stays == pc_stall(Hazards) \/ mem_stall IN
  marks' = [ id  |-> IF stays THEN id ELSE << >>,
             ex  |-> IF mem_stall THEN marks.ex ELSE IF stays THEN << >> ELSE id,
             mem |-> IF mem_stall THEN marks.mem ELSE marks.ex ]

HistoryStep ==
  LET now  == [ at |-> at, regs |-> Visible, mem |-> mem, csr |-> csr_at, due |-> due ]
      next == IF <<Visible', mem'>> # <<Visible, mem>> THEN Sequential!Advance(now) ELSE now IN
  /\ at' = next.at /\ csr_at' = next.csr
  /\ due' = next.due \o (IF mem_stall THEN << >> ELSE marks.mem)

Tick(answer) ==
  /\ Fetch!Step(ToFetch)
  /\ IF2IDStep
  /\ ID2EXStep
  /\ EX2MEMStep
  /\ MEM!Step(MemIns, BusWires)
  /\ MEM2WBStep
  /\ RegisterFileStep
  /\ BtbPendingStep
  /\ BusStep(answer)
  /\ MemoryStep
  /\ CSRStep
  /\ interrupt' \in Interrupts
  /\ MarkStep
  /\ HistoryStep
  /\ load_finished' \in {load_finished, TRUE}
  /\ UNCHANGED prog

Next == \E answer \in BOOLEAN : Tick(answer)

Spec == Init /\ [][Next]_vars

-----------------------------------------------------------------------------
\* ExecutesSequentially: the program runs as if one instruction followed the
\* other; none is lost, repeated, taken from a path not executed or given a
\* stale operand, whatever the stalls and whatever the predictors say.
ExecutesSequentially == Sequential!Spec

\* Programs that give the pipeline no occasion to go wrong: they use no link, no CSR and
\* no trap, no store is directly followed by a load, no access to memory by a jump within
\* two instructions, and the bits 11..7 of a jump name no register.
Plain(p) ==
  \A a \in Word :
    /\ p[a].op \in {"addi", "lw", "sw", "beq", "jal"}
    /\ is_jump(p[a]) => p[a].rd = 0
    /\ is_store(p[a]) => ~is_load(p[Succ(a)])
    /\ is_load(p[a]) \/ is_store(p[a])
         => ~is_jump(p[Succ(a)]) /\ ~is_jump(p[Succ(Succ(a))])

\* The value of rs after the instructions in MEM and WB, the load included
\* that MEM has not finished; and after the one in EX as well.
AfterMEM(rs) ==
  IF rs # 0 /\ writes(ex2mem.inst) /\ ex2mem.inst.rd = rs
  THEN IF is_load(ex2mem.inst) THEN mem ELSE ex2mem.data
  ELSE Visible[rs]

\* OperandsAreNewest: an instruction that leaves EX has computed with what the
\* instructions ahead of it leave in its registers, no matter in which cycle,
\* and from which stage, it picked each of them up.
OperandsAreNewest ==
  ~mem_stall =>
    /\ ex_reg1 = AfterMEM(rs1_id(id2ex.inst))
    /\ ex_reg2 = AfterMEM(rs2_id(id2ex.inst))

\* JumpsDecideOnNewest: a jump that decides in ID does so with operands that
\* no instruction in EX is still to write, a load in MEM among the others.
JumpsDecideOnNewest ==
  (is_jump(ID) /\ ~hazard /\ ~mem_stall) =>
    \A rs \in {rs1_id(ID), rs2_id(ID)} :
      /\ rs # 0 => ~(writes(id2ex.inst) /\ id2ex.inst.rd = rs)
      /\ Operand(rs, Read(rs)) = AfterMEM(rs)

\* PredictorsConsistent: no schedule of training by ID and of look-ups by IF
\* leaves a dead entry in the BTB or two entries for one jump in the IndirectBTB.
PredictorsConsistent == Fetch!BTB!LiveEntries /\ Fetch!IBTB!NoTwins

\* A clock that runs and a bus that completes each transaction.
FairSpec == Spec /\ WF_vars(Next) /\ WF_vars(Tick(TRUE))

\* StallsEnd: the hazard unit and the memory stage release the front end again
\* and again; no stall feeds itself.
StallsEnd == []<>~(pc_stall(Hazards) \/ mem_stall)
=============================================================================
