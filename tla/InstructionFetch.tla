-------------------------- MODULE InstructionFetch --------------------------
(***************************************************************************)
(* The IF stage (riscv/core/InstructionFetch.scala): the program counter,  *)
(* the three predictors, and the latch that keeps a jump which a stall     *)
(* holds back.  The parameter f carries the wires of one cycle:            *)
(*   inst, instruction_valid         from the instruction memory,          *)
(*   stall, jump_flag, jump_address, mispredict, correction,               *)
(*   correct_prediction              from the hazard logic and ID,         *)
(*   btb_update, push, push_addr, ibtb_update     training from ID.        *)
(***************************************************************************)
EXTENDS Instructions

CONSTANTS BtbEntries, RasDepth, IbtbEntries, Hashes

VARIABLES
  pc,
  pending_jump, \* [flag, addr]
  prev_jump,    \* [flag, addr]: jump_flag_id and jump_address_id a cycle ago
  btb, stack, sp, ibtb

BTB  == INSTANCE BranchTargetBuffer
RAS  == INSTANCE ReturnAddressStack
IBTB == INSTANCE IndirectBTB

Redirect == [ flag: BOOLEAN, addr: Word ]

TypeOK ==
  /\ pc \in Word
  /\ {pending_jump, prev_jump} \subseteq Redirect
  /\ BTB!TypeOK /\ RAS!TypeOK /\ IBTB!TypeOK

Init ==
  /\ pc = 0
  /\ pending_jump = [ flag |-> FALSE, addr |-> 0 ]
  /\ prev_jump = [ flag |-> FALSE, addr |-> 0 ]
  /\ BTB!Init /\ RAS!Init /\ IBTB!Init

-----------------------------------------------------------------------------
\* The predictions made for the word at pc; IF2ID carries them to ID.
fetching(f) == f.instruction_valid /\ ~f.stall

speculative_ras_pop(f) == is_return(f.inst) /\ fetching(f)

Predictions(f) ==
  [ btb  |-> [ flag |-> BTB!predicted_taken(pc), addr |-> BTB!predicted_pc(pc) ],
    ras  |-> [ flag |-> RAS!valid /\ speculative_ras_pop(f), addr |-> RAS!predicted_addr ],
    ibtb |-> [ flag |-> IBTB!hit(pc) /\ is_jalr(f.inst) /\ ~is_return(f.inst) /\ fetching(f),
               addr |-> IBTB!predicted_target(pc) ] ]

default_next_pc(f) ==
  LET p == Predictions(f) IN
  IF p.ras.flag THEN p.ras.addr ELSE IF p.ibtb.flag THEN p.ibtb.addr ELSE p.btb.addr

take_pending(f)        == pending_jump.flag /\ ~f.stall
take_btb_correction(f) == f.mispredict /\ ~f.stall
take_current(f) ==
  f.jump_flag /\ ~f.stall /\ ~pending_jump.flag /\ ~f.correct_prediction

next_pc(f) ==
  CASE take_pending(f) -> pending_jump.addr
    [] ~take_pending(f) /\ take_btb_correction(f) -> f.correction
    [] ~take_pending(f) /\ ~take_btb_correction(f) /\ take_current(f) -> f.jump_address
    [] OTHER -> IF fetching(f) THEN default_next_pc(f) ELSE pc

\* A stall latches the jump of this cycle, or that of the cycle before; the
\* latch is cleared by the first cycle without a stall.
LatchJump(f) ==
  \/ /\ f.stall /\ f.jump_flag
     /\ pending_jump' = [ flag |-> TRUE, addr |-> f.jump_address ]
  \/ /\ f.stall /\ ~f.jump_flag /\ prev_jump.flag
     /\ pending_jump' = prev_jump
  \/ /\ f.stall /\ ~f.jump_flag /\ ~prev_jump.flag
     /\ UNCHANGED pending_jump
  \/ /\ ~f.stall
     /\ pending_jump' = [pending_jump EXCEPT !.flag = FALSE]

Step(f) ==
  /\ pc' = next_pc(f)
  /\ LatchJump(f)
  /\ prev_jump' = [ flag |-> f.jump_flag, addr |-> f.jump_address ]
  /\ BTB!Step(f.btb_update)
  /\ RAS!Step(f.push, f.push_addr, speculative_ras_pop(f))
  /\ IBTB!Step(pc, f.ibtb_update)
=============================================================================
