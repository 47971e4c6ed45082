------------------------------- MODULE Control -------------------------------
(***************************************************************************)
(* The hazard unit (riscv/core/Control.scala): which stage stalls and      *)
(* which is flushed, from the instructions in ID, EX, MEM and WB.  c is    *)
(* the record [id, ex, mem, wb] of those instructions.  The control        *)
(* signals are decoded with each instruction and travel with it.           *)
(***************************************************************************)
EXTENDS Instructions

\* Variant: register 0 is not left out.
ReadsZeroToo(c, i) == i.rd \in {rs1_id(c.id), rs2_id(c.id)}

\* ID reads the register that i names as its destination.
reads(c, i) == i.rd # 0 /\ i.rd \in {rs1_id(c.id), rs2_id(c.id)}

\* Variant: a jump waits for a load in EX only.
WaitsForLoadOnly(c) == is_jump(c.id) /\ is_load(c.ex) /\ reads(c, c.ex)

ex_hazard_for_branch(c)  == is_jump(c.id) /\ reads(c, c.ex)
mem_hazard_for_branch(c) == is_jump(c.id) /\ is_load(c.mem) /\ reads(c, c.mem)
is_load_use_hazard(c)    == is_load(c.ex) /\ reads(c, c.ex)
store_load_hazard(c)     == is_store(c.mem) /\ is_load(c.ex)
jal_jalr_hazard(c) ==
  \E i \in {c.ex, c.mem, c.wb} : is_link(i) /\ reads(c, i)

\* pc_stall and if_stall.
pc_stall(c) ==
  \/ ex_hazard_for_branch(c)
  \/ is_load_use_hazard(c)
  \/ mem_hazard_for_branch(c)
  \/ store_load_hazard(c)
  \/ jal_jalr_hazard(c)

branch_hazard(c) == ex_hazard_for_branch(c) \/ mem_hazard_for_branch(c)

id_flush(c) == is_load_use_hazard(c) \/ jal_jalr_hazard(c)

if_flush(c, jump_flag) == ~pc_stall(c) /\ jump_flag
=============================================================================
