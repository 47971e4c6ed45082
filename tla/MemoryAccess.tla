---------------------------- MODULE MemoryAccess ----------------------------
(***************************************************************************)
(* The MEM stage of the pipeline (riscv/core/MemoryAccess.scala): it turns *)
(* the load or store held in EX2MEM into one bus transaction, stalls the   *)
(* pipeline until that has completed, and hands the write-back to MEM2WB.  *)
(*                                                                         *)
(* The parameter ins is the instruction in EX2MEM (kind, addr, data, rd),   *)
(* bus the wires from the bus master (granted, read_valid, read_data,      *)
(* write_valid).  read_just_completed is set and cleared by the source     *)
(* but read by nothing, so it has no counterpart.  Byte lanes and sign     *)
(* extension are not modelled; here a word moves as a whole.               *)
(***************************************************************************)
CONSTANTS Addr, Data, Reg, Data0, Reg0

VARIABLES
  mem_access_state,
  latched   \* latched_memory_read_data and the latched_regs_write_* of a load

Kinds == {"bubble", "alu", "load", "store"}
Sources == {"ALU", "Memory"}

TypeOK ==
  /\ mem_access_state \in {"Idle", "Read", "Write"}
  /\ latched \in [ data: Data, source: Sources, rd: Reg, enable: BOOLEAN ]

Init ==
  /\ mem_access_state = "Idle"
  /\ latched = [ data |-> Data0, source |-> "ALU", rd |-> Reg0, enable |-> FALSE ]

memory_read_enable(ins)  == ins.kind = "load"
memory_write_enable(ins) == ins.kind = "store"
regs_write_enable(ins)   == ins.kind \in {"alu", "load"}
regs_write_source(ins)   == IF ins.kind = "load" THEN "Memory" ELSE "ALU"

\* The request wires; read and write are low outside Idle.
Request(ins) ==
  [ read  |-> mem_access_state = "Idle" /\ memory_read_enable(ins),
    write |-> mem_access_state = "Idle" /\ memory_write_enable(ins),
    address |-> ins.addr, write_data |-> ins.data ]

ctrl_stall_flag(ins, bus) ==
  CASE mem_access_state = "Read"  -> ~bus.read_valid
    [] mem_access_state = "Write" -> ~bus.write_valid
    [] mem_access_state = "Idle"  -> memory_read_enable(ins) \/ memory_write_enable(ins)

\* Variant: no bypass of the latch in the cycle the word arrives.
wb_memory_read_data_latched(bus) == latched.data

wb_memory_read_data(bus) ==
  IF mem_access_state = "Read" /\ bus.read_valid THEN bus.read_data ELSE latched.data

(***************************************************************************)
(* What MEM2WB captures.  Only while a read is still waiting do the        *)
(* latched controls stand in for those of EX2MEM.  The value is the one    *)
(* the write-back multiplexer will pick: the loaded word, or the word that *)
(* came from EX with the instruction.                                      *)
(***************************************************************************)
in_active_read(bus) == mem_access_state = "Read" /\ ~bus.read_valid

ToWriteBack(ins, bus) ==
  LET source == IF in_active_read(bus) THEN latched.source ELSE regs_write_source(ins) IN
  [ rd     |-> IF in_active_read(bus) THEN latched.rd ELSE ins.rd,
    enable |-> IF in_active_read(bus) THEN latched.enable ELSE regs_write_enable(ins),
    value  |-> IF source = "Memory" THEN wb_memory_read_data(bus) ELSE ins.data ]

-----------------------------------------------------------------------------
AwaitRead(bus) ==
  /\ mem_access_state = "Read"
  /\ ~bus.read_valid
  /\ UNCHANGED <<mem_access_state, latched>>

FinishRead(bus) ==
  /\ mem_access_state = "Read"
  /\ bus.read_valid
  /\ mem_access_state' = "Idle"
  /\ latched' = [latched EXCEPT !.data = bus.read_data]

AwaitWrite(bus) ==
  /\ mem_access_state = "Write"
  /\ ~bus.write_valid
  /\ UNCHANGED <<mem_access_state, latched>>

FinishWrite(bus) ==
  /\ mem_access_state = "Write"
  /\ bus.write_valid
  /\ mem_access_state' = "Idle"
  /\ UNCHANGED latched

StartRead(ins, bus) ==
  /\ mem_access_state = "Idle"
  /\ memory_read_enable(ins)
  /\ mem_access_state' = IF bus.granted THEN "Read" ELSE "Idle"
  /\ latched' = [latched EXCEPT !.source = regs_write_source(ins), !.rd = ins.rd,
                                !.enable = regs_write_enable(ins)]

StartWrite(ins, bus) ==
  /\ mem_access_state = "Idle"
  /\ ~memory_read_enable(ins) /\ memory_write_enable(ins)
  /\ mem_access_state' = IF bus.granted THEN "Write" ELSE "Idle"
  /\ UNCHANGED latched

Pass(ins) ==
  /\ mem_access_state = "Idle"
  /\ ~memory_read_enable(ins) /\ ~memory_write_enable(ins)
  /\ UNCHANGED <<mem_access_state, latched>>

Step(ins, bus) ==
  \/ AwaitRead(bus)
  \/ FinishRead(bus)
  \/ AwaitWrite(bus)
  \/ FinishWrite(bus)
  \/ StartRead(ins, bus)
  \/ StartWrite(ins, bus)
  \/ Pass(ins)
=============================================================================
