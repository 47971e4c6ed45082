----------------------------- MODULE Forwarding -----------------------------
(***************************************************************************)
(* The forwarding unit (riscv/core/Forwarding.scala).  mem and wb name the *)
(* destination and the write enable of the instructions in MEM and WB; ID  *)
(* and EX use the same priority.                                           *)
(***************************************************************************)
EXTENDS Naturals

FromMEM(rs, mem) == mem.enable /\ rs = mem.rd /\ mem.rd # 0
FromWB(rs, wb)   == wb.enable /\ rs = wb.rd /\ wb.rd # 0

\* Variant: the older result first.
ForwardOldestFirst(rs, mem, wb) ==
  IF FromWB(rs, wb) THEN "WB" ELSE IF FromMEM(rs, mem) THEN "MEM" ELSE "None"

\* Where the newest value of register rs is: the result in MEM is younger.
Forward(rs, mem, wb) ==
  IF FromMEM(rs, mem) THEN "MEM" ELSE IF FromWB(rs, wb) THEN "WB" ELSE "None"
=============================================================================
