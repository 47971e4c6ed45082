------------------------------ MODULE LoadStore ------------------------------
(***************************************************************************)
(* What the bus promises the pipeline: a load or a store takes effect at   *)
(* its device exactly once, between the moment the MEM stage stalls for it *)
(* and the moment it retires, a load retires with the word its device held *)
(* when it took effect, and no device changes for any other reason.        *)
(***************************************************************************)
CONSTANTS
  Instr,      \* instructions: [kind, addr, data, rd]
  Mapped,     \* the addresses behind which a device sits
  ErrorData,  \* the word read where there is none
  NoResult

VARIABLES
  op,      \* the instruction in the MEM stage
  phase,   \* "ready": not started, "pending": started, "performed": took effect
  dev,     \* dev[a]: the word device address a holds
  result,  \* the word a performed load has read
  wb       \* the write-back of the last retired instruction

vars == <<op, phase, dev, result, wb>>

Uses(o) == o.kind \in {"load", "store"}

Start ==
  /\ phase = "ready"
  /\ Uses(op)
  /\ phase' = "pending"
  /\ UNCHANGED <<op, dev, result, wb>>

Perform ==
  /\ phase = "pending"
  /\ phase' = "performed"
  /\ result' = IF op.kind = "store" THEN NoResult
               ELSE IF op.addr \in Mapped THEN dev[op.addr] ELSE ErrorData
  /\ dev' = IF op.kind = "store" /\ op.addr \in Mapped
            THEN [dev EXCEPT ![op.addr] = op.data] ELSE dev
  /\ UNCHANGED <<op, wb>>

Retire(next) ==
  /\ IF Uses(op) THEN phase = "performed" ELSE phase = "ready"
  /\ phase' = "ready"
  /\ op' = next
  /\ wb' = [ rd |-> op.rd, enable |-> op.kind \in {"alu", "load"},
             value |-> IF op.kind = "load" THEN result ELSE op.data ]
  /\ result' = NoResult
  /\ UNCHANGED dev

Init ==
  /\ op \in {o \in Instr : o.kind = "bubble"}
  /\ phase = "ready"
  /\ result = NoResult
  /\ wb.enable = FALSE

Next == Start \/ Perform \/ \E o \in Instr : Retire(o)

Spec == Init /\ [][Next]_vars
=============================================================================
