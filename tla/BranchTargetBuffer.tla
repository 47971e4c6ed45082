------------------------- MODULE BranchTargetBuffer -------------------------
(***************************************************************************)
(* The branch target buffer (riscv/core/BranchTargetBuffer.scala): a       *)
(* direct-mapped table of taken branches with 2-bit saturating counters.   *)
(* Addresses are word indices 0..Words-1.  A lookup is combinational; the  *)
(* update u = [valid, pc, target, taken] takes effect at the clock edge.   *)
(***************************************************************************)
EXTENDS Naturals

CONSTANTS Words, BtbEntries

VARIABLE btb

Address == 0 .. Words - 1

Entry == [ valid: BOOLEAN, tag: Address, target: Address, counter: 0..3 ]

TypeOK == btb \in [0 .. BtbEntries - 1 -> Entry]

\* Tags and targets are not reset; an entry that is not valid is not read.
Init == btb = [i \in 0 .. BtbEntries - 1 |->
                 [ valid |-> FALSE, tag |-> 0, target |-> 0, counter |-> 2 ]]

index(pc) == pc % BtbEntries
tag(pc)   == pc \div BtbEntries
hit(pc)   == btb[index(pc)].valid /\ btb[index(pc)].tag = tag(pc)

\* Taken only with the counter in one of its two upper states.
predicted_taken(pc) == hit(pc) /\ btb[index(pc)].counter >= 2

Succ(pc) == (pc + 1) % Words

predicted_pc(pc) == IF predicted_taken(pc) THEN btb[index(pc)].target ELSE Succ(pc)

-----------------------------------------------------------------------------
TakenEntry(u) ==
  LET old == btb[index(u.pc)].counter IN
  [ valid |-> TRUE, tag |-> tag(u.pc), target |-> u.target,
    counter |-> IF ~hit(u.pc) THEN 2 ELSE IF old = 3 THEN 3 ELSE old + 1 ]

\* An entry about to reach 0 is invalidated and its counter stays at 1.
NotTakenEntry(u) ==
  LET e == btb[index(u.pc)] IN
  CASE e.counter = 1 -> [e EXCEPT !.valid = FALSE]
    [] e.counter > 1 -> [e EXCEPT !.counter = @ - 1]
    [] OTHER -> e

Step(u) ==
  \/ /\ u.valid /\ u.taken
     /\ btb' = [btb EXCEPT ![index(u.pc)] = TakenEntry(u)]
  \/ /\ u.valid /\ ~u.taken /\ hit(u.pc)
     /\ btb' = [btb EXCEPT ![index(u.pc)] = NotTakenEntry(u)]
  \/ /\ ~u.valid \/ (~u.taken /\ ~hit(u.pc))
     /\ UNCHANGED btb

\* LiveEntries: an entry that is kept can still come to predict taken; none is
\* left in the state strongly-not-taken, where it would only hold its slot.
LiveEntries == \A i \in DOMAIN btb : btb[i].valid => btb[i].counter > 0
=============================================================================
