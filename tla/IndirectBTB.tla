----------------------------- MODULE IndirectBTB -----------------------------
(***************************************************************************)
(* The indirect branch target buffer (riscv/core/IndirectBTB.scala): fully *)
(* associative, looked up by pc, trained by pc and a hash of rs1, with an  *)
(* age per entry that approximates LRU.  The XOR fold of a register to 8   *)
(* bits is a hash into 0..Hashes-1.                                        *)
(***************************************************************************)
EXTENDS Naturals, FiniteSets

CONSTANTS Words, IbtbEntries, Hashes

VARIABLE ibtb

Address == 0 .. Words - 1
Index   == 0 .. IbtbEntries - 1
MaxAge  == IbtbEntries - 1

TypeOK ==
  ibtb \in [Index -> [ valid: BOOLEAN, pc: Address, hash: 0 .. Hashes - 1,
                       target: Address, age: 0 .. MaxAge ]]

Init == ibtb = [i \in Index |->
                  [ valid |-> FALSE, pc |-> 0, hash |-> 0, target |-> 0, age |-> 0 ]]

hash(value) == value % Hashes

\* PriorityEncoder: the lowest index of a set.
First(S) == CHOOSE i \in S : \A j \in S : i <= j

hits(pc) == {i \in Index : ibtb[i].valid /\ ibtb[i].pc = pc}
mru(pc)  == {i \in hits(pc) : \A j \in hits(pc) : ibtb[i].age <= ibtb[j].age}

hit(pc) == hits(pc) # {}
predicted_target(pc) == IF hit(pc) THEN ibtb[First(mru(pc))].target ELSE 0

-----------------------------------------------------------------------------
Older(e) == IF e.valid /\ e.age < MaxAge THEN [e EXCEPT !.age = @ + 1] ELSE e

\* A lookup that hits makes its entries the youngest.
Touch(pc) ==
  ibtb' = [i \in Index |-> IF i \in mru(pc) THEN [ibtb[i] EXCEPT !.age = 0]
                           ELSE Older(ibtb[i])]

\* Variant: a free or the oldest entry, even when the pair has one.
target_index_fresh(u) ==
  LET invalid == {i \in Index : ~ibtb[i].valid}
      oldest  == {i \in Index : \A j \in Index : ibtb[j].age <= ibtb[i].age} IN
  First(IF invalid # {} THEN invalid ELSE oldest)

\* The entry an update writes: the same pc and hash, else a free one, else
\* the oldest.
target_index(u) ==
  LET existing == {i \in hits(u.pc) : ibtb[i].hash = u.hash}
      invalid  == {i \in Index : ~ibtb[i].valid}
      oldest   == {i \in Index : \A j \in Index : ibtb[j].age <= ibtb[i].age} IN
  First(IF existing # {} THEN existing ELSE IF invalid # {} THEN invalid ELSE oldest)

Train(u) ==
  LET t == target_index(u) IN
  ibtb' = [i \in Index |->
             IF i = t THEN [ valid |-> TRUE, pc |-> u.pc, hash |-> u.hash,
                             target |-> u.target, age |-> 0 ]
             ELSE Older(ibtb[i])]

Step(pc, u) ==
  \/ u.valid /\ Train(u)
  \/ ~u.valid /\ hit(pc) /\ Touch(pc)
  \/ ~u.valid /\ ~hit(pc) /\ UNCHANGED ibtb

\* NoTwins: a pair of pc and hash has one entry, so that training it anew
\* leaves no older target behind.
NoTwins ==
  \A i, j \in Index :
    (i # j /\ ibtb[i].valid /\ ibtb[j].valid)
      => <<ibtb[i].pc, ibtb[i].hash>> # <<ibtb[j].pc, ibtb[j].hash>>
=============================================================================
