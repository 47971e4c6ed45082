------------------------------ MODULE BusFabric ------------------------------
(***************************************************************************)
(* The load/store path of the SoC, from the EX2MEM register to the         *)
(* peripherals: the MEM stage, the bus-address latch of the CPU wrapper,   *)
(* the AXI4-Lite master, the switch, one slave adapter per peripheral and  *)
(* the DummySlave, wired as board/verilator/Top.scala wires them.  One     *)
(* Tick is one rising edge of the single clock: every register takes its   *)
(* next value from the registers and wires of the same cycle.              *)
(***************************************************************************)
EXTENDS Naturals, FiniteSets

CONSTANTS
  Ports,     \* ports of the bus switch (8 on the board)
  Periph,    \* ports with a peripheral: memory, VGA, UART
  DummyPort, \* the port whose request wires reach the DummySlave
  Slow,      \* peripherals that may delay read_valid
  NoPort,
  Addr, Addr0, PortOf,
  Data, Data0, ErrorData,
  Reg, Reg0,
  NoResult

ASSUME FabricAssumption ==
  /\ Periph \subseteq Ports
  /\ Slow \subseteq Periph
  /\ DummyPort \in Ports \ Periph
  /\ NoPort \notin Ports
  /\ Addr0 \in Addr
  /\ PortOf \in [Addr -> Ports]
  /\ {Data0, ErrorData} \subseteq Data
  /\ Reg0 \in Reg
  /\ NoResult \notin Data

VARIABLES
  op,               \* the instruction in EX2MEM
  mem_access_state, latched,
  mem2wb,           \* what MEM2WB captured from the last instruction
  bus_address,      \* bus_address_reg of the CPU wrapper
  m,                \* the bus master
  read_sel, write_sel,
  slave, dummy,
  dev,              \* dev[a]: the word at address a of a peripheral
  effects           \* history: times the access in MEM took effect (0, 1, 2 = more)

vars == <<op, mem_access_state, latched, mem2wb, bus_address, m,
          read_sel, write_sel, slave, dummy, dev, effects>>

Mem    == INSTANCE MemoryAccess
Master == INSTANCE AXI4LiteMaster
Switch == INSTANCE BusSwitch
Slave  == INSTANCE AXI4LiteSlave
Dummy  == INSTANCE DummySlave

DevAddr == {a \in Addr : PortOf[a] \in Periph}

Instr ==
  [ kind: {"bubble"}, addr: {Addr0}, data: {Data0}, rd: {Reg0} ]
    \cup [ kind: {"alu"}, addr: {Addr0}, data: Data, rd: Reg ]
    \cup [ kind: {"load"}, addr: Addr, data: {Data0}, rd: Reg ]
    \cup [ kind: {"store"}, addr: Addr, data: Data, rd: {Reg0} ]

Bubble == [ kind |-> "bubble", addr |-> Addr0, data |-> Data0, rd |-> Reg0 ]

WriteBack == [ rd: Reg, enable: BOOLEAN, value: Data ]

TypeOK ==
  /\ op \in Instr
  /\ Mem!TypeOK
  /\ mem2wb \in WriteBack
  /\ bus_address \in Addr
  /\ Master!TypeOK
  /\ Switch!TypeOK
  /\ Slave!TypeOK
  /\ Dummy!TypeOK
  /\ dev \in [DevAddr -> Data]
  /\ effects \in 0..2

Init ==
  /\ op = Bubble
  /\ Mem!Init
  /\ mem2wb = [ rd |-> Reg0, enable |-> FALSE, value |-> Data0 ]
  /\ bus_address = Addr0
  /\ Master!Init
  /\ Switch!Init
  /\ Slave!Init
  /\ Dummy!Init
  /\ dev \in [DevAddr -> Data]
  /\ effects = 0

-----------------------------------------------------------------------------
(***************************************************************************)
(* Wires.                                                                  *)
(***************************************************************************)
\* The master as the MEM stage sees it: granted is the complement of busy.
ToMem == [ granted |-> ~Master!busy, read_valid |-> m.read_valid,
           read_data |-> m.read_data, write_valid |-> m.write_valid ]

mem_stall == Mem!ctrl_stall_flag(op, ToMem)

(***************************************************************************)
(* The ports that have no peripheral all carry the responses of the one    *)
(* DummySlave, but only the request wires of DummyPort drive its inputs:   *)
(* of the connections made by the loop in Top the last one wins.           *)
(***************************************************************************)
FromPort(p) ==
  IF p \in Periph
  THEN [ ARREADY |-> slave[p].ARREADY, RVALID |-> slave[p].RVALID,
         RDATA |-> slave[p].read_data, AWREADY |-> slave[p].AWREADY,
         WREADY |-> slave[p].WREADY, BVALID |-> slave[p].BVALID ]
  ELSE [ ARREADY |-> Dummy!ARREADY, RVALID |-> Dummy!RVALID, RDATA |-> ErrorData,
         AWREADY |-> Dummy!AWREADY, WREADY |-> Dummy!WREADY, BVALID |-> Dummy!BVALID ]

ToMaster == Switch!ToMaster([p \in Ports |-> FromPort(p)], Data0)

ToDummy == Switch!ToPort(DummyPort, m)

\* The ready peripherals answer a read in the cycle it is asked.
read_valid(p, ready) == slave[p].read /\ p \in ready

ToSlave(p, ready) ==
  LET ch == Switch!ToPort(p, m)
      held == IF slave[p].addr \in DevAddr THEN dev[slave[p].addr] ELSE Data0 IN
  [ ARVALID |-> ch.ARVALID, ARADDR |-> ch.ARADDR, RREADY |-> ch.RREADY,
    AWVALID |-> ch.AWVALID, AWADDR |-> ch.AWADDR, WVALID |-> ch.WVALID,
    WDATA |-> ch.WDATA, BREADY |-> ch.BREADY,
    read_valid |-> read_valid(p, ready), read_data |-> held ]

-----------------------------------------------------------------------------
(***************************************************************************)
(* Registers of the CPU side.                                              *)
(***************************************************************************)
\* EX2MEM and MEM2WB hold while mem_stall is up, else take the next inputs.
PipelineStep(next) ==
  IF mem_stall
  THEN UNCHANGED <<op, mem2wb>>
  ELSE /\ op' = next
       /\ mem2wb' = Mem!ToWriteBack(op, ToMem)

\* Variant: only reads set the latch.
BusAddressStepOnReads ==
  LET req == Mem!Request(op)
      start_bus_transaction == ~Master!busy /\ req.read IN
  bus_address' = IF start_bus_transaction THEN req.address ELSE bus_address

\* bus_address_reg follows the request only when a transaction starts.
BusAddressStep ==
  LET req == Mem!Request(op)
      start_bus_transaction == ~Master!busy /\ (req.read \/ req.write) IN
  bus_address' = IF start_bus_transaction THEN req.address ELSE bus_address

(***************************************************************************)
(* The devices: a word is stored in the cycle the write strobe is up.      *)
(***************************************************************************)
Written(p) == slave[p].write
DeviceStep ==
  dev' = [a \in DevAddr |->
            IF Written(PortOf[a]) /\ slave[PortOf[a]].addr = a
            THEN slave[PortOf[a]].write_data ELSE dev[a]]

\* History: effects counts, since the instruction came to MEM, the strobes
\* that reached a device and the responses taken from the DummySlave.
EffectNow(ready) ==
  \/ \E p \in Periph : Written(p) \/ read_valid(p, ready)
  \/ Dummy!ReadTaken(ToDummy) \/ Dummy!ResponseTaken(ToDummy)

HistoryStep(ready) ==
  effects' = IF ~mem_stall THEN 0
             ELSE IF EffectNow(ready) /\ effects < 2 THEN effects + 1 ELSE effects

-----------------------------------------------------------------------------
\* One rising clock edge: next is the instruction EX hands over, ready the
\* peripherals that answer a read in this cycle.
Tick(next, ready) ==
  /\ Mem!Step(op, ToMem)
  /\ PipelineStep(next)
  /\ BusAddressStep
  /\ Master!Step(Mem!Request(op), ToMaster)
  /\ Switch!Step(m, ToMaster)
  /\ Slave!Step([p \in Periph |-> ToSlave(p, ready)])
  /\ Dummy!Step(ToDummy)
  /\ DeviceStep
  /\ HistoryStep(ready)

Next ==
  \E next \in Instr, late \in SUBSET Slow : Tick(next, Periph \ late)

(***************************************************************************)
(* The clock never stops, and a peripheral that delays a read answers it   *)
(* in the end.                                                             *)
(***************************************************************************)
PromptTick == \E next \in Instr : Tick(next, Periph)

Fairness == WF_vars(PromptTick)

Spec     == Init /\ [][Next]_vars
FairSpec == Spec /\ Fairness

-----------------------------------------------------------------------------
(***************************************************************************)
(* Properties.                                                             *)
(***************************************************************************)
Asleep(s) ==
  /\ s.state = "Idle"
  /\ ~s.ARREADY /\ ~s.read /\ ~s.RVALID
  /\ ~s.AWREADY /\ ~s.WREADY /\ ~s.write /\ ~s.BVALID

\* While a transaction runs, the address the switch decodes, the address the
\* master sends and the address of the stalled instruction are one: the
\* "address stability requirement" of BusSwitch, which the latch in CPU.scala
\* is there for.
RouteMatchesAddress ==
  Master!busy => bus_address = m.addr /\ m.addr = op.addr

\* Only the peripheral the current transaction is addressed to ever leaves
\* its rest state: no access to one device strobes, or leaves a half-open
\* handshake in, the adapter of another.
OnlyTargetWakes ==
  \A p \in Periph : ~Asleep(slave[p]) => Master!busy /\ p = PortOf[m.addr]

\* The stall FSM of the MEM stage and the FSM of the master never lose each
\* other: MEM waits for a read (write) exactly while the master performs one
\* or reports its completion.  Were it otherwise the pipeline would wait for
\* a pulse that has passed, or move on under a running transaction.
StallFollowsTransaction ==
  /\ mem_access_state = "Read"  <=> (m.state = "ReadData" \/ m.read_valid)
  /\ mem_access_state = "Write" <=> (m.state \in {"WriteData", "WriteResp"}
                                      \/ m.write_valid)
  /\ m.read_valid \/ m.write_valid => ~Master!busy

\* By the time completion is reported the access took effect at its target,
\* and it never takes effect twice: no register with a side effect on reads
\* (UART RX_DATA) is popped twice by one load.
ExactlyOnce ==
  /\ effects <= 1
  /\ m.read_valid \/ m.write_valid => effects = 1

\* A load completes with the word its own device holds, a word of an
\* unmapped region with the fixed pattern: RDATA is never taken from
\* another port or from an earlier transaction.
LoadReturnsDeviceWord ==
  m.read_valid =>
    m.read_data = IF op.addr \in DevAddr THEN dev[op.addr] ELSE ErrorData

\* The AXI rule on all five channels: once VALID is up it stays up, with its
\* payload, until the edge on which READY is up too.
HandshakeStep ==
  /\ m.ARVALID /\ ~ToMaster.ARREADY => m'.ARVALID /\ m'.addr = m.addr
  /\ m.AWVALID /\ ~ToMaster.AWREADY => m'.AWVALID /\ m'.addr = m.addr
  /\ m.WVALID /\ ~ToMaster.WREADY => m'.WVALID /\ m'.write_data = m.write_data
  /\ \A p \in Periph :
       LET ch == Switch!ToPort(p, m) IN
       /\ slave[p].RVALID /\ ~ch.RREADY =>
            slave'[p].RVALID /\ slave'[p].read_data = slave[p].read_data
       /\ slave[p].BVALID /\ ~ch.BREADY => slave'[p].BVALID
HandshakeStable == [][HandshakeStep]_vars

(***************************************************************************)
(* The fabric implements LoadStore.  An access has taken effect when the   *)
(* history says so; its result is in the adapter of its port until the     *)
(* master has taken it.                                                    *)
(***************************************************************************)
AbstractPhase ==
  IF mem_access_state = "Idle" THEN "ready"
  ELSE CASE effects = 0 -> "pending"
         [] effects = 1 -> "performed"
         [] effects = 2 -> "performed twice"

AbstractResult ==
  IF AbstractPhase # "performed" \/ op.kind # "load" THEN NoResult
  ELSE IF m.read_valid \/ PortOf[op.addr] \notin Periph THEN m.read_data
  ELSE slave[PortOf[op.addr]].read_data

Abstract ==
  INSTANCE LoadStore WITH phase <- AbstractPhase, result <- AbstractResult,
                          wb <- mem2wb, Mapped <- DevAddr

\* Every load and store is atomic: the clocked fabric is a refinement of the
\* one-effect-per-access specification.
LoadStoreIsAtomic == Abstract!Spec

\* An access to a peripheral, or to the region whose wires reach the
\* DummySlave, always completes and releases the pipeline.
Reachable == {a \in Addr : PortOf[a] \in Periph \cup {DummyPort}}
ReachableAccessCompletes ==
  (mem_stall /\ op.addr \in Reachable) ~> ~mem_stall

\* BusSwitch and DummySlave promise more: an access to any region completes,
\* because the DummySlave answers for the unmapped ones.
EveryAccessCompletes == mem_stall ~> ~mem_stall
=============================================================================
