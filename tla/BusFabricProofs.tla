--------------------------- MODULE BusFabricProofs ---------------------------
(***************************************************************************)
(* Theorems about the load/store path, for any number of ports,            *)
(* peripherals, addresses, words and registers, and for peripherals that   *)
(* may delay reads at will.                                                *)
(***************************************************************************)
EXTENDS BusFabric, TLAPS

(***************************************************************************)
(* Every component step keeps the type of its registers.                   *)
(***************************************************************************)
\* What MemoryAccess does in a step keeps the type of its registers.
LEMMA MemType ==
  ASSUME TypeOK, Mem!Step(op, ToMem)
  PROVE  Mem!TypeOK'
<1> USE FabricAssumption DEF TypeOK, Mem!TypeOK, Mem!Sources
<1>0. op.rd \in Reg
  BY DEF Instr
<1>1. CASE Mem!AwaitRead(ToMem)
  BY <1>1 DEF Mem!AwaitRead
<1>2. CASE Mem!FinishRead(ToMem)
  BY <1>2 DEF Mem!FinishRead, ToMem, Master!TypeOK, Master!Registers
<1>3. CASE Mem!AwaitWrite(ToMem)
  BY <1>3 DEF Mem!AwaitWrite
<1>4. CASE Mem!FinishWrite(ToMem)
  BY <1>4 DEF Mem!FinishWrite
<1>5. CASE Mem!StartRead(op, ToMem)
  <2>1. Mem!regs_write_enable(op) \in BOOLEAN
    BY DEF Mem!regs_write_enable
  <2>2. Mem!regs_write_source(op) \in Mem!Sources
    BY DEF Mem!regs_write_source
  <2> QED
    BY <1>0, <1>5, <2>1, <2>2 DEF Mem!StartRead
<1>6. CASE Mem!StartWrite(op, ToMem)
  BY <1>6 DEF Mem!StartWrite
<1>7. CASE Mem!Pass(op)
  BY <1>7 DEF Mem!Pass
<1> QED
  BY <1>1, <1>2, <1>3, <1>4, <1>5, <1>6, <1>7 DEF Mem!Step

\* A step of the AXI4-Lite master keeps the type of its registers.
LEMMA MasterType ==
  ASSUME NEW req, req.address \in Addr, req.write_data \in Data,
         NEW ch, ch.ARREADY \in BOOLEAN, ch.RVALID \in BOOLEAN, ch.RDATA \in Data,
         ch.AWREADY \in BOOLEAN, ch.WREADY \in BOOLEAN, ch.BVALID \in BOOLEAN,
         Master!TypeOK, Master!Step(req, ch)
  PROVE  Master!TypeOK'
<1> USE DEF Master!TypeOK, Master!Registers, Master!MasterStates
<1>1. CASE Master!StartRead(req)
  BY <1>1 DEF Master!StartRead
<1>2. CASE Master!StartWrite(req)
  BY <1>2 DEF Master!StartWrite
<1>3. CASE Master!Rest(req)
  BY <1>3 DEF Master!Rest
<1>4. CASE Master!ReadData(ch)
  <2> DEFINE ar == IF ch.ARREADY THEN FALSE ELSE m.ARVALID
  <2>0. ar \in BOOLEAN
    OBVIOUS
  <2>1. CASE ch.RVALID /\ m.RREADY
    <3>1. m' = [m EXCEPT !.ARVALID = ar, !.read_data = ch.RDATA, !.RREADY = FALSE,
                         !.read_valid = TRUE, !.state = "Idle"]
      BY <1>4, <2>1, Zenon DEF Master!ReadData
    <3> HIDE DEF ar
    <3> QED
      BY <2>0, <3>1, ZenonT(40)
  <2>2. CASE ~(ch.RVALID /\ m.RREADY)
    <3>1. m' = [m EXCEPT !.ARVALID = ar, !.read_data = m.read_data,
                         !.RREADY = m.RREADY, !.read_valid = m.read_valid,
                         !.state = m.state]
      BY <1>4, <2>2, Zenon DEF Master!ReadData
    <3> HIDE DEF ar
    <3> QED
      BY <2>0, <3>1
  <2> QED
    BY <2>1, <2>2
<1>5. CASE Master!WriteData(ch)
  <2> DEFINE aw == IF ch.AWREADY THEN FALSE ELSE m.AWVALID
  <2>0. aw \in BOOLEAN
    OBVIOUS
  <2>1. CASE m.WVALID /\ ch.WREADY
    <3>1. m' = [m EXCEPT !.AWVALID = aw, !.WVALID = FALSE, !.BREADY = TRUE,
                         !.write_data_accepted = TRUE, !.state = "WriteResp"]
      BY <1>5, <2>1, Zenon DEF Master!WriteData
    <3> HIDE DEF aw
    <3> QED
      BY <2>0, <3>1, ZenonT(40)
  <2>2. CASE ~(m.WVALID /\ ch.WREADY)
    <3>1. m' = [m EXCEPT !.AWVALID = aw, !.WVALID = m.WVALID, !.BREADY = m.BREADY,
                         !.write_data_accepted = m.write_data_accepted,
                         !.state = m.state]
      BY <1>5, <2>2, Zenon DEF Master!WriteData
    <3> HIDE DEF aw
    <3> QED
      BY <2>0, <3>1, ZenonT(40)
  <2> QED
    BY <2>1, <2>2
<1>6. CASE Master!WriteResp(ch)
  <2> DEFINE aw == IF ch.AWREADY THEN FALSE ELSE m.AWVALID
  <2>0. aw \in BOOLEAN
    OBVIOUS
  <2>1. CASE ch.BVALID /\ m.BREADY
    <3>1. m' = [m EXCEPT !.AWVALID = aw, !.BREADY = FALSE, !.write_valid = TRUE,
                         !.state = "Idle"]
      BY <1>6, <2>1, Zenon DEF Master!WriteResp
    <3> HIDE DEF aw
    <3> QED
      BY <2>0, <3>1, ZenonT(40)
  <2>2. CASE ~(ch.BVALID /\ m.BREADY)
    <3>1. m' = [m EXCEPT !.AWVALID = aw, !.BREADY = m.BREADY,
                         !.write_valid = m.write_valid, !.state = m.state]
      BY <1>6, <2>2, Zenon DEF Master!WriteResp
    <3> HIDE DEF aw
    <3> QED
      BY <2>0, <3>1
  <2> QED
    BY <2>1, <2>2
<1> QED
  BY <1>1, <1>2, <1>3, <1>4, <1>5, <1>6 DEF Master!Step

\* A clock edge keeps the type of one slave adapter.
LEMMA SlaveClockType ==
  ASSUME NEW s \in Slave!Registers,
         NEW in, in.ARVALID \in BOOLEAN, in.ARADDR \in Addr, in.RREADY \in BOOLEAN,
         in.AWVALID \in BOOLEAN, in.AWADDR \in Addr, in.WVALID \in BOOLEAN,
         in.WDATA \in Data, in.BREADY \in BOOLEAN,
         in.read_valid \in BOOLEAN, in.read_data \in Data
  PROVE  Slave!Clock(s, in) \in Slave!Registers
<1> USE DEF Slave!Registers, Slave!SlaveStates, Slave!Clock
<1>1. CASE s.state = "Idle"
  BY <1>1, ZenonT(40) DEF Slave!Idle
<1>2. CASE s.state = "ReadAddr"
  BY <1>2 DEF Slave!ReadAddr
<1>3. CASE s.state = "ReadData"
  BY <1>3, ZenonT(40) DEF Slave!ReadData
<1>4. CASE s.state = "WriteAddr"
  BY <1>4 DEF Slave!WriteAddr
<1>5. CASE s.state = "WriteData"
  BY <1>5 DEF Slave!WriteData
<1>6. CASE s.state = "WriteResp"
  BY <1>6 DEF Slave!WriteResp
<1> QED
  BY <1>1, <1>2, <1>3, <1>4, <1>5, <1>6

-----------------------------------------------------------------------------
(***************************************************************************)
(* The wires carry what the inputs of the components expect.               *)
(***************************************************************************)
PortWires ==
  [ ARREADY: BOOLEAN, RVALID: BOOLEAN, RDATA: Data,
    AWREADY: BOOLEAN, WREADY: BOOLEAN, BVALID: BOOLEAN ]

\* The response wires of every port have their types.
LEMMA FromPortType ==
  ASSUME TypeOK, NEW p \in Ports
  PROVE  FromPort(p) \in PortWires
<1>1. CASE p \in Periph
  <2>1. slave[p] \in Slave!Registers
    BY <1>1 DEF TypeOK, Slave!TypeOK
  <2> QED
    BY <1>1, <2>1 DEF FromPort, PortWires, Slave!Registers
<1>2. CASE p \notin Periph
  BY <1>2, FabricAssumption
     DEF FromPort, PortWires, TypeOK, Dummy!TypeOK, Dummy!Registers, Dummy!ARREADY,
         Dummy!RVALID, Dummy!AWREADY, Dummy!WREADY, Dummy!BVALID
<1> QED
  BY <1>1, <1>2

\* The decoder always names a port.
LEMMA SelType ==
  ASSUME TypeOK
  PROVE  Switch!sel \in Ports
BY FabricAssumption DEF TypeOK, Switch!sel

\* What the switch returns to the master has its type.
LEMMA ToMasterType ==
  ASSUME TypeOK
  PROVE  ToMaster \in PortWires
<1> DEFINE from == [p \in Ports |-> FromPort(p)]
<1>1. \A p \in Ports : from[p] \in PortWires
  BY FromPortType
<1>2. read_sel \in Ports \cup {NoPort} /\ write_sel \in Ports \cup {NoPort}
  BY DEF TypeOK, Switch!TypeOK, Switch!Selections
<1>3. ToMaster = Switch!ToMaster(from, Data0)
  BY DEF ToMaster
<1> HIDE DEF from
<1>4. from[Switch!sel] \in PortWires
  BY <1>1, SelType
<1>5. (read_sel # NoPort => from[read_sel] \in PortWires)
      /\ (write_sel # NoPort => from[write_sel] \in PortWires)
  BY <1>1, <1>2
<1>6. (IF read_sel = NoPort THEN Data0 ELSE from[read_sel].RDATA) \in Data
  BY <1>5, FabricAssumption DEF PortWires
<1>7. (read_sel # NoPort /\ from[read_sel].RVALID) \in BOOLEAN
      /\ (write_sel # NoPort /\ from[write_sel].BVALID) \in BOOLEAN
  OBVIOUS
<1> QED
  BY <1>3, <1>4, <1>6, <1>7 DEF Switch!ToMaster, PortWires

\* The input wires of an adapter have their types.
LEMMA ToSlaveType ==
  ASSUME TypeOK, NEW p \in Periph, NEW ready,
         NEW in, in = ToSlave(p, ready)
  PROVE  /\ in.ARVALID \in BOOLEAN /\ in.ARADDR \in Addr /\ in.RREADY \in BOOLEAN
         /\ in.AWVALID \in BOOLEAN /\ in.AWADDR \in Addr /\ in.WVALID \in BOOLEAN
         /\ in.WDATA \in Data /\ in.BREADY \in BOOLEAN
         /\ in.read_valid \in BOOLEAN /\ in.read_data \in Data
<1>1. m \in Master!Registers
  BY DEF TypeOK, Master!TypeOK
<1>2. (IF slave[p].addr \in DevAddr THEN dev[slave[p].addr] ELSE Data0) \in Data
  BY FabricAssumption DEF TypeOK
<1>3. read_valid(p, ready) \in BOOLEAN
  BY DEF read_valid
<1> QED
  BY <1>1, <1>2, <1>3 DEF ToSlave, Switch!ToPort, Master!Registers

\* A step of all adapters keeps their type.
LEMMA SlaveType ==
  ASSUME TypeOK, NEW ready, Slave!Step([p \in Periph |-> ToSlave(p, ready)])
  PROVE  Slave!TypeOK'
<1>1. ASSUME NEW p \in Periph
      PROVE  Slave!Clock(slave[p], ToSlave(p, ready)) \in Slave!Registers
  <2>1. slave[p] \in Slave!Registers
    BY DEF TypeOK, Slave!TypeOK
  <2> QED
    BY <2>1, ToSlaveType, SlaveClockType
<1> QED
  BY <1>1 DEF Slave!Step, Slave!TypeOK

\* A step of the DummySlave keeps its type.
LEMMA DummyType ==
  ASSUME Dummy!TypeOK, NEW in, Dummy!Step(in)
  PROVE  Dummy!TypeOK'
BY DEF Dummy!TypeOK, Dummy!Registers, Dummy!Step

\* A device only ever takes words.
LEMMA DeviceType ==
  ASSUME TypeOK, DeviceStep
  PROVE  (dev \in [DevAddr -> Data])'
<1>1. ASSUME NEW a \in DevAddr
      PROVE  /\ slave[PortOf[a]].write_data \in Data
             /\ dev[a] \in Data
  BY DEF DevAddr, TypeOK, Slave!TypeOK, Slave!Registers
<1>2. DevAddr' = DevAddr
  BY DEF DevAddr
<1> QED
  BY <1>1, <1>2 DEF DeviceStep

\* MEM2WB captures a well-formed write-back.
LEMMA WriteBackType ==
  ASSUME TypeOK
  PROVE  Mem!ToWriteBack(op, ToMem) \in WriteBack
<1>1. op.rd \in Reg /\ op.data \in Data
  BY FabricAssumption DEF TypeOK, Instr
<1>2. Mem!wb_memory_read_data(ToMem) \in Data
  BY DEF TypeOK, Mem!TypeOK, Master!TypeOK, Master!Registers,
         Mem!wb_memory_read_data, ToMem
<1>3. Mem!regs_write_enable(op) \in BOOLEAN
  BY DEF Mem!regs_write_enable
<1>4. latched.rd \in Reg /\ latched.enable \in BOOLEAN
  BY DEF TypeOK, Mem!TypeOK
<1> QED
  <2> DEFINE src == IF Mem!in_active_read(ToMem) THEN latched.source
                    ELSE Mem!regs_write_source(op)
             enb == IF Mem!in_active_read(ToMem) THEN latched.enable
                    ELSE Mem!regs_write_enable(op)
             rdr == IF Mem!in_active_read(ToMem) THEN latched.rd ELSE op.rd
             val == IF src = "Memory" THEN Mem!wb_memory_read_data(ToMem) ELSE op.data
  <2>1. Mem!ToWriteBack(op, ToMem) = [ rd |-> rdr, enable |-> enb, value |-> val ]
    BY DEF Mem!ToWriteBack
  <2>2. rdr \in Reg /\ enb \in BOOLEAN /\ val \in Data
    BY <1>1, <1>2, <1>3, <1>4, FabricAssumption
  <2> HIDE DEF rdr, enb, val
  <2> QED
    BY <2>1, <2>2 DEF WriteBack

-----------------------------------------------------------------------------
\* The reset state is well typed.
LEMMA InitType ==
  Init => TypeOK
<1> USE FabricAssumption
<1> SUFFICES ASSUME Init PROVE TypeOK
  OBVIOUS
<1>1. op \in Instr /\ mem2wb \in WriteBack /\ bus_address \in Addr /\ effects \in 0..2
  BY DEF Init, Instr, Bubble, WriteBack
<1>2. Mem!TypeOK
  BY DEF Init, Mem!Init, Mem!TypeOK, Mem!Sources
<1>3. Master!TypeOK
  BY DEF Init, Master!Init, Master!TypeOK, Master!Registers, Master!MasterStates
<1>4. Switch!TypeOK
  BY DEF Init, Switch!Init, Switch!TypeOK, Switch!Selections
<1>5. Slave!TypeOK
  BY DEF Init, Slave!Init, Slave!TypeOK, Slave!Registers, Slave!ResetValue,
         Slave!SlaveStates
<1>6. Dummy!TypeOK
  BY DEF Init, Dummy!Init, Dummy!TypeOK, Dummy!Registers
<1> QED
  BY <1>1, <1>2, <1>3, <1>4, <1>5, <1>6 DEF Init, TypeOK

\* A clock edge keeps every register well typed.
LEMMA TickType ==
  ASSUME TypeOK, NEW next \in Instr, NEW ready, Tick(next, ready)
  PROVE  TypeOK'
<1>1. Mem!TypeOK'
  BY MemType DEF Tick
<1>2. (op \in Instr)' /\ (mem2wb \in WriteBack)'
  <2>1. Instr' = Instr /\ WriteBack' = WriteBack
    BY DEF Instr, WriteBack
  <2> QED
    BY <2>1, WriteBackType DEF Tick, PipelineStep, TypeOK
<1>3. Mem!Request(op).address \in Addr /\ Mem!Request(op).write_data \in Data
  BY FabricAssumption DEF TypeOK, Instr, Mem!Request
<1>4. (bus_address \in Addr)'
  BY <1>3 DEF Tick, BusAddressStep, TypeOK
<1>5. Master!TypeOK'
  BY <1>3, ToMasterType, MasterType DEF Tick, TypeOK, PortWires
<1>6. Switch!TypeOK'
  BY SelType DEF Tick, TypeOK, Switch!Step, Switch!TypeOK, Switch!Selections
<1>7. Slave!TypeOK' /\ Dummy!TypeOK' /\ (dev \in [DevAddr -> Data])'
  BY SlaveType, DummyType, DeviceType DEF Tick, TypeOK
<1>8. (effects \in 0..2)'
  BY DEF Tick, HistoryStep, TypeOK
<1> QED
  BY <1>1, <1>2, <1>4, <1>5, <1>6, <1>7, <1>8 DEF TypeOK

\* Every register of the load/store path keeps its type, for every board.
THEOREM TypeCorrect == Spec => []TypeOK
<1>1. Init => TypeOK
  BY InitType
<1>2. TypeOK /\ [Next]_vars => TypeOK'
  <2> SUFFICES ASSUME TypeOK, [Next]_vars PROVE TypeOK'
    OBVIOUS
  <2>1. CASE Next
    BY <2>1, TickType DEF Next
  <2>2. CASE UNCHANGED vars
    BY <2>2 DEF vars, TypeOK, Mem!TypeOK, Master!TypeOK, Switch!TypeOK, Slave!TypeOK,
                Dummy!TypeOK
  <2> QED
    BY <2>1, <2>2
<1> QED
  BY <1>1, <1>2, PTL DEF Spec

-----------------------------------------------------------------------------
(***************************************************************************)
(* The inductive invariant.  It follows one transaction along the fabric:  *)
(* in each state of the master the target is in one of a few phases, and   *)
(* the access has taken effect in exactly the last of them.                *)
(***************************************************************************)
target == PortOf[op.addr]

\* The wires the master drives in each of its states.
MasterWires ==
  /\ m.state = "Idle" =>
       ~m.ARVALID /\ ~m.RREADY /\ ~m.AWVALID /\ ~m.WVALID /\ ~m.BREADY
  /\ m.state = "ReadData" =>
       m.RREADY /\ ~m.AWVALID /\ ~m.WVALID /\ ~m.BREADY /\ ~m.read_valid /\ ~m.write_valid
  /\ m.state = "WriteData" =>
       ~m.ARVALID /\ ~m.RREADY /\ m.WVALID /\ ~m.BREADY /\ ~m.read_valid /\ ~m.write_valid
  /\ m.state = "WriteResp" =>
       ~m.ARVALID /\ ~m.RREADY /\ ~m.AWVALID /\ ~m.WVALID /\ m.BREADY
       /\ ~m.read_valid /\ ~m.write_valid
  /\ ~(m.read_valid /\ m.write_valid)

\* What the MEM stage waits for is the instruction it holds.
StallMatchesOp ==
  /\ mem_access_state = "Read" => op.kind = "load"
  /\ mem_access_state = "Write" => op.kind = "store"
  /\ m.state \in {"WriteData", "WriteResp"} => m.write_data = op.data

\* The latched selections name the target or nothing.
Latches ==
  /\ read_sel = NoPort \/ (m.state = "ReadData" /\ read_sel = target)
  /\ m.state = "ReadData" /\ ~m.ARVALID => read_sel = target
  /\ write_sel = NoPort
     \/ (m.state \in {"WriteData", "WriteResp"} /\ write_sel = target)
  /\ m.state = "WriteResp" => write_sel = target

Awake(s, state) == s.state = state /\ (s.ARREADY <=> state = "ReadAddr")
                   /\ (s.AWREADY <=> state = "WriteAddr") /\ (s.WREADY <=> state = "WriteData")

\* The phases of a read and of a write at the adapter s of a peripheral.
ReadPhase(s) ==
  \/ m.ARVALID /\ Asleep(s) /\ effects = 0
  \/ /\ m.ARVALID /\ Awake(s, "ReadAddr") /\ effects = 0
     /\ ~s.read /\ ~s.RVALID /\ ~s.write /\ ~s.BVALID
  \/ /\ ~m.ARVALID /\ Awake(s, "ReadData") /\ s.addr = op.addr
     /\ ~s.write /\ ~s.BVALID
     /\ \/ s.read /\ ~s.RVALID /\ effects = 0
        \/ ~s.read /\ s.RVALID /\ effects = 1 /\ s.read_data = dev[op.addr]

WriteDataPhase(s) ==
  /\ effects = 0 /\ ~s.read /\ ~s.RVALID /\ ~s.write /\ ~s.BVALID
  /\ \/ m.AWVALID /\ Asleep(s)
     \/ m.AWVALID /\ Awake(s, "WriteAddr")
     \/ ~m.AWVALID /\ Awake(s, "WriteData") /\ s.addr = op.addr

WriteRespPhase(s) ==
  /\ Awake(s, "WriteResp") /\ ~s.read /\ ~s.RVALID
  /\ s.addr = op.addr /\ s.write_data = op.data
  /\ \/ s.write /\ ~s.BVALID /\ effects = 0
     \/ ~s.write /\ s.BVALID /\ effects = 1

\* The phases at the DummySlave; a port none of its wires reach leaves it at
\* rest for ever.
DummyAtRest == ~dummy.read_pending /\ ~dummy.write_pending /\ ~dummy.write_data_ok

DummyPhase ==
  /\ effects = 0
  /\ target # DummyPort => DummyAtRest /\ m.state # "WriteResp"
  /\ target = DummyPort =>
       /\ dummy.read_pending <=> (m.state = "ReadData" /\ ~m.ARVALID)
       /\ dummy.write_pending <=>
            (m.state = "WriteResp" \/ (m.state = "WriteData" /\ ~m.AWVALID))
       /\ dummy.write_data_ok <=> m.state = "WriteResp"

TargetPhase ==
  /\ Master!busy /\ target \in Periph =>
       /\ m.state = "ReadData" => ReadPhase(slave[target])
       /\ m.state = "WriteData" => WriteDataPhase(slave[target])
       /\ m.state = "WriteResp" => WriteRespPhase(slave[target])
  /\ IF Master!busy /\ target \notin Periph THEN DummyPhase ELSE DummyAtRest
  /\ mem_access_state = "Idle" => effects = 0

IInv ==
  /\ TypeOK
  /\ RouteMatchesAddress
  /\ OnlyTargetWakes
  /\ StallFollowsTransaction
  /\ ExactlyOnce
  /\ LoadReturnsDeviceWord
  /\ MasterWires
  /\ StallMatchesOp
  /\ Latches
  /\ TargetPhase

-----------------------------------------------------------------------------
(***************************************************************************)
(* What an edge does to the parties that take no part in a transaction.    *)
(***************************************************************************)
\* An adapter at rest that sees no VALID stays at rest.
LEMMA AsleepStays ==
  ASSUME NEW s \in Slave!Registers, Asleep(s), NEW in, ~in.ARVALID, ~in.AWVALID
  PROVE  Asleep(Slave!Clock(s, in))
BY DEF Asleep, Slave!Clock, Slave!Idle, Slave!Registers

\* Across an edge, the peripherals that are not the target stay at rest.
LEMMA BystandersSleep ==
  ASSUME IInv, NEW next \in Instr, NEW ready, Tick(next, ready),
         NEW p \in Periph, m.state = "Idle" \/ p # target
  PROVE  Asleep(slave[p]) /\ Asleep(slave'[p])
<1>1. slave[p] \in Slave!Registers
  BY DEF IInv, TypeOK, Slave!TypeOK
<1>2. Asleep(slave[p])
  BY DEF IInv, OnlyTargetWakes, RouteMatchesAddress, Master!busy, target
<1>3. ~ToSlave(p, ready).ARVALID /\ ~ToSlave(p, ready).AWVALID
  <2>1. CASE m.state = "Idle"
    BY <2>1 DEF IInv, MasterWires, ToSlave, Switch!ToPort
  <2>2. CASE m.state # "Idle"
    BY <2>2 DEF IInv, RouteMatchesAddress, Master!busy, target, Switch!sel,
                ToSlave, Switch!ToPort
  <2> QED
    BY <2>1, <2>2
<1>4. slave'[p] = Slave!Clock(slave[p], ToSlave(p, ready))
  BY DEF Tick, Slave!Step
<1> QED
  BY <1>1, <1>2, <1>3, <1>4, AsleepStays

\* The DummySlave stays at rest unless DummyPort is the target.
LEMMA DummyRests ==
  ASSUME IInv, NEW next \in Instr, NEW ready, Tick(next, ready),
         m.state = "Idle" \/ target # DummyPort
  PROVE  DummyAtRest /\ DummyAtRest'
<1>1. DummyAtRest
  BY DEF IInv, TargetPhase, DummyPhase, Master!busy
<1>2. ~ToDummy.ARVALID /\ ~ToDummy.AWVALID
  <2>1. CASE m.state = "Idle"
    BY <2>1 DEF IInv, MasterWires, ToDummy, Switch!ToPort
  <2>2. CASE m.state # "Idle"
    BY <2>2 DEF IInv, RouteMatchesAddress, Master!busy, target, Switch!sel,
                ToDummy, Switch!ToPort
  <2> QED
    BY <2>1, <2>2
<1> QED
  BY <1>1, <1>2 DEF Tick, Dummy!Step, DummyAtRest

\* A device whose write strobe is down keeps its words.
LEMMA DevicesKeep ==
  ASSUME TypeOK, DeviceStep, \A p \in Periph : ~slave[p].write
  PROVE  dev' = dev
BY DEF DeviceStep, Written, DevAddr, TypeOK

\* While the master is idle no adapter, no device and no effect moves.
LEMMA QuietTick ==
  ASSUME IInv, NEW next \in Instr, NEW ready, Tick(next, ready), m.state = "Idle"
  PROVE  /\ \A p \in Periph : Asleep(slave'[p])
         /\ DummyAtRest'
         /\ dev' = dev
         /\ ~EffectNow(ready)
         /\ read_sel' = NoPort /\ write_sel' = NoPort
<1>1. \A p \in Periph : Asleep(slave[p]) /\ Asleep(slave'[p])
  BY BystandersSleep
<1>2. DummyAtRest /\ DummyAtRest'
  BY DummyRests
<1>3. dev' = dev
  BY <1>1, DevicesKeep DEF IInv, Tick, Asleep
<1>4. ~EffectNow(ready)
  BY <1>1, <1>2 DEF EffectNow, Written, read_valid, Asleep, DummyAtRest,
                    Dummy!ReadTaken, Dummy!ResponseTaken, Dummy!RVALID, Dummy!BVALID
<1>5. read_sel' = NoPort /\ write_sel' = NoPort
  BY DEF IInv, MasterWires, Latches, Tick, Switch!Step
<1> QED
  BY <1>1, <1>2, <1>3, <1>4, <1>5

(***************************************************************************)
(* With the master idle an edge either starts nothing, starts a read or    *)
(* starts a write; what is left of IInv' follows from the registers of the *)
(* CPU side alone.                                                         *)
(***************************************************************************)
\* An edge in a state where the master is idle keeps the invariant.
LEMMA StepFromIdle ==
  ASSUME IInv, NEW next \in Instr, NEW ready, Tick(next, ready), m.state = "Idle"
  PROVE  IInv'
<1> USE DEF IInv
<1>1. TypeOK'
  BY TickType
<1>2. /\ \A p \in Periph : Asleep(slave'[p])
      /\ DummyAtRest'
      /\ ~EffectNow(ready)
      /\ read_sel' = NoPort /\ write_sel' = NoPort
  BY QuietTick
<1>3. m \in Master!Registers /\ m' \in Master!Registers
  BY <1>1 DEF TypeOK, Master!TypeOK
<1>4. m.state = "Idle" /\ ~m.ARVALID /\ ~m.RREADY /\ ~m.AWVALID /\ ~m.WVALID /\ ~m.BREADY
  BY DEF MasterWires
<1>5. CASE mem_access_state = "Idle" /\ op.kind = "load"
  <2>1. m'.state = "ReadData" /\ m'.addr = op.addr /\ m'.ARVALID /\ m'.RREADY
        /\ ~m'.AWVALID /\ ~m'.WVALID /\ ~m'.BREADY /\ ~m'.read_valid /\ ~m'.write_valid
    BY <1>3, <1>4, <1>5, ZenonT(60)
       DEF Tick, Master!Step, Master!StartRead, Master!StartWrite, Master!Rest,
           Master!ReadData, Master!WriteData, Master!WriteResp, Mem!Request,
           Mem!memory_read_enable, Mem!memory_write_enable, Master!Registers
  <2>2. mem_access_state' = "Read"
    BY <1>5
       DEF Tick, Mem!Step, Mem!AwaitRead, Mem!FinishRead, Mem!AwaitWrite, Mem!FinishWrite,
           Mem!StartRead, Mem!StartWrite, Mem!Pass, ToMem, Master!busy,
           Mem!memory_read_enable, Mem!memory_write_enable
  <2>3. op' = op /\ bus_address' = op.addr /\ effects' = 0
    BY <1>2, <1>5
       DEF Tick, PipelineStep, BusAddressStep, HistoryStep, mem_stall, ToMem,
           Mem!ctrl_stall_flag, Mem!Request, Mem!memory_read_enable,
           Mem!memory_write_enable, Master!busy, TargetPhase
  <2> QED
    BY <1>1, <1>2, <1>5, <2>1, <2>2, <2>3
       DEF RouteMatchesAddress, OnlyTargetWakes, StallFollowsTransaction, ExactlyOnce,
           LoadReturnsDeviceWord, MasterWires, StallMatchesOp, Latches, TargetPhase,
           ReadPhase, WriteDataPhase, Asleep, DummyPhase, DummyAtRest,
           Master!busy, target
<1>6. CASE mem_access_state = "Idle" /\ op.kind = "store"
  <2>1. m'.state = "WriteData" /\ m'.addr = op.addr /\ m'.write_data = op.data
        /\ m'.AWVALID /\ m'.WVALID /\ ~m'.BREADY /\ ~m'.ARVALID /\ ~m'.RREADY
        /\ ~m'.read_valid /\ ~m'.write_valid
    BY <1>3, <1>4, <1>6, ZenonT(60)
       DEF Tick, Master!Step, Master!StartRead, Master!StartWrite, Master!Rest,
           Master!ReadData, Master!WriteData, Master!WriteResp, Mem!Request,
           Mem!memory_read_enable, Mem!memory_write_enable, Master!Registers
  <2>2. mem_access_state' = "Write"
    BY <1>6
       DEF Tick, Mem!Step, Mem!AwaitRead, Mem!FinishRead, Mem!AwaitWrite, Mem!FinishWrite,
           Mem!StartRead, Mem!StartWrite, Mem!Pass, ToMem, Master!busy,
           Mem!memory_read_enable, Mem!memory_write_enable
  <2>3. op' = op /\ bus_address' = op.addr /\ effects' = 0
    BY <1>2, <1>6
       DEF Tick, PipelineStep, BusAddressStep, HistoryStep, mem_stall, ToMem,
           Mem!ctrl_stall_flag, Mem!Request, Mem!memory_read_enable,
           Mem!memory_write_enable, Master!busy, TargetPhase
  <2> QED
    BY <1>1, <1>2, <1>6, <2>1, <2>2, <2>3
       DEF RouteMatchesAddress, OnlyTargetWakes, StallFollowsTransaction, ExactlyOnce,
           LoadReturnsDeviceWord, MasterWires, StallMatchesOp, Latches, TargetPhase,
           ReadPhase, WriteDataPhase, Asleep, DummyPhase, DummyAtRest,
           Master!busy, target
<1>7. CASE mem_access_state = "Idle" /\ op.kind \notin {"load", "store"}
  <2>1. m'.state = "Idle" /\ ~m'.ARVALID /\ ~m'.RREADY /\ ~m'.AWVALID /\ ~m'.WVALID /\ ~m'.BREADY
        /\ ~m'.read_valid /\ ~m'.write_valid
    BY <1>3, <1>4, <1>7
       DEF Tick, Master!Step, Master!StartRead, Master!StartWrite, Master!Rest,
           Master!ReadData, Master!WriteData, Master!WriteResp, Mem!Request,
           Mem!memory_read_enable, Mem!memory_write_enable, Master!Registers
  <2>2. mem_access_state' = "Idle"
    BY <1>7
       DEF Tick, Mem!Step, Mem!AwaitRead, Mem!FinishRead, Mem!AwaitWrite, Mem!FinishWrite,
           Mem!StartRead, Mem!StartWrite, Mem!Pass, ToMem, Master!busy,
           Mem!memory_read_enable, Mem!memory_write_enable
  <2>3. effects' = 0
    BY <1>2, <1>7
       DEF Tick, PipelineStep, BusAddressStep, HistoryStep, mem_stall, ToMem,
           Mem!ctrl_stall_flag, Mem!Request, Mem!memory_read_enable,
           Mem!memory_write_enable, Master!busy, TargetPhase
  <2> QED
    BY <1>1, <1>2, <1>7, <2>1, <2>2, <2>3
       DEF RouteMatchesAddress, OnlyTargetWakes, StallFollowsTransaction, ExactlyOnce,
           LoadReturnsDeviceWord, MasterWires, StallMatchesOp, Latches, TargetPhase,
           ReadPhase, WriteDataPhase, Asleep, DummyPhase, DummyAtRest,
           Master!busy, target
<1>8. CASE mem_access_state # "Idle"
  <2>0. (mem_access_state = "Read" /\ m.read_valid) \/ (mem_access_state = "Write" /\ m.write_valid)
    BY <1>8 DEF TypeOK, Mem!TypeOK, StallFollowsTransaction
  <2>1. m'.state = "Idle" /\ ~m'.ARVALID /\ ~m'.RREADY /\ ~m'.AWVALID /\ ~m'.WVALID /\ ~m'.BREADY
        /\ ~m'.read_valid /\ ~m'.write_valid
    BY <1>3, <1>4, <1>8
       DEF Tick, Master!Step, Master!StartRead, Master!StartWrite, Master!Rest,
           Master!ReadData, Master!WriteData, Master!WriteResp, Mem!Request,
           Mem!memory_read_enable, Mem!memory_write_enable, Master!Registers
  <2>2. mem_access_state' = "Idle"
    BY <2>0
       DEF Tick, Mem!Step, Mem!AwaitRead, Mem!FinishRead, Mem!AwaitWrite, Mem!FinishWrite,
           Mem!StartRead, Mem!StartWrite, Mem!Pass, ToMem, Master!busy,
           Mem!memory_read_enable, Mem!memory_write_enable
  <2>3. effects' = 0
    BY <2>0
       DEF Tick, PipelineStep, BusAddressStep, HistoryStep, mem_stall, ToMem,
           Mem!ctrl_stall_flag, Mem!Request, Mem!memory_read_enable,
           Mem!memory_write_enable, Master!busy, TargetPhase
  <2> QED
    BY <1>1, <1>2, <2>1, <2>2, <2>3
       DEF RouteMatchesAddress, OnlyTargetWakes, StallFollowsTransaction, ExactlyOnce,
           LoadReturnsDeviceWord, MasterWires, StallMatchesOp, Latches, TargetPhase,
           ReadPhase, WriteDataPhase, Asleep, DummyPhase, DummyAtRest,
           Master!busy, target
<1> QED
  BY <1>5, <1>6, <1>7, <1>8

-----------------------------------------------------------------------------
(***************************************************************************)
(* While the master is busy the CPU side is frozen, and the wires of the   *)
(* switch are those of the target.                                         *)
(***************************************************************************)
\* While the master is busy the pipeline, the address latch and MEM hold.
LEMMA FrozenTick ==
  ASSUME IInv, NEW next \in Instr, NEW ready, Tick(next, ready), Master!busy
  PROVE  /\ op' = op /\ bus_address' = bus_address
         /\ mem_access_state' = mem_access_state
         /\ effects' = IF EffectNow(ready) /\ effects < 2 THEN effects + 1 ELSE effects
         /\ Switch!sel = target
         /\ \/ mem_access_state = "Read" /\ m.state = "ReadData" /\ op.kind = "load"
            \/ mem_access_state = "Write" /\ m.state \in {"WriteData", "WriteResp"}
               /\ op.kind = "store"
<1> USE DEF IInv
<1>1. \/ mem_access_state = "Read" /\ m.state = "ReadData" /\ op.kind = "load"
      \/ mem_access_state = "Write" /\ m.state \in {"WriteData", "WriteResp"}
         /\ op.kind = "store"
  BY DEF StallFollowsTransaction, StallMatchesOp, TypeOK, Master!TypeOK,
         Master!Registers, Master!MasterStates, Master!busy
<1>2. ~m.read_valid /\ ~m.write_valid
  BY DEF StallFollowsTransaction
<1>3. mem_access_state' = mem_access_state
  BY <1>1, <1>2 DEF Tick, Mem!Step, Mem!AwaitRead, Mem!FinishRead, Mem!AwaitWrite,
     Mem!FinishWrite, Mem!StartRead, Mem!StartWrite, Mem!Pass, ToMem
<1>4. mem_stall
  BY <1>1, <1>2 DEF mem_stall, Mem!ctrl_stall_flag, ToMem
<1>5. Switch!sel = target
  BY DEF RouteMatchesAddress, Switch!sel, target
<1> QED
  BY <1>1, <1>3, <1>4, <1>5 DEF Tick, PipelineStep, BusAddressStep, HistoryStep

\* The request wires at the target's adapter, and what the switch returns.
LEMMA TargetWires ==
  ASSUME IInv, Master!busy, target \in Periph, NEW ready
  PROVE  /\ ToSlave(target, ready).ARVALID = m.ARVALID
         /\ ToSlave(target, ready).ARADDR = op.addr
         /\ ToSlave(target, ready).RREADY = (m.RREADY /\ read_sel = target)
         /\ ToSlave(target, ready).AWVALID = m.AWVALID
         /\ ToSlave(target, ready).AWADDR = op.addr
         /\ ToSlave(target, ready).WVALID = m.WVALID
         /\ ToSlave(target, ready).WDATA = m.write_data
         /\ ToSlave(target, ready).BREADY = (m.BREADY /\ write_sel = target)
         /\ ToSlave(target, ready).read_valid = (slave[target].read /\ target \in ready)
         /\ slave[target].addr = op.addr =>
              ToSlave(target, ready).read_data = dev[op.addr]
<1>1. Switch!sel = target /\ m.addr = op.addr
  BY DEF IInv, RouteMatchesAddress, Switch!sel, target
<1>2. m \in Master!Registers
  BY DEF IInv, TypeOK, Master!TypeOK
<1>3. op.addr \in DevAddr
  BY FabricAssumption DEF IInv, TypeOK, Instr, DevAddr, target
<1> QED
  BY <1>1, <1>2, <1>3 DEF ToSlave, Switch!ToPort, read_valid, Master!Registers

\* The master sees the responses of the target only.
LEMMA ReturnWires ==
  ASSUME IInv, Master!busy, NEW f, f = FromPort(target)
  PROVE  /\ ToMaster.ARREADY = f.ARREADY
         /\ ToMaster.AWREADY = f.AWREADY
         /\ ToMaster.WREADY = f.WREADY
         /\ ToMaster.RVALID <=> read_sel = target /\ f.RVALID
         /\ ToMaster.BVALID <=> write_sel = target /\ f.BVALID
         /\ read_sel = target => ToMaster.RDATA = f.RDATA
<1> DEFINE from == [p \in Ports |-> FromPort(p)]
<1>1. Switch!sel = target /\ target \in Ports
  BY SelType DEF IInv, RouteMatchesAddress, Switch!sel, target
<1>2. target # NoPort /\ from[target] = f
  BY <1>1, FabricAssumption
<1>3. (read_sel = NoPort \/ read_sel = target) /\ (write_sel = NoPort \/ write_sel = target)
  BY DEF IInv, Latches
<1>4. ToMaster = Switch!ToMaster(from, Data0)
  BY DEF ToMaster
<1> HIDE DEF from
<1> QED
  BY <1>1, <1>2, <1>3, <1>4 DEF Switch!ToMaster

\* With a peripheral as the target nothing but that peripheral has effects.
LEMMA EffectAtTarget ==
  ASSUME IInv, NEW next \in Instr, NEW ready, Tick(next, ready), Master!busy,
         target \in Periph
  PROVE  EffectNow(ready) <=>
           slave[target].write \/ (slave[target].read /\ target \in ready)
<1>1. \A p \in Periph : p # target => Asleep(slave[p])
  BY BystandersSleep
<1>2. DummyAtRest
  BY FabricAssumption, DummyRests
<1> QED
  BY <1>1, <1>2 DEF EffectNow, Written, read_valid, Asleep, DummyAtRest,
     Dummy!ReadTaken, Dummy!ResponseTaken, Dummy!RVALID, Dummy!BVALID

\* With an unmapped target only the DummySlave can have effects.
LEMMA EffectAtDummy ==
  ASSUME IInv, NEW next \in Instr, NEW ready, Tick(next, ready), Master!busy,
         target \notin Periph
  PROVE  /\ EffectNow(ready) <=>
              \/ dummy.read_pending /\ m.RREADY /\ read_sel = DummyPort
              \/ dummy.write_data_ok /\ m.BREADY /\ write_sel = DummyPort
         /\ \A p \in Periph : Asleep(slave[p]) /\ Asleep(slave'[p])
         /\ dev' = dev
<1>1. \A p \in Periph : Asleep(slave[p]) /\ Asleep(slave'[p])
  BY BystandersSleep
<1>2. dev' = dev
  BY <1>1, DevicesKeep DEF IInv, Tick, Asleep
<1> QED
  BY <1>1, <1>2 DEF EffectNow, Written, read_valid, Asleep, Dummy!ReadTaken,
     Dummy!ResponseTaken, Dummy!RVALID, Dummy!BVALID, ToDummy, Switch!ToPort


-----------------------------------------------------------------------------
(***************************************************************************)
(* The next registers of the master and of the switch, by state.           *)
(***************************************************************************)
\* What the registers of a reading master are after an edge.
LEMMA MasterReading ==
  ASSUME IInv, NEW next \in Instr, NEW ready, Tick(next, ready), m.state = "ReadData"
  PROVE  LET done == ToMaster.RVALID IN
         /\ m'.addr = m.addr
         /\ m'.ARVALID <=> m.ARVALID /\ ~ToMaster.ARREADY
         /\ m'.state = IF done THEN "Idle" ELSE "ReadData"
         /\ m'.RREADY <=> ~done
         /\ m'.read_valid <=> done
         /\ m'.read_data = IF done THEN ToMaster.RDATA ELSE m.read_data
         /\ ~m'.AWVALID /\ ~m'.WVALID /\ ~m'.BREADY /\ ~m'.write_valid
         /\ read_sel' = IF m.ARVALID THEN target ELSE IF done THEN NoPort ELSE read_sel
         /\ write_sel' = NoPort
<1>1. m \in Master!Registers /\ m.RREADY /\ ~m.AWVALID /\ ~m.WVALID /\ ~m.BREADY
      /\ ~m.read_valid /\ ~m.write_valid /\ write_sel = NoPort
  BY DEF IInv, TypeOK, Master!TypeOK, MasterWires, Latches
<1>2. Master!ReadData(ToMaster)
  BY DEF Tick, Master!Step, Master!StartRead, Master!StartWrite, Master!Rest,
         Master!WriteData, Master!WriteResp
<1>3. ToMaster \in PortWires
  BY ToMasterType DEF IInv
<1>4. Switch!sel = target
  BY FrozenTick DEF Master!busy
<1>5. /\ read_sel' = IF m.ARVALID THEN target
                     ELSE IF ToMaster.RVALID THEN NoPort ELSE read_sel
      /\ write_sel' = NoPort
  BY <1>1, <1>4 DEF Tick, Switch!Step
<1>6. m'.addr = m.addr /\ ~m'.AWVALID /\ ~m'.WVALID /\ ~m'.BREADY /\ ~m'.write_valid
  BY <1>1, <1>2 DEF Master!ReadData, Master!Registers
<1>7. m'.ARVALID <=> m.ARVALID /\ ~ToMaster.ARREADY
  BY <1>1, <1>2, <1>3 DEF Master!ReadData, Master!Registers, PortWires
<1>8. /\ m'.state = IF ToMaster.RVALID THEN "Idle" ELSE "ReadData"
      /\ m'.RREADY <=> ~ToMaster.RVALID
      /\ m'.read_valid <=> ToMaster.RVALID
      /\ m'.read_data = IF ToMaster.RVALID THEN ToMaster.RDATA ELSE m.read_data
  BY <1>1, <1>2, <1>3 DEF Master!ReadData, Master!Registers, PortWires
<1> QED
  BY <1>5, <1>6, <1>7, <1>8

\* What the registers of a master that offers a word are after an edge.
LEMMA MasterWriting ==
  ASSUME IInv, NEW next \in Instr, NEW ready, Tick(next, ready), m.state = "WriteData"
  PROVE  LET accepted == ToMaster.WREADY IN
         /\ m'.addr = m.addr /\ m'.write_data = m.write_data
         /\ m'.AWVALID <=> m.AWVALID /\ ~ToMaster.AWREADY
         /\ m'.state = IF accepted THEN "WriteResp" ELSE "WriteData"
         /\ m'.WVALID <=> ~accepted
         /\ m'.BREADY <=> accepted
         /\ ~m'.ARVALID /\ ~m'.RREADY /\ ~m'.read_valid /\ ~m'.write_valid
         /\ write_sel' = target
         /\ read_sel' = NoPort
<1>1. m \in Master!Registers /\ m.WVALID /\ ~m.ARVALID /\ ~m.RREADY /\ ~m.BREADY
      /\ ~m.read_valid /\ ~m.write_valid /\ read_sel = NoPort
  BY DEF IInv, TypeOK, Master!TypeOK, MasterWires, Latches
<1>2. Master!WriteData(ToMaster)
  BY DEF Tick, Master!Step, Master!StartRead, Master!StartWrite, Master!Rest,
         Master!ReadData, Master!WriteResp
<1>3. ToMaster \in PortWires
  BY ToMasterType DEF IInv
<1>4. Switch!sel = target
  BY FrozenTick DEF Master!busy
<1>5. write_sel' = target /\ read_sel' = NoPort
  BY <1>1, <1>4 DEF Tick, Switch!Step
<1>6. m'.addr = m.addr /\ m'.write_data = m.write_data
      /\ ~m'.ARVALID /\ ~m'.RREADY /\ ~m'.read_valid /\ ~m'.write_valid
  BY <1>1, <1>2 DEF Master!WriteData, Master!Registers
<1>7. m'.AWVALID <=> m.AWVALID /\ ~ToMaster.AWREADY
  BY <1>1, <1>2, <1>3 DEF Master!WriteData, Master!Registers, PortWires
<1>8. /\ m'.state = IF ToMaster.WREADY THEN "WriteResp" ELSE "WriteData"
      /\ m'.WVALID <=> ~ToMaster.WREADY
      /\ m'.BREADY <=> ToMaster.WREADY
  BY <1>1, <1>2, <1>3 DEF Master!WriteData, Master!Registers, PortWires
<1> QED
  BY <1>5, <1>6, <1>7, <1>8

\* What the registers of a master awaiting a response are after an edge.
LEMMA MasterResponding ==
  ASSUME IInv, NEW next \in Instr, NEW ready, Tick(next, ready), m.state = "WriteResp"
  PROVE  LET done == ToMaster.BVALID IN
         /\ m'.addr = m.addr /\ m'.write_data = m.write_data
         /\ m'.state = IF done THEN "Idle" ELSE "WriteResp"
         /\ m'.BREADY <=> ~done
         /\ m'.write_valid <=> done
         /\ ~m'.ARVALID /\ ~m'.RREADY /\ ~m'.AWVALID /\ ~m'.WVALID /\ ~m'.read_valid
         /\ write_sel' = IF done THEN NoPort ELSE write_sel
         /\ read_sel' = NoPort
<1>1. m \in Master!Registers /\ ~m.WVALID /\ ~m.AWVALID /\ ~m.ARVALID /\ ~m.RREADY
      /\ m.BREADY /\ ~m.read_valid /\ ~m.write_valid /\ read_sel = NoPort
  BY DEF IInv, TypeOK, Master!TypeOK, MasterWires, Latches
<1>2. Master!WriteResp(ToMaster)
  BY DEF Tick, Master!Step, Master!StartRead, Master!StartWrite, Master!Rest,
         Master!ReadData, Master!WriteData
<1>3. ToMaster \in PortWires
  BY ToMasterType DEF IInv
<1>4. read_sel' = NoPort /\ write_sel' = IF ToMaster.BVALID THEN NoPort ELSE write_sel
  BY <1>1 DEF Tick, Switch!Step
<1>5. m'.addr = m.addr /\ m'.write_data = m.write_data /\ ~m'.ARVALID /\ ~m'.RREADY
      /\ ~m'.AWVALID /\ ~m'.WVALID /\ ~m'.read_valid
  BY <1>1, <1>2, <1>3 DEF Master!WriteResp, Master!Registers, PortWires
<1>6. /\ m'.state = IF ToMaster.BVALID THEN "Idle" ELSE "WriteResp"
      /\ m'.BREADY <=> ~ToMaster.BVALID
      /\ m'.write_valid <=> ToMaster.BVALID
  BY <1>1, <1>2, <1>3 DEF Master!WriteResp, Master!Registers, PortWires
<1> QED
  BY <1>4, <1>5, <1>6

(***************************************************************************)
(* Every part of the invariant but the phase of the target follows from    *)
(* what the target showed on the wires.                                    *)
(***************************************************************************)
\* An edge during a read from a peripheral keeps the invariant.
LEMMA ReadAtPeripheral ==
  ASSUME IInv, NEW next \in Instr, NEW ready, Tick(next, ready),
         m.state = "ReadData", target \in Periph
  PROVE  IInv'
<1> DEFINE s == slave[target]
           t == slave'[target]
           in == ToSlave(target, ready)
<1> USE DEF IInv
<1>1. TypeOK' /\ s \in Slave!Registers /\ Master!busy /\ ReadPhase(s)
  BY TickType DEF TypeOK, Slave!TypeOK, Master!busy, TargetPhase
<1>2. /\ op' = op /\ bus_address' = bus_address /\ mem_access_state' = mem_access_state
      /\ mem_access_state = "Read" /\ op.kind = "load"
      /\ effects' = IF EffectNow(ready) /\ effects < 2 THEN effects + 1 ELSE effects
  BY <1>1, FrozenTick
<1>3. EffectNow(ready) <=> s.write \/ (s.read /\ target \in ready)
  BY <1>1, EffectAtTarget
<1>4. t = Slave!Clock(s, in)
  BY DEF Tick, Slave!Step
<1>5. /\ in.ARVALID = m.ARVALID /\ in.ARADDR = op.addr
      /\ in.RREADY = (m.RREADY /\ read_sel = target) /\ in.AWVALID = m.AWVALID
      /\ in.read_valid = (s.read /\ target \in ready)
      /\ s.addr = op.addr => in.read_data = dev[op.addr]
  BY <1>1, TargetWires
<1>6. m.RREADY /\ ~m.AWVALID
  BY DEF MasterWires
<1>7. /\ ToMaster.ARREADY = s.ARREADY
      /\ ToMaster.RVALID <=> read_sel = target /\ s.RVALID
      /\ read_sel = target => ToMaster.RDATA = s.read_data
  <2>1. FromPort(target).ARREADY = s.ARREADY /\ FromPort(target).RVALID = s.RVALID
        /\ FromPort(target).RDATA = s.read_data
    BY DEF FromPort
  <2> QED
    BY <1>1, <2>1, ReturnWires
<1>8. /\ m'.addr = m.addr
      /\ m'.ARVALID <=> m.ARVALID /\ ~s.ARREADY
      /\ m'.state = IF ToMaster.RVALID THEN "Idle" ELSE "ReadData"
      /\ m'.RREADY <=> ~ToMaster.RVALID
      /\ m'.read_valid <=> ToMaster.RVALID
      /\ m'.read_data = IF ToMaster.RVALID THEN ToMaster.RDATA ELSE m.read_data
      /\ ~m'.AWVALID /\ ~m'.WVALID /\ ~m'.BREADY /\ ~m'.write_valid
      /\ read_sel' = IF m.ARVALID THEN target
                     ELSE IF ToMaster.RVALID THEN NoPort ELSE read_sel
      /\ write_sel' = NoPort
  BY <1>7, MasterReading
<1>9. /\ \A p \in Periph : p # target => Asleep(slave'[p])
      /\ DummyAtRest'
  BY FabricAssumption, BystandersSleep, DummyRests
<1>10. dev' = dev
  <2>1. \A p \in Periph : ~slave[p].write
    BY <1>1, BystandersSleep DEF Asleep, ReadPhase
  <2> QED
    BY <2>1, DevicesKeep DEF Tick
<1>11. target \in Ports /\ target # NoPort /\ op.addr \in DevAddr
  BY FabricAssumption DEF TypeOK, Instr, DevAddr, target
<1> HIDE DEF s, t, in
<1>12. m.ARVALID => ~ToMaster.RVALID
  BY <1>1, <1>7 DEF ReadPhase, Asleep
<1>13. CASE ToMaster.RVALID
  <2>1. ~m.ARVALID /\ s.state = "ReadData" /\ s.RVALID /\ ~s.read /\ ~s.write
        /\ effects = 1 /\ s.read_data = dev[op.addr] /\ read_sel = target
        /\ ~s.ARREADY /\ ~s.AWREADY /\ ~s.WREADY /\ ~s.BVALID
    BY <1>1, <1>7, <1>12, <1>13 DEF ReadPhase, Awake, Asleep
  <2>2. Asleep(t)
    BY <1>1, <1>4, <1>5, <1>6, <2>1
       DEF Slave!Clock, Slave!ReadData, Slave!Registers, Asleep
  <2>3. effects' = 1 /\ m'.read_data = dev'[op.addr]
    BY <1>2, <1>3, <1>7, <1>8, <1>10, <1>13, <2>1
  <2>4. \A p \in Periph : Asleep(slave'[p])
    BY <1>9, <2>2 DEF t
  <2>5. read_sel' = NoPort
    BY <1>8, <1>13, <2>1
  <2> QED
    BY <1>1, <1>2, <1>8, <1>9, <1>11, <1>13, <2>1, <2>3, <2>4, <2>5
       DEF RouteMatchesAddress, OnlyTargetWakes, StallFollowsTransaction, ExactlyOnce,
           LoadReturnsDeviceWord, MasterWires, StallMatchesOp, Latches, TargetPhase,
           Master!busy, target, DevAddr
<1>14. CASE ~ToMaster.RVALID
  <2>1. read_sel' = target \/ (~m.ARVALID /\ read_sel' = read_sel)
    BY <1>8, <1>14
  <2>2. read_sel' = target
    BY <2>1 DEF Latches
  <2>3. ReadPhase(slave[target])'
    <3>1. CASE m.ARVALID /\ Asleep(s) /\ effects = 0
      <4>1. t.state = "ReadAddr" /\ t.ARREADY /\ ~t.read /\ ~t.RVALID /\ ~t.write
            /\ ~t.BVALID /\ ~t.AWREADY /\ ~t.WREADY
        BY <1>1, <1>4, <1>5, <1>6, <3>1
           DEF Slave!Clock, Slave!Idle, Slave!Registers, Asleep
      <4>2. m'.ARVALID /\ effects' = 0
        BY <1>2, <1>3, <1>8, <3>1 DEF Asleep
      <4> QED
        BY <1>2, <4>1, <4>2 DEF ReadPhase, Awake, t, target
    <3>2. CASE m.ARVALID /\ Awake(s, "ReadAddr") /\ effects = 0
               /\ ~s.read /\ ~s.RVALID /\ ~s.write /\ ~s.BVALID
      <4>1. t.state = "ReadData" /\ ~t.ARREADY /\ t.read /\ ~t.RVALID /\ ~t.write
            /\ ~t.BVALID /\ ~t.AWREADY /\ ~t.WREADY /\ t.addr = op.addr
        BY <1>1, <1>4, <1>5, <3>2
           DEF Slave!Clock, Slave!ReadAddr, Slave!Registers, Awake
      <4>2. ~m'.ARVALID /\ effects' = 0
        BY <1>2, <1>3, <1>8, <3>2 DEF Awake
      <4> QED
        BY <1>2, <4>1, <4>2 DEF ReadPhase, Awake, t, target
    <3>3. CASE ~m.ARVALID /\ Awake(s, "ReadData") /\ s.addr = op.addr
               /\ ~s.write /\ ~s.BVALID /\ s.read /\ ~s.RVALID /\ effects = 0
      <4>1. ~m'.ARVALID
        BY <1>8, <3>3
      <4>2. t.state = "ReadData" /\ ~t.ARREADY /\ ~t.write /\ ~t.BVALID
            /\ ~t.AWREADY /\ ~t.WREADY /\ t.addr = op.addr
        BY <1>1, <1>4, <1>5, <3>3
           DEF Slave!Clock, Slave!ReadData, Slave!Registers, Awake
      <4>3. CASE target \in ready
        <5>1. ~t.read /\ t.RVALID /\ t.read_data = dev[op.addr]
          BY <1>1, <1>4, <1>5, <3>3, <4>3
             DEF Slave!Clock, Slave!ReadData, Slave!Registers, Awake
        <5>2. effects' = 1
          BY <1>2, <1>3, <3>3, <4>3
        <5> QED
          BY <1>2, <1>10, <4>1, <4>2, <5>1, <5>2 DEF ReadPhase, Awake, t, target
      <4>4. CASE target \notin ready
        <5>1. t.read /\ ~t.RVALID
          BY <1>1, <1>4, <1>5, <3>3, <4>4
             DEF Slave!Clock, Slave!ReadData, Slave!Registers, Awake
        <5>2. effects' = 0
          BY <1>2, <1>3, <3>3, <4>4
        <5> QED
          BY <1>2, <4>1, <4>2, <5>1, <5>2 DEF ReadPhase, Awake, t, target
      <4> QED
        BY <4>3, <4>4
    <3>4. ~(s.RVALID /\ ~m.ARVALID)
      BY <1>7, <1>14 DEF Latches
    <3> QED
      BY <1>1, <3>1, <3>2, <3>3, <3>4 DEF ReadPhase
  <2>4. effects' <= 1
    BY <2>3 DEF ReadPhase
  <2> QED
    BY <1>1, <1>2, <1>8, <1>9, <1>11, <1>14, <2>2, <2>3, <2>4
       DEF RouteMatchesAddress, OnlyTargetWakes, StallFollowsTransaction, ExactlyOnce,
           LoadReturnsDeviceWord, MasterWires, StallMatchesOp, Latches, TargetPhase,
           Master!busy, target
<1> QED
  BY <1>13, <1>14


\* An edge while a peripheral is offered a word keeps the invariant.
LEMMA WriteDataAtPeripheral ==
  ASSUME IInv, NEW next \in Instr, NEW ready, Tick(next, ready),
         m.state = "WriteData", target \in Periph
  PROVE  IInv'
<1> DEFINE s == slave[target]
           t == slave'[target]
           in == ToSlave(target, ready)
<1> USE DEF IInv
<1>1. TypeOK' /\ s \in Slave!Registers /\ Master!busy /\ WriteDataPhase(s)
  BY TickType DEF TypeOK, Slave!TypeOK, Master!busy, TargetPhase
<1>2. /\ op' = op /\ bus_address' = bus_address /\ mem_access_state' = mem_access_state
      /\ mem_access_state = "Write" /\ op.kind = "store"
      /\ effects' = IF EffectNow(ready) /\ effects < 2 THEN effects + 1 ELSE effects
  BY <1>1, FrozenTick
<1>3. effects' = 0
  BY <1>1, <1>2, EffectAtTarget DEF WriteDataPhase
<1>4. t = Slave!Clock(s, in)
  BY DEF Tick, Slave!Step
<1>5. ~in.ARVALID /\ in.AWVALID = m.AWVALID /\ in.AWADDR = op.addr
      /\ in.WVALID /\ in.WDATA = op.data
  BY <1>1, TargetWires DEF MasterWires, StallMatchesOp
<1>6. ToMaster.AWREADY = s.AWREADY /\ ToMaster.WREADY = s.WREADY
  <2>1. FromPort(target).AWREADY = s.AWREADY /\ FromPort(target).WREADY = s.WREADY
    BY DEF FromPort
  <2> QED
    BY <1>1, <2>1, ReturnWires
<1>7. /\ m'.addr = m.addr /\ m'.write_data = m.write_data
      /\ m'.AWVALID <=> m.AWVALID /\ ~s.AWREADY
      /\ m'.state = IF s.WREADY THEN "WriteResp" ELSE "WriteData"
      /\ m'.WVALID <=> ~s.WREADY
      /\ m'.BREADY <=> s.WREADY
      /\ ~m'.ARVALID /\ ~m'.RREADY /\ ~m'.read_valid /\ ~m'.write_valid
      /\ write_sel' = target
      /\ read_sel' = NoPort
  BY <1>6, MasterWriting
<1>8. /\ \A p \in Periph : p # target => Asleep(slave'[p])
      /\ DummyAtRest'
  BY FabricAssumption, BystandersSleep, DummyRests
<1> HIDE DEF s, t, in
<1>9. CASE m.AWVALID /\ Asleep(s)
  <2>1. t.state = "WriteAddr" /\ t.AWREADY /\ ~t.ARREADY /\ ~t.WREADY /\ ~t.read
        /\ ~t.RVALID /\ ~t.write /\ ~t.BVALID
    BY <1>1, <1>4, <1>5, <1>9 DEF Slave!Clock, Slave!Idle, Slave!Registers, Asleep
  <2>2. m'.AWVALID /\ m'.state = "WriteData"
    BY <1>7, <1>9 DEF Asleep
  <2>3. WriteDataPhase(slave[target])'
    BY <1>2, <1>3, <2>1, <2>2 DEF WriteDataPhase, Awake, t, target
  <2> QED
    BY <1>1, <1>2, <1>3, <1>7, <1>8, <2>2, <2>3
       DEF RouteMatchesAddress, OnlyTargetWakes, StallFollowsTransaction, ExactlyOnce,
           LoadReturnsDeviceWord, MasterWires, StallMatchesOp, Latches, TargetPhase,
           Master!busy, target
<1>10. CASE m.AWVALID /\ Awake(s, "WriteAddr")
  <2>1. t.state = "WriteData" /\ ~t.AWREADY /\ ~t.ARREADY /\ t.WREADY /\ ~t.read
        /\ ~t.RVALID /\ ~t.write /\ ~t.BVALID /\ t.addr = op.addr
    BY <1>1, <1>4, <1>5, <1>10
       DEF Slave!Clock, Slave!WriteAddr, Slave!Registers, Awake, WriteDataPhase
  <2>2. ~m'.AWVALID /\ m'.state = "WriteData"
    BY <1>7, <1>10 DEF Awake
  <2>3. WriteDataPhase(slave[target])'
    BY <1>2, <1>3, <2>1, <2>2 DEF WriteDataPhase, Awake, t, target
  <2> QED
    BY <1>1, <1>2, <1>3, <1>7, <1>8, <2>2, <2>3
       DEF RouteMatchesAddress, OnlyTargetWakes, StallFollowsTransaction, ExactlyOnce,
           LoadReturnsDeviceWord, MasterWires, StallMatchesOp, Latches, TargetPhase,
           Master!busy, target
<1>11. CASE ~m.AWVALID /\ Awake(s, "WriteData") /\ s.addr = op.addr
  <2>1. t.state = "WriteResp" /\ ~t.AWREADY /\ ~t.ARREADY /\ ~t.WREADY /\ ~t.read
        /\ ~t.RVALID /\ t.write /\ ~t.BVALID /\ t.addr = op.addr /\ t.write_data = op.data
    BY <1>1, <1>4, <1>5, <1>11
       DEF Slave!Clock, Slave!WriteData, Slave!Registers, Awake, WriteDataPhase
  <2>2. ~m'.AWVALID /\ m'.state = "WriteResp"
    BY <1>7, <1>11 DEF Awake
  <2>3. WriteRespPhase(slave[target])'
    BY <1>2, <1>3, <2>1, <2>2 DEF WriteRespPhase, Awake, t, target
  <2> QED
    BY <1>1, <1>2, <1>3, <1>7, <1>8, <2>2, <2>3
       DEF RouteMatchesAddress, OnlyTargetWakes, StallFollowsTransaction, ExactlyOnce,
           LoadReturnsDeviceWord, MasterWires, StallMatchesOp, Latches, TargetPhase,
           Master!busy, target
<1> QED
  BY <1>1, <1>9, <1>10, <1>11 DEF WriteDataPhase

\* An edge while a write response is due keeps the invariant.
LEMMA WriteRespAtPeripheral ==
  ASSUME IInv, NEW next \in Instr, NEW ready, Tick(next, ready),
         m.state = "WriteResp", target \in Periph
  PROVE  IInv'
<1> DEFINE s == slave[target]
           t == slave'[target]
           in == ToSlave(target, ready)
<1> USE DEF IInv
<1>1. TypeOK' /\ s \in Slave!Registers /\ Master!busy /\ WriteRespPhase(s)
  BY TickType DEF TypeOK, Slave!TypeOK, Master!busy, TargetPhase
<1>2. /\ op' = op /\ bus_address' = bus_address /\ mem_access_state' = mem_access_state
      /\ mem_access_state = "Write" /\ op.kind = "store"
      /\ effects' = IF EffectNow(ready) /\ effects < 2 THEN effects + 1 ELSE effects
  BY <1>1, FrozenTick
<1>3. effects' = 1
  BY <1>1, <1>2, EffectAtTarget DEF WriteRespPhase
<1>4. t = Slave!Clock(s, in)
  BY DEF Tick, Slave!Step
<1>5. ~in.ARVALID /\ ~in.AWVALID /\ in.BREADY
  BY <1>1, TargetWires DEF MasterWires, Latches
<1>6. ToMaster.BVALID <=> s.BVALID
  <2>1. FromPort(target).BVALID = s.BVALID
    BY DEF FromPort
  <2> QED
    BY <1>1, <2>1, ReturnWires DEF Latches
<1>7. /\ m'.addr = m.addr /\ m'.write_data = m.write_data
      /\ m'.state = IF s.BVALID THEN "Idle" ELSE "WriteResp"
      /\ m'.BREADY <=> ~s.BVALID
      /\ m'.write_valid <=> s.BVALID
      /\ ~m'.ARVALID /\ ~m'.RREADY /\ ~m'.AWVALID /\ ~m'.WVALID /\ ~m'.read_valid
      /\ write_sel' = IF s.BVALID THEN NoPort ELSE target
      /\ read_sel' = NoPort
  BY <1>6, MasterResponding DEF Latches
<1>8. /\ \A p \in Periph : p # target => Asleep(slave'[p])
      /\ DummyAtRest'
  BY FabricAssumption, BystandersSleep, DummyRests
<1> HIDE DEF s, t, in
<1>9. CASE s.BVALID
  <2>1. Asleep(t)
    BY <1>1, <1>4, <1>5, <1>9
       DEF Slave!Clock, Slave!WriteResp, Slave!Registers, Awake, WriteRespPhase, Asleep
  <2>2. \A p \in Periph : Asleep(slave'[p])
    BY <1>8, <2>1 DEF t
  <2> QED
    BY <1>1, <1>2, <1>3, <1>7, <1>8, <1>9, <2>2
       DEF RouteMatchesAddress, OnlyTargetWakes, StallFollowsTransaction, ExactlyOnce,
           LoadReturnsDeviceWord, MasterWires, StallMatchesOp, Latches, TargetPhase,
           Master!busy, target
<1>10. CASE ~s.BVALID
  <2>1. t.state = "WriteResp" /\ ~t.AWREADY /\ ~t.ARREADY /\ ~t.WREADY /\ ~t.read
        /\ ~t.RVALID /\ ~t.write /\ t.BVALID /\ t.addr = op.addr /\ t.write_data = op.data
    BY <1>1, <1>4, <1>5, <1>10
       DEF Slave!Clock, Slave!WriteResp, Slave!Registers, Awake, WriteRespPhase
  <2>2. WriteRespPhase(slave[target])'
    BY <1>2, <1>3, <2>1 DEF WriteRespPhase, Awake, t, target
  <2> QED
    BY <1>1, <1>2, <1>3, <1>7, <1>8, <1>10, <2>2
       DEF RouteMatchesAddress, OnlyTargetWakes, StallFollowsTransaction, ExactlyOnce,
           LoadReturnsDeviceWord, MasterWires, StallMatchesOp, Latches, TargetPhase,
           Master!busy, target
<1> QED
  BY <1>9, <1>10

(***************************************************************************)
(* A region without a peripheral: the DummySlave answers for DummyPort; at *)
(* any other such port the access waits for ever, with nothing disturbed.  *)
(***************************************************************************)
\* An edge during an access to an unmapped port keeps the invariant.
LEMMA StepAtUnmapped ==
  ASSUME IInv, NEW next \in Instr, NEW ready, Tick(next, ready),
         Master!busy, target \notin Periph
  PROVE  IInv'
<1> USE DEF IInv
<1>1. TypeOK' /\ DummyPhase /\ Dummy!TypeOK
  BY TickType DEF TargetPhase, TypeOK
<1>2. /\ op' = op /\ bus_address' = bus_address /\ mem_access_state' = mem_access_state
      /\ effects' = IF EffectNow(ready) /\ effects < 2 THEN effects + 1 ELSE effects
      /\ Switch!sel = target
      /\ \/ mem_access_state = "Read" /\ m.state = "ReadData" /\ op.kind = "load"
         \/ mem_access_state = "Write" /\ m.state \in {"WriteData", "WriteResp"}
            /\ op.kind = "store"
  BY FrozenTick
<1>3. /\ EffectNow(ready) <=>
           \/ dummy.read_pending /\ m.RREADY /\ read_sel = DummyPort
           \/ dummy.write_data_ok /\ m.BREADY /\ write_sel = DummyPort
      /\ \A p \in Periph : Asleep(slave'[p])
  BY EffectAtDummy
<1>4. /\ ToMaster.ARREADY = ~dummy.read_pending
      /\ ToMaster.AWREADY = ~dummy.write_pending
      /\ ToMaster.WREADY = (dummy.write_pending /\ ~dummy.write_data_ok)
      /\ ToMaster.RVALID <=> read_sel = target /\ dummy.read_pending
      /\ ToMaster.BVALID <=> write_sel = target /\ dummy.write_data_ok
      /\ read_sel = target => ToMaster.RDATA = ErrorData
  <2>1. FromPort(target) =
          [ ARREADY |-> ~dummy.read_pending, RVALID |-> dummy.read_pending,
            RDATA |-> ErrorData, AWREADY |-> ~dummy.write_pending,
            WREADY |-> dummy.write_pending /\ ~dummy.write_data_ok,
            BVALID |-> dummy.write_data_ok ]
    BY DEF FromPort, Dummy!ARREADY, Dummy!RVALID, Dummy!AWREADY, Dummy!WREADY,
           Dummy!BVALID
  <2> QED
    BY <2>1, ReturnWires
<1>5. op.addr \notin DevAddr /\ target \in Ports /\ target # NoPort
  BY FabricAssumption DEF TypeOK, Instr, DevAddr, target
<1>6. /\ ToDummy.ARVALID <=> m.ARVALID /\ target = DummyPort
      /\ ToDummy.RREADY <=> m.RREADY /\ read_sel = DummyPort
      /\ ToDummy.AWVALID <=> m.AWVALID /\ target = DummyPort
      /\ ToDummy.WVALID <=> m.WVALID /\ target = DummyPort
      /\ ToDummy.BREADY <=> m.BREADY /\ write_sel = DummyPort
  BY <1>2 DEF ToDummy, Switch!ToPort
<1>7. /\ dummy'.read_pending <=> (dummy.read_pending \/ ToDummy.ARVALID)
                                  /\ ~(dummy.read_pending /\ ToDummy.RREADY)
      /\ dummy'.write_pending <=> (dummy.write_pending \/ ToDummy.AWVALID)
                                   /\ ~(dummy.write_data_ok /\ ToDummy.BREADY)
      /\ dummy'.write_data_ok <=>
           (dummy.write_data_ok \/ (dummy.write_pending /\ ToDummy.WVALID))
           /\ ~(dummy.write_data_ok /\ ToDummy.BREADY)
  BY DEF Tick, Dummy!Step, Dummy!ReadTaken, Dummy!ResponseTaken, Dummy!ARREADY,
         Dummy!RVALID, Dummy!AWREADY, Dummy!WREADY, Dummy!BVALID
<1>8. CASE m.state = "ReadData"
  <2>1. /\ m'.addr = m.addr
        /\ m'.ARVALID <=> m.ARVALID /\ dummy.read_pending
        /\ m'.state = IF ToMaster.RVALID THEN "Idle" ELSE "ReadData"
        /\ m'.RREADY <=> ~ToMaster.RVALID
        /\ m'.read_valid <=> ToMaster.RVALID
        /\ m'.read_data = IF ToMaster.RVALID THEN ToMaster.RDATA ELSE m.read_data
        /\ ~m'.AWVALID /\ ~m'.WVALID /\ ~m'.BREADY /\ ~m'.write_valid
        /\ read_sel' = IF m.ARVALID THEN target
                       ELSE IF ToMaster.RVALID THEN NoPort ELSE read_sel
        /\ write_sel' = NoPort
    BY <1>4, <1>8, MasterReading
  <2>2. m.RREADY /\ ~m.AWVALID /\ ~m.WVALID /\ ~m.BREADY
    BY <1>8 DEF MasterWires
  <2>3. ~dummy.write_pending /\ ~dummy.write_data_ok
    BY <1>1, <1>8 DEF DummyPhase, DummyAtRest
  <2>4. CASE dummy.read_pending
    <3>1. target = DummyPort /\ ~m.ARVALID /\ read_sel = target /\ effects = 0
      BY <1>1, <1>8, <2>4 DEF DummyPhase, DummyAtRest, Latches
    <3>2. DummyAtRest' /\ m'.state = "Idle" /\ effects' = 1 /\ m'.read_data = ErrorData
          /\ read_sel' = NoPort /\ ~m'.ARVALID /\ ~m'.RREADY /\ m'.read_valid
      BY <1>2, <1>3, <1>4, <1>6, <1>7, <2>1, <2>2, <2>3, <2>4, <3>1 DEF DummyAtRest
    <3> QED
      BY <1>1, <1>2, <1>3, <1>5, <1>8, <2>1, <3>2
         DEF RouteMatchesAddress, OnlyTargetWakes, StallFollowsTransaction, ExactlyOnce,
           LoadReturnsDeviceWord, MasterWires, StallMatchesOp, Latches, TargetPhase,
           Master!busy, target, DevAddr
  <2>5. CASE ~dummy.read_pending
    <3>1. /\ m'.state = "ReadData" /\ m'.RREADY /\ ~m'.read_valid /\ ~m'.ARVALID
          /\ effects' = 0 /\ read_sel' = target
          /\ dummy'.read_pending <=> (target = DummyPort)
          /\ ~dummy'.write_pending /\ ~dummy'.write_data_ok
      BY <1>1, <1>2, <1>3, <1>4, <1>6, <1>7, <1>8, <2>1, <2>2, <2>3, <2>5
         DEF DummyPhase, DummyAtRest, Latches
    <3> QED
      BY <1>1, <1>2, <1>3, <1>5, <1>8, <2>1, <3>1
         DEF RouteMatchesAddress, OnlyTargetWakes, StallFollowsTransaction, ExactlyOnce,
           LoadReturnsDeviceWord, MasterWires, StallMatchesOp, Latches, TargetPhase,
           Master!busy, target, DummyPhase, DummyAtRest
  <2> QED
    BY <2>4, <2>5
<1>9. CASE m.state = "WriteData"
  <2>1. /\ m'.addr = m.addr /\ m'.write_data = m.write_data
        /\ m'.AWVALID <=> m.AWVALID /\ dummy.write_pending
        /\ m'.state = IF ToMaster.WREADY THEN "WriteResp" ELSE "WriteData"
        /\ m'.WVALID <=> ~ToMaster.WREADY
        /\ m'.BREADY <=> ToMaster.WREADY
        /\ ~m'.ARVALID /\ ~m'.RREADY /\ ~m'.read_valid /\ ~m'.write_valid
        /\ write_sel' = target /\ read_sel' = NoPort
    BY <1>4, <1>9, MasterWriting
  <2>2. m.WVALID /\ ~m.ARVALID /\ ~m.RREADY /\ ~m.BREADY
    BY <1>9 DEF MasterWires
  <2>3. ~dummy.read_pending /\ ~dummy.write_data_ok
    BY <1>1, <1>9 DEF DummyPhase, DummyAtRest
  <2>4. CASE dummy.write_pending
    <3>1. target = DummyPort /\ ~m.AWVALID /\ effects = 0
      BY <1>1, <1>9, <2>4 DEF DummyPhase, DummyAtRest
    <3>2. m'.state = "WriteResp" /\ ~m'.AWVALID /\ ~m'.WVALID /\ m'.BREADY /\ effects' = 0
          /\ dummy'.write_pending /\ dummy'.write_data_ok /\ ~dummy'.read_pending
      BY <1>2, <1>3, <1>4, <1>6, <1>7, <2>1, <2>2, <2>3, <2>4, <3>1
    <3> QED
      BY <1>1, <1>2, <1>3, <1>5, <1>9, <2>1, <3>1, <3>2
         DEF RouteMatchesAddress, OnlyTargetWakes, StallFollowsTransaction, ExactlyOnce,
           LoadReturnsDeviceWord, MasterWires, StallMatchesOp, Latches, TargetPhase,
           Master!busy, target, DummyPhase, DummyAtRest
  <2>5. CASE ~dummy.write_pending
    <3>1. /\ m'.state = "WriteData" /\ m'.WVALID /\ ~m'.BREADY /\ ~m'.AWVALID
          /\ effects' = 0
          /\ dummy'.write_pending <=> (target = DummyPort)
          /\ ~dummy'.read_pending /\ ~dummy'.write_data_ok
      BY <1>1, <1>2, <1>3, <1>4, <1>6, <1>7, <1>9, <2>1, <2>2, <2>3, <2>5
         DEF DummyPhase, DummyAtRest
    <3> QED
      BY <1>1, <1>2, <1>3, <1>5, <1>9, <2>1, <3>1
         DEF RouteMatchesAddress, OnlyTargetWakes, StallFollowsTransaction, ExactlyOnce,
           LoadReturnsDeviceWord, MasterWires, StallMatchesOp, Latches, TargetPhase,
           Master!busy, target, DummyPhase, DummyAtRest
  <2> QED
    BY <2>4, <2>5
<1>10. CASE m.state = "WriteResp"
  <2>1. target = DummyPort /\ dummy.write_pending /\ dummy.write_data_ok
        /\ ~dummy.read_pending /\ effects = 0 /\ write_sel = target
        /\ m.BREADY /\ ~m.ARVALID /\ ~m.AWVALID /\ ~m.WVALID /\ ~m.RREADY
    BY <1>1, <1>10 DEF DummyPhase, Latches, MasterWires
  <2>2. /\ m'.addr = m.addr /\ m'.write_data = m.write_data /\ m'.state = "Idle"
        /\ ~m'.BREADY /\ m'.write_valid
        /\ ~m'.ARVALID /\ ~m'.RREADY /\ ~m'.AWVALID /\ ~m'.WVALID /\ ~m'.read_valid
        /\ write_sel' = NoPort /\ read_sel' = NoPort
    BY <1>4, <1>10, <2>1, MasterResponding
  <2>3. DummyAtRest' /\ effects' = 1
    BY <1>2, <1>3, <1>6, <1>7, <2>1 DEF DummyAtRest
  <2> QED
    BY <1>1, <1>2, <1>3, <1>10, <2>2, <2>3
       DEF RouteMatchesAddress, OnlyTargetWakes, StallFollowsTransaction, ExactlyOnce,
           LoadReturnsDeviceWord, MasterWires, StallMatchesOp, Latches, TargetPhase,
           Master!busy, target
<1> QED
  BY <1>2, <1>8, <1>9, <1>10

-----------------------------------------------------------------------------
\* The invariant holds at reset.
LEMMA InitInvariant ==
  Init => IInv
<1> SUFFICES ASSUME Init PROVE IInv
  OBVIOUS
<1>1. TypeOK
  BY InitType
<1>2. \A p \in Periph : Asleep(slave[p])
  BY SMTT(40) DEF Init, Slave!Init, Slave!ResetValue, Asleep
<1> QED
  BY <1>1, <1>2
     DEF Init, Mem!Init, Master!Init, Switch!Init, Dummy!Init, IInv, Bubble,
         RouteMatchesAddress, OnlyTargetWakes, StallFollowsTransaction, ExactlyOnce,
         LoadReturnsDeviceWord, MasterWires, StallMatchesOp, Latches, TargetPhase,
         DummyAtRest, Master!busy, target

\* Stuttering keeps the invariant.
LEMMA StutterInvariant ==
  ASSUME IInv, UNCHANGED vars
  PROVE  IInv'
<1>1. TypeOK'
  BY DEF IInv, vars, TypeOK, Mem!TypeOK, Master!TypeOK, Switch!TypeOK, Slave!TypeOK,
         Dummy!TypeOK
<1> QED
  BY <1>1
     DEF vars, IInv, RouteMatchesAddress, OnlyTargetWakes, StallFollowsTransaction,
         ExactlyOnce, LoadReturnsDeviceWord, MasterWires, StallMatchesOp, Latches,
         TargetPhase, ReadPhase, WriteDataPhase, WriteRespPhase, DummyPhase,
         DummyAtRest, Master!busy, target, Asleep, Awake, DevAddr

\* Every clock edge keeps the invariant.
LEMMA StepInvariant ==
  ASSUME IInv, [Next]_vars
  PROVE  IInv'
<1>1. ASSUME NEW next \in Instr, NEW ready, Tick(next, ready)
      PROVE  IInv'
  <2>1. m.state \in {"Idle", "ReadData", "WriteData", "WriteResp"}
    BY DEF IInv, TypeOK, Master!TypeOK, Master!Registers, Master!MasterStates
  <2>2. CASE m.state = "Idle"
    BY <1>1, <2>2, StepFromIdle
  <2>3. CASE m.state # "Idle" /\ target \notin Periph
    BY <1>1, <2>3, StepAtUnmapped DEF Master!busy
  <2>4. CASE m.state # "Idle" /\ target \in Periph
    BY <1>1, <2>1, <2>4, ReadAtPeripheral, WriteDataAtPeripheral, WriteRespAtPeripheral
  <2> QED
    BY <2>2, <2>3, <2>4
<1> QED
  BY <1>1, StutterInvariant DEF Next

\* The inductive invariant, which every safety theorem below rests on.
LEMMA Invariant == Spec => []IInv
<1>1. IInv /\ [Next]_vars => IInv'
  BY StepInvariant
<1> QED
  BY <1>1, InitInvariant, PTL DEF Spec

\* The switch always decodes the address of the running transaction, whatever
\* the pipeline does meanwhile.
THEOREM RouteStable == Spec => []RouteMatchesAddress
BY Invariant, PTL DEF IInv

\* No access disturbs the adapter of a peripheral it is not addressed to.
THEOREM NoCrossTalk == Spec => []OnlyTargetWakes
BY Invariant, PTL DEF IInv

\* The MEM stage and the master stay in step.
THEOREM StallInStep == Spec => []StallFollowsTransaction
BY Invariant, PTL DEF IInv

\* An access takes effect at its device once, before it completes.
THEOREM EffectOnce == Spec => []ExactlyOnce
BY Invariant, PTL DEF IInv

\* A load completes with the word of its own device.
THEOREM LoadCorrect == Spec => []LoadReturnsDeviceWord
BY Invariant, PTL DEF IInv

(***************************************************************************)
(* The clocked fabric implements LoadStore, for every board: an edge       *)
(* starts an access, performs it, retires an instruction, or changes       *)
(* nothing that LoadStore can see.  The rule of the AXI handshakes follows *)
(* from the same invariant.                                                *)
(***************************************************************************)

\* The result of a load in LoadStore, from the instruction and the device alone.
LoadedWord == IF op.addr \in DevAddr THEN dev[op.addr] ELSE ErrorData

ResultFromDevice ==
  AbstractResult = IF AbstractPhase = "performed" /\ op.kind = "load"
                   THEN LoadedWord ELSE NoResult

\* The phase by the state of MEM and the count of effects.
LEMMA PhaseIs ==
  /\ mem_access_state = "Idle" => AbstractPhase = "ready"
  /\ mem_access_state # "Idle" /\ effects = 0 => AbstractPhase = "pending"
  /\ mem_access_state # "Idle" /\ effects = 1 => AbstractPhase = "performed"
BY DEF AbstractPhase

\* Between its effect and its retirement a load's result is the word of its device, in
\* the adapter first and in the master then.
LEMMA ResultIs ==
  ASSUME IInv
  PROVE  ResultFromDevice
<1> USE DEF ResultFromDevice
<1>1. CASE AbstractPhase # "performed" \/ op.kind # "load"
  BY <1>1 DEF AbstractResult
<1>2. CASE AbstractPhase = "performed" /\ op.kind = "load"
  <2>1. mem_access_state = "Read" /\ effects = 1
    <3>1. mem_access_state # "Idle" /\ effects # 0 /\ effects # 2
      BY <1>2, PhaseIs DEF AbstractPhase
    <3> QED
      BY <1>2, <3>1 DEF IInv, TypeOK, Mem!TypeOK, StallMatchesOp
  <2>2. m.state = "ReadData" \/ m.read_valid
    BY <2>1 DEF IInv, StallFollowsTransaction
  <2>3. CASE m.read_valid
    BY <1>2, <2>3 DEF IInv, LoadReturnsDeviceWord, AbstractResult, LoadedWord
  <2>4. CASE m.state = "ReadData" /\ ~m.read_valid
    <3>1. target \in Periph
      BY <2>1, <2>4 DEF IInv, TargetPhase, DummyPhase, Master!busy
    <3>2. op.addr \in DevAddr
      BY <3>1, FabricAssumption DEF IInv, TypeOK, Instr, DevAddr, target
    <3>3. slave[target].read_data = dev[op.addr]
      BY <2>1, <2>4, <3>1 DEF IInv, TargetPhase, ReadPhase, Master!busy
    <3> QED
      BY <1>2, <2>4, <3>1, <3>2, <3>3 DEF AbstractResult, LoadedWord, target
  <2> QED
    BY <2>2, <2>3, <2>4
<1> QED
  BY <1>1, <1>2

\* The same after an edge.
LEMMA NextResultIs == IInv' => ResultFromDevice'
<1>1. IInv => ResultFromDevice
  BY ResultIs
<1> QED
  BY <1>1, PTL

-----------------------------------------------------------------------------
(***************************************************************************)
(* An edge while the master is busy.                                       *)
(***************************************************************************)
\* A busy edge keeps the instruction and the write-back of the last one.
LEMMA BusyHolds ==
  ASSUME IInv, NEW next \in Instr, NEW ready, Tick(next, ready), Master!busy
  PROVE  op' = op /\ mem2wb' = mem2wb /\ mem_access_state' = mem_access_state
<1>1. /\ op' = op /\ mem_access_state' = mem_access_state
      /\ mem_access_state \in {"Read", "Write"}
  BY FrozenTick
<1>2. ~m.read_valid /\ ~m.write_valid
  BY DEF IInv, StallFollowsTransaction
<1>3. mem_stall
  BY <1>1, <1>2 DEF mem_stall, Mem!ctrl_stall_flag, ToMem
<1> QED
  BY <1>1, <1>3 DEF Tick, PipelineStep

\* What an edge does to the device of a busy access: nothing, or its one effect.
BusyEffect ==
  \/ effects' = effects /\ dev' = dev
  \/ /\ effects = 0 /\ effects' = 1
     /\ dev' = IF op.kind = "store" /\ op.addr \in DevAddr
               THEN [dev EXCEPT ![op.addr] = op.data] ELSE dev

\* A read leaves the devices alone and is counted when the target answers.
LEMMA ReadEffect ==
  ASSUME IInv, NEW next \in Instr, NEW ready, Tick(next, ready),
         m.state = "ReadData", target \in Periph
  PROVE  BusyEffect
<1>1. Master!busy /\ ReadPhase(slave[target]) /\ op.kind = "load"
      /\ effects' = IF EffectNow(ready) /\ effects < 2 THEN effects + 1 ELSE effects
  BY FrozenTick DEF IInv, TargetPhase, Master!busy
<1>2. \A p \in Periph : ~slave[p].write
  BY <1>1, BystandersSleep DEF Asleep, ReadPhase
<1>3. dev' = dev
  BY <1>2, DevicesKeep DEF IInv, Tick
<1>4. EffectNow(ready) => effects = 0
  BY <1>1, <1>2, EffectAtTarget DEF ReadPhase, Asleep
<1> QED
  BY <1>1, <1>3, <1>4 DEF BusyEffect

\* Offering a word has no effect yet.
LEMMA WriteDataEffect ==
  ASSUME IInv, NEW next \in Instr, NEW ready, Tick(next, ready),
         m.state = "WriteData", target \in Periph
  PROVE  BusyEffect
<1>1. Master!busy /\ WriteDataPhase(slave[target])
      /\ effects' = IF EffectNow(ready) /\ effects < 2 THEN effects + 1 ELSE effects
  BY FrozenTick DEF IInv, TargetPhase, Master!busy
<1>2. \A p \in Periph : ~slave[p].write
  BY <1>1, BystandersSleep DEF Asleep, WriteDataPhase
<1>3. dev' = dev
  BY <1>2, DevicesKeep DEF IInv, Tick
<1>4. ~EffectNow(ready)
  BY <1>1, EffectAtTarget DEF WriteDataPhase
<1> QED
  BY <1>1, <1>3, <1>4 DEF BusyEffect

\* The strobe of the adapter writes the word of the store to its address, once.
LEMMA WriteRespEffect ==
  ASSUME IInv, NEW next \in Instr, NEW ready, Tick(next, ready),
         m.state = "WriteResp", target \in Periph
  PROVE  BusyEffect
<1>1. Master!busy /\ WriteRespPhase(slave[target]) /\ op.kind = "store"
      /\ effects' = IF EffectNow(ready) /\ effects < 2 THEN effects + 1 ELSE effects
  BY FrozenTick DEF IInv, TargetPhase, Master!busy
<1>2. \A p \in Periph : p # target => ~slave[p].write
  BY <1>1, BystandersSleep DEF Asleep
<1>3. EffectNow(ready) <=> slave[target].write
  BY <1>1, EffectAtTarget DEF WriteRespPhase
<1>4. op.addr \in DevAddr
  BY FabricAssumption DEF IInv, TypeOK, Instr, DevAddr, target
<1>5. dev \in [DevAddr -> Data]
  BY DEF IInv, TypeOK
<1>6. CASE slave[target].write
  <2>1. slave[target].addr = op.addr /\ slave[target].write_data = op.data /\ effects = 0
    BY <1>1, <1>6 DEF WriteRespPhase
  <2>2. ASSUME NEW a \in DevAddr
        PROVE  Written(PortOf[a]) /\ slave[PortOf[a]].addr = a <=> a = op.addr
    <3>1. PortOf[a] \in Periph
      BY DEF DevAddr
    <3>2. CASE PortOf[a] = target
      BY <1>6, <2>1, <3>2 DEF Written
    <3>3. CASE PortOf[a] # target
      BY <1>2, <3>1, <3>3 DEF Written, target
    <3> QED
      BY <3>2, <3>3
  <2>3. dev' = [a \in DevAddr |-> IF a = op.addr THEN op.data ELSE dev[a]]
    <3>1. dev' = [a \in DevAddr |->
                    IF Written(PortOf[a]) /\ slave[PortOf[a]].addr = a
                    THEN slave[PortOf[a]].write_data ELSE dev[a]]
      BY DEF Tick, DeviceStep
    <3>2. ASSUME NEW a \in DevAddr
          PROVE  (IF Written(PortOf[a]) /\ slave[PortOf[a]].addr = a
                  THEN slave[PortOf[a]].write_data ELSE dev[a])
                 = IF a = op.addr THEN op.data ELSE dev[a]
      BY <2>1, <2>2 DEF target
    <3> QED
      BY <3>1, <3>2
  <2>4. dev' = [dev EXCEPT ![op.addr] = op.data]
    BY <1>4, <1>5, <2>3
  <2>5. effects' = 1
    BY <1>1, <1>3, <1>6, <2>1
  <2> QED
    BY <1>1, <1>4, <2>1, <2>4, <2>5 DEF BusyEffect
<1>7. CASE ~slave[target].write
  <2>1. dev' = dev
    BY <1>2, <1>7, DevicesKeep DEF IInv, Tick
  <2> QED
    BY <1>1, <1>3, <1>7, <2>1 DEF BusyEffect
<1> QED
  BY <1>6, <1>7

\* An access to an unmapped region changes no device.
LEMMA UnmappedEffect ==
  ASSUME IInv, NEW next \in Instr, NEW ready, Tick(next, ready),
         Master!busy, target \notin Periph
  PROVE  BusyEffect
<1>1. dev' = dev /\ effects = 0
      /\ effects' = IF EffectNow(ready) /\ effects < 2 THEN effects + 1 ELSE effects
  BY EffectAtDummy, FrozenTick DEF IInv, TargetPhase, DummyPhase
<1>2. op.addr \notin DevAddr
  BY DEF DevAddr, target
<1> QED
  BY <1>1, <1>2 DEF BusyEffect

\* A busy edge performs the access or is invisible.
LEMMA BusyRefines ==
  ASSUME IInv, IInv', NEW next \in Instr, NEW ready, Tick(next, ready), Master!busy
  PROVE  Abstract!Perform \/ UNCHANGED Abstract!vars
<1>1. op' = op /\ mem2wb' = mem2wb /\ mem_access_state' = mem_access_state
  BY BusyHolds
<1>2. /\ mem_access_state # "Idle" /\ op.kind \in {"load", "store"}
  BY FrozenTick
<1>3. BusyEffect
  <2>1. m.state \in {"ReadData", "WriteData", "WriteResp"}
    BY DEF IInv, TypeOK, Master!TypeOK, Master!Registers, Master!MasterStates, Master!busy
  <2> QED
    BY <2>1, ReadEffect, WriteDataEffect, WriteRespEffect, UnmappedEffect
<1>4. effects \in {0, 1}
  BY DEF IInv, ExactlyOnce, TypeOK
<1>5. /\ AbstractResult = IF AbstractPhase = "performed" /\ op.kind = "load"
                          THEN LoadedWord ELSE NoResult
      /\ AbstractResult' = IF AbstractPhase' = "performed" /\ op'.kind = "load"
                           THEN LoadedWord' ELSE NoResult
  BY ResultIs, NextResultIs DEF ResultFromDevice
<1>6. DevAddr' = DevAddr
  BY DEF DevAddr
<1>7. CASE effects' = effects /\ dev' = dev
  <2>1. AbstractPhase' = AbstractPhase
    BY <1>1, <1>7 DEF AbstractPhase
  <2>2. LoadedWord' = LoadedWord
    BY <1>1, <1>6, <1>7 DEF LoadedWord
  <2> QED
    BY <1>1, <1>5, <1>7, <2>1, <2>2 DEF Abstract!vars
<1>8. CASE /\ effects = 0 /\ effects' = 1
           /\ dev' = IF op.kind = "store" /\ op.addr \in DevAddr
                     THEN [dev EXCEPT ![op.addr] = op.data] ELSE dev
  <2>1. AbstractPhase = "pending"
    BY <1>2, <1>8, PhaseIs
  <2>2. AbstractPhase' = "performed"
    BY <1>1, <1>2, <1>8 DEF AbstractPhase
  <2>3. AbstractResult' = IF op.kind = "store" THEN NoResult
                          ELSE IF op.addr \in DevAddr THEN dev[op.addr] ELSE ErrorData
    BY <1>1, <1>2, <1>5, <1>6, <1>8, <2>2 DEF LoadedWord
  <2> QED
    BY <1>1, <1>8, <2>1, <2>2, <2>3 DEF Abstract!Perform
<1> QED
  BY <1>3, <1>7, <1>8 DEF BusyEffect

-----------------------------------------------------------------------------
(***************************************************************************)
(* An edge while the master is idle.                                       *)
(***************************************************************************)
\* With no transaction under way an edge starts an access or retires an instruction.
LEMMA IdleRefines ==
  ASSUME IInv, IInv', NEW next \in Instr, NEW ready, Tick(next, ready), m.state = "Idle"
  PROVE  Abstract!Start \/ Abstract!Retire(next)
<1>1. dev' = dev /\ ~EffectNow(ready)
  BY QuietTick
<1>2. /\ AbstractResult = IF AbstractPhase = "performed" /\ op.kind = "load"
                          THEN LoadedWord ELSE NoResult
      /\ AbstractResult' = IF AbstractPhase' = "performed" /\ op'.kind = "load"
                           THEN LoadedWord' ELSE NoResult
  BY ResultIs, NextResultIs DEF ResultFromDevice
<1>3. op \in Instr /\ mem_access_state \in {"Idle", "Read", "Write"}
  BY DEF IInv, TypeOK, Mem!TypeOK
<1>4. op.kind \in {"bubble", "alu", "load", "store"}
  BY <1>3 DEF Instr
<1>5. CASE mem_access_state = "Idle" /\ op.kind \in {"load", "store"}
  <2>1. mem_access_state' # "Idle"
    BY <1>5
       DEF Tick, Mem!Step, Mem!AwaitRead, Mem!FinishRead, Mem!AwaitWrite, Mem!FinishWrite,
           Mem!StartRead, Mem!StartWrite, Mem!Pass, ToMem, Master!busy,
           Mem!memory_read_enable, Mem!memory_write_enable
  <2>2. op' = op /\ mem2wb' = mem2wb /\ effects' = effects
    BY <1>1, <1>5
       DEF Tick, PipelineStep, HistoryStep, mem_stall, ToMem, Mem!ctrl_stall_flag,
           Mem!memory_read_enable, Mem!memory_write_enable
  <2>3. AbstractPhase = "ready" /\ AbstractPhase' = "pending"
    BY <1>5, <2>1, <2>2, PhaseIs DEF IInv, TargetPhase, AbstractPhase
  <2> QED
    BY <1>1, <1>2, <1>5, <2>2, <2>3 DEF Abstract!Start, Abstract!Uses
<1>6. CASE mem_access_state = "Idle" /\ op.kind \notin {"load", "store"}
  <2>1. mem_access_state' = "Idle"
    BY <1>6
       DEF Tick, Mem!Step, Mem!AwaitRead, Mem!FinishRead, Mem!AwaitWrite, Mem!FinishWrite,
           Mem!StartRead, Mem!StartWrite, Mem!Pass, ToMem, Master!busy,
           Mem!memory_read_enable, Mem!memory_write_enable
  <2>2. op' = next /\ mem2wb' = Mem!ToWriteBack(op, ToMem)
    BY <1>6
       DEF Tick, PipelineStep, mem_stall, ToMem, Mem!ctrl_stall_flag,
           Mem!memory_read_enable, Mem!memory_write_enable
  <2>3. Mem!ToWriteBack(op, ToMem) =
          [ rd |-> op.rd, enable |-> op.kind \in {"alu", "load"}, value |-> op.data ]
    BY <1>6 DEF Mem!ToWriteBack, Mem!in_active_read, Mem!regs_write_source,
                Mem!regs_write_enable
  <2>4. AbstractPhase = "ready" /\ AbstractPhase' = "ready"
    BY <1>6, <2>1, PhaseIs DEF AbstractPhase
  <2> QED
    BY <1>1, <1>2, <1>6, <2>2, <2>3, <2>4 DEF Abstract!Retire, Abstract!Uses
<1>7. CASE mem_access_state # "Idle"
  <2>1. \/ mem_access_state = "Read" /\ m.read_valid /\ op.kind = "load"
        \/ mem_access_state = "Write" /\ m.write_valid /\ op.kind = "store"
    BY <1>3, <1>7 DEF IInv, StallFollowsTransaction, StallMatchesOp
  <2>2. effects = 1
    BY <2>1 DEF IInv, ExactlyOnce
  <2>3. mem_access_state' = "Idle"
    BY <2>1
       DEF Tick, Mem!Step, Mem!AwaitRead, Mem!FinishRead, Mem!AwaitWrite, Mem!FinishWrite,
           Mem!StartRead, Mem!StartWrite, Mem!Pass, ToMem
  <2>4. op' = next /\ mem2wb' = Mem!ToWriteBack(op, ToMem)
    BY <2>1 DEF Tick, PipelineStep, mem_stall, ToMem, Mem!ctrl_stall_flag
  <2>5. AbstractPhase = "performed" /\ AbstractPhase' = "ready"
    BY <1>7, <2>2, <2>3, PhaseIs DEF AbstractPhase
  <2>6. op.kind = "load" => AbstractResult = m.read_data
    BY <2>1, <2>5 DEF AbstractResult, IInv, StallFollowsTransaction
  <2>7. Mem!ToWriteBack(op, ToMem) =
          [ rd |-> op.rd, enable |-> op.kind \in {"alu", "load"},
            value |-> IF op.kind = "load" THEN AbstractResult ELSE op.data ]
    BY <2>1, <2>6 DEF Mem!ToWriteBack, Mem!in_active_read, Mem!regs_write_source,
                      Mem!regs_write_enable, Mem!wb_memory_read_data, ToMem
  <2> QED
    BY <1>1, <1>2, <2>1, <2>4, <2>5, <2>7 DEF Abstract!Retire, Abstract!Uses
<1> QED
  BY <1>4, <1>5, <1>6, <1>7

-----------------------------------------------------------------------------
\* Reset is the start of LoadStore.
LEMMA InitRefines ==
  Init => Abstract!Init
<1> SUFFICES ASSUME Init PROVE Abstract!Init
  OBVIOUS
<1>1. AbstractPhase = "ready"
  BY PhaseIs DEF Init, Mem!Init
<1> QED
  BY <1>1, FabricAssumption DEF Init, AbstractResult, Abstract!Init, Bubble, Instr

\* Every step of the fabric is a step of LoadStore or is invisible to it.
LEMMA StepRefines ==
  ASSUME IInv, IInv', [Next]_vars
  PROVE  [Abstract!Next]_(Abstract!vars)
<1>1. ASSUME NEW next \in Instr, NEW ready, Tick(next, ready)
      PROVE  [Abstract!Next]_(Abstract!vars)
  <2>1. CASE m.state = "Idle"
    BY <1>1, <2>1, IdleRefines DEF Abstract!Next
  <2>2. CASE m.state # "Idle"
    BY <1>1, <2>2, BusyRefines DEF Abstract!Next, Master!busy
  <2> QED
    BY <2>1, <2>2
<1>2. CASE UNCHANGED vars
  BY <1>2 DEF vars, Abstract!vars, AbstractPhase, AbstractResult
<1> QED
  BY <1>1, <1>2 DEF Next

\* Every load and store is atomic on every board: the fabric, with its handshakes, its
\* latches and its stalls, does what LoadStore says, one effect an access, and nothing else.
THEOREM FabricImplementsLoadStore == Spec => LoadStoreIsAtomic
<1>1. IInv /\ IInv' /\ [Next]_vars => [Abstract!Next]_(Abstract!vars)
  BY StepRefines
<1> QED
  BY <1>1, InitRefines, Invariant, PTL DEF Spec, LoadStoreIsAtomic, Abstract!Spec

-----------------------------------------------------------------------------
\* A busy edge obeys the handshakes: the master keeps what it offers, and no adapter
\* ever offers a response that is not taken at once.
LEMMA StepKeepsHandshakes ==
  ASSUME IInv, NEW next \in Instr, NEW ready, Tick(next, ready)
  PROVE  HandshakeStep
<1>1. m.state \in {"Idle", "ReadData", "WriteData", "WriteResp"}
  BY DEF IInv, TypeOK, Master!TypeOK, Master!Registers, Master!MasterStates
<1>2. /\ m.ARVALID /\ ~ToMaster.ARREADY => m'.ARVALID /\ m'.addr = m.addr
      /\ m.AWVALID /\ ~ToMaster.AWREADY => m'.AWVALID /\ m'.addr = m.addr
      /\ m.WVALID /\ ~ToMaster.WREADY => m'.WVALID /\ m'.write_data = m.write_data
  <2>1. CASE m.state = "ReadData"
    BY <2>1, MasterReading DEF IInv, MasterWires
  <2>2. CASE m.state = "WriteData"
    BY <2>2, MasterWriting DEF IInv, MasterWires
  <2>3. CASE m.state \in {"Idle", "WriteResp"}
    BY <2>3 DEF IInv, MasterWires
  <2> QED
    BY <1>1, <2>1, <2>2, <2>3
<1>3. ASSUME NEW p \in Periph
      PROVE  /\ slave[p].RVALID => Switch!ToPort(p, m).RREADY
             /\ slave[p].BVALID => Switch!ToPort(p, m).BREADY
  <2>1. CASE m.state = "Idle" \/ p # target
    BY <2>1, BystandersSleep DEF Asleep
  <2>2. CASE m.state # "Idle" /\ p = target
    <3>1. CASE m.state = "ReadData"
      BY <2>2, <3>1 DEF IInv, TargetPhase, ReadPhase, Asleep, Latches, MasterWires,
                        Master!busy, Switch!ToPort
    <3>2. CASE m.state = "WriteData"
      BY <2>2, <3>2 DEF IInv, TargetPhase, WriteDataPhase, Master!busy
    <3>3. CASE m.state = "WriteResp"
      BY <2>2, <3>3 DEF IInv, TargetPhase, WriteRespPhase, Latches, MasterWires,
                        Master!busy, Switch!ToPort
    <3> QED
      BY <1>1, <2>2, <3>1, <3>2, <3>3
  <2> QED
    BY <2>1, <2>2
<1> QED
  BY <1>2, <1>3 DEF HandshakeStep

\* On all five channels a VALID, once up, stays up with its payload until it is taken,
\* on every board and however late the peripherals answer.
THEOREM HandshakesHold == Spec => HandshakeStable
<1>1. IInv /\ [Next]_vars => [HandshakeStep]_vars
  BY StepKeepsHandshakes DEF Next
<1> QED
  BY <1>1, Invariant, PTL DEF Spec, HandshakeStable
=============================================================================
