--------------------------------- MODULE UART ---------------------------------
(***************************************************************************)
(* The UART (peripheral/UART.scala): transmitter with its one-byte buffer, *)
(* receiver, receive FIFO, interrupt flag and register file.               *)
(*                                                                         *)
(* A byte is the sequence of its bits, the least significant first, so     *)
(* that shifting right and inserting at the top is Append(Tail(s), bit).   *)
(* Step(bundle, rxd) is one rising clock edge: bundle is the access that   *)
(* the AXI4-Lite adapter strobes in this cycle, rxd the receive line.      *)
(***************************************************************************)
EXTENDS Integers, Sequences

CONSTANTS
  frequency, baudRate,
  DATA_BITS,   \* 8 in the source
  FifoEntries, \* 4 in the source
  MaxCount     \* the largest number a counter of COUNTER_WIDTH bits holds

ASSUME UartAssumption ==
  {frequency, baudRate, DATA_BITS, FifoEntries, MaxCount} \subseteq Nat \ {0}

Bit  == {0, 1}
Byte == [1 .. DATA_BITS -> Bit]

STOP_BITS     == 2
TX_FRAME_BITS == 1 + DATA_BITS + STOP_BITS
TX_IDLE       == [i \in 1 .. TX_FRAME_BITS |-> 1]

BIT_CNT   == (frequency + baudRate \div 2) \div baudRate - 1
START_CNT == ((3 * frequency) \div 2 + baudRate \div 2) \div baudRate - 1

\* The reload values fit the counters.
ASSUME CounterAssumption == {BIT_CNT, START_CNT} \subseteq 0 .. MaxCount

VARIABLES
  tx,        \* [shiftReg, cntReg, bitsReg]
  buf,       \* [full, data]: the buffer in front of tx
  rx,        \* [sync, rxReg, shiftReg, cntReg, bitsReg, valReg]
  rxFifo,
  interrupt

uart_vars == <<tx, buf, rx, rxFifo, interrupt>>

UartTypeOK ==
  /\ tx \in [ shiftReg: [1 .. TX_FRAME_BITS -> Bit], cntReg: 0 .. MaxCount,
              bitsReg: 0 .. TX_FRAME_BITS ]
  /\ buf \in [ full: BOOLEAN, data: Byte ]
  /\ rx \in [ sync: Bit, rxReg: Bit, shiftReg: Byte,
              cntReg: 0 .. MaxCount, bitsReg: 0 .. DATA_BITS, valReg: BOOLEAN ]
  /\ rxFifo \in Seq(Byte) /\ Len(rxFifo) <= FifoEntries
  /\ interrupt \in BOOLEAN

Zero == [i \in 1 .. DATA_BITS |-> 0]

UartInit ==
  /\ tx = [ shiftReg |-> TX_IDLE, cntReg |-> 0, bitsReg |-> 0 ]
  /\ buf = [ full |-> FALSE, data |-> Zero ]
  /\ rx = [ sync |-> 1, rxReg |-> 1, shiftReg |-> Zero, cntReg |-> 0, bitsReg |-> 0,
            valReg |-> FALSE ]
  /\ rxFifo = <<>>
  /\ interrupt = FALSE

-----------------------------------------------------------------------------
(***************************************************************************)
(* The register accesses: op is "none", "read" or "write".                 *)
(***************************************************************************)
Reads(bundle, reg)  == bundle.op = "read" /\ bundle.reg = reg
Writes(bundle, reg) == bundle.op = "write" /\ bundle.reg = reg

tx_ready == ~buf.full
rx_valid == rxFifo # <<>>
txd      == tx.shiftReg[1]

\* A byte written while the buffer is full is dropped.
accepted(bundle) == Writes(bundle, "TX_DATA") /\ tx_ready

deq_ready(bundle) == Reads(bundle, "RX_DATA")
deq_fire(bundle)  == deq_ready(bundle) /\ rx_valid

\* Variant: the FIFO is taken to have room always.
enq_ready_always(bundle) == bundle.op \in {"none", "read", "write"}

\* The FIFO takes a byte when it has room or gives one away in this cycle.
enq_ready(bundle) == Len(rxFifo) < FifoEntries \/ deq_ready(bundle)
enq_fire(bundle)  == rx.valReg /\ enq_ready(bundle)

(***************************************************************************)
(* The transmitter: start bit, data bits, stop bits, each for BIT_CNT + 1  *)
(* cycles.                                                                 *)
(***************************************************************************)
\* Variant: the buffer is told ready between any two bits of a frame.
channel_ready_between_bits == tx.cntReg = 0

channel_ready == tx.cntReg = 0 /\ tx.bitsReg = 0

TxStep ==
  tx' = IF tx.cntReg # 0 THEN [tx EXCEPT !.cntReg = @ - 1]
        ELSE IF tx.bitsReg # 0
        THEN [ shiftReg |-> Append(Tail(tx.shiftReg), 1), cntReg |-> BIT_CNT,
               bitsReg |-> tx.bitsReg - 1 ]
        ELSE [ shiftReg |-> IF buf.full THEN <<0>> \o buf.data \o <<1, 1>> ELSE TX_IDLE,
               cntReg |-> BIT_CNT,
               bitsReg |-> IF buf.full THEN TX_FRAME_BITS ELSE 0 ]

\* Variant: the buffer takes a byte whether or not it holds one.
BufferOverwrites(bundle) ==
  buf' = IF Writes(bundle, "TX_DATA") THEN [ full |-> TRUE, data |-> bundle.data ]
         ELSE [buf EXCEPT !.full = @ /\ ~channel_ready]

BufferStep(bundle) ==
  buf' = IF buf.full THEN [buf EXCEPT !.full = ~channel_ready]
         ELSE IF accepted(bundle) THEN [ full |-> TRUE, data |-> bundle.data ] ELSE buf

(***************************************************************************)
(* The receiver samples the synchronized line in the middle of each bit.   *)
(***************************************************************************)
RxSamples ==
  IF rx.cntReg # 0 THEN [rx EXCEPT !.cntReg = @ - 1]
  ELSE IF rx.bitsReg # 0
  THEN [rx EXCEPT !.cntReg = BIT_CNT, !.shiftReg = Append(Tail(@), rx.rxReg),
                  !.bitsReg = @ - 1, !.valReg = @ \/ rx.bitsReg = 1]
  ELSE IF rx.rxReg = 0 /\ ~rx.valReg
  THEN [rx EXCEPT !.cntReg = START_CNT, !.bitsReg = DATA_BITS]
  ELSE rx

RxStep(bundle, rxd) ==
  rx' = [RxSamples EXCEPT !.sync = rxd, !.rxReg = rx.sync,
                          !.valReg = @ /\ ~enq_fire(bundle)]

FifoStep(bundle) ==
  LET rest == IF deq_fire(bundle) THEN Tail(rxFifo) ELSE rxFifo
  IN rxFifo' = IF enq_fire(bundle) THEN Append(rest, rx.shiftReg) ELSE rest

(***************************************************************************)
(* The interrupt flag: a write of software wins over an arriving byte, and *)
(* that over the read of the last byte.                                    *)
(***************************************************************************)
\* Variant: the read of the last byte wins over an arriving one.
InterruptReadFirst(bundle) ==
  interrupt' =
    IF Writes(bundle, "INTERRUPT") THEN bundle.data # Zero
    ELSE IF deq_fire(bundle) /\ Len(rxFifo) = 1 THEN FALSE
    ELSE interrupt \/ enq_fire(bundle)

InterruptStep(bundle) ==
  interrupt' =
    IF Writes(bundle, "INTERRUPT") THEN bundle.data # Zero
    ELSE IF enq_fire(bundle) THEN TRUE
    ELSE interrupt /\ ~(deq_fire(bundle) /\ Len(rxFifo) = 1)

UartStep(bundle, rxd) ==
  /\ TxStep
  /\ BufferStep(bundle)
  /\ RxStep(bundle, rxd)
  /\ FifoStep(bundle)
  /\ InterruptStep(bundle)
=============================================================================
