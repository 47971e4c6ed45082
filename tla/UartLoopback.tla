----------------------------- MODULE UartLoopback -----------------------------
(***************************************************************************)
(* The UART with its transmit line wired to its receive line, as the       *)
(* harness runs it outside terminal mode (verilog/verilator/sim.cpp), and  *)
(* a program that writes and reads the registers in any order and at any   *)
(* time (csrc/uart.c is one).  One Tick is one rising edge.                *)
(***************************************************************************)
EXTENDS UART

CONSTANTS
  Payloads,  \* the bytes the program sends
  Credit     \* how many bytes it sends ahead of what it has read

ASSUME LoopbackAssumption == Payloads \subseteq Byte /\ Credit \in Nat \ {0}

VARIABLES
  inflight, \* history: the bytes the transmitter took and the program has not read
  override  \* history: what the program's last write to INTERRUPT did, until the
            \* FIFO takes a byte or gives away its last

vars == <<uart_vars, inflight, override>>

TypeOK ==
  /\ UartTypeOK
  /\ inflight \in Seq(Payloads) /\ Len(inflight) <= Credit
  /\ override \in BOOLEAN

Init ==
  /\ UartInit
  /\ inflight = <<>>
  /\ override = FALSE

InflightStep(bundle) ==
  LET rest == IF deq_fire(bundle) /\ inflight # <<>> THEN Tail(inflight) ELSE inflight
  IN inflight' = IF accepted(bundle) THEN Append(rest, bundle.data) ELSE rest

OverrideStep(bundle) ==
  override' = \/ Writes(bundle, "INTERRUPT")
              \/ override /\ ~enq_fire(bundle) /\ ~(deq_fire(bundle) /\ Len(rxFifo) = 1)

Tick(bundle) ==
  /\ UartStep(bundle, txd)
  /\ InflightStep(bundle)
  /\ OverrideStep(bundle)

Access(op, reg, data) == [ op |-> op, reg |-> reg, data |-> data ]

\* Nothing, or a read that changes no register (STATUS, BAUD_RATE).
Wait == Tick(Access("none", "STATUS", Zero))

Receive == Tick(Access("read", "RX_DATA", Zero))

Send ==
  /\ Len(inflight) < Credit
  /\ \E byte \in Payloads : Tick(Access("write", "TX_DATA", byte))

SetInterrupt == \E byte \in {Zero, [Zero EXCEPT ![1] = 1]} : Tick(Access("write", "INTERRUPT", byte))

Next == Wait \/ Receive \/ Send \/ SetInterrupt

Spec == Init /\ [][Next]_vars

\* A clock that runs; the program does what it likes.
FairSpec == Spec /\ WF_vars(Next)

-----------------------------------------------------------------------------
\* BytesArriveIntact: what the FIFO and the receiver hold is the beginning of
\* what was sent and not yet read: no byte is lost, repeated, garbled or out of
\* order, if the program is never more than Credit bytes ahead of its reading.
BytesArriveIntact ==
  LET held == rxFifo \o IF rx.valReg THEN <<rx.shiftReg>> ELSE <<>>
  IN /\ Len(held) <= Len(inflight)
     /\ held = SubSeq(inflight, 1, Len(held))

\* InterruptTellsFifo: unless software set or cleared it since, the flag is up
\* exactly while there is a byte to read, also when one byte arrives in the
\* cycle in which another is read.
InterruptTellsFifo == override \/ (interrupt <=> rx_valid)

\* BytesArrive: what the transmitter took reaches the FIFO, whatever accesses
\* the program makes meanwhile.
BytesArrive == (inflight # <<>>) ~> rx_valid

\* OnlySentBytes: the FIFO delivers no byte that was not sent; a reception
\* begins with a start bit.
OnlySentBytes == \A i \in DOMAIN rxFifo : rxFifo[i] \in Payloads
=============================================================================
