-------------------------- MODULE UartLoopbackProofs --------------------------
(***************************************************************************)
(* Theorems about the UART in loopback, for every clock and baud rate that *)
(* fits the counters, every width of a byte, depth of the FIFO, set of     *)
(* payloads and credit.                                                    *)
(***************************************************************************)
EXTENDS UartLoopback, SequenceTheorems, TLAPS

\* Shifting a register of n elements keeps their number and their kind.
LEMMA ShiftType ==
  ASSUME NEW S, NEW n \in Nat \ {0}, NEW s \in [1 .. n -> S], NEW e \in S
  PROVE  Append(Tail(s), e) \in [1 .. n -> S]
<1>1. s \in Seq(S) /\ Len(s) = n
  OBVIOUS
<1>2. Tail(s) \in Seq(S) /\ Len(Tail(s)) = n - 1
  BY <1>1
<1>3. Append(Tail(s), e) \in Seq(S) /\ Len(Append(Tail(s), e)) = n
  BY <1>2
<1> DEFINE shifted == Append(Tail(s), e)
<1> HIDE DEF shifted
<1>4. shifted \in Seq(S) /\ Len(shifted) = n
  BY <1>3 DEF shifted
<1>5. shifted \in [1 .. Len(shifted) -> S]
  BY <1>4, LenProperties
<1>6. shifted \in [1 .. n -> S]
  BY <1>4, <1>5
<1> QED
  BY <1>6 DEF shifted

\* A frame around a byte has the width of the transmitter's shift register.
LEMMA FrameType ==
  ASSUME NEW data \in Byte
  PROVE  <<0>> \o data \o <<1, 1>> \in [1 .. TX_FRAME_BITS -> Bit]
<1>0. DATA_BITS \in Nat
  BY UartAssumption
<1>1. data \in Seq(Bit) /\ Len(data) = DATA_BITS
  BY <1>0 DEF Byte
<1>2. <<0>> \in Seq(Bit) /\ <<1, 1>> \in Seq(Bit)
  BY DEF Bit
<1>3. <<0>> \o data \in Seq(Bit) /\ Len(<<0>> \o data) = DATA_BITS + 1
  BY <1>0, <1>1, <1>2
<1> DEFINE frame == <<0>> \o data \o <<1, 1>>
<1>4. frame \in Seq(Bit) /\ Len(frame) = DATA_BITS + 3
  BY <1>0, <1>2, <1>3
<1>5. TX_FRAME_BITS = DATA_BITS + 3
  BY <1>0 DEF TX_FRAME_BITS, STOP_BITS
<1> HIDE DEF frame
<1>6. frame \in [1 .. TX_FRAME_BITS -> Bit]
  BY <1>4, <1>5
<1> QED
  BY <1>6 DEF frame

\* An access of the program: a register operation with a byte.
AccessOK(bundle) == bundle.data \in Byte

\* One edge of the transmitter keeps its type.
LEMMA TxType ==
  ASSUME UartTypeOK, TxStep
  PROVE  tx' \in [ shiftReg: [1 .. TX_FRAME_BITS -> Bit], cntReg: 0 .. MaxCount,
                   bitsReg: 0 .. TX_FRAME_BITS ]
<1>0. TX_FRAME_BITS \in Nat \ {0} /\ BIT_CNT \in 0 .. MaxCount /\ MaxCount \in Nat
  BY UartAssumption, CounterAssumption DEF TX_FRAME_BITS, STOP_BITS
<1>1. Append(Tail(tx.shiftReg), 1) \in [1 .. TX_FRAME_BITS -> Bit]
  <2>1. tx.shiftReg \in [1 .. TX_FRAME_BITS -> Bit] /\ 1 \in Bit
    BY DEF UartTypeOK, Bit
  <2> QED
    BY <1>0, <2>1, ShiftType
<1>2. <<0>> \o buf.data \o <<1, 1>> \in [1 .. TX_FRAME_BITS -> Bit]
  BY FrameType DEF UartTypeOK
<1>3. TX_IDLE \in [1 .. TX_FRAME_BITS -> Bit]
  BY DEF TX_IDLE, Bit
<1>4. tx \in [ shiftReg: [1 .. TX_FRAME_BITS -> Bit], cntReg: 0 .. MaxCount,
                bitsReg: 0 .. TX_FRAME_BITS ]
  BY DEF UartTypeOK
<1>5. CASE tx.cntReg # 0
  <2>1. tx.cntReg - 1 \in 0 .. MaxCount
    BY <1>0, <1>4, <1>5
  <2> QED
    BY <1>4, <1>5, <2>1 DEF TxStep
<1>6. CASE tx.cntReg = 0 /\ tx.bitsReg # 0
  <2>1. tx.bitsReg - 1 \in 0 .. TX_FRAME_BITS
    BY <1>0, <1>4, <1>6
  <2> QED
    BY <1>0, <1>1, <1>6, <2>1 DEF TxStep
<1>7. CASE tx.cntReg = 0 /\ tx.bitsReg = 0
  <2>1. TX_FRAME_BITS \in 0 .. TX_FRAME_BITS /\ 0 \in 0 .. TX_FRAME_BITS
    BY <1>0
  <2> QED
    BY <1>0, <1>2, <1>3, <1>7, <2>1 DEF TxStep
<1> QED
  BY <1>5, <1>6, <1>7

\* One edge of the receiver keeps its type.
LEMMA RxType ==
  ASSUME UartTypeOK, NEW bundle, NEW rxd \in Bit, RxStep(bundle, rxd)
  PROVE  rx' \in [ sync: Bit, rxReg: Bit, shiftReg: Byte, cntReg: 0 .. MaxCount,
                   bitsReg: 0 .. DATA_BITS, valReg: BOOLEAN ]
<1>0. DATA_BITS \in Nat \ {0} /\ BIT_CNT \in 0 .. MaxCount /\ START_CNT \in 0 .. MaxCount
        /\ MaxCount \in Nat
  BY UartAssumption, CounterAssumption
<1>1. Append(Tail(rx.shiftReg), rx.rxReg) \in Byte
  BY <1>0, ShiftType DEF UartTypeOK, Byte
<1>2. RxSamples \in [ sync: Bit, rxReg: Bit, shiftReg: Byte, cntReg: 0 .. MaxCount,
                      bitsReg: 0 .. DATA_BITS, valReg: BOOLEAN ]
  <2>0. rx \in [ sync: Bit, rxReg: Bit, shiftReg: Byte, cntReg: 0 .. MaxCount,
                 bitsReg: 0 .. DATA_BITS, valReg: BOOLEAN ]
    BY DEF UartTypeOK
  <2>1. CASE rx.cntReg # 0
    <3>1. rx.cntReg - 1 \in 0 .. MaxCount
      BY <1>0, <2>0, <2>1
    <3> QED
      BY <2>0, <2>1, <3>1 DEF RxSamples
  <2>2. CASE rx.cntReg = 0 /\ rx.bitsReg # 0
    <3>1. rx.bitsReg - 1 \in 0 .. DATA_BITS
      BY <1>0, <2>0, <2>2
    <3>2. (rx.valReg \/ rx.bitsReg = 1) \in BOOLEAN
      OBVIOUS
    <3> QED
      BY <1>0, <1>1, <2>0, <2>2, <3>1, <3>2 DEF RxSamples
  <2>3. CASE rx.cntReg = 0 /\ rx.bitsReg = 0
    <3>1. DATA_BITS \in 0 .. DATA_BITS
      BY <1>0
    <3> QED
      BY <1>0, <2>0, <2>3, <3>1 DEF RxSamples
  <2> QED
    BY <2>1, <2>2, <2>3
<1>3. (RxSamples.valReg /\ ~enq_fire(bundle)) \in BOOLEAN
  OBVIOUS
<1> QED
  BY <1>2, <1>3 DEF RxStep, UartTypeOK

\* One edge of the FIFO keeps its type and never takes a byte too many.
LEMMA FifoType ==
  ASSUME UartTypeOK, NEW bundle, FifoStep(bundle)
  PROVE  rxFifo' \in Seq(Byte) /\ Len(rxFifo') <= FifoEntries
<1>0. FifoEntries \in Nat \ {0} /\ rx.shiftReg \in Byte /\ rxFifo \in Seq(Byte)
        /\ Len(rxFifo) \in Nat /\ Len(rxFifo) <= FifoEntries
  BY UartAssumption DEF UartTypeOK
<1> DEFINE rest == IF deq_fire(bundle) THEN Tail(rxFifo) ELSE rxFifo
<1>1. rest \in Seq(Byte) /\ Len(rest) = IF deq_fire(bundle) THEN Len(rxFifo) - 1 ELSE Len(rxFifo)
  BY <1>0 DEF deq_fire, rx_valid
<1>2. enq_fire(bundle) => Len(rest) < FifoEntries
  <2>1. CASE deq_fire(bundle)
    BY <1>0, <1>1, <2>1
  <2>2. CASE ~deq_fire(bundle)
    <3>1. enq_fire(bundle) => Len(rxFifo) < FifoEntries \/ rxFifo = <<>>
      BY <2>2 DEF enq_fire, enq_ready, deq_fire, rx_valid
    <3> QED
      BY <1>0, <1>1, <2>2, <3>1
  <2> QED
    BY <2>1, <2>2
<1>3. rxFifo' = IF enq_fire(bundle) THEN Append(rest, rx.shiftReg) ELSE rest
  BY DEF FifoStep
<1> HIDE DEF rest
<1>4. CASE enq_fire(bundle)
  BY <1>0, <1>1, <1>2, <1>3, <1>4
<1>5. CASE ~enq_fire(bundle)
  BY <1>0, <1>1, <1>3, <1>5
<1> QED
  BY <1>4, <1>5

\* One edge of the interrupt flag and of the buffer keeps their types.
LEMMA FlagAndBufferType ==
  ASSUME UartTypeOK, NEW bundle, AccessOK(bundle), BufferStep(bundle), InterruptStep(bundle)
  PROVE  buf' \in [ full: BOOLEAN, data: Byte ] /\ interrupt' \in BOOLEAN
<1>1. buf' \in [ full: BOOLEAN, data: Byte ]
  <2>1. buf \in [ full: BOOLEAN, data: Byte ] /\ bundle.data \in Byte
    BY DEF UartTypeOK, AccessOK
  <2>2. (~channel_ready) \in BOOLEAN
    BY DEF channel_ready
  <2>3. CASE buf.full
    BY <2>1, <2>2, <2>3 DEF BufferStep
  <2>4. CASE ~buf.full
    BY <2>1, <2>4 DEF BufferStep
  <2> QED
    BY <2>3, <2>4
<1>2. interrupt' \in BOOLEAN
  BY DEF InterruptStep, UartTypeOK
<1> QED
  BY <1>1, <1>2

\* What stands on the transmit line is a bit.
LEMMA LineType == ASSUME UartTypeOK PROVE txd \in Bit
<1>1. tx.shiftReg \in [1 .. TX_FRAME_BITS -> Bit] /\ 1 \in 1 .. TX_FRAME_BITS
  BY UartAssumption DEF UartTypeOK, TX_FRAME_BITS, STOP_BITS
<1> QED
  BY <1>1 DEF txd

\* One edge of the UART keeps the type of all its registers.
LEMMA UartType ==
  ASSUME UartTypeOK, NEW bundle, AccessOK(bundle), NEW rxd \in Bit, UartStep(bundle, rxd)
  PROVE  UartTypeOK'
<1>1. tx' \in [ shiftReg: [1 .. TX_FRAME_BITS -> Bit], cntReg: 0 .. MaxCount,
                 bitsReg: 0 .. TX_FRAME_BITS ]
  BY TxType DEF UartStep
<1>2. rx' \in [ sync: Bit, rxReg: Bit, shiftReg: Byte, cntReg: 0 .. MaxCount,
                 bitsReg: 0 .. DATA_BITS, valReg: BOOLEAN ]
  BY RxType DEF UartStep
<1>3. rxFifo' \in Seq(Byte) /\ Len(rxFifo') <= FifoEntries
  BY FifoType DEF UartStep
<1>4. buf' \in [ full: BOOLEAN, data: Byte ] /\ interrupt' \in BOOLEAN
  BY FlagAndBufferType DEF UartStep
<1> QED
  BY <1>1, <1>2, <1>3, <1>4 DEF UartTypeOK

-----------------------------------------------------------------------------
(***************************************************************************)
(* The program's side.                                                     *)
(***************************************************************************)
\* Every step is an edge with a well-typed access, and one that the
\* transmitter may take only while the program has credit.
LEMMA StepIsTick ==
  ASSUME TypeOK, Next
  PROVE  \E bundle : /\ AccessOK(bundle)
                     /\ Tick(bundle)
                     /\ accepted(bundle) => Len(inflight) < Credit /\ bundle.data \in Payloads
<1>0. Zero \in Byte
  BY DEF Zero, Byte, Bit
<1>1. CASE Wait
  <2> DEFINE bundle == Access("none", "STATUS", Zero)
  <2>1. AccessOK(bundle) /\ Tick(bundle) /\ ~accepted(bundle)
    BY <1>0, <1>1 DEF Wait, AccessOK, Access, accepted, Writes
  <2> QED
    BY <2>1
<1>2. CASE Receive
  <2> DEFINE bundle == Access("read", "RX_DATA", Zero)
  <2>1. AccessOK(bundle) /\ Tick(bundle) /\ ~accepted(bundle)
    BY <1>0, <1>2 DEF Receive, AccessOK, Access, accepted, Writes
  <2> QED
    BY <2>1
<1>3. CASE Send
  <2>1. PICK byte \in Payloads : Tick(Access("write", "TX_DATA", byte))
    BY <1>3 DEF Send
  <2> DEFINE bundle == Access("write", "TX_DATA", byte)
  <2>2. AccessOK(bundle) /\ bundle.data \in Payloads /\ Len(inflight) < Credit
    BY <1>3, LoopbackAssumption DEF Send, AccessOK, Access
  <2> QED
    BY <2>1, <2>2
<1>4. CASE SetInterrupt
  <2>1. PICK byte \in {Zero, [Zero EXCEPT ![1] = 1]} : Tick(Access("write", "INTERRUPT", byte))
    BY <1>4 DEF SetInterrupt
  <2>2. byte \in Byte
    BY <1>0, <2>1 DEF Byte, Bit
  <2> DEFINE bundle == Access("write", "INTERRUPT", byte)
  <2>3. AccessOK(bundle) /\ Tick(bundle) /\ ~accepted(bundle)
    BY <2>1, <2>2 DEF AccessOK, Access, accepted, Writes
  <2> QED
    BY <2>3
<1> QED
  BY <1>1, <1>2, <1>3, <1>4 DEF Next

\* The history of what is in flight keeps its type.
LEMMA HistoryType ==
  ASSUME TypeOK, NEW bundle, InflightStep(bundle), OverrideStep(bundle),
         accepted(bundle) => Len(inflight) < Credit /\ bundle.data \in Payloads
  PROVE  inflight' \in Seq(Payloads) /\ Len(inflight') <= Credit /\ override' \in BOOLEAN
<1>0. /\ inflight \in Seq(Payloads) /\ Len(inflight) <= Credit
      /\ Len(inflight) \in Nat /\ Credit \in Nat
  BY LoopbackAssumption DEF TypeOK
<1> DEFINE rest == IF deq_fire(bundle) /\ inflight # <<>> THEN Tail(inflight) ELSE inflight
<1>1. rest \in Seq(Payloads) /\ Len(rest) <= Len(inflight) /\ Len(rest) \in Nat
  BY <1>0
<1>2. inflight' = IF accepted(bundle) THEN Append(rest, bundle.data) ELSE rest
  BY DEF InflightStep
<1> HIDE DEF rest
<1>3. CASE accepted(bundle)
  BY <1>0, <1>1, <1>2, <1>3 DEF OverrideStep
<1>4. CASE ~accepted(bundle)
  BY <1>0, <1>1, <1>2, <1>4 DEF OverrideStep
<1> QED
  BY <1>3, <1>4

\* The registers and the histories keep their types; in particular the FIFO
\* never holds more than its entries, whatever byte arrives while it is full.
THEOREM TypeCorrect == Spec => []TypeOK
<1>1. Init => TypeOK
  <2> SUFFICES ASSUME Init PROVE TypeOK
    OBVIOUS
  <2>1. TX_IDLE \in [1 .. TX_FRAME_BITS -> Bit] /\ Zero \in Byte /\ 1 \in Bit
    BY DEF TX_IDLE, Zero, Byte, Bit
  <2>2. 0 \in 0 .. MaxCount /\ 0 \in 0 .. DATA_BITS /\ 0 \in 0 .. TX_FRAME_BITS
    BY UartAssumption DEF TX_FRAME_BITS, STOP_BITS
  <2>3. 0 <= FifoEntries /\ 0 <= Credit
    BY UartAssumption, LoopbackAssumption
  <2>4. /\ tx \in [ shiftReg: [1 .. TX_FRAME_BITS -> Bit], cntReg: 0 .. MaxCount,
                     bitsReg: 0 .. TX_FRAME_BITS ]
        /\ buf \in [ full: BOOLEAN, data: Byte ]
    BY <2>1, <2>2 DEF Init, UartInit
  <2>5. rx \in [ sync: Bit, rxReg: Bit, shiftReg: Byte, cntReg: 0 .. MaxCount,
                 bitsReg: 0 .. DATA_BITS, valReg: BOOLEAN ]
    BY <2>1, <2>2 DEF Init, UartInit
  <2>6. rxFifo = <<>> /\ inflight = <<>> /\ interrupt = FALSE /\ override = FALSE
    BY DEF Init, UartInit
  <2>7. /\ rxFifo \in Seq(Byte) /\ Len(rxFifo) <= FifoEntries
        /\ inflight \in Seq(Payloads) /\ Len(inflight) <= Credit
    BY <2>3, <2>6
  <2> QED
    BY <2>4, <2>5, <2>6, <2>7 DEF TypeOK, UartTypeOK
<1>2. TypeOK /\ [Next]_vars => TypeOK'
  <2> SUFFICES ASSUME TypeOK, [Next]_vars PROVE TypeOK'
    OBVIOUS
  <2>1. CASE Next
    <3>1. PICK bundle : /\ AccessOK(bundle)
                        /\ Tick(bundle)
                        /\ accepted(bundle) => Len(inflight) < Credit /\ bundle.data \in Payloads
      BY <2>1, StepIsTick
    <3>a. PICK rxd \in Bit : rxd = txd
      BY LineType DEF TypeOK
    <3>2. UartTypeOK'
      BY <3>1, <3>a, UartType DEF Tick, TypeOK
    <3>3. inflight' \in Seq(Payloads) /\ Len(inflight') <= Credit /\ override' \in BOOLEAN
      BY <3>1, HistoryType DEF Tick
    <3> QED
      BY <3>2, <3>3 DEF TypeOK
  <2>2. CASE UNCHANGED vars
    BY <2>2 DEF vars, uart_vars, TypeOK, UartTypeOK
  <2> QED
    BY <2>1, <2>2
<1> QED
  BY <1>1, <1>2, PTL DEF Spec

\* The flag follows the FIFO, whatever access meets whatever byte.
LEMMA FlagFollowsFifo ==
  ASSUME TypeOK, InterruptTellsFifo, NEW bundle, Tick(bundle)
  PROVE  InterruptTellsFifo'
<1>0. /\ rxFifo \in Seq(Byte) /\ Len(rxFifo) \in Nat /\ rx.shiftReg \in Byte
      /\ interrupt \in BOOLEAN
      /\ FifoStep(bundle) /\ InterruptStep(bundle) /\ OverrideStep(bundle)
  BY DEF TypeOK, UartTypeOK, Tick, UartStep
<1>1. CASE Writes(bundle, "INTERRUPT")
  BY <1>0, <1>1 DEF InterruptTellsFifo, OverrideStep
<1>2. CASE ~Writes(bundle, "INTERRUPT") /\ enq_fire(bundle)
  <2>1. interrupt' = TRUE
    BY <1>0, <1>2 DEF InterruptStep
  <2>2. rxFifo' # <<>>
    BY <1>0, <1>2 DEF FifoStep, deq_fire, rx_valid
  <2> QED
    BY <2>1, <2>2 DEF InterruptTellsFifo, rx_valid
<1>3. CASE ~Writes(bundle, "INTERRUPT") /\ ~enq_fire(bundle) /\ deq_fire(bundle)
  <2>1. rxFifo # <<>> /\ rxFifo' = Tail(rxFifo)
    BY <1>0, <1>3 DEF FifoStep, deq_fire, rx_valid
  <2>2. CASE Len(rxFifo) = 1
    <3>0. Len(rxFifo') = 0 /\ rxFifo' \in Seq(Byte)
      BY <1>0, <2>1, <2>2
    <3>1. rxFifo' = <<>>
      BY <3>0
    <3>2. interrupt' = FALSE
      BY <1>0, <1>3, <2>2 DEF InterruptStep
    <3> QED
      BY <3>1, <3>2 DEF InterruptTellsFifo, rx_valid
  <2>3. CASE Len(rxFifo) # 1
    <3>0. Len(rxFifo') # 0
      BY <1>0, <2>1, <2>3
    <3>1. rxFifo' # <<>>
      BY <3>0
    <3>2. interrupt' = interrupt /\ (override' <=> override)
      BY <1>0, <1>3, <2>3 DEF InterruptStep, OverrideStep
    <3> QED
      BY <2>1, <3>1, <3>2 DEF InterruptTellsFifo, rx_valid
  <2> QED
    BY <2>2, <2>3
<1>4. CASE ~Writes(bundle, "INTERRUPT") /\ ~enq_fire(bundle) /\ ~deq_fire(bundle)
  <2>1. rxFifo' = rxFifo
    BY <1>4, <1>0 DEF FifoStep
  <2>2. interrupt' = interrupt /\ (override' <=> override)
    BY <1>0, <1>4 DEF InterruptStep, OverrideStep
  <2> QED
    BY <2>1, <2>2 DEF InterruptTellsFifo, rx_valid
<1> QED
  BY <1>1, <1>2, <1>3, <1>4

\* Unless the program wrote INTERRUPT since, the interrupt flag is up exactly
\* while the FIFO holds a byte, for every depth of the FIFO.
THEOREM FlagCorrect == Spec => []InterruptTellsFifo
<1>1. Init => InterruptTellsFifo
  BY DEF Init, UartInit, InterruptTellsFifo, rx_valid
<1>2. TypeOK /\ InterruptTellsFifo /\ [Next]_vars => InterruptTellsFifo'
  <2> SUFFICES ASSUME TypeOK, InterruptTellsFifo, [Next]_vars PROVE InterruptTellsFifo'
    OBVIOUS
  <2>1. CASE Next
    <3>1. PICK bundle : Tick(bundle)
      BY <2>1, StepIsTick
    <3> QED
      BY <3>1, FlagFollowsFifo
  <2>2. CASE UNCHANGED vars
    BY <2>2 DEF vars, uart_vars, InterruptTellsFifo, rx_valid
  <2> QED
    BY <2>1, <2>2
<1> QED
  BY <1>1, <1>2, TypeCorrect, PTL DEF Spec

-----------------------------------------------------------------------------
(***************************************************************************)
(* The line in time.  A bit stands for BIT_CNT + 1 cycles, and a frame     *)
(* begins at cycle 0.                                                      *)
(***************************************************************************)
\* A bit lasts three cycles or more, so that a sample is taken within it.
RateFits == BIT_CNT >= 2
\* The program is ahead by no more bytes than the FIFO and the receiver hold.
CreditFits == Credit <= FifoEntries + 1

\* The cycle of a frame at which its i-th bit begins.
start(i) == i * (BIT_CNT + 1)
\* How far into its bit a sample is taken.
offset == START_CNT - BIT_CNT

\* The sample of a bit is taken while the bit stands on the line, and not in its first
\* cycle.
LEMMA SampleInBit ==
  ASSUME RateFits
  PROVE  offset \in 0 .. BIT_CNT /\ offset >= 1
<1> DEFINE f == frequency
           b == baudRate
           half == b \div 2
           g == (3 * f) \div 2
           n == (f + half) \div b
           m == (g + half) \div b
<1>1. f \in Nat \ {0} /\ b \in Nat \ {0}
  BY UartAssumption
<1>2. n - 1 = BIT_CNT /\ m - 1 = START_CNT
  BY DEF BIT_CNT, START_CNT
<1> HIDE DEF f, b
<1>3. half \in Nat /\ 2 * half <= b /\ b <= 2 * half + 1
  BY <1>1
<1>4. g \in Nat /\ 2 * g >= 3 * f - 1 /\ 2 * g <= 3 * f
  BY <1>1
<1> HIDE DEF half, g
<1>5. n \in Nat /\ n * b <= f + half /\ f + half < n * b + b
  BY <1>1, <1>3
<1>6. m \in Nat /\ m * b <= g + half /\ g + half < m * b + b
  BY <1>1, <1>3, <1>4
<1> HIDE DEF n, m
<1>7. n >= 3
  BY <1>2, <1>5 DEF RateFits
<1>8. 3 * b <= n * b
  BY <1>1, <1>5, <1>7
<1>9. m < n + n
  <2> SUFFICES ASSUME n + n <= m PROVE FALSE
    BY <1>5, <1>6
  <2>1. n * b + n * b <= m * b
    BY <1>1, <1>5, <1>6
  <2> DEFINE nb == n * b
             mb == m * b
  <2>2. nb \in Int /\ mb \in Int
    BY <1>1, <1>5, <1>6
  <2>3. nb <= f + half /\ f + half < nb + b /\ mb <= g + half /\ 3 * b <= nb /\ nb + nb <= mb
    BY <1>5, <1>6, <1>8, <2>1
  <2> HIDE DEF nb, mb
  <2> QED
    BY <1>1, <1>3, <1>4, <2>2, <2>3
<1>10. n + 1 <= m
  <2> SUFFICES ASSUME m <= n PROVE FALSE
    BY <1>5, <1>6
  <2>1. m * b <= n * b
    BY <1>1, <1>5, <1>6
  <2> DEFINE nb == n * b
             mb == m * b
  <2>2. nb \in Int /\ mb \in Int
    BY <1>1, <1>5, <1>6
  <2>3. nb <= f + half /\ g + half < mb + b /\ mb <= nb /\ 3 * b <= nb
    BY <1>5, <1>6, <1>8, <2>1
  <2> HIDE DEF nb, mb
  <2> QED
    BY <1>1, <1>3, <1>4, <2>2, <2>3
<1> QED
  BY <1>2, <1>5, <1>6, <1>9, <1>10 DEF offset

\* Bits begin one after the other, in their order.
LEMMA Starts ==
  ASSUME NEW i \in Int, NEW j \in Int
  PROVE  /\ start(i) \in Int /\ start(0) = 0
         /\ start(i + 1) = start(i) + BIT_CNT + 1
         /\ i < j => start(i) + BIT_CNT + 1 <= start(j)
<1> DEFINE n == BIT_CNT + 1
<1>1. n \in Nat /\ n - 1 = BIT_CNT
  BY CounterAssumption, UartAssumption
<1> HIDE DEF n
<1>2. start(i) = i * n /\ start(i + 1) = (i + 1) * n /\ start(j) = j * n /\ start(0) = 0 * n
  BY DEF start, n
<1>3. i * n \in Int /\ (i + 1) * n = i * n + n /\ 0 * n = 0
  BY <1>1
<1>4. i < j => (i + 1) * n <= j * n
  BY <1>1
<1> QED
  BY <1>1, <1>2, <1>3, <1>4

-----------------------------------------------------------------------------
(***************************************************************************)
(* A frame on the line.                                                    *)
(***************************************************************************)
\* The i-th bit of the frame of a byte: the start bit, the data bits, stop bits.
wire(d, i) == IF i = 0 THEN 0 ELSE IF i \in 1 .. DATA_BITS THEN d[i] ELSE 1

\* The bit that stands on the line.
bit == DATA_BITS + 3 - tx.bitsReg
\* The cycle of the frame.
cycle == start(bit) + BIT_CNT - tx.cntReg

\* A value that was on the line in a cycle of the frame, or before it.
WasOnLine(value, d, at) ==
  /\ at < 0 => value = 1
  /\ \A i \in 0 .. DATA_BITS : at \in start(i) .. start(i) + BIT_CNT => value = wire(d, i)
  /\ at >= start(DATA_BITS + 1) => value = 1

\* The transmitter is sending a byte.
Framing(d) ==
  /\ tx.bitsReg > 0 /\ tx.cntReg <= BIT_CNT
  /\ \A j \in 1 .. TX_FRAME_BITS : tx.shiftReg[j] = wire(d, bit + j - 1)

\* And the synchronizer follows by one and two cycles.
Sending(d) ==
  /\ Framing(d)
  /\ WasOnLine(rx.sync, d, cycle - 1)
  /\ WasOnLine(rx.rxReg, d, cycle - 2)

\* Nothing is sent and nothing received.
Silent ==
  /\ tx.bitsReg = 0 /\ tx.shiftReg = TX_IDLE
  /\ rx.sync = 1 /\ rx.rxReg = 1 /\ rx.bitsReg = 0 /\ rx.cntReg = 0

\* A register of ones and the line in silence.
LEMMA IdleType == TX_IDLE \in [1 .. TX_FRAME_BITS -> Bit] /\ TX_IDLE[1] = 1
BY UartAssumption DEF TX_IDLE, TX_FRAME_BITS, STOP_BITS, Bit

\* The parts of a frame.
LEMMA FrameBits ==
  ASSUME NEW d \in Byte, NEW j \in 1 .. TX_FRAME_BITS
  PROVE  (<<0>> \o d \o <<1, 1>>)[j] = wire(d, j - 1)
<1>0. DATA_BITS \in Nat /\ TX_FRAME_BITS = DATA_BITS + 3
  BY UartAssumption DEF TX_FRAME_BITS, STOP_BITS
<1>1. d \in Seq(Bit) /\ Len(d) = DATA_BITS
  BY <1>0 DEF Byte
<1> DEFINE first == <<0>>
           last == <<1, 1>>
           front == first \o d
           whole == front \o last
<1>2. /\ first \in Seq(Bit) /\ Len(first) = 1 /\ first[1] = 0
      /\ last \in Seq(Bit) /\ Len(last) = 2 /\ last[1] = 1 /\ last[2] = 1
  BY DEF Bit
<1> HIDE DEF first, last
<1>3. /\ front \in Seq(Bit) /\ Len(front) = DATA_BITS + 1
      /\ \A i \in 1 .. DATA_BITS + 1 : front[i] = IF i <= 1 THEN first[i] ELSE d[i - 1]
  <2>1. /\ front \in Seq(Bit) /\ Len(front) = Len(first) + Len(d)
        /\ \A i \in 1 .. Len(first) + Len(d) :
             front[i] = IF i <= Len(first) THEN first[i] ELSE d[i - Len(first)]
    BY <1>1, <1>2, ConcatProperties
  <2> HIDE DEF front
  <2>2. Len(first) + Len(d) = DATA_BITS + 1
    BY <1>0, <1>1, <1>2
  <2> QED
    BY <1>2, <2>1, <2>2
<1> HIDE DEF front
<1>4. \A i \in 1 .. DATA_BITS + 3 :
        whole[i] = IF i <= DATA_BITS + 1 THEN front[i] ELSE last[i - (DATA_BITS + 1)]
  <2>1. \A i \in 1 .. Len(front) + Len(last) :
           whole[i] = IF i <= Len(front) THEN front[i] ELSE last[i - Len(front)]
    BY <1>2, <1>3, ConcatProperties
  <2> HIDE DEF whole
  <2>2. Len(front) + Len(last) = DATA_BITS + 3
    BY <1>0, <1>2, <1>3
  <2> QED
    BY <1>3, <2>1, <2>2
<1> HIDE DEF whole
<1>5. j \in 1 .. DATA_BITS + 3
  BY <1>0
<1>6. whole[j] = wire(d, j - 1)
  <2>1. CASE j = 1
    BY <1>0, <1>2, <1>3, <1>4, <2>1 DEF wire
  <2>2. CASE j \in 2 .. DATA_BITS + 1
    <3>1. whole[j] = d[j - 1] /\ j - 1 \in 1 .. DATA_BITS
      BY <1>0, <1>3, <1>4, <2>2
    <3> QED
      BY <1>0, <2>2, <3>1 DEF wire
  <2>3. CASE j \in {DATA_BITS + 2, DATA_BITS + 3}
    <3>1. j - (DATA_BITS + 1) \in {1, 2} /\ ~(j <= DATA_BITS + 1) /\ j - 1 > DATA_BITS
      BY <1>0, <2>3
    <3>2. whole[j] = 1
      BY <1>2, <1>4, <1>5, <3>1
    <3> QED
      BY <1>0, <2>3, <3>1, <3>2 DEF wire
  <2> QED
    BY <1>0, <1>5, <2>1, <2>2, <2>3
<1> QED
  BY <1>6 DEF whole, front, first, last

\* Shifting out the first element.
LEMMA Shifted ==
  ASSUME NEW S, NEW n \in Nat \ {0}, NEW s \in [1 .. n -> S], NEW e \in S
  PROVE  /\ \A j \in 1 .. n - 1 : Append(Tail(s), e)[j] = s[j + 1]
         /\ Append(Tail(s), e)[n] = e
<1>1. s \in Seq(S) /\ Len(s) = n /\ s # << >>
  OBVIOUS
<1>2. Tail(s) \in Seq(S) /\ Len(Tail(s)) = n - 1 /\ \A j \in 1 .. n - 1 : Tail(s)[j] = s[j + 1]
  BY <1>1, HeadTailProperties
<1> DEFINE rest == Tail(s)
<1> HIDE DEF rest
<1>3. /\ \A j \in 1 .. n - 1 : Append(rest, e)[j] = rest[j]
      /\ Append(rest, e)[n] = e
  BY <1>2, AppendProperties DEF rest
<1> QED
  BY <1>2, <1>3 DEF rest

\* A bit of the frame stands on the line for its time.
LEMMA WireInTime ==
  ASSUME NEW d, NEW n \in 0 .. DATA_BITS + 2, NEW at \in start(n) .. start(n) + BIT_CNT
  PROVE  at \in Int /\ at >= 0 /\ WasOnLine(wire(d, n), d, at)
<1>0. DATA_BITS \in Nat \ {0} /\ BIT_CNT \in Nat /\ n \in Int
  BY UartAssumption, CounterAssumption
<1>1. start(n) \in Int /\ start(0) = 0 /\ (0 < n => start(0) + BIT_CNT + 1 <= start(n))
  BY <1>0, Starts
<1>2. at \in Int /\ at >= 0
  BY <1>0, <1>1
<1>3. ASSUME NEW i \in 0 .. DATA_BITS, at \in start(i) .. start(i) + BIT_CNT
      PROVE  i = n
  <2>0. i \in Int
    BY <1>0
  <2>1. start(i) \in Int /\ (i < n => start(i) + BIT_CNT + 1 <= start(n))
    BY <1>0, <2>0, Starts
  <2>2. n < i => start(n) + BIT_CNT + 1 <= start(i)
    BY <1>0, <2>0, Starts
  <2>3. ~(i < n) /\ ~(n < i)
    BY <1>0, <1>1, <1>2, <1>3, <2>1, <2>2
  <2> QED
    BY <1>0, <2>0, <2>3
<1>4. at >= start(DATA_BITS + 1) => n >= DATA_BITS + 1
  <2>1. /\ n < DATA_BITS + 1 => start(n) + BIT_CNT + 1 <= start(DATA_BITS + 1)
        /\ start(DATA_BITS + 1) \in Int
    <3>1. DATA_BITS + 1 \in Int
      BY <1>0
    <3> QED
      BY <1>0, <3>1, Starts
  <2> QED
    BY <1>0, <1>1, <1>2, <2>1
<1>5. n >= DATA_BITS + 1 => wire(d, n) = 1
  BY <1>0 DEF wire
<1> QED
  BY <1>2, <1>3, <1>4, <1>5 DEF WasOnLine

\* What stands on the line is the bit of the cycle.
LEMMA LineCarries ==
  ASSUME UartTypeOK, NEW d \in Byte, Framing(d)
  PROVE  /\ bit \in 0 .. DATA_BITS + 2
         /\ cycle \in Int /\ cycle \in start(bit) .. start(bit) + BIT_CNT
         /\ cycle >= 0
         /\ WasOnLine(txd, d, cycle)
<1>0. /\ DATA_BITS \in Nat \ {0} /\ TX_FRAME_BITS = DATA_BITS + 3 /\ BIT_CNT \in Nat
      /\ tx.bitsReg \in 1 .. DATA_BITS + 3 /\ tx.cntReg \in 0 .. BIT_CNT
  BY UartAssumption, CounterAssumption, SMTT(40) DEF UartTypeOK, Framing, TX_FRAME_BITS, STOP_BITS
<1>1. bit \in 0 .. DATA_BITS + 2 /\ bit \in Int
  BY <1>0 DEF bit
<1>2. start(bit) \in Int
  BY <1>1, Starts
<1>3. cycle \in start(bit) .. start(bit) + BIT_CNT
  BY <1>0, <1>2 DEF cycle
<1>4. txd = wire(d, bit)
  BY <1>0, <1>1 DEF Framing, txd
<1> QED
  BY <1>1, <1>3, <1>4, WireInTime

\* And so it is after an edge.
LEMMA LineCarriesNext ==
  ASSUME UartTypeOK', NEW d \in Byte, Framing(d)'
  PROVE  cycle' \in Int /\ WasOnLine(txd', d, cycle')
<1> DEFINE n == bit'
           at == cycle'
<1>0. /\ DATA_BITS \in Nat \ {0} /\ TX_FRAME_BITS = DATA_BITS + 3 /\ BIT_CNT \in Nat
      /\ tx'.bitsReg \in 1 .. DATA_BITS + 3 /\ tx'.cntReg \in 0 .. BIT_CNT
  BY UartAssumption, CounterAssumption, SMTT(40) DEF UartTypeOK, Framing, TX_FRAME_BITS, STOP_BITS
<1>1. n \in 0 .. DATA_BITS + 2 /\ n \in Int
  BY <1>0 DEF bit
<1>4. txd' = wire(d, n)
  <2>1. tx'.shiftReg[1] = wire(d, n + 1 - 1)
    BY <1>0 DEF Framing, bit, wire
  <2> HIDE DEF n
  <2>2. n + 1 - 1 = n
    BY <1>1
  <2> QED
    BY <2>1, <2>2 DEF txd
<1>5. at = start(n) + BIT_CNT - tx'.cntReg
  BY DEF cycle, bit, start
<1> HIDE DEF n
<1>2. start(n) \in Int
  BY <1>1, Starts
<1> HIDE DEF at
<1>3. at \in start(n) .. start(n) + BIT_CNT
  BY <1>0, <1>2, <1>5
<1>6. at \in Int /\ WasOnLine(wire(d, n), d, at)
  BY <1>1, <1>3, WireInTime
<1> QED
  BY <1>4, <1>6 DEF at

\* The fields of the receiver after an edge.
LEMMA RxFields ==
  ASSUME UartTypeOK, NEW bundle, NEW rxd, RxStep(bundle, rxd)
  PROVE  /\ rx'.sync = rxd /\ rx'.rxReg = rx.sync
         /\ rx.cntReg # 0 =>
              /\ rx'.cntReg = rx.cntReg - 1 /\ rx'.bitsReg = rx.bitsReg
              /\ rx'.shiftReg = rx.shiftReg
              /\ rx'.valReg <=> rx.valReg /\ ~enq_fire(bundle)
         /\ rx.cntReg = 0 /\ rx.bitsReg # 0 =>
              /\ rx'.cntReg = BIT_CNT /\ rx'.bitsReg = rx.bitsReg - 1
              /\ rx'.shiftReg = Append(Tail(rx.shiftReg), rx.rxReg)
              /\ rx'.valReg <=> (rx.valReg \/ rx.bitsReg = 1) /\ ~enq_fire(bundle)
         /\ rx.cntReg = 0 /\ rx.bitsReg = 0 /\ rx.rxReg = 0 /\ ~rx.valReg =>
              /\ rx'.cntReg = START_CNT /\ rx'.bitsReg = DATA_BITS
              /\ rx'.shiftReg = rx.shiftReg /\ ~rx'.valReg
         /\ rx.cntReg = 0 /\ rx.bitsReg = 0 /\ ~(rx.rxReg = 0 /\ ~rx.valReg) =>
              /\ rx'.cntReg = 0 /\ rx'.bitsReg = 0 /\ rx'.shiftReg = rx.shiftReg
              /\ rx'.valReg <=> rx.valReg /\ ~enq_fire(bundle)
<1> DEFINE sampled == RxSamples
<1>1. PICK y, r, s, c, b, v : rx = [ sync |-> y, rxReg |-> r, shiftReg |-> s, cntReg |-> c,
                                     bitsReg |-> b, valReg |-> v ]
  BY DEF UartTypeOK
<1>2. /\ rx.cntReg # 0 => sampled = [rx EXCEPT !.cntReg = @ - 1]
      /\ rx.cntReg = 0 /\ rx.bitsReg # 0 =>
           sampled = [rx EXCEPT !.cntReg = BIT_CNT, !.shiftReg = Append(Tail(@), rx.rxReg),
                                !.bitsReg = @ - 1, !.valReg = @ \/ rx.bitsReg = 1]
      /\ rx.cntReg = 0 /\ rx.bitsReg = 0 /\ rx.rxReg = 0 /\ ~rx.valReg =>
           sampled = [rx EXCEPT !.cntReg = START_CNT, !.bitsReg = DATA_BITS]
      /\ rx.cntReg = 0 /\ rx.bitsReg = 0 /\ ~(rx.rxReg = 0 /\ ~rx.valReg) => sampled = rx
  BY DEF RxSamples
<1>3. rx' = [sampled EXCEPT !.sync = rxd, !.rxReg = rx.sync, !.valReg = @ /\ ~enq_fire(bundle)]
  BY DEF RxStep
<1> HIDE DEF sampled
<1>4. CASE rx.cntReg # 0
  BY <1>1, <1>2, <1>3, <1>4
<1>5. CASE rx.cntReg = 0 /\ rx.bitsReg # 0
  BY <1>1, <1>2, <1>3, <1>5
<1>6. CASE rx.cntReg = 0 /\ rx.bitsReg = 0 /\ rx.rxReg = 0 /\ ~rx.valReg
  BY <1>1, <1>2, <1>3, <1>6
<1>7. CASE rx.cntReg = 0 /\ rx.bitsReg = 0 /\ ~(rx.rxReg = 0 /\ ~rx.valReg)
  BY <1>1, <1>2, <1>3, <1>7
<1> QED
  BY <1>4, <1>5, <1>6, <1>7

\* While a frame goes on, each edge leads one cycle further.
LEMMA FrameGoesOn ==
  ASSUME UartTypeOK, NEW d \in Byte, Framing(d), TxStep, ~(tx.cntReg = 0 /\ tx.bitsReg = 1)
  PROVE  Framing(d)' /\ cycle' = cycle + 1
<1>0. /\ DATA_BITS \in Nat \ {0} /\ TX_FRAME_BITS = DATA_BITS + 3 /\ BIT_CNT \in Nat
      /\ tx.bitsReg \in 1 .. DATA_BITS + 3 /\ tx.cntReg \in 0 .. BIT_CNT
      /\ tx.shiftReg \in [1 .. TX_FRAME_BITS -> Bit]
  BY UartAssumption, CounterAssumption, SMTT(40) DEF UartTypeOK, Framing, TX_FRAME_BITS, STOP_BITS
<1>a. bit \in 0 .. DATA_BITS + 2 /\ cycle \in Int
  BY LineCarries
<1> SUFFICES /\ tx'.bitsReg > 0 /\ tx'.cntReg <= BIT_CNT /\ cycle' = cycle + 1
             /\ \A j \in 1 .. TX_FRAME_BITS : tx'.shiftReg[j] = wire(d, bit' + j - 1)
  BY DEF Framing, wire
<1>1. CASE tx.cntReg # 0
  <2>1. tx' = [tx EXCEPT !.cntReg = @ - 1]
    BY <1>1 DEF TxStep
  <2>2. tx'.bitsReg = tx.bitsReg /\ tx'.shiftReg = tx.shiftReg /\ tx'.cntReg = tx.cntReg - 1
    BY <2>1 DEF UartTypeOK
  <2>3. bit' = bit
    BY <2>2 DEF bit
  <2>4. start(bit) \in Int
    BY <1>a, Starts
  <2>5. cycle' = cycle + 1
    BY <1>0, <2>2, <2>3, <2>4 DEF cycle
  <2> QED
    BY <1>0, <2>2, <2>3, <2>5 DEF Framing
<1>2. CASE tx.cntReg = 0
  <2>1. tx' = [ shiftReg |-> Append(Tail(tx.shiftReg), 1), cntReg |-> BIT_CNT,
                bitsReg |-> tx.bitsReg - 1 ]
    BY <1>0, <1>2 DEF TxStep
  <2>2. /\ tx'.bitsReg = tx.bitsReg - 1 /\ tx'.cntReg = BIT_CNT
        /\ tx'.shiftReg = Append(Tail(tx.shiftReg), 1)
    BY <2>1
  <2>3. bit' = bit + 1
    BY <1>0, <2>2 DEF bit
  <2>4. start(bit + 1) = start(bit) + BIT_CNT + 1 /\ start(bit) \in Int
    BY <1>a, Starts
  <2>5. cycle' = cycle + 1
    BY <1>0, <1>2, <2>2, <2>3, <2>4 DEF cycle
  <2>6. /\ \A j \in 1 .. TX_FRAME_BITS - 1 : tx'.shiftReg[j] = tx.shiftReg[j + 1]
        /\ tx'.shiftReg[TX_FRAME_BITS] = 1
    <3>1. TX_FRAME_BITS \in Nat \ {0} /\ 1 \in Bit
      BY <1>0 DEF Bit
    <3> QED
      BY <1>0, <2>2, <3>1, Shifted
  <2>7. \A j \in 1 .. TX_FRAME_BITS : tx'.shiftReg[j] = wire(d, bit' + j - 1)
    <3> TAKE j \in 1 .. TX_FRAME_BITS
    <3>1. CASE j < TX_FRAME_BITS
      <4>1. j + 1 \in 1 .. TX_FRAME_BITS /\ bit + (j + 1) - 1 = bit' + j - 1
        <5>1. /\ bit \in Int /\ TX_FRAME_BITS \in Int /\ j \in 1 .. TX_FRAME_BITS
              /\ j < TX_FRAME_BITS
          BY <1>0, <1>a, <3>1
        <5> QED
          BY <2>3, <5>1
      <4>2. tx.shiftReg[j + 1] = wire(d, bit + (j + 1) - 1)
        BY <4>1 DEF Framing
      <4> QED
        BY <1>0, <2>6, <3>1, <4>1, <4>2
    <3>2. CASE j = TX_FRAME_BITS
      <4>1. bit' + j - 1 > DATA_BITS
        BY <1>0, <1>a, <2>3, <3>2
      <4> QED
        BY <1>0, <2>6, <3>2, <4>1 DEF wire
    <3> QED
      BY <1>0, <3>1, <3>2
  <2>8. tx'.bitsReg > 0 /\ tx'.cntReg <= BIT_CNT
    BY <1>0, <1>2, <2>2
  <2> QED
    BY <2>5, <2>7, <2>8
<1> QED
  BY <1>1, <1>2

\* The synchronizer follows the line.
LEMMA SendingGoesOn ==
  ASSUME UartTypeOK, NEW d \in Byte, Sending(d), NEW bundle,
         TxStep, RxStep(bundle, txd), ~(tx.cntReg = 0 /\ tx.bitsReg = 1)
  PROVE  Sending(d)' /\ cycle' = cycle + 1
<1>1. /\ cycle \in Int /\ WasOnLine(txd, d, cycle)
      /\ WasOnLine(rx.sync, d, cycle - 1)
  BY LineCarries DEF Sending
<1>2. Framing(d)' /\ cycle' = cycle + 1
  BY FrameGoesOn DEF Sending
<1>3. rx'.sync = txd /\ rx'.rxReg = rx.sync
  BY RxFields
<1>4. cycle' - 1 = cycle /\ cycle' - 2 = cycle - 1
  BY <1>1, <1>2
<1> QED
  BY <1>1, <1>2, <1>3, <1>4 DEF Sending, Framing, WasOnLine, wire, start

\* The frame ends: the line is idle again.
LEMMA FrameEnds ==
  ASSUME UartTypeOK, NEW d \in Byte, Framing(d), TxStep, tx.cntReg = 0, tx.bitsReg = 1
  PROVE  /\ tx'.bitsReg = 0 /\ tx'.shiftReg = TX_IDLE /\ tx'.cntReg = BIT_CNT
         /\ bit = DATA_BITS + 2 /\ cycle = start(DATA_BITS + 3) - 1
<1>0. /\ DATA_BITS \in Nat \ {0} /\ TX_FRAME_BITS = DATA_BITS + 3 /\ BIT_CNT \in Nat
      /\ tx.shiftReg \in [1 .. TX_FRAME_BITS -> Bit]
      /\ TX_FRAME_BITS \in Nat \ {0} /\ 1 \in Bit
  BY UartAssumption, CounterAssumption DEF UartTypeOK, TX_FRAME_BITS, STOP_BITS, Bit
<1>1. bit = DATA_BITS + 2
  BY <1>0 DEF bit
<1>2. start(DATA_BITS + 3) = start(DATA_BITS + 2) + BIT_CNT + 1 /\ start(DATA_BITS + 2) \in Int
  <2>1. DATA_BITS + 2 + 1 = DATA_BITS + 3 /\ DATA_BITS + 2 \in Int
    BY <1>0
  <2> QED
    BY <2>1, Starts
<1>3. cycle = start(DATA_BITS + 3) - 1
  BY <1>0, <1>1, <1>2 DEF cycle
<1>4. tx' = [ shiftReg |-> Append(Tail(tx.shiftReg), 1), cntReg |-> BIT_CNT, bitsReg |-> 0 ]
  BY DEF TxStep
<1>5. \A j \in 1 .. TX_FRAME_BITS : tx'.shiftReg[j] = 1
  <2>1. /\ \A j \in 1 .. TX_FRAME_BITS - 1 : tx'.shiftReg[j] = tx.shiftReg[j + 1]
        /\ tx'.shiftReg[TX_FRAME_BITS] = 1
    BY <1>0, <1>4, Shifted
  <2>2. \A j \in 2 .. TX_FRAME_BITS : tx.shiftReg[j] = 1
    BY <1>0, <1>1 DEF Framing, wire
  <2> TAKE j \in 1 .. TX_FRAME_BITS
  <2>3. CASE j < TX_FRAME_BITS
    <3>1. j + 1 \in 2 .. TX_FRAME_BITS /\ j \in 1 .. TX_FRAME_BITS - 1
      BY <1>0, <2>3
    <3> QED
      BY <2>1, <2>2, <3>1
  <2>4. CASE j = TX_FRAME_BITS
    BY <2>1, <2>4
  <2> QED
    BY <1>0, <2>3, <2>4
<1>6. tx'.shiftReg \in [1 .. TX_FRAME_BITS -> Bit]
  BY <1>0, <1>4, ShiftType
<1>7. tx'.shiftReg = TX_IDLE
  BY <1>5, <1>6 DEF TX_IDLE
<1> QED
  BY <1>1, <1>3, <1>4, <1>7

\* The frame ends for the receiver.
LEMMA SendingEnds ==
  ASSUME RateFits, UartTypeOK, NEW d \in Byte, Sending(d), NEW bundle,
         TxStep, RxStep(bundle, txd), tx.cntReg = 0, tx.bitsReg = 1
  PROVE  /\ tx'.bitsReg = 0 /\ tx'.shiftReg = TX_IDLE
         /\ rx'.sync = 1 /\ rx'.rxReg = 1 /\ rx.rxReg = 1
         /\ cycle = start(DATA_BITS + 3) - 1
<1>0. DATA_BITS \in Nat \ {0} /\ BIT_CNT \in Nat /\ BIT_CNT >= 2
  BY UartAssumption, CounterAssumption DEF RateFits
<1>1. WasOnLine(txd, d, cycle)
  BY LineCarries DEF Sending
<1>2. /\ start(DATA_BITS + 3) = start(DATA_BITS + 2) + BIT_CNT + 1
      /\ start(DATA_BITS + 2) = start(DATA_BITS + 1) + BIT_CNT + 1
      /\ start(DATA_BITS + 1) \in Int
  <2>1. DATA_BITS + 1 + 1 = DATA_BITS + 2 /\ DATA_BITS + 2 + 1 = DATA_BITS + 3
    BY <1>0
  <2>2. DATA_BITS + 1 \in Int /\ DATA_BITS + 2 \in Int
    BY <1>0
  <2> QED
    BY <2>1, <2>2, Starts
<1>3. /\ tx'.bitsReg = 0 /\ tx'.shiftReg = TX_IDLE
      /\ cycle = start(DATA_BITS + 3) - 1
  BY FrameEnds DEF Sending
<1>8. rx'.sync = txd /\ rx'.rxReg = rx.sync
  BY RxFields
<1>9. txd = 1 /\ rx.sync = 1 /\ rx.rxReg = 1
  BY <1>0, <1>1, <1>2, <1>3 DEF WasOnLine, Sending
<1> QED
  BY <1>3, <1>8, <1>9

\* A byte is taken from the buffer, and its frame begins.
LEMMA FrameBegins ==
  ASSUME UartTypeOK, buf.full, channel_ready, TxStep, NEW d, d = buf.data
  PROVE  Framing(d)' /\ cycle' = 0
<1>0. /\ DATA_BITS \in Nat \ {0} /\ TX_FRAME_BITS = DATA_BITS + 3 /\ BIT_CNT \in Nat
      /\ d \in Byte
  BY UartAssumption, CounterAssumption DEF UartTypeOK, TX_FRAME_BITS, STOP_BITS
<1>1. tx' = [ shiftReg |-> <<0>> \o d \o <<1, 1>>, cntReg |-> BIT_CNT, bitsReg |-> TX_FRAME_BITS ]
  BY DEF TxStep, channel_ready
<1>2. bit' = 0 /\ tx'.bitsReg > 0 /\ tx'.cntReg = BIT_CNT
  BY <1>0, <1>1 DEF bit
<1>3. start(0) = 0
  BY Starts
<1>4. cycle' = 0
  BY <1>0, <1>2, <1>3 DEF cycle
<1>5. \A j \in 1 .. TX_FRAME_BITS : tx'.shiftReg[j] = wire(d, bit' + j - 1)
  <2> TAKE j \in 1 .. TX_FRAME_BITS
  <2>1. tx'.shiftReg[j] = wire(d, j - 1)
    BY <1>0, <1>1, FrameBits
  <2>2. bit' + j - 1 = j - 1
    BY <1>0, <1>2
  <2> QED
    BY <2>1, <2>2
<1> QED
  BY <1>0, <1>2, <1>4, <1>5 DEF Framing, wire

\* A frame begins for the receiver.
LEMMA SendingBegins ==
  ASSUME UartTypeOK, Silent, buf.full, channel_ready, NEW bundle, TxStep, RxStep(bundle, txd),
         NEW d, d = buf.data
  PROVE  /\ Sending(d)' /\ cycle' = 0
         /\ rx'.bitsReg = 0 /\ rx'.cntReg = 0 /\ rx'.shiftReg = rx.shiftReg
         /\ rx'.valReg <=> rx.valReg /\ ~enq_fire(bundle)
<1>0. DATA_BITS \in Nat \ {0} /\ BIT_CNT \in Nat
  BY UartAssumption, CounterAssumption
<1>3. start(0) = 0
  BY Starts
<1>4. Framing(d)' /\ cycle' = 0
  BY FrameBegins
<1>6. txd = 1
  BY IdleType DEF Silent, txd
<1>7. /\ rx'.sync = 1 /\ rx'.rxReg = 1
      /\ rx'.bitsReg = 0 /\ rx'.cntReg = 0 /\ rx'.shiftReg = rx.shiftReg
      /\ rx'.valReg <=> rx.valReg /\ ~enq_fire(bundle)
  BY <1>6, RxFields DEF Silent
<1>8. \A at \in {-1, -2} : WasOnLine(1, d, at)
  <2> TAKE at \in {-1, -2}
  <2>1. ASSUME NEW i \in 0 .. DATA_BITS + 1
        PROVE  start(i) \in Int /\ start(i) >= 0
    <3>1. start(i) \in Int /\ (0 < i => start(0) + BIT_CNT + 1 <= start(i))
      BY <1>0, Starts
    <3> QED
      BY <1>0, <1>3, <3>1
  <2> QED
    BY <1>0, <2>1 DEF WasOnLine
<1>9. cycle' - 1 = -1 /\ cycle' - 2 = -2
  BY <1>4
<1>10. WasOnLine(1, d, cycle' - 1) /\ WasOnLine(1, d, cycle' - 2)
  BY <1>8, <1>9
<1>11. Sending(d)'
  BY <1>4, <1>7, <1>10 DEF Sending, Framing, WasOnLine, wire, start
<1> QED
  BY <1>4, <1>7, <1>11

\* The transmitter has nothing to send.
LEMMA IdleGoesOn ==
  ASSUME UartTypeOK, tx.bitsReg = 0, tx.shiftReg = TX_IDLE, ~(buf.full /\ channel_ready), TxStep
  PROVE  /\ tx'.bitsReg = 0 /\ tx'.shiftReg = TX_IDLE
         /\ tx'.cntReg = IF tx.cntReg # 0 THEN tx.cntReg - 1 ELSE BIT_CNT
<1>1. CASE tx.cntReg # 0
  <2>1. tx' = [tx EXCEPT !.cntReg = @ - 1]
    BY <1>1 DEF TxStep
  <2> QED
    BY <1>1, <2>1 DEF UartTypeOK
<1>2. CASE tx.cntReg = 0
  <2>1. tx' = [ shiftReg |-> TX_IDLE, cntReg |-> BIT_CNT, bitsReg |-> 0 ]
    BY <1>2 DEF TxStep, channel_ready
  <2> QED
    BY <1>2, <2>1
<1> QED
  BY <1>1, <1>2

\* Silence goes on.
LEMMA SilenceGoesOn ==
  ASSUME UartTypeOK, Silent, ~(buf.full /\ channel_ready), NEW bundle,
         TxStep, RxStep(bundle, txd)
  PROVE  /\ Silent' /\ rx'.shiftReg = rx.shiftReg
         /\ rx'.valReg <=> rx.valReg /\ ~enq_fire(bundle)
<1>1. txd = 1
  BY IdleType DEF Silent, txd
<1>2. /\ rx'.sync = 1 /\ rx'.rxReg = 1
      /\ rx'.bitsReg = 0 /\ rx'.cntReg = 0 /\ rx'.shiftReg = rx.shiftReg
      /\ rx'.valReg <=> rx.valReg /\ ~enq_fire(bundle)
  BY <1>1, RxFields DEF Silent
<1>3. tx'.bitsReg = 0 /\ tx'.shiftReg = TX_IDLE
  BY IdleGoesOn DEF Silent
<1> QED
  BY <1>2, <1>3 DEF Silent, TX_IDLE

-----------------------------------------------------------------------------
(***************************************************************************)
(* The receiver in step with the frame.                                    *)
(***************************************************************************)
\* The cycle of the frame at which the receiver samples the next bit, or looks for a
\* start bit again.
due == start(DATA_BITS + 1 - rx.bitsReg) + offset + 2

\* What the receiver has to see in a cycle of the frame.
Seen(value, d, at) ==
  /\ at < 0 => value = 1
  /\ at = 0 => value = 0
  /\ \A i \in 1 .. DATA_BITS : at = start(i) + offset => value = d[i]
  /\ at >= start(DATA_BITS + 1) + offset => value = 1

\* The transmitter's frame shows it that.
LEMMA FrameIsSeen ==
  ASSUME RateFits, NEW d \in Byte, NEW value, NEW at \in Int, WasOnLine(value, d, at)
  PROVE  Seen(value, d, at)
<1>0. DATA_BITS \in Nat \ {0} /\ BIT_CNT \in Nat /\ offset \in 0 .. BIT_CNT /\ start(0) = 0
  BY UartAssumption, CounterAssumption, SampleInBit, Starts
<1>1. at = 0 => value = 0
  <2>1. 0 \in start(0) .. start(0) + BIT_CNT /\ 0 \in 0 .. DATA_BITS
    BY <1>0
  <2> QED
    BY <2>1 DEF WasOnLine, wire
<1>2. ASSUME NEW i \in 1 .. DATA_BITS, at = start(i) + offset
      PROVE  value = d[i]
  <2>1. i \in Int
    OBVIOUS
  <2>2. start(i) \in Int
    BY <2>1, Starts
  <2>3. at \in start(i) .. start(i) + BIT_CNT
    BY <1>0, <1>2, <2>2
  <2>4. i \in 0 .. DATA_BITS
    BY <1>0
  <2>5. value = wire(d, i)
    BY <2>3, <2>4 DEF WasOnLine
  <2> QED
    BY <1>0, <2>5 DEF wire
<1>3. at >= start(DATA_BITS + 1) + offset => value = 1
  <2>1. DATA_BITS + 1 \in Int
    BY <1>0
  <2>2. start(DATA_BITS + 1) \in Int
    BY <2>1, Starts
  <2> QED
    BY <1>0, <2>2 DEF WasOnLine
<1> QED
  BY <1>1, <1>2, <1>3 DEF Seen, WasOnLine

\* The start bit has not come through the synchronizer.
Waiting(at) == at <= 2 /\ rx.bitsReg = 0 /\ rx.cntReg = 0 /\ (rx.valReg => at = 0)

\* The receiver has some of the bits.
Sampling(d, at) ==
  /\ rx.bitsReg > 0 /\ ~rx.valReg /\ at + rx.cntReg = due
  /\ \A i \in 1 .. DATA_BITS - rx.bitsReg : rx.shiftReg[rx.bitsReg + i] = d[i]

\* It has all of them.
Listening(at) ==
  /\ rx.bitsReg = 0
  /\ \/ at + rx.cntReg = due
     \/ rx.cntReg = 0 /\ at >= due

\* The start bit is found at the third edge.
LEMMA StartBitFound ==
  ASSUME UartTypeOK, NEW d \in Byte, NEW at \in Nat, Seen(rx.rxReg, d, at - 2), Waiting(at),
         NEW bundle, NEW rxd, RxStep(bundle, rxd), rx.valReg => enq_fire(bundle)
  PROVE  (Waiting(at + 1)' \/ Sampling(d, at + 1)') /\ ~rx'.valReg
<1>0. /\ DATA_BITS \in Nat \ {0} /\ BIT_CNT \in Nat /\ START_CNT \in Nat
      /\ start(0) = 0 /\ start(1) = BIT_CNT + 1
  <2>1. start(0 + 1) = start(0) + BIT_CNT + 1 /\ start(0) = 0
    BY Starts
  <2> QED
    BY <2>1, UartAssumption, CounterAssumption
<1>1. at \in 0 .. 2
  BY DEF Waiting
<1>2. CASE at < 2
  <2>1. rx.rxReg = 1
    BY <1>1, <1>2 DEF Seen
  <2>2. rx'.bitsReg = 0 /\ rx'.cntReg = 0 /\ ~rx'.valReg
    BY <2>1, RxFields DEF Waiting
  <2>3. at + 1 <= 2
    BY <1>1, <1>2
  <2> QED
    BY <2>2, <2>3 DEF Waiting
<1>3. CASE at = 2
  <2>2. rx.rxReg = 0 /\ ~rx.valReg
    BY <1>3 DEF Seen, Waiting
  <2>3. rx'.bitsReg = DATA_BITS /\ rx'.cntReg = START_CNT /\ ~rx'.valReg
    BY <2>2, RxFields DEF Waiting
  <2>4. DATA_BITS + 1 - rx'.bitsReg = 1 /\ DATA_BITS - rx'.bitsReg = 0
    BY <1>0, <2>3
  <2>5. due' = start(1) + offset + 2
    BY <2>4 DEF due
  <2>6. at + 1 + rx'.cntReg = due'
    BY <1>0, <1>3, <2>3, <2>5 DEF offset
  <2> QED
    BY <1>0, <2>3, <2>4, <2>6 DEF Sampling
<1> QED
  BY <1>1, <1>2, <1>3

\* Each sample is the data bit of its turn, and after the last one the byte is there.
LEMMA SamplesGoOn ==
  ASSUME RateFits, UartTypeOK, NEW d \in Byte, NEW at \in Nat, Seen(rx.rxReg, d, at - 2),
         Sampling(d, at), NEW bundle, NEW rxd, RxStep(bundle, rxd)
  PROVE  \/ Sampling(d, at + 1)' /\ ~rx'.valReg
         \/ Listening(at + 1)' /\ rx'.valReg /\ rx'.shiftReg = d
<1>0. /\ DATA_BITS \in Nat \ {0} /\ BIT_CNT \in Nat
      /\ rx.bitsReg \in 1 .. DATA_BITS /\ rx.cntReg \in Nat
      /\ rx.shiftReg \in [1 .. DATA_BITS -> Bit] /\ rx.rxReg \in Bit /\ ~rx.valReg
      /\ offset \in 0 .. BIT_CNT
  BY UartAssumption, CounterAssumption, SampleInBit, SMTT(40) DEF UartTypeOK, Sampling, Byte
<1>1. ~enq_fire(bundle)
  BY <1>0 DEF enq_fire
<1> DEFINE n == DATA_BITS + 1 - rx.bitsReg
<1>2. n \in 1 .. DATA_BITS /\ start(n) \in Int /\ start(n + 1) = start(n) + BIT_CNT + 1
  <2>0. DATA_BITS \in Nat /\ rx.bitsReg \in 1 .. DATA_BITS
    BY <1>0
  <2>1. n \in 1 .. DATA_BITS
    BY <2>0
  <2> HIDE DEF n
  <2>2. n \in Int
    BY <2>0, <2>1
  <2>3. start(n) \in Int /\ start(n + 1) = start(n) + BIT_CNT + 1
    BY <2>2, Starts
  <2> QED
    BY <2>1, <2>3
<1>3. at + rx.cntReg = start(n) + offset + 2
  BY DEF Sampling, due
<1> HIDE DEF n
<1>4. CASE rx.cntReg # 0
  <2>1. /\ rx'.cntReg = rx.cntReg - 1 /\ rx'.bitsReg = rx.bitsReg
        /\ rx'.shiftReg = rx.shiftReg /\ ~rx'.valReg
    BY <1>0, <1>4, RxFields
  <2>2. due' = start(n) + offset + 2
    BY <2>1 DEF due, n
  <2>3. at + 1 + rx'.cntReg = due'
    <3>1. offset \in Int /\ rx.cntReg \in Int /\ start(n) \in Int
      BY <1>0, <1>2
    <3>2. at + 1 + rx'.cntReg = (at + 1) + (rx.cntReg - 1)
      BY <2>1
    <3> QED
      BY <1>1, <1>3, <2>2, <3>1, <3>2
  <2> QED
    BY <2>1, <2>3 DEF Sampling
<1>5. CASE rx.cntReg = 0
  <2>1. /\ rx'.cntReg = BIT_CNT /\ rx'.bitsReg = rx.bitsReg - 1
        /\ rx'.shiftReg = Append(Tail(rx.shiftReg), rx.rxReg)
        /\ rx'.valReg <=> rx.bitsReg = 1
    BY <1>0, <1>1, <1>5, RxFields
  <2>2. rx.rxReg = d[n]
    <3>0. /\ start(n) \in Int /\ offset \in Int
          /\ at + rx.cntReg = start(n) + offset + 2 /\ rx.cntReg = 0
      BY <1>0, <1>2, <1>3, <1>5
    <3>1. at - 2 = start(n) + offset
      BY <3>0
    <3> QED
      BY <1>2, <3>1 DEF Seen
  <2>3. /\ \A j \in 1 .. DATA_BITS - 1 : rx'.shiftReg[j] = rx.shiftReg[j + 1]
        /\ rx'.shiftReg[DATA_BITS] = d[n]
        /\ rx'.shiftReg \in [1 .. DATA_BITS -> Bit]
    BY <1>0, <2>1, <2>2, Shifted, ShiftType
  <2>4. \A i \in 1 .. DATA_BITS - rx'.bitsReg : rx'.shiftReg[rx'.bitsReg + i] = d[i]
    <3> TAKE i \in 1 .. DATA_BITS - rx'.bitsReg
    <3>0. DATA_BITS - rx'.bitsReg = DATA_BITS - rx.bitsReg + 1 /\ DATA_BITS - rx.bitsReg \in Nat
      BY <1>0, <2>1
    <3>1. CASE i \in 1 .. DATA_BITS - rx.bitsReg
      <4>1. /\ rx'.bitsReg + i \in 1 .. DATA_BITS - 1
            /\ rx'.bitsReg + i + 1 = rx.bitsReg + i
        <5>1. /\ DATA_BITS \in Nat /\ rx.bitsReg \in 1 .. DATA_BITS
              /\ rx'.bitsReg = rx.bitsReg - 1 /\ i \in 1 .. DATA_BITS - rx.bitsReg
          BY <1>0, <2>1, <3>1
        <5> QED
          BY <5>1
      <4>2. rx.shiftReg[rx.bitsReg + i] = d[i]
        BY <3>1 DEF Sampling
      <4> QED
        BY <2>3, <4>1, <4>2
    <3>2. CASE i = DATA_BITS - rx'.bitsReg
      <4>1. rx'.bitsReg + i = DATA_BITS /\ i = n
        BY <1>0, <2>1, <3>2 DEF n
      <4> QED
        BY <2>3, <4>1
    <3>3. i \in 1 .. DATA_BITS - rx.bitsReg \/ i = DATA_BITS - rx'.bitsReg
      BY <3>0
    <3> QED
      BY <3>1, <3>2, <3>3
  <2>5. DATA_BITS + 1 - rx'.bitsReg = n + 1
    BY <1>0, <2>1 DEF n
  <2>6. due' = start(n + 1) + offset + 2
    BY <2>5 DEF due
  <2>7. at + 1 + rx'.cntReg = due'
    BY <1>0, <1>1, <1>2, <1>3, <1>5, <2>1, <2>6, SMTT(40)
  <2>8. CASE rx.bitsReg = 1
    <3>1. \A i \in 1 .. DATA_BITS : rx'.shiftReg[i] = d[i]
      BY <1>0, <2>1, <2>4, <2>8
    <3>2. rx'.shiftReg = d
      <4> DEFINE byte == rx'.shiftReg
      <4>1. byte \in [1 .. DATA_BITS -> Bit] /\ d \in [1 .. DATA_BITS -> Bit]
              /\ \A i \in 1 .. DATA_BITS : byte[i] = d[i]
        BY <2>3, <3>1 DEF Byte
      <4> HIDE DEF byte
      <4>2. byte = [i \in 1 .. DATA_BITS |-> byte[i]] /\ d = [i \in 1 .. DATA_BITS |-> d[i]]
        BY <4>1, Zenon
      <4>3. byte = d
        BY <4>1, <4>2, Zenon
      <4> QED
        BY <4>3 DEF byte
    <3> QED
      BY <2>1, <2>7, <2>8, <3>2 DEF Listening
  <2>9. CASE rx.bitsReg # 1
    <3>1. rx'.bitsReg > 0 /\ ~rx'.valReg
      BY <1>0, <2>1, <2>9
    <3> QED
      BY <2>4, <2>7, <3>1 DEF Sampling
  <2> QED
    BY <2>8, <2>9
<1> QED
  BY <1>4, <1>5

\* The stop bits are on the line when the receiver looks for a start bit again.
LEMMA ListensOn ==
  ASSUME RateFits, UartTypeOK, NEW d \in Byte, NEW at \in Nat, Seen(rx.rxReg, d, at - 2),
         Listening(at), NEW bundle, NEW rxd, RxStep(bundle, rxd)
  PROVE  /\ Listening(at + 1)' /\ rx'.shiftReg = rx.shiftReg
         /\ rx'.valReg <=> rx.valReg /\ ~enq_fire(bundle)
<1>0. /\ DATA_BITS \in Nat \ {0} /\ rx.bitsReg = 0 /\ rx.cntReg \in Nat
      /\ offset \in Nat
  BY UartAssumption, CounterAssumption, SampleInBit DEF UartTypeOK, Listening
<1>2. DATA_BITS + 1 - rx.bitsReg = DATA_BITS + 1 /\ start(DATA_BITS + 1) \in Int
  BY <1>0, Starts
<1>3. due = start(DATA_BITS + 1) + offset + 2
  BY <1>2 DEF due
<1>4. CASE rx.cntReg # 0
  <2>1. /\ rx'.cntReg = rx.cntReg - 1 /\ rx'.bitsReg = 0 /\ rx'.shiftReg = rx.shiftReg
        /\ rx'.valReg <=> rx.valReg /\ ~enq_fire(bundle)
    BY <1>0, <1>4, RxFields
  <2>2. due' = due
    BY <1>0, <2>1 DEF due
  <2>3. at + 1 + rx'.cntReg = due'
    BY <1>0, <1>2, <1>3, <1>4, <2>1, <2>2 DEF Listening
  <2> QED
    BY <2>1, <2>3 DEF Listening
<1>5. CASE rx.cntReg = 0
  <2>1. at >= due
    BY <1>0, <1>2, <1>3, <1>5 DEF Listening
  <2>2. at - 2 >= start(DATA_BITS + 1) + offset
    BY <1>0, <1>2, <1>3, <2>1
  <2>3. rx.rxReg = 1
    BY <2>2 DEF Seen
  <2>4. /\ rx'.cntReg = 0 /\ rx'.bitsReg = 0 /\ rx'.shiftReg = rx.shiftReg
        /\ rx'.valReg <=> rx.valReg /\ ~enq_fire(bundle)
    BY <1>0, <1>5, <2>3, RxFields
  <2>5. due' = due
    BY <1>0, <2>4 DEF due
  <2>6. at + 1 >= due'
    BY <1>0, <1>2, <1>3, <2>1, <2>5
  <2> QED
    BY <2>4, <2>6 DEF Listening
<1> QED
  BY <1>4, <1>5

\* When a frame ends its byte has been received.
LEMMA ReceivedInTime ==
  ASSUME RateFits, UartTypeOK, NEW d \in Byte, NEW at \in Nat, at = start(DATA_BITS + 3) - 1
  PROVE  /\ ~Waiting(at) /\ ~Sampling(d, at)
         /\ Listening(at) => rx.bitsReg = 0 /\ rx.cntReg = 0
<1>0. /\ DATA_BITS \in Nat \ {0} /\ BIT_CNT \in Nat /\ BIT_CNT >= 2
      /\ rx.bitsReg \in 0 .. DATA_BITS /\ rx.cntReg \in Nat /\ offset \in 0 .. BIT_CNT
  BY UartAssumption, CounterAssumption, SampleInBit DEF UartTypeOK, RateFits
<1>1. /\ start(0) = 0 /\ start(DATA_BITS + 1) \in Int
      /\ start(0) + BIT_CNT + 1 <= start(DATA_BITS + 1)
      /\ start(DATA_BITS + 3) = start(DATA_BITS + 1) + BIT_CNT + 1 + BIT_CNT + 1
  <2>1. DATA_BITS + 1 + 1 = DATA_BITS + 2 /\ DATA_BITS + 2 + 1 = DATA_BITS + 3
    BY <1>0
  <2>2. DATA_BITS + 1 \in Int /\ DATA_BITS + 2 \in Int /\ 0 < DATA_BITS + 1
    BY <1>0
  <2>3. /\ start(DATA_BITS + 2) = start(DATA_BITS + 1) + BIT_CNT + 1
        /\ start(DATA_BITS + 3) = start(DATA_BITS + 2) + BIT_CNT + 1
    BY <2>1, <2>2, Starts
  <2>4. start(0) = 0 /\ start(DATA_BITS + 1) \in Int
        /\ start(0) + BIT_CNT + 1 <= start(DATA_BITS + 1)
    BY <2>2, Starts
  <2> QED
    BY <1>0, <2>3, <2>4
<1>2. ~Waiting(at)
  BY <1>0, <1>1 DEF Waiting
<1> DEFINE n == DATA_BITS + 1 - rx.bitsReg
<1>3. n \in Int /\ start(n) \in Int
  <2>1. n \in Int
    BY <1>0
  <2> HIDE DEF n
  <2> QED
    BY <2>1, Starts
<1>4. ASSUME Sampling(d, at)
      PROVE  FALSE
  <2>1. n < DATA_BITS + 1 /\ DATA_BITS + 1 \in Int
    BY <1>0, <1>4 DEF Sampling
  <2> HIDE DEF n
  <2>2. start(n) + BIT_CNT + 1 <= start(DATA_BITS + 1)
    BY <1>3, <2>1, Starts
  <2>3. at + rx.cntReg = start(n) + offset + 2
    BY <1>4 DEF Sampling, due, n
  <2> QED
    BY <1>0, <1>1, <1>3, <2>2, <2>3
<1>5. ASSUME Listening(at)
      PROVE  rx.bitsReg = 0 /\ rx.cntReg = 0
  <2>1. rx.bitsReg = 0 /\ n = DATA_BITS + 1
    BY <1>0, <1>5 DEF Listening
  <2>2. due = start(DATA_BITS + 1) + offset + 2
    BY <2>1 DEF due
  <2> HIDE DEF n
  <2> QED
    BY <1>0, <1>1, <1>5, <2>1, <2>2 DEF Listening
<1> QED
  BY <1>2, <1>4, <1>5

-----------------------------------------------------------------------------
(***************************************************************************)
(* The bytes under way.                                                    *)
(***************************************************************************)
\* What the FIFO and the receiver hold.
held == rxFifo \o IF rx.valReg THEN <<rx.shiftReg>> ELSE << >>
\* What waits in front of the transmitter.
buffered == IF buf.full THEN <<buf.data>> ELSE << >>

\* The byte of the frame on the line that the receiver does not have yet.
OnLine(rest) ==
  \/ rest = << >> /\ Silent
  \/ \E d \in Byte : Sending(d) /\ rest = <<d>> /\ (Waiting(cycle) \/ Sampling(d, cycle))
  \/ \E d \in Byte : Sending(d) /\ rest = << >> /\ Listening(cycle)

\* The invariant: the bytes sent and not read stand in the FIFO, in the receiver, on the
\* line and in the buffer, the oldest first.
BytesInv == \E rest \in Seq(Byte) : OnLine(rest) /\ inflight = held \o (rest \o buffered)

\* Reading the first element of a sequence that others follow.
LEMMA TailOfConcat ==
  ASSUME NEW S, NEW s \in Seq(S), NEW t \in Seq(S), s # << >>
  PROVE  Tail(s \o t) = Tail(s) \o t /\ s \o t # << >>
<1> DEFINE all == s \o t
           rest == Tail(s)
           both == rest \o t
<1>1. /\ Len(s) \in Nat /\ Len(s) >= 1 /\ Len(t) \in Nat
      /\ rest \in Seq(S) /\ Len(rest) = Len(s) - 1
      /\ \A i \in 1 .. Len(rest) : rest[i] = s[i + 1]
  BY EmptySeq, LenProperties, HeadTailProperties
<1>2. /\ all \in Seq(S) /\ Len(all) = Len(s) + Len(t)
      /\ \A i \in 1 .. Len(s) + Len(t) : all[i] = IF i <= Len(s) THEN s[i] ELSE t[i - Len(s)]
  BY ConcatProperties
<1> HIDE DEF rest
<1>3. /\ both \in Seq(S) /\ Len(both) = Len(rest) + Len(t)
      /\ \A i \in 1 .. Len(rest) + Len(t) :
           both[i] = IF i <= Len(rest) THEN rest[i] ELSE t[i - Len(rest)]
  BY <1>1, ConcatProperties
<1> HIDE DEF all, both
<1>4. all # << >>
  BY <1>1, <1>2, EmptySeq
<1>5. /\ Tail(all) \in Seq(S) /\ Len(Tail(all)) = Len(all) - 1
      /\ \A i \in 1 .. Len(Tail(all)) : Tail(all)[i] = all[i + 1]
  BY <1>2, <1>4, HeadTailProperties
<1> DEFINE left == Tail(all)
<1> HIDE DEF left
<1>6. ASSUME NEW i \in 1 .. Len(left)
      PROVE  left[i] = both[i]
  <2>1. /\ i \in Int /\ i + 1 \in 1 .. Len(s) + Len(t) /\ i \in 1 .. Len(rest) + Len(t)
        /\ (i <= Len(rest) <=> i + 1 <= Len(s)) /\ i + 1 - Len(s) = i - Len(rest)
    BY <1>1, <1>2, <1>5 DEF left
  <2>2. left[i] = IF i + 1 <= Len(s) THEN s[i + 1] ELSE t[i + 1 - Len(s)]
    BY <1>2, <1>5, <2>1 DEF left
  <2>3. both[i] = IF i <= Len(rest) THEN rest[i] ELSE t[i - Len(rest)]
    BY <1>3, <2>1
  <2>4. CASE i <= Len(rest)
    BY <1>1, <2>1, <2>2, <2>3, <2>4
  <2>5. CASE ~(i <= Len(rest))
    BY <2>1, <2>2, <2>3, <2>5
  <2> QED
    BY <2>4, <2>5
<1>7. left = both
  <2>1. left \in Seq(S) /\ Len(left) = Len(both)
    BY <1>1, <1>2, <1>3, <1>5 DEF left
  <2> QED
    BY <1>3, <1>6, <2>1, SeqEqual
<1> QED
  BY <1>4, <1>7 DEF left, all, both, rest

\* The first byte that is held leaves when the program reads.
remaining(bundle) == IF deq_fire(bundle) THEN Tail(held) ELSE held

\* What is held: bytes, and at least one when the program can read.
LEMMA HeldType ==
  ASSUME UartTypeOK, NEW bundle
  PROVE  /\ held \in Seq(Byte)
         /\ deq_fire(bundle) => held # << >>
         /\ remaining(bundle) \in Seq(Byte)
<1> DEFINE last == IF rx.valReg THEN <<rx.shiftReg>> ELSE << >>
<1>1. rxFifo \in Seq(Byte) /\ last \in Seq(Byte)
  BY DEF UartTypeOK
<1> HIDE DEF last
<1>2. rxFifo \o last \in Seq(Byte) /\ (rxFifo # << >> => rxFifo \o last # << >>)
  BY <1>1, ConcatProperties, ConcatEqualIffEmpty
<1>3. held = rxFifo \o last
  BY DEF held, last
<1>4. held \in Seq(Byte) /\ (deq_fire(bundle) => held # << >>)
  BY <1>2, <1>3 DEF deq_fire, rx_valid
<1> QED
  BY <1>4, HeadTailProperties DEF remaining

\* A byte goes from the receiver to the FIFO, or stays.
LEMMA HeldStays ==
  ASSUME UartTypeOK, NEW bundle, FifoStep(bundle), rx'.valReg => rx'.shiftReg = rx.shiftReg,
         rx'.valReg <=> rx.valReg /\ ~enq_fire(bundle)
  PROVE  held' = remaining(bundle)
<1> DEFINE last == IF rx.valReg THEN <<rx.shiftReg>> ELSE << >>
           fifo == IF deq_fire(bundle) THEN Tail(rxFifo) ELSE rxFifo
<1>1. rxFifo \in Seq(Byte) /\ last \in Seq(Byte) /\ rx.shiftReg \in Byte
  BY DEF UartTypeOK
<1>2. held = rxFifo \o last
  BY DEF held
<1>3. fifo \in Seq(Byte)
  BY <1>1, HeadTailProperties DEF deq_fire, rx_valid
<1>4. remaining(bundle) = fifo \o last
  <2>1. CASE deq_fire(bundle)
    <3>1. rxFifo # << >>
      BY <2>1 DEF deq_fire, rx_valid
    <3> HIDE DEF last
    <3>2. Tail(rxFifo \o last) = Tail(rxFifo) \o last
      BY <1>1, <3>1, TailOfConcat
    <3> QED
      BY <1>2, <2>1, <3>2 DEF remaining
  <2>2. CASE ~deq_fire(bundle)
    BY <1>2, <2>2 DEF remaining
  <2> QED
    BY <2>1, <2>2
<1>5. rxFifo' = IF enq_fire(bundle) THEN Append(fifo, rx.shiftReg) ELSE fifo
  BY DEF FifoStep
<1>6. held' = rxFifo' \o IF rx'.valReg THEN <<rx'.shiftReg>> ELSE << >>
  BY DEF held
<1> HIDE DEF fifo
<1>7. CASE enq_fire(bundle)
  <2>1. last = <<rx.shiftReg>> /\ ~rx'.valReg
    BY <1>7 DEF enq_fire
  <2>2. Append(fifo, rx.shiftReg) = fifo \o <<rx.shiftReg>> /\ rxFifo' \in Seq(Byte)
    BY <1>1, <1>3, <1>5, <1>7, AppendIsConcat, AppendProperties
  <2>3. held' = rxFifo'
    BY <1>6, <2>1, <2>2, ConcatEmptySeq
  <2> QED
    BY <1>4, <1>5, <1>7, <2>1, <2>2, <2>3
<1>8. CASE ~enq_fire(bundle)
  BY <1>4, <1>5, <1>6, <1>8
<1> QED
  BY <1>7, <1>8

\* The receiver has taken a byte from the line.
LEMMA HeldGrows ==
  ASSUME UartTypeOK, NEW bundle, FifoStep(bundle), NEW d, rx'.shiftReg = d,
         ~rx.valReg, rx'.valReg
  PROVE  held' = remaining(bundle) \o <<d>>
<1>1. ~enq_fire(bundle)
  BY DEF enq_fire
<1>2. rxFifo' = IF deq_fire(bundle) THEN Tail(rxFifo) ELSE rxFifo
  BY <1>1 DEF FifoStep
<1>3. held = rxFifo
  BY ConcatEmptySeq DEF held, UartTypeOK
<1> QED
  BY <1>2, <1>3 DEF held, remaining

\* The transmitter takes a byte from the buffer.
taken == buf.full /\ channel_ready

\* Nothing new has come to the receiver in this edge.
NoneReceived(bundle) ==
  /\ rx'.valReg => rx'.shiftReg = rx.shiftReg
  /\ rx'.valReg <=> rx.valReg /\ ~enq_fire(bundle)

\* One edge of the line: a byte goes onto it, or from it to the receiver, or neither.
LEMMA LineMoves ==
  ASSUME RateFits, UartTypeOK, NEW rest, OnLine(rest), NEW bundle,
         TxStep, RxStep(bundle, txd),
         rest # << >> /\ rx.valReg => enq_fire(bundle), NEW byte \in Byte, byte = buf.data
  PROVE  \/ /\ taken /\ rest = << >> /\ NoneReceived(bundle)
            /\ OnLine(<<byte>>)'
         \/ /\ ~taken /\ OnLine(rest)' /\ NoneReceived(bundle)
         \/ /\ ~taken /\ OnLine(<< >>)' /\ ~rx.valReg /\ rx'.valReg
            /\ \E d \in Byte : rest = <<d>> /\ rx'.shiftReg = d
<1>1. CASE rest = << >> /\ Silent
  <2>1. CASE taken
    <3>1. /\ Sending(byte)' /\ cycle' = 0
          /\ rx'.bitsReg = 0 /\ rx'.cntReg = 0 /\ rx'.shiftReg = rx.shiftReg
          /\ rx'.valReg <=> rx.valReg /\ ~enq_fire(bundle)
      BY <1>1, <2>1, SendingBegins DEF taken
    <3>2. Waiting(cycle)'
      BY <3>1 DEF Waiting, cycle, bit, start
    <3> QED
      BY <1>1, <2>1, <3>1, <3>2 DEF OnLine, NoneReceived
  <2>2. CASE ~taken
    <3>1. /\ Silent' /\ rx'.shiftReg = rx.shiftReg
          /\ rx'.valReg <=> rx.valReg /\ ~enq_fire(bundle)
      BY <1>1, <2>2, SilenceGoesOn DEF taken
    <3> QED
      BY <1>1, <2>2, <3>1 DEF OnLine, NoneReceived
  <2> QED
    BY <2>1, <2>2
<1>2. ASSUME NEW d \in Byte, Sending(d),
             \/ rest = <<d>> /\ (Waiting(cycle) \/ Sampling(d, cycle))
             \/ rest = << >> /\ Listening(cycle)
      PROVE  \/ ~taken /\ OnLine(rest)' /\ NoneReceived(bundle)
             \/ /\ ~taken /\ OnLine(<< >>)' /\ ~rx.valReg /\ rx'.valReg
                /\ rest = <<d>> /\ rx'.shiftReg = d
  <2>1. ~taken
    BY <1>2 DEF taken, channel_ready, Sending, Framing, UartTypeOK
  <2>a. PICK at \in Nat : at = cycle
    <3>1. cycle \in Int /\ cycle >= 0
      BY <1>2, LineCarries DEF Sending
    <3> QED
      BY <3>1
  <2>b. Seen(rx.rxReg, d, at - 2)
    <3>1. WasOnLine(rx.rxReg, d, at - 2) /\ at - 2 \in Int
      BY <1>2, <2>a DEF Sending
    <3> QED
      BY <3>1, FrameIsSeen
  <2>2. CASE tx.cntReg = 0 /\ tx.bitsReg = 1
    <3>1. /\ tx'.bitsReg = 0 /\ tx'.shiftReg = TX_IDLE
          /\ rx'.sync = 1 /\ rx'.rxReg = 1 /\ rx.rxReg = 1
          /\ at = start(DATA_BITS + 3) - 1
      BY <1>2, <2>2, <2>a, SendingEnds
    <3>2. rest = << >> /\ rx.bitsReg = 0 /\ rx.cntReg = 0
      BY <1>2, <2>a, <3>1, ReceivedInTime
    <3>3. /\ rx'.bitsReg = 0 /\ rx'.cntReg = 0 /\ rx'.shiftReg = rx.shiftReg
          /\ rx'.valReg <=> rx.valReg /\ ~enq_fire(bundle)
      BY <3>1, <3>2, RxFields
    <3>4. Silent'
      BY <3>1, <3>3 DEF Silent, TX_IDLE
    <3> QED
      BY <2>1, <3>2, <3>3, <3>4 DEF OnLine, NoneReceived
  <2>3. CASE ~(tx.cntReg = 0 /\ tx.bitsReg = 1)
    <3>1. Sending(d)' /\ cycle' = at + 1
      BY <1>2, <2>3, <2>a, SendingGoesOn
    <3>a. /\ Waiting(at + 1)' => Waiting(cycle)'
          /\ Sampling(d, at + 1)' => Sampling(d, cycle)'
          /\ Listening(at + 1)' => Listening(cycle)'
      BY <3>1 DEF Waiting, Sampling, Listening, cycle, bit, due, start
    <3>2. CASE rest = <<d>> /\ Waiting(cycle)
      <4>1. (Waiting(at + 1)' \/ Sampling(d, at + 1)') /\ ~rx'.valReg
        BY <1>2, <2>a, <2>b, <3>2, StartBitFound
      <4>2. Waiting(cycle)' \/ Sampling(d, cycle)'
        BY <3>a, <4>1
      <4> QED
        BY <2>1, <3>1, <3>2, <4>1, <4>2 DEF OnLine, NoneReceived
    <3>3. CASE rest = <<d>> /\ Sampling(d, cycle)
      <4>1. CASE Sampling(d, at + 1)' /\ ~rx'.valReg
        BY <2>1, <3>1, <3>3, <3>a, <4>1 DEF OnLine, NoneReceived, Sampling
      <4>2. CASE Listening(at + 1)' /\ rx'.valReg /\ rx'.shiftReg = d
        BY <2>1, <3>1, <3>3, <3>a, <4>2 DEF OnLine, Sampling
      <4> QED
        BY <1>2, <2>a, <2>b, <3>3, <4>1, <4>2, SamplesGoOn
    <3>4. CASE rest = << >> /\ Listening(cycle)
      <4>1. /\ Listening(at + 1)' /\ rx'.shiftReg = rx.shiftReg
            /\ rx'.valReg <=> rx.valReg /\ ~enq_fire(bundle)
        BY <1>2, <2>a, <2>b, <3>4, ListensOn
      <4> QED
        BY <2>1, <3>1, <3>4, <3>a, <4>1 DEF OnLine, NoneReceived
    <3> QED
      BY <1>2, <3>2, <3>3, <3>4
  <2> QED
    BY <2>2, <2>3
<1>3. CASE \E d \in Byte : Sending(d) /\ rest = <<d>> /\ (Waiting(cycle) \/ Sampling(d, cycle))
  BY <1>2, <1>3
<1>4. CASE \E d \in Byte : Sending(d) /\ rest = << >> /\ Listening(cycle)
  BY <1>2, <1>4
<1> QED
  BY <1>1, <1>3, <1>4 DEF OnLine

\* A byte that is kept in the receiver finds room in the FIFO once another is on the line:
\* the program is not further ahead.
LEMMA RoomForHeld ==
  ASSUME CreditFits, TypeOK, NEW rest \in Seq(Byte), rest # << >>, rx.valReg,
         inflight = held \o (rest \o buffered), NEW bundle
  PROVE  enq_fire(bundle)
<1>0. /\ FifoEntries \in Nat /\ Credit \in Nat /\ Len(inflight) <= Credit
      /\ rxFifo \in Seq(Byte) /\ <<rx.shiftReg>> \in Seq(Byte) /\ Len(<<rx.shiftReg>>) = 1
      /\ buffered \in Seq(Byte)
  BY UartAssumption, LoopbackAssumption DEF TypeOK, UartTypeOK, buffered
<1> DEFINE last == <<rx.shiftReg>>
           ahead == rest \o buffered
<1>1. held = rxFifo \o last
  BY DEF held
<1> HIDE DEF last
<1>2. held \in Seq(Byte) /\ Len(held) = Len(rxFifo) + 1
  BY <1>0, <1>1, ConcatProperties DEF last
<1>3. ahead \in Seq(Byte) /\ Len(ahead) = Len(rest) + Len(buffered)
  BY <1>0, ConcatProperties
<1> HIDE DEF ahead
<1>4. Len(inflight) = Len(held) + Len(ahead)
  BY <1>2, <1>3, ConcatProperties DEF ahead
<1>5. Len(rest) >= 1 /\ Len(rest) \in Nat /\ Len(buffered) \in Nat /\ Len(rxFifo) \in Nat
  BY <1>0, EmptySeq, LenProperties
<1>6. Len(rxFifo) < FifoEntries
  BY <1>0, <1>2, <1>3, <1>4, <1>5 DEF CreditFits
<1> QED
  BY <1>6 DEF enq_fire, enq_ready

\* The program's side of an edge: what it reads leaves in front, what it sends comes in
\* behind.
LEMMA InflightMoves ==
  ASSUME TypeOK, NEW rest \in Seq(Byte), inflight = held \o (rest \o buffered),
         NEW bundle, AccessOK(bundle), InflightStep(bundle)
  PROVE  inflight' = remaining(bundle) \o ((rest \o buffered) \o
                       IF accepted(bundle) THEN <<bundle.data>> ELSE << >>)
<1> DEFINE ahead == rest \o buffered
           left == remaining(bundle)
           sent == IF accepted(bundle) THEN <<bundle.data>> ELSE << >>
           read == IF deq_fire(bundle) /\ inflight # << >> THEN Tail(inflight) ELSE inflight
<1>1. /\ held \in Seq(Byte) /\ left \in Seq(Byte) /\ (deq_fire(bundle) => held # << >>)
      /\ buffered \in Seq(Byte) /\ bundle.data \in Byte
  BY HeldType DEF TypeOK, UartTypeOK, buffered, AccessOK
<1>2. ahead \in Seq(Byte)
  BY <1>1, ConcatProperties
<1>3. sent \in Seq(Byte)
  BY <1>1
<1> HIDE DEF ahead
<1>4. inflight = held \o ahead
  BY DEF ahead
<1>5. read = left \o ahead
  <2>1. CASE deq_fire(bundle)
    <3>1. held # << >>
      BY <1>1, <2>1
    <3>2. Tail(held \o ahead) = Tail(held) \o ahead /\ held \o ahead # << >>
      BY <1>1, <1>2, <3>1, TailOfConcat
    <3> QED
      BY <1>4, <2>1, <3>2 DEF remaining
  <2>2. CASE ~deq_fire(bundle)
    BY <1>4, <2>2 DEF remaining
  <2> QED
    BY <2>1, <2>2
<1>6. inflight' = IF accepted(bundle) THEN Append(read, bundle.data) ELSE read
  BY DEF InflightStep
<1> HIDE DEF read, left
<1>7. left \o ahead \in Seq(Byte)
  BY <1>1, <1>2, ConcatProperties
<1>8. inflight' = (left \o ahead) \o sent
  <2>1. CASE accepted(bundle)
    BY <1>1, <1>5, <1>6, <1>7, <2>1, AppendIsConcat
  <2>2. CASE ~accepted(bundle)
    BY <1>5, <1>6, <1>7, <2>2, ConcatEmptySeq
  <2> QED
    BY <2>1, <2>2
<1> HIDE DEF sent
<1>9. inflight' = left \o (ahead \o sent)
  <2>1. left \in Seq(Byte) /\ ahead \in Seq(Byte) /\ sent \in Seq(Byte)
    BY <1>1, <1>2, <1>3 DEF left
  <2>2. (left \o ahead) \o sent = left \o (ahead \o sent)
    BY <2>1, ConcatAssociative, SMTT(40)
  <2> QED
    BY <1>8, <2>2
<1> QED
  BY <1>9 DEF left, ahead, sent

\* The buffer gives a byte away, keeps one, or takes one.
LEMMA BufferMoves ==
  ASSUME UartTypeOK, NEW bundle, BufferStep(bundle)
  PROVE  /\ taken => buffered' = << >> /\ buffered = <<buf.data>> /\ ~accepted(bundle)
         /\ ~taken => \/ buffered' = buffered /\ ~accepted(bundle)
                      \/ buffered = << >> /\ accepted(bundle) /\ buffered' = <<bundle.data>>
<1>1. CASE buf.full
  <2>1. buf' = [buf EXCEPT !.full = ~channel_ready] /\ ~accepted(bundle)
    BY <1>1 DEF BufferStep, accepted, tx_ready
  <2>2. buf'.full = ~channel_ready /\ buf'.data = buf.data
    BY <2>1 DEF UartTypeOK
  <2>3. /\ buffered = <<buf.data>>
        /\ buffered' = IF buf'.full THEN <<buf'.data>> ELSE << >>
    BY <1>1 DEF buffered
  <2>4. CASE channel_ready
    BY <1>1, <2>1, <2>2, <2>3, <2>4 DEF taken
  <2>5. CASE ~channel_ready
    BY <1>1, <2>1, <2>2, <2>3, <2>5 DEF taken
  <2> QED
    BY <2>4, <2>5
<1>2. CASE ~buf.full /\ accepted(bundle)
  <2>1. buf' = [ full |-> TRUE, data |-> bundle.data ]
    BY <1>2 DEF BufferStep
  <2> QED
    BY <1>2, <2>1 DEF buffered, taken
<1>3. CASE ~buf.full /\ ~accepted(bundle)
  BY <1>3 DEF BufferStep, buffered, taken
<1> QED
  BY <1>1, <1>2, <1>3

\* Each edge keeps the bytes in their order.
LEMMA BytesMove ==
  ASSUME RateFits, CreditFits, TypeOK, BytesInv, NEW bundle, AccessOK(bundle), Tick(bundle)
  PROVE  BytesInv'
<1>1. PICK rest \in Seq(Byte) : OnLine(rest) /\ inflight = held \o (rest \o buffered)
  BY DEF BytesInv
<1>2. /\ UartTypeOK /\ TxStep /\ BufferStep(bundle) /\ RxStep(bundle, txd)
      /\ FifoStep(bundle) /\ InflightStep(bundle)
  BY DEF TypeOK, Tick, UartStep
<1>3. rest # << >> /\ rx.valReg => enq_fire(bundle)
  BY <1>1, RoomForHeld
<1> DEFINE left == remaining(bundle)
           sent == IF accepted(bundle) THEN <<bundle.data>> ELSE << >>
<1>4. inflight' = left \o ((rest \o buffered) \o sent)
  BY <1>1, <1>2, InflightMoves
<1>5. /\ left \in Seq(Byte) /\ sent \in Seq(Byte) /\ buf.data \in Byte
      /\ buffered \in Seq(Byte)
  BY <1>2, HeldType DEF AccessOK, UartTypeOK, buffered
<1>6. PICK byte \in Byte : byte = buf.data
  BY <1>5
<1>7. \/ taken /\ rest = << >> /\ NoneReceived(bundle) /\ OnLine(<<byte>>)'
      \/ ~taken /\ OnLine(rest)' /\ NoneReceived(bundle)
      \/ /\ ~taken /\ OnLine(<< >>)' /\ ~rx.valReg /\ rx'.valReg
         /\ \E d \in Byte : rest = <<d>> /\ rx'.shiftReg = d
  BY <1>1, <1>2, <1>3, <1>6, LineMoves
<1>8. ~taken => (rest \o buffered) \o sent = rest \o buffered'
  <2>1. CASE buffered' = buffered /\ ~accepted(bundle)
    <3>1. rest \o buffered \in Seq(Byte)
      BY <1>5, ConcatProperties
    <3> QED
      BY <2>1, <3>1, ConcatEmptySeq
  <2>2. CASE buffered = << >> /\ accepted(bundle) /\ buffered' = <<bundle.data>>
    BY <2>2, ConcatEmptySeq
  <2> QED
    BY <1>2, <2>1, <2>2, BufferMoves
<1>9. NoneReceived(bundle) => held' = left
  BY <1>2, HeldStays DEF NoneReceived
<1>10. CASE taken /\ rest = << >> /\ NoneReceived(bundle) /\ OnLine(<<byte>>)'
  <2>1. buffered' = << >> /\ buffered = <<byte>> /\ ~accepted(bundle)
    BY <1>2, <1>6, <1>10, BufferMoves
  <2>2. <<byte>> \in Seq(Byte)
    OBVIOUS
  <2> DEFINE one == <<byte>>
  <2> HIDE DEF one
  <2>3. (<< >> \o one) \o << >> = one \o << >>
    BY <2>2, ConcatEmptySeq DEF one
  <2>4. inflight' = held' \o (one \o buffered')
    BY <1>4, <1>9, <1>10, <2>1, <2>3 DEF one
  <2> QED
    BY <1>10, <2>2, <2>4 DEF BytesInv, one
<1>11. CASE ~taken /\ OnLine(rest)' /\ NoneReceived(bundle)
  <2>1. inflight' = held' \o (rest \o buffered')
    BY <1>4, <1>8, <1>9, <1>11
  <2> QED
    BY <1>11, <2>1 DEF BytesInv
<1>12. ASSUME ~taken, OnLine(<< >>)', ~rx.valReg, rx'.valReg,
              NEW d \in Byte, rest = <<d>>, rx'.shiftReg = d
       PROVE  BytesInv'
  <2>1. held' = left \o rest
    BY <1>2, <1>12, HeldGrows
  <2>2. buffered' \in Seq(Byte)
    <3>1. buffered' = buffered \/ buffered' = <<bundle.data>>
      BY <1>2, <1>12, BufferMoves
    <3>2. <<bundle.data>> \in Seq(Byte)
      BY DEF AccessOK
    <3> QED
      BY <1>5, <3>1, <3>2
  <2> DEFINE coming == buffered'
  <2>3. inflight' = left \o (rest \o coming)
    BY <1>4, <1>8, <1>12
  <2>4. left \in Seq(Byte) /\ rest \in Seq(Byte) /\ coming \in Seq(Byte)
    BY <1>1, <1>5, <2>2
  <2> HIDE DEF coming, left
  <2>5. left \o (rest \o coming) = (left \o rest) \o coming
    BY <2>4, ConcatAssociative, SMTT(30)
  <2>6. << >> \o coming = coming
    BY <2>4, ConcatEmptySeq
  <2>7. inflight' = held' \o (<< >> \o buffered')
    BY <2>1, <2>3, <2>5, <2>6 DEF coming
  <2>8. << >> \in Seq(Byte)
    OBVIOUS
  <2> QED
    BY <1>12, <2>7, <2>8 DEF BytesInv
<1> QED
  BY <1>7, <1>10, <1>11, <1>12

\* At first nothing is under way.
LEMMA BytesBegin ==
  ASSUME Init
  PROVE  BytesInv
<1>1. /\ rxFifo = << >> /\ ~rx.valReg /\ ~buf.full /\ inflight = << >> /\ Silent
  BY DEF Init, UartInit, Silent
<1>2. held = << >> \o << >> /\ buffered = << >>
  BY <1>1 DEF held, buffered
<1>3. << >> \in Seq(Byte) /\ << >> \o << >> = << >>
  OBVIOUS
<1>4. inflight = held \o (<< >> \o buffered)
  BY <1>1, <1>2, <1>3
<1>5. OnLine(<< >>)
  BY <1>1 DEF OnLine
<1> QED
  BY <1>3, <1>4, <1>5 DEF BytesInv

\* The bytes that have arrived are the first of those under way.
LEMMA BytesShow ==
  ASSUME TypeOK, BytesInv
  PROVE  BytesArriveIntact
<1>1. PICK rest \in Seq(Byte) : inflight = held \o (rest \o buffered)
  BY DEF BytesInv
<1>2. held \in Seq(Byte) /\ buffered \in Seq(Byte)
  BY HeldType DEF TypeOK, UartTypeOK, buffered
<1> DEFINE first == held
           ahead == rest \o buffered
           whole == first \o ahead
           part == SubSeq(whole, 1, Len(first))
<1>3. ahead \in Seq(Byte) /\ first \in Seq(Byte)
  BY <1>2, ConcatProperties
<1>4. inflight = whole
  BY <1>1
<1> HIDE DEF first, ahead
<1>5. /\ whole \in Seq(Byte) /\ Len(first) \in Nat /\ Len(ahead) \in Nat
      /\ Len(whole) = Len(first) + Len(ahead)
      /\ \A i \in 1 .. Len(first) + Len(ahead) :
           whole[i] = IF i <= Len(first) THEN first[i] ELSE ahead[i - Len(first)]
  BY <1>3, ConcatProperties, LenProperties
<1> HIDE DEF whole
<1>6. \A i \in 1 .. Len(first) : whole[i] \in Byte /\ whole[i] = first[i]
  <2>1. \A i \in 1 .. Len(first) : first[i] \in Byte
    BY <1>3, ElementOfSeq
  <2> QED
    BY <1>5, <2>1
<1>7. /\ part \in Seq(Byte) /\ Len(part) = Len(first)
      /\ \A i \in 1 .. Len(first) : part[i] = whole[i]
  <2>1. /\ part \in Seq(Byte)
        /\ Len(part) = IF 1 <= Len(first) THEN Len(first) - 1 + 1 ELSE 0
        /\ \A i \in 1 .. Len(first) - 1 + 1 : part[i] = whole[1 + i - 1]
    BY <1>5, <1>6, SubSeqProperties
  <2> HIDE DEF part
  <2>2. Len(first) - 1 + 1 = Len(first)
    BY <1>5
  <2>3. \A i \in 1 .. Len(first) : 1 + i - 1 = i
    BY <1>5
  <2> QED
    BY <1>5, <2>1, <2>2, <2>3
<1> HIDE DEF part
<1>8. first = part
  BY <1>3, <1>6, <1>7, SeqEqual
<1>9. Len(first) <= Len(whole)
  BY <1>5
<1>10. Len(held) <= Len(inflight) /\ held = SubSeq(inflight, 1, Len(held))
  BY <1>4, <1>8, <1>9 DEF first, part
<1> QED
  BY <1>10 DEF BytesArriveIntact, held

\* Nothing that was sent is lost, repeated, garbled or put out of order between the
\* program's write and its read, at every rate of three cycles a bit or more, while the
\* program is ahead by no more bytes than the FIFO and the receiver hold.
THEOREM BytesAreIntact ==
  ASSUME RateFits, CreditFits
  PROVE  Spec => []BytesArriveIntact
<1>1. Init => BytesInv
  BY BytesBegin
<1>2. TypeOK /\ BytesInv /\ [Next]_vars => BytesInv'
  <2> SUFFICES ASSUME TypeOK, BytesInv, [Next]_vars PROVE BytesInv'
    OBVIOUS
  <2>1. CASE Next
    <3>1. PICK bundle : AccessOK(bundle) /\ Tick(bundle)
      BY <2>1, StepIsTick
    <3> QED
      BY <3>1, BytesMove
  <2>2. CASE UNCHANGED vars
    <3>1. tx' = tx /\ rx' = rx /\ buf' = buf /\ rxFifo' = rxFifo /\ inflight' = inflight
      BY <2>2 DEF vars, uart_vars
    <3>2. held' = held /\ buffered' = buffered
      BY <3>1 DEF held, buffered
    <3>3. PICK rest \in Seq(Byte) : OnLine(rest) /\ inflight = held \o (rest \o buffered)
      BY DEF BytesInv
    <3>4. OnLine(rest)'
      BY <3>1, <3>3 DEF OnLine, Silent, Sending, Framing, Waiting, Sampling, Listening, WasOnLine,
                        cycle, bit, due
    <3> QED
      BY <3>1, <3>2, <3>3, <3>4 DEF BytesInv
  <2> QED
    BY <2>1, <2>2
<1>3. TypeOK /\ BytesInv => BytesArriveIntact
  BY BytesShow
<1> QED
  BY <1>1, <1>2, <1>3, TypeCorrect, PTL DEF Spec
=============================================================================
