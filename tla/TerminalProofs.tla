---------------------------- MODULE TerminalProofs ----------------------------
(***************************************************************************)
(* The theorems of the terminal of the harness in front of the UART: for   *)
(* every rate that the two lines allow, every number of data bits and any  *)
(* keys, the program answers the keys in order and the terminal shows its  *)
(* answers, and the harness leaves only when what it was waiting for is    *)
(* shown.  What holds of the transmitter, the receiver and their registers *)
(* whatever is wired to them comes from UartLoopbackProofs.                *)
(***************************************************************************)
EXTENDS Terminal, SequenceTheorems, TLAPS

-----------------------------------------------------------------------------
(***************************************************************************)
(* The terminal of the harness: types.                                     *)
(***************************************************************************)
\* What is proved of the UART whatever is wired to it.
UP == INSTANCE UartLoopbackProofs
        WITH Payloads <- Byte, Credit <- 1, inflight <- << >>, override <- FALSE

\* Bytes that follow each other, however they are grouped.
LEMMA BytesRegroup ==
  \A a, b, c \in Seq(Byte) : (a \o b) \o c = a \o (b \o c)
BY ConcatAssociative

\* The instance speaks of the same constants.
LEMMA SameConstants ==
  /\ UP!Bit = Bit /\ UP!Byte = Byte /\ UP!Zero = Zero
  /\ UP!BIT_CNT = BIT_CNT /\ UP!START_CNT = START_CNT
  /\ UP!TX_FRAME_BITS = TX_FRAME_BITS /\ UP!TX_IDLE = TX_IDLE
BY DEF UP!Bit, Bit, UP!Byte, Byte, UP!Zero, Zero, UP!BIT_CNT, BIT_CNT, UP!START_CNT, START_CNT,
       UP!TX_FRAME_BITS, TX_FRAME_BITS, UP!TX_IDLE, TX_IDLE, UP!STOP_BITS, STOP_BITS

\* Which it assumes the same of.
LEMMA SameAssumptions == UP!UartAssumption /\ UP!CounterAssumption /\ UP!LoopbackAssumption
BY UartAssumption, CounterAssumption, SameConstants
   DEF UP!UartAssumption, UP!CounterAssumption, UP!LoopbackAssumption

\* And of the same registers.
LEMMA SameRegisters ==
  /\ UP!UartTypeOK <=> UartTypeOK
  /\ UP!UartTypeOK' <=> UartTypeOK'
  /\ UP!txd = txd /\ UP!txd' = txd' /\ (UP!channel_ready <=> channel_ready)
BY SameConstants DEF UP!UartTypeOK, UartTypeOK, UP!txd, txd, UP!channel_ready, channel_ready

\* And of the same accesses.
LEMMA SameAccesses ==
  ASSUME NEW bundle
  PROVE  /\ UP!accepted(bundle) <=> accepted(bundle)
         /\ UP!deq_fire(bundle) <=> deq_fire(bundle)
         /\ UP!enq_fire(bundle) <=> enq_fire(bundle)
         /\ UP!AccessOK(bundle) <=> bundle.data \in Byte
BY SameConstants
   DEF UP!accepted, accepted, UP!Writes, Writes, UP!tx_ready, tx_ready, UP!deq_fire, deq_fire,
       UP!deq_ready, deq_ready, UP!Reads, Reads, UP!rx_valid, rx_valid, UP!enq_fire, enq_fire,
       UP!enq_ready, enq_ready, UP!AccessOK

\* And of the same edges.
LEMMA SameEdges ==
  ASSUME NEW bundle, NEW rxd, UartStep(bundle, rxd)
  PROVE  /\ UP!TxStep /\ UP!BufferStep(bundle) /\ UP!RxStep(bundle, rxd) /\ UP!FifoStep(bundle)
         /\ UP!UartStep(bundle, rxd)
<1>1. UP!TxStep /\ UP!BufferStep(bundle)
  BY SameConstants, SameRegisters, SameAccesses
     DEF UartStep, UP!TxStep, TxStep, UP!BufferStep, BufferStep
<1>2. UP!RxStep(bundle, rxd) /\ UP!FifoStep(bundle)
  BY SameConstants, SameAccesses
     DEF UartStep, UP!RxStep, RxStep, UP!RxSamples, RxSamples, UP!FifoStep, FifoStep
<1>3. UP!InterruptStep(bundle)
  BY SameConstants, SameAccesses DEF UartStep, UP!InterruptStep, InterruptStep, UP!Writes, Writes
<1> QED
  BY <1>1, <1>2, <1>3 DEF UP!UartStep

\* What a byte typed, answered or printed is, and the machines' fields.
Phases == {"IDLE", "START", "DATA", "STOP"}

TerminalTypes ==
  /\ UartTypeOK
  /\ decoder \in [state : Phases, counter : Nat, data : Seq(Bit), prev : Bit]
  /\ Len(decoder.data) <= DATA_BITS
  /\ decoder.state = "START" => decoder.data = << >>
  /\ decoder.state = "DATA" => Len(decoder.data) < DATA_BITS
  /\ decoder.state = "STOP" => Len(decoder.data) = DATA_BITS
  /\ serializer \in [state : Phases, counter : Nat, bit_idx : 0 .. DATA_BITS, shift : Byte]
  /\ serializer.state = "START" => serializer.bit_idx = 0
  /\ serializer.state = "DATA" => serializer.bit_idx < DATA_BITS
  /\ serializer.state = "STOP" => serializer.bit_idx = DATA_BITS
  /\ serializer.state \in {"START", "DATA"} => serializer.counter < CYCLES_PER_BIT
  /\ serializer.state = "STOP" => serializer.counter < 2 * CYCLES_PER_BIT
  /\ rx_fifo \in Seq(Byte) /\ rx_line_value \in Bit
  /\ ctrl_c \in {"none", "received", "in_flight", "sent"}
  /\ tx_idle_cycles \in Nat /\ running \in BOOLEAN
  /\ program \in [held : Seq(Byte), delay : 0 .. Slack] /\ Len(program.held) <= 1
  /\ typed \in Seq(Keys) /\ Len(typed) <= MaxKeys
  /\ taken \in Seq(Byte) /\ printed \in Seq(Byte)

\* What the decoder is.
Decoder(s, c, d, p) == [state |-> s, counter |-> c, data |-> d, prev |-> p]

\* A phase is entered.
LEMMA Entered ==
  ASSUME NEW s, NEW c, NEW d, NEW p, NEW t, NEW m, m = Decoder(s, c, d, p)
  PROVE  enters(m, t) = Decoder(t, 0, d, p)
<1>1. PICK e : e = enters(m, t)
  OBVIOUS
<1>2. e = [m EXCEPT !.state = t, !.counter = 0]
  BY <1>1 DEF enters
<1>3. e = Decoder(t, 0, d, p)
  BY <1>2 DEF Decoder
<1> QED
  BY <1>1, <1>3

\* The decoder after an edge.
LEMMA DecoderMoves ==
  ASSUME NEW s, NEW c \in Nat, NEW d, NEW p, decoder = Decoder(s, c, d, p), NEW line,
         process_tx(line)
  PROVE  /\ s = "IDLE" /\ p = 1 /\ line = 0 => decoder' = Decoder("START", HALF_BIT, << >>, line)
         /\ s = "IDLE" /\ ~(p = 1 /\ line = 0) => decoder' = Decoder("IDLE", c, d, line)
         /\ s \in {"START", "DATA"} /\ c + 1 < CYCLES_PER_BIT =>
              decoder' = Decoder(s, c + 1, d, line)
         /\ s = "START" /\ c + 1 >= CYCLES_PER_BIT =>
              decoder' = Decoder(IF line = 0 THEN "DATA" ELSE "IDLE", 0, d, line)
         /\ s = "DATA" /\ c + 1 >= CYCLES_PER_BIT =>
              decoder' = Decoder(IF Len(d) + 1 >= DATA_BITS THEN "STOP" ELSE "DATA", 0,
                                 Append(d, line), line)
         /\ s = "STOP" /\ c + 1 < 2 * CYCLES_PER_BIT => decoder' = Decoder("STOP", c + 1, d, line)
         /\ s = "STOP" /\ c + 1 >= 2 * CYCLES_PER_BIT => decoder' = Decoder("IDLE", 0, d, line)
         /\ printed' = IF s = "STOP" /\ c + 1 >= 2 * CYCLES_PER_BIT THEN Append(printed, d)
                       ELSE printed
<1>1. /\ decoder.state = s /\ decoder.counter = c /\ decoder.data = d /\ decoder.prev = p
      /\ CYCLES_PER_BIT \in Nat
  BY TerminalAssumption, CounterAssumption, UartAssumption DEF Decoder
<1>2. /\ over(decoder, 1) <=> c + 1 >= CYCLES_PER_BIT
      /\ over(decoder, 2) <=> c + 1 >= 2 * CYCLES_PER_BIT
  BY <1>1 DEF over
<1>3. ASSUME NEW t
      PROVE  counted(decoder) = Decoder(s, c + 1, d, p) /\ enters(decoder, t) = Decoder(t, 0, d, p)
  <2>1. decoder = [state |-> s, counter |-> c, data |-> d, prev |-> p]
    BY DEF Decoder
  <2>2. counted(decoder) = [decoder EXCEPT !.counter = c + 1]
    BY <1>1 DEF counted
  <2>4. counted(decoder) = Decoder(s, c + 1, d, p)
    BY <2>1, <2>2 DEF Decoder
  <2>3. PICK m : m = decoder
    OBVIOUS
  <2>5. enters(m, t) = Decoder(t, 0, d, p)
    BY <2>3, Entered
  <2> QED
    BY <2>3, <2>4, <2>5
<1> DEFINE e == decoded(line)
<1>4. decoder' = [e EXCEPT !.prev = line]
  BY DEF process_tx
<1>5. ASSUME NEW t, NEW n, NEW x, e = Decoder(t, n, x, p)
      PROVE  decoder' = Decoder(t, n, x, line)
  <2> HIDE DEF e
  <2> QED
    BY <1>4, <1>5 DEF Decoder
<1>6. s = "IDLE" /\ p = 1 /\ line = 0 => decoder' = Decoder("START", HALF_BIT, << >>, line)
  <2> SUFFICES ASSUME s = "IDLE", p = 1, line = 0
               PROVE  decoder' = Decoder("START", HALF_BIT, << >>, line)
    OBVIOUS
  <2>1. e = [decoder EXCEPT !.state = "START", !.counter = HALF_BIT, !.data = << >>]
    BY <1>1 DEF decoded
  <2> HIDE DEF e
  <2>2. e = Decoder("START", HALF_BIT, << >>, p)
    BY <2>1 DEF Decoder
  <2> QED
    BY <1>5, <2>2 DEF e
<1>7. s = "IDLE" /\ ~(p = 1 /\ line = 0) => decoder' = Decoder("IDLE", c, d, line)
  <2>1. s = "IDLE" /\ ~(p = 1 /\ line = 0) => e = decoder
    BY <1>1 DEF decoded
  <2> QED
    BY <1>5, <2>1
<1>8. s \in {"START", "DATA"} /\ c + 1 < CYCLES_PER_BIT => decoder' = Decoder(s, c + 1, d, line)
  <2>1. s \in {"START", "DATA"} /\ ~over(decoder, 1) => e = counted(decoder)
    BY <1>1 DEF decoded
  <2> HIDE DEF e
  <2>2. c + 1 < CYCLES_PER_BIT => ~over(decoder, 1)
    BY <1>1, <1>2
  <2> QED
    BY <1>3, <1>5, <2>1, <2>2 DEF e
<1>9. s = "START" /\ c + 1 >= CYCLES_PER_BIT =>
        decoder' = Decoder(IF line = 0 THEN "DATA" ELSE "IDLE", 0, d, line)
  <2>1. s = "START" /\ over(decoder, 1) =>
          e = enters(decoder, IF line = 0 THEN "DATA" ELSE "IDLE")
    BY <1>1 DEF decoded
  <2> HIDE DEF e
  <2> QED
    BY <1>2, <1>3, <1>5, <2>1 DEF e
<1>10. s = "DATA" /\ c + 1 >= CYCLES_PER_BIT =>
         decoder' = Decoder(IF Len(d) + 1 >= DATA_BITS THEN "STOP" ELSE "DATA", 0,
                            Append(d, line), line)
  <2> SUFFICES ASSUME s = "DATA", c + 1 >= CYCLES_PER_BIT
               PROVE  decoder' = Decoder(IF Len(d) + 1 >= DATA_BITS THEN "STOP" ELSE "DATA", 0,
                                         Append(d, line), line)
    OBVIOUS
  <2> DEFINE t == IF Len(d) + 1 >= DATA_BITS THEN "STOP" ELSE "DATA"
             f == enters(decoder, t)
  <2>1. e = [f EXCEPT !.data = Append(@, line)]
    BY <1>1, <1>2 DEF decoded
  <2> HIDE DEF e, t
  <2>2. f = Decoder(t, 0, d, p)
    BY <1>3
  <2> HIDE DEF f
  <2>3. e = Decoder(t, 0, Append(d, line), p)
    BY <2>1, <2>2 DEF Decoder
  <2>4. decoder' = Decoder(t, 0, Append(d, line), line)
    BY <1>5, <2>3 DEF e
  <2> QED
    BY <2>4 DEF t
<1>11. s = "STOP" /\ c + 1 < 2 * CYCLES_PER_BIT => decoder' = Decoder("STOP", c + 1, d, line)
  <2>1. s = "STOP" /\ ~over(decoder, 2) => e = counted(decoder)
    BY <1>1 DEF decoded
  <2> HIDE DEF e
  <2>2. c + 1 < 2 * CYCLES_PER_BIT => ~over(decoder, 2)
    BY <1>1, <1>2
  <2> QED
    BY <1>3, <1>5, <2>1, <2>2 DEF e
<1>12. s = "STOP" /\ c + 1 >= 2 * CYCLES_PER_BIT => decoder' = Decoder("IDLE", 0, d, line)
  <2>1. s = "STOP" /\ over(decoder, 2) => e = enters(decoder, "IDLE")
    BY <1>1 DEF decoded
  <2> HIDE DEF e
  <2> QED
    BY <1>2, <1>3, <1>5, <2>1 DEF e
<1>13. printed' = IF s = "STOP" /\ c + 1 >= 2 * CYCLES_PER_BIT THEN Append(printed, d) ELSE printed
  BY <1>1, <1>2 DEF process_tx
<1> QED
  BY <1>6, <1>7, <1>8, <1>9, <1>10, <1>11, <1>12, <1>13

\* What the serializer is.
Serializer(s, c, b, d) == [state |-> s, counter |-> c, bit_idx |-> b, shift |-> d]

LEMMA SerializerEntered ==
  ASSUME NEW s, NEW c, NEW b, NEW d, NEW t, NEW m, m = Serializer(s, c, b, d)
  PROVE  enters(m, t) = Serializer(t, 0, b, d)
<1>1. PICK e : e = enters(m, t)
  OBVIOUS
<1>2. e = [m EXCEPT !.state = t, !.counter = 0]
  BY <1>1 DEF enters
<1>3. e = Serializer(t, 0, b, d)
  BY <1>2 DEF Serializer
<1> QED
  BY <1>1, <1>3

\* The serializer after an edge, and the line it drives.
LEMMA SerializerMoves ==
  ASSUME NEW s, NEW c \in Nat, NEW b \in Nat, NEW d, serializer = Serializer(s, c, b, d),
         NEW queue, get_rx_line(queue)
  PROVE  /\ s = "IDLE" /\ queue = << >> =>
              rx_line_value' = 1 /\ rx_fifo' = queue /\ serializer' = serializer
         /\ s = "IDLE" /\ queue # << >> =>
              /\ rx_line_value' = 0 /\ rx_fifo' = Tail(queue)
              /\ serializer' = Serializer("START", 0, 0, Head(queue))
         /\ s = "START" => rx_line_value' = 0 /\ rx_fifo' = queue
         /\ s = "START" /\ c + 1 < CYCLES_PER_BIT => serializer' = Serializer("START", c + 1, b, d)
         /\ s = "START" /\ c + 1 >= CYCLES_PER_BIT => serializer' = Serializer("DATA", 0, b, d)
         /\ s = "DATA" => rx_line_value' = d[b + 1] /\ rx_fifo' = queue
         /\ s = "DATA" /\ c + 1 < CYCLES_PER_BIT => serializer' = Serializer("DATA", c + 1, b, d)
         /\ s = "DATA" /\ c + 1 >= CYCLES_PER_BIT =>
              serializer' = Serializer(IF b + 1 >= DATA_BITS THEN "STOP" ELSE "DATA", 0, b + 1, d)
         /\ s = "STOP" => rx_line_value' = 1 /\ rx_fifo' = queue
         /\ s = "STOP" /\ c + 1 < 2 * CYCLES_PER_BIT => serializer' = Serializer("STOP", c + 1, b, d)
         /\ s = "STOP" /\ c + 1 >= 2 * CYCLES_PER_BIT => serializer' = Serializer("IDLE", 0, b, d)
<1>1. /\ serializer.state = s /\ serializer.counter = c /\ serializer.bit_idx = b
      /\ serializer.shift = d /\ CYCLES_PER_BIT \in Nat
  BY TerminalAssumption, CounterAssumption, UartAssumption DEF Serializer
<1>2. /\ over(serializer, 1) <=> c + 1 >= CYCLES_PER_BIT
      /\ over(serializer, 2) <=> c + 1 >= 2 * CYCLES_PER_BIT
      /\ c + 1 < CYCLES_PER_BIT <=> ~(c + 1 >= CYCLES_PER_BIT)
      /\ c + 1 < 2 * CYCLES_PER_BIT <=> ~(c + 1 >= 2 * CYCLES_PER_BIT)
  BY <1>1 DEF over
<1>3. ASSUME NEW t
      PROVE  /\ counted(serializer) = Serializer(s, c + 1, b, d)
             /\ enters(serializer, t) = Serializer(t, 0, b, d)
  <2>1. serializer = [state |-> s, counter |-> c, bit_idx |-> b, shift |-> d]
    BY DEF Serializer
  <2>2. counted(serializer) = [serializer EXCEPT !.counter = c + 1]
    BY <1>1 DEF counted
  <2>3. PICK m : m = serializer
    OBVIOUS
  <2>4. counted(serializer) = Serializer(s, c + 1, b, d)
    BY <2>1, <2>2 DEF Serializer
  <2>5. enters(m, t) = Serializer(t, 0, b, d)
    BY <2>3, SerializerEntered
  <2> QED
    BY <2>3, <2>4, <2>5
<1>4. /\ s = "IDLE" /\ queue = << >> =>
           rx_line_value' = 1 /\ rx_fifo' = queue /\ serializer' = serializer
      /\ s = "IDLE" /\ queue # << >> =>
           /\ rx_line_value' = 0 /\ rx_fifo' = Tail(queue)
           /\ serializer' = Serializer("START", 0, 0, Head(queue))
  BY <1>1 DEF get_rx_line, Serializer
<1>5. s = "START" => /\ rx_line_value' = 0 /\ rx_fifo' = queue
                     /\ serializer' = IF over(serializer, 1) THEN enters(serializer, "DATA")
                                      ELSE counted(serializer)
  BY <1>1 DEF get_rx_line
<1>6. s = "DATA" => rx_line_value' = d[b + 1] /\ rx_fifo' = queue
  BY <1>1 DEF get_rx_line
<1>7. s = "DATA" /\ ~over(serializer, 1) => serializer' = counted(serializer)
  BY <1>1 DEF get_rx_line
<1>8. s = "DATA" /\ over(serializer, 1) =>
        serializer' = Serializer(IF b + 1 >= DATA_BITS THEN "STOP" ELSE "DATA", 0, b + 1, d)
  <2> SUFFICES ASSUME s = "DATA", over(serializer, 1)
               PROVE  serializer' = Serializer(IF b + 1 >= DATA_BITS THEN "STOP" ELSE "DATA",
                                               0, b + 1, d)
    OBVIOUS
  <2> DEFINE t == IF b + 1 >= DATA_BITS THEN "STOP" ELSE "DATA"
             f == enters(serializer, t)
  <2>1. serializer' = [f EXCEPT !.bit_idx = @ + 1]
    BY <1>1 DEF get_rx_line
  <2> HIDE DEF t
  <2>2. f = Serializer(t, 0, b, d)
    BY <1>3
  <2> HIDE DEF f
  <2>3. serializer' = Serializer(t, 0, b + 1, d)
    BY <2>1, <2>2 DEF Serializer
  <2> QED
    BY <2>3 DEF t
<1>9. s = "STOP" => /\ rx_line_value' = 1 /\ rx_fifo' = queue
                    /\ serializer' = IF over(serializer, 2) THEN enters(serializer, "IDLE")
                                     ELSE counted(serializer)
  BY <1>1 DEF get_rx_line
<1> QED
  BY <1>2, <1>3, <1>4, <1>5, <1>6, <1>7, <1>8, <1>9

\* What the program does in an edge: it reads a byte, answers one, or neither.
Answering(bundle) ==
  \/ /\ CanRead /\ deq_fire(bundle) /\ ~accepted(bundle)
     /\ program'.held = <<Head(rxFifo)>> /\ program'.delay = 0 /\ taken' = taken
  \/ /\ CanWrite /\ accepted(bundle) /\ ~deq_fire(bundle) /\ bundle.data = program.held[1]
     /\ program'.held = << >> /\ program'.delay = 0 /\ taken' = taken \o program.held
  \/ /\ ~accepted(bundle) /\ ~deq_fire(bundle)
     /\ program'.held = program.held /\ taken' = taken
     /\ program'.delay <= Slack
     /\ program'.delay = IF CanRead \/ CanWrite THEN program.delay + 1 ELSE 0

\* Every step is an edge.
LEMMA StepIsEdge ==
  ASSUME TerminalTypes, Next
  PROVE  \E bundle : \E keys \in Polled :
           /\ bundle.data \in Byte /\ Tick(bundle, keys) /\ Answering(bundle)
           /\ program' \in [held : Seq(Byte), delay : 0 .. Slack] /\ Len(program'.held) <= 1
<1>0. /\ Zero \in Byte /\ Slack \in Nat
      /\ program \in [held : Seq(Byte), delay : 0 .. Slack] /\ Len(program.held) <= 1
      /\ rxFifo \in Seq(Byte)
  BY TerminalAssumption DEF Zero, Byte, Bit, TerminalTypes, UartTypeOK
<1>1. CASE Getc
  <2>1. PICK keys \in Polled : uart_getc /\ Tick(Access("read", "RX_DATA", Zero), keys)
    BY <1>1 DEF Getc
  <2> DEFINE bundle == Access("read", "RX_DATA", Zero)
  <2>2. bundle.data = Zero /\ deq_fire(bundle) /\ ~accepted(bundle)
    BY <2>1 DEF uart_getc, CanRead, Access, accepted, Writes, deq_fire, deq_ready, Reads
  <2>3. rxFifo # << >>
    BY <2>1 DEF uart_getc, CanRead, rx_valid
  <2>4. Head(rxFifo) \in Byte
    BY <1>0, <2>3, HeadTailProperties
  <2> DEFINE h == Head(rxFifo)
  <2> HIDE DEF h
  <2>5. program' = [held |-> <<h>>, delay |-> 0] /\ h \in Byte
    BY <2>1, <2>4 DEF uart_getc, h
  <2>6. <<h>> \in Seq(Byte) /\ Len(<<h>>) <= 1 /\ 0 \in 0 .. Slack
    BY <1>0, <2>5
  <2>7. program' \in [held : Seq(Byte), delay : 0 .. Slack] /\ Len(program'.held) <= 1
    BY <2>5, <2>6
  <2>8. Answering(bundle)
    BY <2>1, <2>2, <2>5 DEF uart_getc, Answering, h
  <2> QED
    BY <1>0, <2>1, <2>2, <2>7, <2>8
<1>2. CASE Putc
  <2>1. PICK keys \in Polled :
          uart_putc /\ Tick(Access("write", "TX_DATA", program.held[1]), keys)
    BY <1>2 DEF Putc
  <2> DEFINE bundle == Access("write", "TX_DATA", program.held[1])
  <2>2. bundle.data = program.held[1] /\ ~deq_fire(bundle) /\ accepted(bundle)
    BY <2>1 DEF uart_putc, CanWrite, Access, accepted, Writes, deq_fire, deq_ready, Reads
  <2>3. program.held # << >>
    BY <2>1 DEF uart_putc, CanWrite
  <2>4. program.held[1] \in Byte
    BY <1>0, <2>3, HeadTailProperties
  <2>5. program' = [held |-> << >>, delay |-> 0]
    BY <2>1 DEF uart_putc
  <2>6. program' \in [held : Seq(Byte), delay : 0 .. Slack] /\ Len(program'.held) <= 1
    BY <1>0, <2>5
  <2>8. Answering(bundle)
    BY <2>1, <2>2, <2>5 DEF uart_putc, Answering
  <2> QED
    BY <2>1, <2>2, <2>4, <2>6, <2>8
<1>3. CASE Busy
  <2>1. PICK keys \in Polled : busy /\ Tick(Access("none", "STATUS", Zero), keys)
    BY <1>3 DEF Busy
  <2> DEFINE bundle == Access("none", "STATUS", Zero)
  <2>2. bundle.data = Zero /\ ~deq_fire(bundle) /\ ~accepted(bundle)
    BY DEF Access, accepted, Writes, deq_fire, deq_ready, Reads
  <2> DEFINE w == IF CanRead \/ CanWrite THEN program.delay + 1 ELSE 0
  <2>3. w \in Nat
    BY <1>0
  <2>4. program' = [program EXCEPT !.delay = w] /\ program'.delay <= Slack /\ taken' = taken
    BY <2>1 DEF busy
  <2> HIDE DEF w
  <2>5. program'.held = program.held /\ program'.delay = w
    BY <1>0, <2>4
  <2>6. w \in 0 .. Slack
    BY <1>0, <2>3, <2>4, <2>5
  <2>7. program' \in [held : Seq(Byte), delay : 0 .. Slack] /\ Len(program'.held) <= 1
    BY <1>0, <2>4, <2>5, <2>6
  <2>8. Answering(bundle)
    BY <2>2, <2>4, <2>5 DEF Answering, w
  <2> QED
    BY <1>0, <2>1, <2>2, <2>7, <2>8
<1> QED
  BY <1>1, <1>2, <1>3 DEF Next

LEMMA TerminalConstants ==
  /\ DATA_BITS \in Nat \ {0} /\ BIT_CNT \in Nat /\ CYCLES_PER_BIT = BIT_CNT + 1
  /\ HALF_BIT \in Nat /\ Slack \in Nat /\ MaxKeys \in Nat /\ FifoEntries \in Nat
  /\ Keys \subseteq Byte /\ Zero \in Byte /\ 0 \in Bit /\ 1 \in Bit
<1>1. HALF_BIT \in Nat
  <2>1. CYCLES_PER_BIT \in Nat
    BY TerminalAssumption, CounterAssumption, UartAssumption
  <2> QED
    BY <2>1 DEF HALF_BIT
<1> QED
  BY <1>1, TerminalAssumption, CounterAssumption, UartAssumption DEF Zero, Byte, Bit

\* What may be typed in an edge is nothing or one key.
LEMMA PolledType ==
  ASSUME NEW keys \in Polled
  PROVE  /\ keys \in Seq(Keys) /\ keys \in Seq(Byte)
         /\ keys = << >> \/ \E k \in Keys : keys = <<k>>
<1>1. keys = << >> \/ \E k \in Keys : keys = <<k>>
  BY DEF Polled
<1>2. CASE keys = << >>
  BY <1>2
<1>3. CASE \E k \in Keys : keys = <<k>>
  <2>1. PICK k \in Keys : keys = <<k>>
    BY <1>3
  <2>2. k \in Byte
    BY TerminalConstants
  <2> QED
    BY <2>1, <2>2
<1> QED
  BY <1>1, <1>2, <1>3


\* What the decoder keeps in every phase.
DecoderOK(s, c, d, p) ==
  /\ s \in Phases /\ c \in Nat /\ d \in Seq(Bit) /\ p \in Bit
  /\ Len(d) <= DATA_BITS
  /\ s = "START" => d = << >>
  /\ s = "DATA" => Len(d) < DATA_BITS
  /\ s = "STOP" => Len(d) = DATA_BITS

LEMMA DecoderFields ==
  ASSUME TerminalTypes
  PROVE  \E s, c, d, p : decoder = Decoder(s, c, d, p) /\ DecoderOK(s, c, d, p)
<1>1. PICK s, c, d, p : decoder = [state |-> s, counter |-> c, data |-> d, prev |-> p]
  BY DEF TerminalTypes
<1>2. DecoderOK(s, c, d, p)
  BY <1>1 DEF TerminalTypes, DecoderOK
<1> QED
  BY <1>1, <1>2 DEF Decoder

\* The decoder keeps its type.
LEMMA DecoderType ==
  ASSUME TerminalTypes, NEW line \in Bit, process_tx(line)
  PROVE  /\ \E s, c, d, p : decoder' = Decoder(s, c, d, p) /\ DecoderOK(s, c, d, p)
         /\ printed' \in Seq(Byte)
<1>1. PICK s, c, d, p : decoder = Decoder(s, c, d, p) /\ DecoderOK(s, c, d, p)
  BY DecoderFields
<1>2. /\ s \in Phases /\ c \in Nat /\ d \in Seq(Bit) /\ p \in Bit
      /\ Len(d) <= DATA_BITS /\ Len(d) \in Nat
      /\ s = "START" => d = << >>
      /\ s = "DATA" => Len(d) < DATA_BITS
      /\ s = "STOP" => Len(d) = DATA_BITS
      /\ DATA_BITS \in Nat \ {0} /\ HALF_BIT \in Nat /\ CYCLES_PER_BIT \in Nat
      /\ printed \in Seq(Byte)
  BY <1>1, TerminalConstants DEF DecoderOK, TerminalTypes
<1>3. /\ Append(d, line) \in Seq(Bit) /\ Len(Append(d, line)) = Len(d) + 1
      /\ << >> \in Seq(Bit) /\ Len(<< >>) = 0
  BY <1>2
<1> DEFINE longer == Append(d, line)
           none == << >>
<1> HIDE DEF longer, none
<1>4. /\ s = "IDLE" /\ p = 1 /\ line = 0 => decoder' = Decoder("START", HALF_BIT, none, line)
      /\ s = "IDLE" /\ ~(p = 1 /\ line = 0) => decoder' = Decoder("IDLE", c, d, line)
      /\ s \in {"START", "DATA"} /\ c + 1 < CYCLES_PER_BIT =>
           decoder' = Decoder(s, c + 1, d, line)
      /\ s = "START" /\ c + 1 >= CYCLES_PER_BIT =>
           decoder' = Decoder(IF line = 0 THEN "DATA" ELSE "IDLE", 0, d, line)
      /\ s = "DATA" /\ c + 1 >= CYCLES_PER_BIT =>
           decoder' = Decoder(IF Len(d) + 1 >= DATA_BITS THEN "STOP" ELSE "DATA", 0, longer, line)
      /\ s = "STOP" /\ c + 1 < 2 * CYCLES_PER_BIT => decoder' = Decoder("STOP", c + 1, d, line)
      /\ s = "STOP" /\ c + 1 >= 2 * CYCLES_PER_BIT => decoder' = Decoder("IDLE", 0, d, line)
      /\ printed' = IF s = "STOP" /\ c + 1 >= 2 * CYCLES_PER_BIT THEN Append(printed, d)
                    ELSE printed
  BY <1>1, <1>2, DecoderMoves DEF longer, none
<1>5. printed' \in Seq(Byte)
  <2>1. s = "STOP" => d \in Byte
    BY <1>2 DEF Byte
  <2> QED
    BY <1>2, <1>4, <2>1
<1> SUFFICES \E q, n, x : decoder' = Decoder(q, n, x, line) /\ DecoderOK(q, n, x, line)
  BY <1>5
<1>6. CASE s = "IDLE"
  <2>1. DecoderOK("START", HALF_BIT, none, line)
    BY <1>2, <1>3 DEF DecoderOK, Phases, none
  <2>2. DecoderOK("IDLE", c, d, line)
    BY <1>2 DEF DecoderOK, Phases
  <2> QED
    BY <1>4, <1>6, <2>1, <2>2
<1>7. CASE s \in {"START", "DATA"} /\ c + 1 < CYCLES_PER_BIT
  <2>1. DecoderOK(s, c + 1, d, line)
    BY <1>2, <1>7 DEF DecoderOK, Phases
  <2> QED
    BY <1>4, <1>7, <2>1
<1>8. CASE s = "STOP" /\ c + 1 < 2 * CYCLES_PER_BIT
  <2>1. DecoderOK(s, c + 1, d, line)
    BY <1>2, <1>8 DEF DecoderOK
  <2> QED
    BY <1>4, <1>8, <2>1
<1>9. CASE s = "STOP" /\ c + 1 >= 2 * CYCLES_PER_BIT
  <2>1. DecoderOK("IDLE", 0, d, line)
    BY <1>2 DEF DecoderOK, Phases
  <2> QED
    BY <1>4, <1>9, <2>1
<1>10. CASE s = "DATA" /\ c + 1 >= CYCLES_PER_BIT
  <2> DEFINE t == IF Len(d) + 1 >= DATA_BITS THEN "STOP" ELSE "DATA"
  <2>1. DecoderOK(t, 0, longer, line)
    BY <1>2, <1>3, <1>10 DEF DecoderOK, Phases, longer
  <2> QED
    BY <1>4, <1>10, <2>1
<1>11. CASE s = "START" /\ c + 1 >= CYCLES_PER_BIT
  <2> DEFINE t == IF line = 0 THEN "DATA" ELSE "IDLE"
  <2>1. DecoderOK(t, 0, d, line)
    BY <1>2, <1>11 DEF DecoderOK, Phases
  <2> QED
    BY <1>4, <1>11, <2>1
<1> QED
  BY <1>2, <1>6, <1>7, <1>8, <1>9, <1>10, <1>11 DEF Phases

\* What the serializer keeps in every phase.
SerializerOK(s, c, b, d) ==
  /\ s \in Phases /\ c \in Nat /\ b \in 0 .. DATA_BITS /\ d \in Byte
  /\ s = "START" => b = 0
  /\ s = "DATA" => b < DATA_BITS
  /\ s = "STOP" => b = DATA_BITS
  /\ s \in {"START", "DATA"} => c < CYCLES_PER_BIT
  /\ s = "STOP" => c < 2 * CYCLES_PER_BIT

LEMMA SerializerFields ==
  ASSUME TerminalTypes
  PROVE  \E s, c, b, d : serializer = Serializer(s, c, b, d) /\ SerializerOK(s, c, b, d)
<1>1. PICK s, c, b, d : serializer = [state |-> s, counter |-> c, bit_idx |-> b, shift |-> d]
  BY DEF TerminalTypes
<1>2. SerializerOK(s, c, b, d)
  BY <1>1 DEF TerminalTypes, SerializerOK
<1> QED
  BY <1>1, <1>2 DEF Serializer

\* The serializer and its queue keep their types.
LEMMA SerializerType ==
  ASSUME TerminalTypes, NEW queue \in Seq(Byte), get_rx_line(queue)
  PROVE  /\ \E s, c, b, d : serializer' = Serializer(s, c, b, d) /\ SerializerOK(s, c, b, d)
         /\ rx_fifo' \in Seq(Byte) /\ rx_line_value' \in Bit
<1>1. PICK s, c, b, d : serializer = Serializer(s, c, b, d) /\ SerializerOK(s, c, b, d)
  BY SerializerFields
<1>2. /\ s \in Phases /\ c \in Nat /\ b \in 0 .. DATA_BITS /\ d \in Byte /\ b \in Nat
      /\ s = "START" => b = 0
      /\ s = "DATA" => b < DATA_BITS
      /\ s = "STOP" => b = DATA_BITS
      /\ DATA_BITS \in Nat \ {0} /\ CYCLES_PER_BIT \in Nat \ {0}
      /\ 0 \in Bit /\ 1 \in Bit
  BY <1>1, TerminalConstants DEF SerializerOK
<1>3. /\ s = "IDLE" /\ queue = << >> =>
           rx_line_value' = 1 /\ rx_fifo' = queue /\ serializer' = serializer
      /\ s = "IDLE" /\ queue # << >> =>
           /\ rx_line_value' = 0 /\ rx_fifo' = Tail(queue)
           /\ serializer' = Serializer("START", 0, 0, Head(queue))
      /\ s = "START" => rx_line_value' = 0 /\ rx_fifo' = queue
      /\ s = "START" /\ c + 1 < CYCLES_PER_BIT => serializer' = Serializer("START", c + 1, b, d)
      /\ s = "START" /\ c + 1 >= CYCLES_PER_BIT => serializer' = Serializer("DATA", 0, b, d)
      /\ s = "DATA" => rx_line_value' = d[b + 1] /\ rx_fifo' = queue
      /\ s = "DATA" /\ c + 1 < CYCLES_PER_BIT => serializer' = Serializer("DATA", c + 1, b, d)
      /\ s = "DATA" /\ c + 1 >= CYCLES_PER_BIT =>
           serializer' = Serializer(IF b + 1 >= DATA_BITS THEN "STOP" ELSE "DATA", 0, b + 1, d)
      /\ s = "STOP" => rx_line_value' = 1 /\ rx_fifo' = queue
      /\ s = "STOP" /\ c + 1 < 2 * CYCLES_PER_BIT => serializer' = Serializer("STOP", c + 1, b, d)
      /\ s = "STOP" /\ c + 1 >= 2 * CYCLES_PER_BIT => serializer' = Serializer("IDLE", 0, b, d)
  BY <1>1, <1>2, SerializerMoves
<1>4. CASE s = "IDLE"
  <2>1. CASE queue = << >>
    BY <1>1, <1>2, <1>3, <1>4, <2>1
  <2>2. CASE queue # << >>
    <3>1. Head(queue) \in Byte /\ Tail(queue) \in Seq(Byte)
      BY <2>2
    <3> DEFINE h == Head(queue)
    <3> HIDE DEF h
    <3>2. SerializerOK("START", 0, 0, h)
      BY <1>2, <3>1 DEF SerializerOK, Phases, h
    <3>3. serializer' = Serializer("START", 0, 0, h)
      BY <1>3, <1>4, <2>2 DEF h
    <3> QED
      BY <1>2, <1>3, <1>4, <2>2, <3>1, <3>2, <3>3
  <2> QED
    BY <2>1, <2>2
<1>5. CASE s = "START"
  <2>1. c + 1 < CYCLES_PER_BIT => SerializerOK("START", c + 1, b, d)
    BY <1>2, <1>5 DEF SerializerOK, Phases
  <2>2. SerializerOK("DATA", 0, b, d)
    BY <1>2, <1>5 DEF SerializerOK, Phases
  <2> QED
    BY <1>2, <1>3, <1>5, <2>1, <2>2
<1>6. CASE s = "DATA"
  <2>0. d[b + 1] \in Bit
    <3>1. b + 1 \in 1 .. DATA_BITS
      BY <1>2, <1>6
    <3> QED
      BY <1>2, <3>1 DEF Byte
  <2>1. c + 1 < CYCLES_PER_BIT => SerializerOK("DATA", c + 1, b, d)
    BY <1>2, <1>6 DEF SerializerOK, Phases
  <2> DEFINE t == IF b + 1 >= DATA_BITS THEN "STOP" ELSE "DATA"
  <2>2. SerializerOK(t, 0, b + 1, d)
    BY <1>2, <1>6 DEF SerializerOK, Phases
  <2>3. c + 1 < CYCLES_PER_BIT \/ c + 1 >= CYCLES_PER_BIT
    BY <1>2
  <2> QED
    BY <1>3, <1>6, <2>0, <2>1, <2>2, <2>3
<1>7. CASE s = "STOP"
  <2>1. c + 1 < 2 * CYCLES_PER_BIT => SerializerOK("STOP", c + 1, b, d)
    BY <1>2, <1>7 DEF SerializerOK, Phases
  <2>2. SerializerOK("IDLE", 0, b, d)
    BY <1>2, <1>7 DEF SerializerOK, Phases
  <2>3. c + 1 < 2 * CYCLES_PER_BIT \/ c + 1 >= 2 * CYCLES_PER_BIT
    BY <1>2
  <2> QED
    BY <1>2, <1>3, <1>7, <2>1, <2>2, <2>3
<1> QED
  BY <1>2, <1>4, <1>5, <1>6, <1>7 DEF Phases

\* The answers that the transmitter has taken are bytes.
LEMMA TakenType ==
  ASSUME TerminalTypes, NEW bundle, Answering(bundle)
  PROVE  taken' \in Seq(Byte)
<1>1. taken \in Seq(Byte) /\ program.held \in Seq(Byte)
  BY DEF TerminalTypes
<1>2. taken \o program.held \in Seq(Byte)
  BY <1>1, ConcatProperties
<1> QED
  BY <1>1, <1>2 DEF Answering

\* The keys typed are keys, and no more than the bound.
LEMMA TypedType ==
  ASSUME TerminalTypes, NEW keys \in Polled, poll_input(keys)
  PROVE  typed' \in Seq(Keys) /\ Len(typed') <= MaxKeys
<1>1. typed \in Seq(Keys) /\ Len(typed) \in Nat /\ Len(typed) <= MaxKeys /\ MaxKeys \in Nat
  BY TerminalConstants DEF TerminalTypes
<1>2. typed' = typed \o keys /\ (keys = << >> \/ Len(typed) < MaxKeys)
  BY DEF poll_input
<1>3. CASE keys = << >>
  BY <1>1, <1>2, <1>3, ConcatEmptySeq
<1>4. CASE \E k \in Keys : keys = <<k>>
  <2>1. PICK k \in Keys : keys = <<k>>
    BY <1>4
  <2>2. Len(typed) < MaxKeys
    BY <1>2, <2>1
  <2> DEFINE one == <<k>>
  <2>3. one \in Seq(Keys) /\ Len(one) = 1
    OBVIOUS
  <2> HIDE DEF one
  <2>4. typed \o one \in Seq(Keys) /\ Len(typed \o one) = Len(typed) + 1
    BY <1>1, <2>3, ConcatProperties, SMTT(60)
  <2> QED
    BY <1>1, <1>2, <2>1, <2>2, <2>4 DEF one
<1> QED
  BY <1>3, <1>4, PolledType

\* Every edge keeps the types.
LEMMA TypesMove ==
  ASSUME TerminalTypes, NEW bundle, NEW keys \in Polled, bundle.data \in Byte,
         Tick(bundle, keys), Answering(bundle),
         program' \in [held : Seq(Byte), delay : 0 .. Slack], Len(program'.held) <= 1
  PROVE  TerminalTypes'
<1>1. /\ UartStep(bundle, rx_line_value) /\ process_tx(txd') /\ poll_input(keys)
      /\ get_rx_line(rx_fifo \o keys) /\ ctrl_c_flags(keys) /\ count_idle
      /\ running' = ~(ctrl_c' = "sent" /\ tx_idle_cycles' > TX_IDLE_EXIT_THRESHOLD)
  BY DEF Tick
<1>2. UartTypeOK /\ rx_line_value \in Bit /\ rx_fifo \in Seq(Byte)
  BY DEF TerminalTypes
<1>3. PICK rxd \in Bit : rxd = rx_line_value
  BY <1>2
<1>4. UP!UartTypeOK'
  <2>1. UP!UartStep(bundle, rxd) /\ UP!AccessOK(bundle) /\ UP!UartTypeOK /\ rxd \in UP!Bit
    BY <1>1, <1>2, <1>3, SameEdges, SameAccesses, SameRegisters, SameConstants
  <2> QED
    BY <2>1, SameAssumptions, UP!UartType
<1>5. UartTypeOK'  /\ txd' \in Bit
  <2>1. UartTypeOK'
    BY <1>4, SameRegisters
  <2>2. TX_FRAME_BITS \in Nat /\ 1 \in 1 .. TX_FRAME_BITS
    BY TerminalConstants DEF TX_FRAME_BITS, STOP_BITS
  <2> QED
    BY <2>1, <2>2 DEF UartTypeOK, txd
<1>6. PICK line \in Bit : line = txd'
  BY <1>5
<1>7. /\ \E s, c, d, p : decoder' = Decoder(s, c, d, p) /\ DecoderOK(s, c, d, p)
      /\ printed' \in Seq(Byte)
  BY <1>1, <1>6, DecoderType
<1>8. PICK queue \in Seq(Byte) : queue = rx_fifo \o keys
  BY <1>2, PolledType, ConcatProperties
<1>9. /\ \E s, c, b, d : serializer' = Serializer(s, c, b, d) /\ SerializerOK(s, c, b, d)
      /\ rx_fifo' \in Seq(Byte) /\ rx_line_value' \in Bit
  BY <1>1, <1>8, SerializerType
<1>10. ctrl_c' \in {"none", "received", "in_flight", "sent"}
  BY <1>1 DEF ctrl_c_flags, TerminalTypes
<1>11. tx_idle_cycles' \in Nat /\ running' \in BOOLEAN
  <2>1. tx_idle_cycles \in Nat
    BY DEF TerminalTypes
  <2> QED
    BY <1>1, <2>1 DEF count_idle
<1>12. taken' \in Seq(Byte) /\ typed' \in Seq(Keys) /\ Len(typed') <= MaxKeys
  BY <1>1, TakenType, TypedType
<1>13. /\ decoder' \in [state : Phases, counter : Nat, data : Seq(Bit), prev : Bit]
       /\ Len(decoder'.data) <= DATA_BITS
       /\ decoder'.state = "START" => decoder'.data = << >>
       /\ decoder'.state = "DATA" => Len(decoder'.data) < DATA_BITS
       /\ decoder'.state = "STOP" => Len(decoder'.data) = DATA_BITS
  BY <1>7 DEF Decoder, DecoderOK
<1>14. /\ serializer' \in [state : Phases, counter : Nat, bit_idx : 0 .. DATA_BITS, shift : Byte]
       /\ serializer'.state = "START" => serializer'.bit_idx = 0
       /\ serializer'.state = "DATA" => serializer'.bit_idx < DATA_BITS
       /\ serializer'.state = "STOP" => serializer'.bit_idx = DATA_BITS
       /\ serializer'.state \in {"START", "DATA"} => serializer'.counter < CYCLES_PER_BIT
       /\ serializer'.state = "STOP" => serializer'.counter < 2 * CYCLES_PER_BIT
  BY <1>9 DEF Serializer, SerializerOK
<1> QED
  BY <1>5, <1>7, <1>9, <1>10, <1>11, <1>12, <1>13, <1>14 DEF TerminalTypes

-----------------------------------------------------------------------------
(***************************************************************************)
(* The answers on their way to the terminal.                               *)
(***************************************************************************)
\* A bit lasts three cycles or more.
RateFits == BIT_CNT >= 2

\* The cycle of a frame at which the decoder is through with i bits.
through(i) == UP!start(i) - HALF_BIT

\* Half a bit is a part of a bit.
LEMMA HalfBit ==
  ASSUME RateFits
  PROVE  HALF_BIT \in 1 .. BIT_CNT /\ UP!RateFits
<1>1. BIT_CNT \in Nat /\ BIT_CNT >= 2 /\ CYCLES_PER_BIT = BIT_CNT + 1
  BY TerminalConstants DEF RateFits
<1>2. HALF_BIT = (BIT_CNT + 1) \div 2
  BY <1>1 DEF HALF_BIT
<1> DEFINE n == BIT_CNT
<1> HIDE DEF n
<1>3. n \in Nat /\ n >= 2 => (n + 1) \div 2 \in 1 .. n
  OBVIOUS
<1> QED
  BY <1>1, <1>2, <1>3, SameConstants DEF n, UP!RateFits

\* Bits begin and are seen one after the other.
LEMMA Moments ==
  ASSUME RateFits, NEW i \in Int
  PROVE  /\ UP!start(i) \in Int /\ UP!start(0) = 0
         /\ UP!start(i + 1) = UP!start(i) + CYCLES_PER_BIT
         /\ through(i) \in Int /\ through(i) = UP!start(i) - HALF_BIT
         /\ through(i + 1) = through(i) + CYCLES_PER_BIT
<1>1. /\ BIT_CNT \in Nat /\ UP!BIT_CNT = BIT_CNT /\ HALF_BIT \in Int
      /\ CYCLES_PER_BIT = BIT_CNT + 1
  BY TerminalConstants, HalfBit, SameConstants
<1>2. /\ UP!start(i) \in Int /\ UP!start(0) = 0
      /\ UP!start(i + 1) = UP!start(i) + UP!BIT_CNT + 1
  BY SameAssumptions, UP!Starts
<1> QED
  BY <1>1, <1>2 DEF through

\* Each bit is seen while it stands on the line.
LEMMA SeenInBit ==
  ASSUME RateFits, NEW i \in 0 .. DATA_BITS, NEW value, NEW d,
         UP!WasOnLine(value, d, through(i + 1))
  PROVE  value = UP!wire(d, i)
<1>0. BIT_CNT \in Nat /\ HALF_BIT \in 1 .. BIT_CNT /\ CYCLES_PER_BIT = BIT_CNT + 1 /\ i \in Int
  BY TerminalConstants, HalfBit
<1>1. /\ UP!start(i) \in Int
      /\ through(i + 1) = UP!start(i) - HALF_BIT + CYCLES_PER_BIT
  BY <1>0, Moments
<1>2. through(i + 1) \in UP!start(i) .. UP!start(i) + BIT_CNT
  BY <1>0, <1>1
<1> QED
  BY <1>2, SameConstants DEF UP!WasOnLine

\* The decoder in step with a frame: what it is in cycle at of the frame of d.
Follows(s, c, x, d, at) ==
  \/ s = "START" /\ x = << >> /\ c = at + HALF_BIT /\ c < CYCLES_PER_BIT
  \/ /\ s = "DATA" /\ Len(x) < DATA_BITS
     /\ c = at - through(Len(x) + 1) /\ c < CYCLES_PER_BIT
     /\ \A i \in 1 .. Len(x) : x[i] = d[i]
  \/ s = "STOP" /\ x = d /\ c = at - through(DATA_BITS + 1) /\ c < 2 * CYCLES_PER_BIT

\* It sees each bit in its turn, and prints the byte when it has seen the last.
LEMMA DecoderFollows ==
  ASSUME RateFits, NEW s, NEW c \in Nat, NEW x \in Seq(Bit), NEW p,
         decoder = Decoder(s, c, x, p), NEW d \in Byte, NEW at \in Int, Follows(s, c, x, d, at),
         NEW line \in Bit, process_tx(line), UP!WasOnLine(line, d, at + 1)
  PROVE  \/ /\ \E t, n, y : decoder' = Decoder(t, n, y, line) /\ Follows(t, n, y, d, at + 1)
            /\ printed' = printed
         \/ /\ \E n, y : decoder' = Decoder("IDLE", n, y, line)
            /\ at + 1 = through(DATA_BITS + 3) /\ printed' = Append(printed, d)
<1>0. /\ DATA_BITS \in Nat \ {0} /\ CYCLES_PER_BIT = BIT_CNT + 1 /\ BIT_CNT \in Nat
      /\ HALF_BIT \in 1 .. BIT_CNT /\ CYCLES_PER_BIT \in Nat
  BY TerminalConstants, HalfBit
<1> DEFINE longer == Append(x, line)
<1> HIDE DEF longer
<1>1. /\ s \in {"START", "DATA"} /\ c + 1 < CYCLES_PER_BIT =>
           decoder' = Decoder(s, c + 1, x, line)
      /\ s = "START" /\ c + 1 >= CYCLES_PER_BIT =>
           decoder' = Decoder(IF line = 0 THEN "DATA" ELSE "IDLE", 0, x, line)
      /\ s = "DATA" /\ c + 1 >= CYCLES_PER_BIT =>
           decoder' = Decoder(IF Len(x) + 1 >= DATA_BITS THEN "STOP" ELSE "DATA", 0, longer, line)
      /\ s = "STOP" /\ c + 1 < 2 * CYCLES_PER_BIT => decoder' = Decoder("STOP", c + 1, x, line)
      /\ s = "STOP" /\ c + 1 >= 2 * CYCLES_PER_BIT => decoder' = Decoder("IDLE", 0, x, line)
      /\ printed' = IF s = "STOP" /\ c + 1 >= 2 * CYCLES_PER_BIT THEN Append(printed, x)
                    ELSE printed
  BY DecoderMoves, ZenonT(90) DEF longer
<1>2. CASE s = "START"
  <2>1. x = << >> /\ Len(x) = 0 /\ c = at + HALF_BIT /\ c < CYCLES_PER_BIT
    BY <1>2 DEF Follows
  <2>2. CASE c + 1 < CYCLES_PER_BIT
    <3>1. Follows("START", c + 1, x, d, at + 1)
      BY <1>0, <2>1, <2>2 DEF Follows
    <3> QED
      BY <1>1, <1>2, <2>2, <3>1
  <2>3. CASE c + 1 >= CYCLES_PER_BIT
    <3>1. through(0 + 1) = through(0) + CYCLES_PER_BIT /\ through(0) = 0 - HALF_BIT
      BY Moments
    <3>2. at + 1 = through(0 + 1)
      BY <1>0, <2>1, <2>3, <3>1
    <3>3. line = UP!wire(d, 0)
      BY <1>0, <3>2, SeenInBit
    <3>4. line = 0
      BY <3>3 DEF UP!wire
    <3>5. Follows("DATA", 0, x, d, at + 1)
      BY <1>0, <2>1, <3>2 DEF Follows
    <3> QED
      BY <1>1, <1>2, <2>3, <3>4, <3>5
  <2> QED
    BY <1>0, <2>2, <2>3
<1>3. CASE s = "DATA"
  <2> DEFINE n == Len(x)
  <2>1. /\ n \in 0 .. DATA_BITS - 1 /\ c = at - through(n + 1) /\ c < CYCLES_PER_BIT
        /\ \A i \in 1 .. n : x[i] = d[i]
    BY <1>0, <1>3 DEF Follows
  <2>a. n \in Int /\ n + 1 \in Int
    BY <1>0, <2>1
  <2> HIDE DEF n
  <2>2. through(n + 1) \in Int /\ through(n + 1 + 1) = through(n + 1) + CYCLES_PER_BIT
    BY <2>a, Moments
  <2>3. CASE c + 1 < CYCLES_PER_BIT
    <3>1. c + 1 = at + 1 - through(n + 1)
      BY <2>1, <2>2
    <3>2. /\ Len(x) < DATA_BITS /\ c + 1 = at + 1 - through(Len(x) + 1)
          /\ \A i \in 1 .. Len(x) : x[i] = d[i]
      BY <1>0, <2>1, <3>1 DEF n
    <3>a. through(Len(x) + 1) \in Int
      BY <2>2 DEF n
    <3>3. Follows("DATA", c + 1, x, d, at + 1)
      BY <2>3, <3>2, <3>a DEF Follows
    <3> QED
      BY <1>1, <1>3, <2>3, <3>3
  <2>4. CASE c + 1 >= CYCLES_PER_BIT
    <3>1. at + 1 = through(n + 1 + 1)
      BY <1>0, <2>1, <2>2, <2>4, SMTT(60)
    <3>2. line = UP!wire(d, n + 1)
      <4>1. n + 1 \in 0 .. DATA_BITS
        BY <1>0, <2>1
      <4> QED
        BY <3>1, <4>1, SeenInBit
    <3>3. line = d[n + 1]
      <4>1. n + 1 \in 1 .. DATA_BITS /\ n + 1 # 0
        BY <1>0, <2>1
      <4> QED
        BY <3>2, <4>1 DEF UP!wire
    <3>4. /\ longer \in Seq(Bit) /\ Len(longer) = n + 1
          /\ \A i \in 1 .. n + 1 : longer[i] = d[i]
      <4>1. /\ longer \in Seq(Bit) /\ Len(longer) = n + 1
            /\ \A i \in 1 .. n : longer[i] = x[i]
            /\ longer[n + 1] = line
        BY AppendProperties DEF longer, n
      <4> QED
        BY <2>1, <2>a, <3>3, <4>1
    <3>5. CASE n + 1 >= DATA_BITS
      <4>1. n + 1 = DATA_BITS
        BY <1>0, <2>1, <3>5
      <4>2. longer = d
        <5>1. d \in Seq(Bit) /\ Len(d) = DATA_BITS
          BY <1>0 DEF Byte
        <5> QED
          BY <3>4, <4>1, <5>1, SeqEqual
      <4>3. Follows("STOP", 0, longer, d, at + 1)
        BY <1>0, <2>2, <3>1, <4>1, <4>2 DEF Follows
      <4> QED
        BY <1>0, <1>1, <1>3, <2>4, <3>5, <4>3 DEF n
    <3>6. CASE ~(n + 1 >= DATA_BITS)
      <4>1. Follows("DATA", 0, longer, d, at + 1)
        BY <1>0, <2>1, <2>2, <3>1, <3>4, <3>6 DEF Follows
      <4> QED
        BY <1>0, <1>1, <1>3, <2>4, <3>6, <4>1 DEF n
    <3> QED
      BY <3>5, <3>6
  <2> QED
    BY <1>0, <2>3, <2>4
<1>4. CASE s = "STOP"
  <2>1. x = d /\ c = at - through(DATA_BITS + 1) /\ c < 2 * CYCLES_PER_BIT
    BY <1>4 DEF Follows
  <2>2. /\ through(DATA_BITS + 1) \in Int
        /\ through(DATA_BITS + 1 + 1) = through(DATA_BITS + 1) + CYCLES_PER_BIT
        /\ through(DATA_BITS + 2 + 1) = through(DATA_BITS + 2) + CYCLES_PER_BIT
        /\ DATA_BITS + 1 + 1 = DATA_BITS + 2 /\ DATA_BITS + 2 + 1 = DATA_BITS + 3
    <3>1. DATA_BITS + 1 \in Int /\ DATA_BITS + 2 \in Int
      BY <1>0
    <3>2. DATA_BITS + 1 + 1 = DATA_BITS + 2 /\ DATA_BITS + 2 + 1 = DATA_BITS + 3
      BY <1>0
    <3> QED
      BY <3>1, <3>2, Moments
  <2>3. CASE c + 1 < 2 * CYCLES_PER_BIT
    <3>1. c + 1 = at + 1 - through(DATA_BITS + 1)
      BY <2>1, <2>2
    <3>2. Follows("STOP", c + 1, x, d, at + 1)
      BY <1>0, <2>1, <2>2, <2>3, <3>1 DEF Follows
    <3> QED
      BY <1>0, <1>1, <1>4, <2>3, <3>2
  <2>4. CASE c + 1 >= 2 * CYCLES_PER_BIT
    <3>1. at + 1 = through(DATA_BITS + 3)
      BY <1>0, <2>1, <2>2, <2>4, SMTT(60)
    <3> QED
      BY <1>1, <1>4, <2>1, <2>4, <3>1
  <2> QED
    BY <1>0, <2>3, <2>4
<1> QED
  BY <1>2, <1>3, <1>4 DEF Follows

\* The line is idle, and the transmitter pauses for no longer than a bit.
Quiet == tx.bitsReg = 0 /\ tx.shiftReg = TX_IDLE /\ tx.cntReg <= BIT_CNT

\* The decoder in step with the frame on the line.
Decoding(d) == Follows(decoder.state, decoder.counter, decoder.data, d, UP!cycle)

\* The answer on the line that is not printed yet.
Transmitting(rest) ==
  \/ rest = << >> /\ Quiet /\ decoder.state = "IDLE"
  \/ \E d \in Byte : UP!Framing(d) /\ rest = <<d>> /\ Decoding(d)
  \/ /\ rest = << >> /\ decoder.state = "IDLE"
     /\ \E d \in Byte : UP!Framing(d) /\ UP!cycle >= through(DATA_BITS + 3)

\* The last cycle of a frame comes after all that the decoder sees of it.
LEMMA FrameIsLonger ==
  ASSUME RateFits
  PROVE  /\ through(DATA_BITS + 1) \in Int /\ through(DATA_BITS + 3) \in Int
         /\ UP!start(DATA_BITS + 1) \in Int
         /\ UP!start(DATA_BITS + 3) - 1 - through(DATA_BITS + 1) >= 2 * CYCLES_PER_BIT
         /\ through(DATA_BITS + 3) >= UP!start(DATA_BITS + 1)
         /\ through(DATA_BITS + 3) = UP!start(DATA_BITS + 3) - HALF_BIT
<1>0. /\ DATA_BITS \in Nat \ {0} /\ CYCLES_PER_BIT = BIT_CNT + 1 /\ BIT_CNT \in Nat
      /\ HALF_BIT \in 1 .. BIT_CNT
  BY TerminalConstants, HalfBit
<1>1. /\ DATA_BITS + 1 \in Int /\ DATA_BITS + 2 \in Int /\ DATA_BITS + 3 \in Int
      /\ DATA_BITS + 1 + 1 = DATA_BITS + 2 /\ DATA_BITS + 2 + 1 = DATA_BITS + 3
  BY <1>0
<1>2. /\ UP!start(DATA_BITS + 1) \in Int
      /\ UP!start(DATA_BITS + 2) = UP!start(DATA_BITS + 1) + CYCLES_PER_BIT
      /\ UP!start(DATA_BITS + 3) = UP!start(DATA_BITS + 2) + CYCLES_PER_BIT
      /\ through(DATA_BITS + 1) = UP!start(DATA_BITS + 1) - HALF_BIT
      /\ through(DATA_BITS + 3) = UP!start(DATA_BITS + 3) - HALF_BIT
  BY <1>1, Moments
<1> QED
  BY <1>0, <1>2

\* A decoder that follows is not through before the frame is.
LEMMA FollowsInTime ==
  ASSUME RateFits, NEW s, NEW c \in Nat, NEW x \in Seq(Bit), NEW d,
         NEW at \in Int, at = UP!start(DATA_BITS + 3) - 1
  PROVE  ~Follows(s, c, x, d, at)
<1>0. /\ DATA_BITS \in Nat \ {0} /\ CYCLES_PER_BIT = BIT_CNT + 1 /\ BIT_CNT \in Nat
      /\ HALF_BIT \in 1 .. BIT_CNT /\ Len(x) \in Nat
  BY TerminalConstants, HalfBit
<1>1. /\ through(DATA_BITS + 1) \in Int
      /\ at - through(DATA_BITS + 1) >= 2 * CYCLES_PER_BIT
  BY FrameIsLonger
<1>2. ASSUME NEW n \in 0 .. DATA_BITS
      PROVE  through(n + 1) \in Int /\ at - through(n + 1) >= 2 * CYCLES_PER_BIT
  <2> DEFINE i == n + 1
             j == DATA_BITS + 1
  <2>1. i \in Int /\ j \in Int /\ (i < j \/ i = j) /\ UP!BIT_CNT = BIT_CNT
    BY <1>0, SameConstants
  <2> HIDE DEF i, j
  <2>2. i < j => UP!start(i) + UP!BIT_CNT + 1 <= UP!start(j)
    BY <2>1, SameAssumptions, UP!Starts
  <2>3. /\ UP!start(i) \in Int /\ UP!start(j) \in Int
        /\ through(i) = UP!start(i) - HALF_BIT /\ through(j) = UP!start(j) - HALF_BIT
    BY <2>1, Moments
  <2>4. through(i) <= through(j) /\ through(i) \in Int
    BY <1>0, <2>1, <2>2, <2>3
  <2>5. at - through(j) >= 2 * CYCLES_PER_BIT /\ through(j) \in Int
    BY <1>1 DEF j
  <2>6. at - through(i) >= 2 * CYCLES_PER_BIT
    BY <1>0, <2>4, <2>5
  <2> QED
    BY <2>4, <2>6 DEF i
<1>3. ~(s = "START" /\ c = at + HALF_BIT /\ c < CYCLES_PER_BIT)
  <2>1. PICK n \in 0 .. DATA_BITS : n = 0
    BY <1>0
  <2>2. n \in Int /\ UP!start(n) = 0
    BY <2>1, Moments
  <2>3. through(n + 1) = through(n) + CYCLES_PER_BIT /\ through(n) = 0 - HALF_BIT
    BY <2>2, Moments
  <2>4. at - through(n + 1) >= 2 * CYCLES_PER_BIT
    BY <1>2
  <2> QED
    BY <1>0, <2>3, <2>4
<1>4. ~(Len(x) < DATA_BITS /\ c = at - through(Len(x) + 1) /\ c < CYCLES_PER_BIT)
  <2> DEFINE n == Len(x)
  <2> SUFFICES ASSUME n < DATA_BITS, c = at - through(n + 1), c < CYCLES_PER_BIT PROVE FALSE
    OBVIOUS
  <2>1. n \in 0 .. DATA_BITS
    BY <1>0
  <2> HIDE DEF n
  <2> QED
    BY <1>0, <1>2, <2>1
<1>5. ~(c = at - through(DATA_BITS + 1) /\ c < 2 * CYCLES_PER_BIT)
  BY <1>0, <1>1
<1> QED
  BY <1>3, <1>4, <1>5, Zenon DEF Follows

\* An edge of the line and of the decoder: an answer goes onto the line, or is printed,
\* or neither.
LEMMA AnswersMove ==
  ASSUME RateFits, TerminalTypes, TerminalTypes', decoder.prev = txd,
         NEW rest, Transmitting(rest), UP!TxStep, process_tx(txd'),
         NEW byte \in Byte, byte = buf.data
  PROVE  /\ decoder'.prev = txd'
         /\ \/ /\ UP!taken /\ rest = << >> /\ Transmitting(<<byte>>)' /\ printed' = printed
            \/ /\ ~UP!taken /\ Transmitting(rest)' /\ printed' = printed
            \/ /\ ~UP!taken /\ Transmitting(<< >>)'
               /\ \E d \in Byte : rest = <<d>> /\ printed' = Append(printed, d)
<1>0. /\ DATA_BITS \in Nat \ {0} /\ CYCLES_PER_BIT = BIT_CNT + 1 /\ BIT_CNT \in Nat
      /\ HALF_BIT \in 1 .. BIT_CNT
  BY TerminalConstants, HalfBit
<1>1. /\ UP!UartTypeOK /\ UP!UartTypeOK' /\ UP!txd = txd /\ UP!txd' = txd'
      /\ UP!Byte = Byte /\ UP!Bit = Bit /\ UP!BIT_CNT = BIT_CNT /\ UP!TX_IDLE = TX_IDLE
  BY SameRegisters, SameConstants DEF TerminalTypes
<1>2. PICK s, c, x, p : decoder = Decoder(s, c, x, p) /\ DecoderOK(s, c, x, p)
  BY DecoderFields
<1>3. /\ c \in Nat /\ x \in Seq(Bit) /\ p = txd
      /\ decoder.state = s /\ decoder.counter = c /\ decoder.data = x
  BY <1>2 DEF Decoder, DecoderOK
<1>4. PICK line \in Bit : line = txd'
  <2>1. TX_FRAME_BITS \in Nat /\ 1 \in 1 .. TX_FRAME_BITS
    BY <1>0 DEF TX_FRAME_BITS, STOP_BITS
  <2> QED
    BY <2>1 DEF TerminalTypes, UartTypeOK, txd
<1>5. process_tx(line)
  BY <1>4
<1>6. decoder'.prev = txd'
  BY <1>4 DEF process_tx, TerminalTypes
<1>7. s = "IDLE" /\ ~(p = 1 /\ line = 0) => decoder'.state = "IDLE" /\ printed' = printed
  BY <1>2, <1>3, <1>5, DecoderMoves DEF Decoder
<1> DEFINE goal == \/ /\ UP!taken /\ rest = << >> /\ Transmitting(<<byte>>)' /\ printed' = printed
                   \/ /\ ~UP!taken /\ Transmitting(rest)' /\ printed' = printed
                   \/ /\ ~UP!taken /\ Transmitting(<< >>)'
                      /\ \E d \in Byte : rest = <<d>> /\ printed' = Append(printed, d)
<1>8. ASSUME rest = << >> /\ Quiet /\ decoder.state = "IDLE"
      PROVE  goal
  <2>1. p = 1
    BY <1>1, <1>3, <1>8, SameAssumptions, UP!IdleType DEF Quiet, txd
  <2>2. CASE UP!taken
    <3>1. UP!Framing(byte)' /\ UP!cycle' = 0
      BY <1>1, <2>2, SameAssumptions, UP!FrameBegins DEF UP!taken
    <3>2. UP!WasOnLine(txd', byte, 0)
      BY <1>1, <3>1, SameAssumptions, UP!LineCarriesNext
    <3>3. line = 0
      <4>1. UP!start(0) = 0
        BY Moments
      <4>2. 0 \in UP!start(0) .. UP!start(0) + BIT_CNT /\ 0 \in 0 .. DATA_BITS
        BY <1>0, <4>1
      <4>3. txd' = UP!wire(byte, 0)
        BY <1>1, <3>2, <4>2 DEF UP!WasOnLine
      <4> QED
        BY <1>4, <4>3 DEF UP!wire
    <3>4. decoder' = Decoder("START", HALF_BIT, << >>, line) /\ printed' = printed
      BY <1>2, <1>3, <1>5, <1>8, <2>1, <3>3, DecoderMoves
    <3>5. Decoding(byte)'
      <4>1. Follows("START", HALF_BIT, << >>, byte, 0)
        BY <1>0 DEF Follows
      <4>2. /\ decoder'.state = "START" /\ decoder'.counter = HALF_BIT
            /\ decoder'.data = << >>
        BY <3>4 DEF Decoder
      <4>3. Follows(decoder'.state, decoder'.counter, decoder'.data, byte, UP!cycle')
        BY <3>1, <4>1, <4>2
      <4> QED
        BY <4>3 DEF Decoding, Follows, through
    <3>6. Transmitting(<<byte>>)'
      BY <3>1, <3>5 DEF Transmitting
    <3> QED
      BY <1>8, <2>2, <3>4, <3>6
  <2>3. CASE ~UP!taken
    <3>1. tx'.bitsReg = 0 /\ tx'.shiftReg = TX_IDLE
          /\ tx'.cntReg = IF tx.cntReg # 0 THEN tx.cntReg - 1 ELSE BIT_CNT
      BY <1>1, <1>8, <2>3, SameAssumptions, UP!IdleGoesOn DEF UP!taken, Quiet
    <3>2. tx'.cntReg <= BIT_CNT
      <4>1. tx.cntReg \in Nat /\ tx.cntReg <= BIT_CNT
        <5>1. tx.cntReg \in 0 .. MaxCount /\ MaxCount \in Nat
          BY UartAssumption DEF TerminalTypes, UartTypeOK
        <5> QED
          BY <1>8, <5>1 DEF Quiet
      <4> QED
        BY <1>0, <3>1, <4>1
    <3>3. line = 1
      BY <1>1, <1>4, <3>1, SameAssumptions, UP!IdleType DEF txd
    <3>4. decoder'.state = "IDLE" /\ printed' = printed
      BY <1>3, <1>7, <1>8, <3>3
    <3>5. Transmitting(rest)'
      BY <1>8, <3>1, <3>2, <3>4 DEF Transmitting, Quiet
    <3> QED
      BY <2>3, <3>4, <3>5
  <2> QED
    BY <2>2, <2>3
<1>9. ASSUME NEW d \in Byte, UP!Framing(d),
             \/ rest = <<d>> /\ Decoding(d)
             \/ rest = << >> /\ decoder.state = "IDLE" /\ UP!cycle >= through(DATA_BITS + 3)
      PROVE  goal
  <2>1. ~UP!taken
    BY <1>1, <1>9 DEF UP!taken, UP!channel_ready, UP!Framing, UP!UartTypeOK
  <2>2. UP!cycle \in Int /\ UP!WasOnLine(txd, d, UP!cycle)
    BY <1>1, <1>9, SameAssumptions, UP!LineCarries
  <2>3. PICK at \in Int : at = UP!cycle
    BY <2>2
  <2>4. decoder.state = "IDLE" /\ at >= through(DATA_BITS + 3) => p = 1
    <3>1. /\ through(DATA_BITS + 3) \in Int /\ UP!start(DATA_BITS + 1) \in Int
          /\ through(DATA_BITS + 3) >= UP!start(DATA_BITS + 1)
      BY FrameIsLonger
    <3>2. at >= through(DATA_BITS + 3) => at >= UP!start(DATA_BITS + 1)
      BY <3>1
    <3> QED
      BY <1>3, <2>2, <2>3, <3>2 DEF UP!WasOnLine
  <2>5. CASE tx.cntReg = 0 /\ tx.bitsReg = 1
    <3>1. /\ tx'.bitsReg = 0 /\ tx'.shiftReg = TX_IDLE /\ tx'.cntReg = BIT_CNT
          /\ at = UP!start(DATA_BITS + 3) - 1
      BY <1>1, <1>9, <2>3, <2>5, SameAssumptions, UP!FrameEnds
    <3>2. ~Decoding(d)
      BY <1>3, <2>3, <3>1, FollowsInTime DEF Decoding
    <3>3. rest = << >> /\ decoder.state = "IDLE" /\ at >= through(DATA_BITS + 3)
      BY <1>9, <2>3, <3>2
    <3>4. line = 1
      BY <1>1, <1>4, <3>1, SameAssumptions, UP!IdleType DEF txd
    <3>5. decoder'.state = "IDLE" /\ printed' = printed
      BY <1>3, <1>7, <3>3, <3>4
    <3>6. Transmitting(rest)'
      BY <1>0, <3>1, <3>3, <3>5 DEF Transmitting, Quiet
    <3> QED
      BY <2>1, <3>5, <3>6
  <2>6. CASE ~(tx.cntReg = 0 /\ tx.bitsReg = 1)
    <3>1. UP!Framing(d)' /\ UP!cycle' = at + 1
      BY <1>1, <1>9, <2>3, <2>6, SameAssumptions, UP!FrameGoesOn
    <3>2. UP!WasOnLine(line, d, at + 1)
      BY <1>1, <1>4, <3>1, SameAssumptions, UP!LineCarriesNext
    <3>3. CASE rest = <<d>> /\ Decoding(d)
      <4>1. Follows(s, c, x, d, at)
        BY <1>3, <2>3, <3>3 DEF Decoding
      <4>2. \/ /\ \E t, n, y : decoder' = Decoder(t, n, y, line) /\ Follows(t, n, y, d, at + 1)
               /\ printed' = printed
            \/ /\ \E n, y : decoder' = Decoder("IDLE", n, y, line)
               /\ at + 1 = through(DATA_BITS + 3) /\ printed' = Append(printed, d)
        BY <1>2, <1>3, <1>5, <3>2, <4>1, DecoderFollows
      <4>3. CASE /\ \E t, n, y : decoder' = Decoder(t, n, y, line) /\ Follows(t, n, y, d, at + 1)
                 /\ printed' = printed
        <5>1. PICK t, n, y : decoder' = Decoder(t, n, y, line) /\ Follows(t, n, y, d, at + 1)
          BY <4>3
        <5>2. decoder'.state = t /\ decoder'.counter = n /\ decoder'.data = y
          BY <5>1 DEF Decoder
        <5>3. Follows(decoder'.state, decoder'.counter, decoder'.data, d, UP!cycle')
          BY <3>1, <5>1, <5>2
        <5>4. Decoding(d)'
          BY <5>3 DEF Decoding, Follows, through
        <5>5. Transmitting(rest)'
          BY <3>1, <3>3, <5>4 DEF Transmitting
        <5> QED
          BY <2>1, <4>3, <5>5
      <4>4. CASE /\ \E n, y : decoder' = Decoder("IDLE", n, y, line)
                 /\ at + 1 = through(DATA_BITS + 3) /\ printed' = Append(printed, d)
        <5>1. decoder'.state = "IDLE"
          BY <4>4 DEF Decoder
        <5>2. UP!cycle' >= through(DATA_BITS + 3)
          BY <3>1, <4>4
        <5>3. Transmitting(<< >>)'
          BY <3>1, <5>1, <5>2 DEF Transmitting, through
        <5> QED
          BY <2>1, <3>3, <4>4, <5>3
      <4> QED
        BY <4>2, <4>3, <4>4
    <3>4. CASE rest = << >> /\ decoder.state = "IDLE" /\ UP!cycle >= through(DATA_BITS + 3)
      <4>1. p = 1
        BY <2>3, <2>4, <3>4
      <4>2. line = 1
        <5>1. /\ through(DATA_BITS + 3) \in Int /\ UP!start(DATA_BITS + 1) \in Int
              /\ through(DATA_BITS + 3) >= UP!start(DATA_BITS + 1)
          BY FrameIsLonger
        <5>2. at + 1 >= UP!start(DATA_BITS + 1)
          BY <2>3, <3>4, <5>1
        <5> QED
          BY <3>2, <5>2 DEF UP!WasOnLine
      <4>3. decoder'.state = "IDLE" /\ printed' = printed
        BY <1>3, <1>7, <3>4, <4>1, <4>2
      <4>4. UP!cycle' >= through(DATA_BITS + 3)
        <5>1. through(DATA_BITS + 3) \in Int
          BY FrameIsLonger
        <5> QED
          BY <2>3, <3>1, <3>4, <5>1
      <4>5. Transmitting(rest)'
        BY <3>1, <3>4, <4>3, <4>4 DEF Transmitting, through
      <4> QED
        BY <2>1, <4>3, <4>5
    <3> QED
      BY <1>9, <3>3, <3>4
  <2> QED
    BY <2>5, <2>6
<1>10. goal
  <2>1. CASE \E d \in Byte : UP!Framing(d) /\ rest = <<d>> /\ Decoding(d)
    <3>1. PICK d \in Byte : UP!Framing(d) /\ rest = <<d>> /\ Decoding(d)
      BY <2>1
    <3> HIDE DEF goal
    <3> QED
      BY <1>9, <3>1
  <2>2. CASE /\ rest = << >> /\ decoder.state = "IDLE"
             /\ \E d \in Byte : UP!Framing(d) /\ UP!cycle >= through(DATA_BITS + 3)
    <3>1. PICK d \in Byte : UP!Framing(d) /\ UP!cycle >= through(DATA_BITS + 3)
      BY <2>2
    <3> HIDE DEF goal
    <3> QED
      BY <1>9, <2>2, <3>1
  <2>3. CASE rest = << >> /\ Quiet /\ decoder.state = "IDLE"
    BY <1>8, <2>3
  <2> HIDE DEF goal
  <2> QED
    BY <2>1, <2>2, <2>3 DEF Transmitting
<1> QED
  BY <1>6, <1>10

\* What the transmitter takes comes behind what it has taken.
LEMMA TakenMoves ==
  ASSUME TerminalTypes, NEW bundle, Answering(bundle)
  PROVE  taken' = taken \o IF accepted(bundle) THEN <<bundle.data>> ELSE << >>
<1>1. taken \in Seq(Byte) /\ program.held \in Seq(Byte) /\ Len(program.held) <= 1
  BY DEF TerminalTypes
<1>2. CASE accepted(bundle)
  <2>1. CanWrite /\ bundle.data = program.held[1] /\ taken' = taken \o program.held
    BY <1>2 DEF Answering
  <2>2. program.held # << >>
    BY <2>1 DEF CanWrite
  <2> DEFINE h == program.held
  <2>3. h \in Seq(Byte) /\ h # << >> /\ Len(h) <= 1 /\ h[1] = bundle.data
    BY <1>1, <2>1, <2>2
  <2> HIDE DEF h
  <2>a. PICK e \in Byte : e = bundle.data
    BY <2>3
  <2>b. /\ Len(h) = 1
        /\ <<e>> \in Seq(Byte) /\ Len(<<e>>) = 1 /\ <<e>>[1] = e
    <3>1. Len(h) \in Nat /\ Len(h) # 0
      BY <2>3, EmptySeq
    <3>2. Len(h) <= 1
      BY <2>3
    <3>a. Len(h) = 1
      <4> DEFINE n == Len(h)
      <4> HIDE DEF n
      <4>1. n \in Nat /\ n # 0 /\ n <= 1
        BY <3>1, <3>2 DEF n
      <4>2. n = 1
        BY <4>1
      <4> QED
        BY <4>2 DEF n
    <3>3. <<e>> \in Seq(Byte) /\ Len(<<e>>) = 1 /\ <<e>>[1] = e
      OBVIOUS
    <3> QED
      BY <3>a, <3>3
  <2>4. h = <<bundle.data>>
    BY <2>3, <2>a, <2>b, SeqEqual
  <2> QED
    BY <1>2, <2>1, <2>4 DEF h
<1>3. CASE ~accepted(bundle)
  BY <1>1, <1>3, ConcatEmptySeq DEF Answering
<1> QED
  BY <1>2, <1>3

\* The invariant of the way back: the answers that the transmitter took and the terminal
\* has not printed stand on the line and in the buffer.
AnswersInv ==
  /\ decoder.prev = txd
  /\ \E rest \in Seq(Byte) : Transmitting(rest) /\ taken = printed \o (rest \o UP!buffered)

LEMMA AnswersArrive ==
  ASSUME RateFits, TerminalTypes, TerminalTypes', AnswersInv, NEW bundle, bundle.data \in Byte,
         UP!TxStep, UP!BufferStep(bundle), process_tx(txd'), Answering(bundle)
  PROVE  AnswersInv'
<1>1. PICK rest \in Seq(Byte) : Transmitting(rest) /\ taken = printed \o (rest \o UP!buffered)
  BY DEF AnswersInv
<1>2. /\ UP!UartTypeOK /\ buf.data \in Byte /\ printed \in Seq(Byte)
      /\ UP!buffered \in Seq(Byte) /\ decoder.prev = txd
  BY SameRegisters DEF TerminalTypes, UartTypeOK, UP!buffered, AnswersInv
<1>3. PICK byte \in Byte : byte = buf.data
  BY <1>2
<1>4. /\ decoder'.prev = txd'
      /\ \/ /\ UP!taken /\ rest = << >> /\ Transmitting(<<byte>>)' /\ printed' = printed
         \/ /\ ~UP!taken /\ Transmitting(rest)' /\ printed' = printed
         \/ /\ ~UP!taken /\ Transmitting(<< >>)'
            /\ \E d \in Byte : rest = <<d>> /\ printed' = Append(printed, d)
  BY <1>1, <1>2, <1>3, AnswersMove
<1> SUFFICES \E left \in Seq(Byte) :
               Transmitting(left)' /\ taken' = printed' \o (left \o UP!buffered')
  BY <1>4 DEF AnswersInv
<1>5. /\ UP!taken => UP!buffered' = << >> /\ UP!buffered = <<buf.data>> /\ ~accepted(bundle)
      /\ ~UP!taken => \/ UP!buffered' = UP!buffered /\ ~accepted(bundle)
                      \/ /\ UP!buffered = << >> /\ accepted(bundle)
                         /\ UP!buffered' = <<bundle.data>>
  BY <1>2, SameAssumptions, SameAccesses, UP!BufferMoves
<1> DEFINE b == UP!buffered
           c == UP!buffered'
           p == printed
           sent == IF accepted(bundle) THEN <<bundle.data>> ELSE << >>
           ahead == rest \o b
<1>6. b \in Seq(Byte) /\ p \in Seq(Byte) /\ sent \in Seq(Byte)
  BY <1>2
<1>7. taken' = (p \o ahead) \o sent
  BY <1>1, TakenMoves
<1>8. c \in Seq(Byte)
  <2>1. << >> \in Seq(Byte) /\ <<bundle.data>> \in Seq(Byte)
    OBVIOUS
  <2>2. c = << >> \/ c = b \/ c = <<bundle.data>>
    BY <1>5
  <2> QED
    BY <1>6, <2>1, <2>2
<1>9. ahead \in Seq(Byte)
  BY <1>6, ConcatProperties
<1>10. ~UP!taken => ahead \o sent = rest \o c
  <2>1. CASE c = b /\ ~accepted(bundle)
    BY <1>9, <2>1, ConcatEmptySeq
  <2>2. CASE b = << >> /\ accepted(bundle) /\ c = <<bundle.data>>
    BY <2>2, ConcatEmptySeq
  <2> QED
    BY <1>5, <2>1, <2>2
<1> HIDE DEF ahead
<1>11. taken' = p \o (ahead \o sent)
  <2> HIDE DEF p, sent
  <2>1. (p \o ahead) \o sent = p \o (ahead \o sent)
    BY <1>6, <1>9, BytesRegroup, ZenonT(90)
  <2> QED
    BY <1>7, <2>1
<1>12. CASE UP!taken /\ rest = << >> /\ Transmitting(<<byte>>)' /\ printed' = printed
  <2> DEFINE one == <<byte>>
  <2>1. one \in Seq(Byte) /\ b = one /\ c = << >> /\ sent = << >>
    BY <1>3, <1>5, <1>12
  <2> HIDE DEF one, sent
  <2>2. ahead = << >> \o one
    BY <1>12, <2>1 DEF ahead
  <2>3. ahead = one
    BY <2>1, <2>2, ConcatEmptySeq
  <2>4. ahead \o sent = one \o c
    BY <2>1, <2>3
  <2>5. taken' = printed' \o (one \o UP!buffered')
    BY <1>11, <1>12, <2>4
  <2> QED
    BY <1>12, <2>1, <2>5 DEF one
<1>13. CASE ~UP!taken /\ Transmitting(rest)' /\ printed' = printed
  BY <1>10, <1>11, <1>13
<1>14. CASE /\ ~UP!taken /\ Transmitting(<< >>)'
            /\ \E d \in Byte : rest = <<d>> /\ printed' = Append(printed, d)
  <2>1. PICK d \in Byte : rest = <<d>> /\ printed' = Append(printed, d)
    BY <1>14
  <2>2. printed' = p \o rest
    BY <1>6, <2>1, AppendIsConcat
  <2>3. taken' = p \o (rest \o c)
    BY <1>10, <1>11, <1>14
  <2> HIDE DEF p, c, sent
  <2>a. p \o (rest \o c) = (p \o rest) \o c
    BY <1>6, <1>8, BytesRegroup, ZenonT(90)
  <2>4. taken' = (p \o rest) \o c
    BY <2>3, <2>a
  <2>5. << >> \o c = c /\ << >> \in Seq(Byte)
    BY <1>8, ConcatEmptySeq
  <2>6. taken' = printed' \o (<< >> \o UP!buffered')
    BY <2>2, <2>4, <2>5 DEF c
  <2> QED
    BY <1>14, <2>5, <2>6
<1> QED
  BY <1>4, <1>12, <1>13, <1>14

-----------------------------------------------------------------------------
(***************************************************************************)
(* The keys on their way to the program.                                   *)
(***************************************************************************)
\* How many cycles ago the serializer took its byte.
Position(s, c, b) == UP!start(IF s = "START" THEN 0 ELSE b + 1) + c
position == Position(serializer.state, serializer.counter, serializer.bit_idx)

\* The value driven at a position: the start bit from the beginning, and the others one
\* cycle later than the transmitter of the UART would send them.
Drove(value, d, at) ==
  /\ at < 0 => value = 1
  /\ at = 0 => value = 0
  /\ \A i \in 0 .. DATA_BITS :
       at - 1 \in UP!start(i) .. UP!start(i) + BIT_CNT => value = UP!wire(d, i)
  /\ at - 1 >= UP!start(DATA_BITS + 1) => value = 1

\* A bit that is driven in its time.
LEMMA DrivenInTime ==
  ASSUME RateFits, NEW d, NEW n \in 0 .. DATA_BITS + 2,
         NEW at \in UP!start(n) .. UP!start(n) + BIT_CNT
  PROVE  at \in Nat /\ Drove(UP!wire(d, n), d, at + 1)
<1>1. UP!BIT_CNT = BIT_CNT
  BY SameConstants
<1>2. at \in Int /\ at >= 0 /\ UP!WasOnLine(UP!wire(d, n), d, at)
  BY <1>1, SameAssumptions, UP!WireInTime
<1>3. at + 1 - 1 = at /\ ~(at + 1 < 0) /\ at + 1 # 0
  BY <1>2
<1> QED
  BY <1>1, <1>2, <1>3 DEF Drove, UP!WasOnLine

\* The receiver sees each bit in time.
LEMMA DriveIsSeen ==
  ASSUME RateFits, NEW d, NEW value, NEW at \in Int, Drove(value, d, at)
  PROVE  UP!Seen(value, d, at)
<1>0. /\ DATA_BITS \in Nat \ {0} /\ BIT_CNT \in Nat /\ UP!BIT_CNT = BIT_CNT
      /\ UP!offset \in 1 .. BIT_CNT
  <2>1. UP!offset \in 0 .. UP!BIT_CNT /\ UP!offset >= 1
    BY HalfBit, SameAssumptions, UP!SampleInBit
  <2> QED
    BY <2>1, SameConstants, TerminalConstants
<1>1. ASSUME NEW i \in 1 .. DATA_BITS, at = UP!start(i) + UP!offset
      PROVE  value = d[i]
  <2>1. i \in Int /\ i \in 0 .. DATA_BITS
    BY <1>0
  <2>2. UP!start(i) \in Int
    BY <2>1, Moments
  <2>3. at - 1 \in UP!start(i) .. UP!start(i) + BIT_CNT
    BY <1>0, <1>1, <2>2
  <2>4. value = UP!wire(d, i)
    BY <2>1, <2>3 DEF Drove
  <2> QED
    BY <1>0, <2>4 DEF UP!wire
<1>2. at >= UP!start(DATA_BITS + 1) + UP!offset => value = 1
  <2>1. UP!start(DATA_BITS + 1) \in Int
    BY FrameIsLonger
  <2>2. at >= UP!start(DATA_BITS + 1) + UP!offset => at - 1 >= UP!start(DATA_BITS + 1)
    BY <1>0, <2>1
  <2> QED
    BY <2>2 DEF Drove
<1> QED
  BY <1>1, <1>2 DEF Drove, UP!Seen

\* An edge of the serializer while it has a byte: it drives the next cycle of it, or is
\* through with it.
LEMMA SerializerDrives ==
  ASSUME RateFits, NEW s, NEW c, NEW b, NEW d, serializer = Serializer(s, c, b, d),
         SerializerOK(s, c, b, d), s # "IDLE", NEW queue, get_rx_line(queue)
  PROVE  /\ Position(s, c, b) \in Nat /\ rx_fifo' = queue
         /\ \/ \E t, n, m : /\ serializer' = Serializer(t, n, m, d) /\ t # "IDLE"
                            /\ Position(t, n, m) = Position(s, c, b) + 1
                            /\ Drove(rx_line_value', d, Position(s, c, b) + 1)
            \/ \E n, m : /\ serializer' = Serializer("IDLE", n, m, d)
                         /\ Position(s, c, b) = UP!start(DATA_BITS + 3) - 1
                         /\ rx_line_value' = 1
<1>0. /\ s \in Phases /\ c \in Nat /\ b \in 0 .. DATA_BITS /\ d \in Byte /\ b \in Nat
      /\ s = "START" => b = 0
      /\ s = "DATA" => b < DATA_BITS
      /\ s = "STOP" => b = DATA_BITS
      /\ s \in {"START", "DATA"} => c < CYCLES_PER_BIT
      /\ s = "STOP" => c < 2 * CYCLES_PER_BIT
      /\ DATA_BITS \in Nat \ {0} /\ BIT_CNT \in Nat /\ CYCLES_PER_BIT = BIT_CNT + 1
  BY TerminalConstants DEF SerializerOK
<1>1. /\ s = "IDLE" /\ queue = << >> =>
           rx_line_value' = 1 /\ rx_fifo' = queue /\ serializer' = serializer
      /\ s = "IDLE" /\ queue # << >> =>
           /\ rx_line_value' = 0 /\ rx_fifo' = Tail(queue)
           /\ serializer' = Serializer("START", 0, 0, Head(queue))
      /\ s = "START" => rx_line_value' = 0 /\ rx_fifo' = queue
      /\ s = "START" /\ c + 1 < CYCLES_PER_BIT => serializer' = Serializer("START", c + 1, b, d)
      /\ s = "START" /\ c + 1 >= CYCLES_PER_BIT => serializer' = Serializer("DATA", 0, b, d)
      /\ s = "DATA" => rx_line_value' = d[b + 1] /\ rx_fifo' = queue
      /\ s = "DATA" /\ c + 1 < CYCLES_PER_BIT => serializer' = Serializer("DATA", c + 1, b, d)
      /\ s = "DATA" /\ c + 1 >= CYCLES_PER_BIT =>
           serializer' = Serializer(IF b + 1 >= DATA_BITS THEN "STOP" ELSE "DATA", 0, b + 1, d)
      /\ s = "STOP" => rx_line_value' = 1 /\ rx_fifo' = queue
      /\ s = "STOP" /\ c + 1 < 2 * CYCLES_PER_BIT => serializer' = Serializer("STOP", c + 1, b, d)
      /\ s = "STOP" /\ c + 1 >= 2 * CYCLES_PER_BIT => serializer' = Serializer("IDLE", 0, b, d)
  <2>1. c \in Nat /\ b \in Nat
    BY <1>0
  <2>2. serializer = Serializer(s, c, b, d) /\ get_rx_line(queue)
    OBVIOUS
  <2> QED
    BY <2>1, <2>2, SerializerMoves
<1> DEFINE k == Position(s, c, b)
           goal == \/ \E t, n, m : /\ serializer' = Serializer(t, n, m, d) /\ t # "IDLE"
                                   /\ Position(t, n, m) = k + 1
                                   /\ Drove(rx_line_value', d, k + 1)
                   \/ \E n, m : /\ serializer' = Serializer("IDLE", n, m, d)
                                /\ k = UP!start(DATA_BITS + 3) - 1
                                /\ rx_line_value' = 1
<1>2. ASSUME s = "START"
      PROVE  k \in Nat /\ goal
  <2>1. PICK zero \in 0 .. DATA_BITS + 2 : zero = 0
    BY <1>0
  <2>2. zero \in Int /\ UP!start(zero) = 0 /\ zero + 1 = 1
    BY <2>1, Moments
  <2>3. UP!start(zero + 1) = CYCLES_PER_BIT
    BY <1>0, <2>2, Moments
  <2>4. k = c /\ b = 0
    BY <1>0, <1>2, <2>1, <2>2 DEF Position
  <2>5. k \in UP!start(zero) .. UP!start(zero) + BIT_CNT
    BY <1>0, <1>2, <2>2, <2>4
  <2> HIDE DEF k
  <2>6. k \in Nat /\ Drove(UP!wire(d, zero), d, k + 1)
    BY <2>5, DrivenInTime
  <2>7. Drove(rx_line_value', d, k + 1)
    BY <1>1, <1>2, <2>1, <2>6 DEF UP!wire
  <2>8. CASE c + 1 < CYCLES_PER_BIT
    <3>1. Position("START", c + 1, b) = k + 1
      BY <1>0, <2>1, <2>2, <2>4 DEF Position
    <3> QED
      BY <1>1, <1>2, <2>6, <2>7, <2>8, <3>1
  <2>9. CASE c + 1 >= CYCLES_PER_BIT
    <3>1. Position("DATA", 0, b) = UP!start(zero + 1) + 0
      BY <2>1, <2>4 DEF Position
    <3>2. Position("DATA", 0, b) = k + 1
      BY <1>0, <1>2, <2>3, <2>4, <2>9, <3>1
    <3> QED
      BY <1>1, <1>2, <2>6, <2>7, <2>9, <3>2
  <2> QED
    BY <1>0, <2>8, <2>9
<1>3. ASSUME s = "DATA"
      PROVE  k \in Nat /\ goal
  <2> DEFINE i == b + 1
  <2>1. i \in 1 .. DATA_BITS /\ i \in Int /\ i \in 0 .. DATA_BITS + 2
    BY <1>0, <1>3
  <2>2. k = UP!start(i) + c
    BY <1>3 DEF Position
  <2> HIDE DEF i, k
  <2>3. UP!start(i) \in Int /\ UP!start(i + 1) = UP!start(i) + CYCLES_PER_BIT
    BY <2>1, Moments
  <2>4. k \in UP!start(i) .. UP!start(i) + BIT_CNT
    BY <1>0, <1>3, <2>2, <2>3
  <2>5. k \in Nat /\ Drove(UP!wire(d, i), d, k + 1)
    BY <2>1, <2>4, DrivenInTime
  <2>6. UP!wire(d, i) = d[i]
    BY <2>1 DEF UP!wire
  <2>7. Drove(rx_line_value', d, k + 1)
    BY <1>1, <1>3, <2>5, <2>6 DEF i
  <2>8. CASE c + 1 < CYCLES_PER_BIT
    <3>1. Position("DATA", c + 1, b) = UP!start(i) + (c + 1)
      BY DEF Position, i
    <3>2. Position("DATA", c + 1, b) = k + 1
      BY <1>0, <2>2, <2>3, <3>1
    <3> QED
      BY <1>1, <1>3, <2>5, <2>7, <2>8, <3>2
  <2>9. CASE c + 1 >= CYCLES_PER_BIT
    <3> DEFINE t == IF b + 1 >= DATA_BITS THEN "STOP" ELSE "DATA"
    <3>1. Position(t, 0, b + 1) = UP!start(i + 1) + 0
      BY DEF Position, i
    <3>2. Position(t, 0, b + 1) = k + 1
      BY <1>0, <1>3, <2>2, <2>3, <2>9, <3>1
    <3>3. t # "IDLE" /\ serializer' = Serializer(t, 0, b + 1, d)
      BY <1>1, <1>3, <2>9
    <3> HIDE DEF t
    <3> QED
      BY <2>5, <2>7, <3>2, <3>3
  <2> QED
    BY <1>0, <2>8, <2>9
<1>4. ASSUME s = "STOP"
      PROVE  k \in Nat /\ goal
  <2> DEFINE i == DATA_BITS + 1
  <2>1. i \in Int /\ i \in 0 .. DATA_BITS + 2 /\ i + 1 \in 0 .. DATA_BITS + 2
    BY <1>0
  <2>2. k = UP!start(i) + c
    BY <1>0, <1>4 DEF Position
  <2>a. i + 1 + 1 = DATA_BITS + 3
    BY <1>0
  <2> HIDE DEF i, k
  <2>3. /\ UP!start(i) \in Int /\ UP!start(i + 1) = UP!start(i) + CYCLES_PER_BIT
        /\ UP!start(i + 1 + 1) = UP!start(i + 1) + CYCLES_PER_BIT
    <3>1. i + 1 \in Int
      BY <2>1
    <3> QED
      BY <2>1, <3>1, Moments
  <2>4. \/ k \in UP!start(i) .. UP!start(i) + BIT_CNT
        \/ k \in UP!start(i + 1) .. UP!start(i + 1) + BIT_CNT
    BY <1>0, <1>4, <2>2, <2>3
  <2>5. k \in Nat /\ (Drove(UP!wire(d, i), d, k + 1) \/ Drove(UP!wire(d, i + 1), d, k + 1))
    BY <2>1, <2>4, DrivenInTime
  <2>6. UP!wire(d, i) = 1 /\ UP!wire(d, i + 1) = 1
    BY <1>0 DEF UP!wire, i
  <2>7. rx_line_value' = 1 /\ Drove(rx_line_value', d, k + 1)
    BY <1>1, <1>4, <2>5, <2>6
  <2>8. CASE c + 1 < 2 * CYCLES_PER_BIT
    <3>1. Position("STOP", c + 1, b) = UP!start(i) + (c + 1)
      BY <1>0, <1>4 DEF Position, i
    <3>2. Position("STOP", c + 1, b) = k + 1
      BY <1>0, <2>2, <2>3, <3>1
    <3> QED
      BY <1>1, <1>4, <2>5, <2>7, <2>8, <3>2
  <2>9. CASE c + 1 >= 2 * CYCLES_PER_BIT
    <3>1. k = UP!start(DATA_BITS + 3) - 1
      BY <1>0, <1>4, <2>2, <2>3, <2>9, <2>a
    <3> QED
      BY <1>1, <1>4, <2>5, <2>7, <2>9, <3>1
  <2> QED
    BY <1>0, <2>8, <2>9
<1> HIDE DEF goal, k
<1>5. k \in Nat /\ goal /\ rx_fifo' = queue
  BY <1>0, <1>1, <1>2, <1>3, <1>4 DEF Phases
<1> QED
  BY <1>5 DEF goal, k

\* A byte that is taken from the queue: the line was high before, and goes low.
LEMMA DriveBegins ==
  ASSUME RateFits, NEW d
  PROVE  Drove(0, d, 0) /\ Drove(1, d, -1) /\ Drove(1, d, -2)
<1>0. DATA_BITS \in Nat \ {0} /\ BIT_CNT \in Nat
  BY TerminalConstants
<1>1. ASSUME NEW i \in 0 .. DATA_BITS + 2
      PROVE  UP!start(i) \in Nat
  <2>1. BIT_CNT + 1 \in Nat /\ i \in Nat
    BY <1>0
  <2> QED
    BY <2>1, SameConstants DEF UP!start
<1>2. DATA_BITS + 1 \in 0 .. DATA_BITS + 2 /\ \A i \in 0 .. DATA_BITS : i \in 0 .. DATA_BITS + 2
  BY <1>0
<1>3. UP!start(DATA_BITS + 1) \in Nat /\ \A i \in 0 .. DATA_BITS : UP!start(i) \in Nat
  BY <1>1, <1>2
<1>4. ASSUME NEW at \in {-2, -1, 0}
      PROVE  /\ ~(at - 1 >= UP!start(DATA_BITS + 1))
             /\ \A i \in 0 .. DATA_BITS : at - 1 \notin UP!start(i) .. UP!start(i) + BIT_CNT
  BY <1>0, <1>3
<1> QED
  BY <1>4 DEF Drove

\* The serializer has a byte, and what it drove has reached the two registers in front of
\* the receiver.
Serializing(d) ==
  /\ serializer.state # "IDLE" /\ serializer.shift = d
  /\ Drove(rx_line_value, d, position)
  /\ Drove(rx.sync, d, position - 1)
  /\ Drove(rx.rxReg, d, position - 2)
\* Nothing is on the line.
AtRest ==
  /\ serializer.state = "IDLE" /\ rx_line_value = 1
  /\ rx.sync = 1 /\ rx.rxReg = 1 /\ rx.bitsReg = 0 /\ rx.cntReg = 0

\* The key on the line that the receiver does not have yet.
Receiving(rest) ==
  \/ rest = << >> /\ AtRest
  \/ \E d \in Byte : /\ Serializing(d) /\ rest = <<d>>
                     /\ UP!Waiting(position) \/ UP!Sampling(d, position)
  \/ \E d \in Byte : Serializing(d) /\ rest = << >> /\ UP!Listening(position)

\* An edge while nothing is on the line.
LEMMA RestMoves ==
  ASSUME RateFits, TerminalTypes, AtRest, NEW bundle, UP!RxStep(bundle, rx_line_value),
         NEW queue \in Seq(Byte), get_rx_line(queue)
  PROVE  /\ UP!NoneReceived(bundle)
         /\ queue = << >> => AtRest' /\ rx_fifo' = queue
         /\ queue # << >> => /\ rx_fifo' = Tail(queue) /\ Head(queue) \in Byte
                             /\ Serializing(Head(queue))' /\ UP!Waiting(position)'
<1>1. PICK s, c, b, d : serializer = Serializer(s, c, b, d) /\ SerializerOK(s, c, b, d)
  BY SerializerFields
<1>2. c \in Nat /\ b \in Nat /\ s = "IDLE"
  BY <1>1, TerminalConstants DEF SerializerOK, Serializer, AtRest
<1>3. /\ queue = << >> =>
           rx_line_value' = 1 /\ rx_fifo' = queue /\ serializer' = serializer
      /\ queue # << >> =>
           /\ rx_line_value' = 0 /\ rx_fifo' = Tail(queue)
           /\ serializer' = Serializer("START", 0, 0, Head(queue))
  BY <1>1, <1>2, SerializerMoves
<1>4. /\ UP!UartTypeOK /\ rx_line_value = 1
      /\ rx.sync = 1 /\ rx.rxReg = 1 /\ rx.bitsReg = 0 /\ rx.cntReg = 0
  BY SameRegisters DEF TerminalTypes, AtRest
<1>5. /\ rx'.sync = 1 /\ rx'.rxReg = 1
      /\ rx'.bitsReg = 0 /\ rx'.cntReg = 0 /\ rx'.shiftReg = rx.shiftReg
      /\ rx'.valReg <=> rx.valReg /\ ~UP!enq_fire(bundle)
  BY <1>4, SameAssumptions, UP!RxFields
<1>6. UP!NoneReceived(bundle)
  BY <1>5 DEF UP!NoneReceived
<1>7. CASE queue = << >>
  BY <1>3, <1>5, <1>6, <1>7 DEF AtRest
<1>8. CASE queue # << >>
  <2>1. PICK d2 \in Byte : d2 = Head(queue)
    BY <1>8, HeadTailProperties
  <2>2. /\ serializer'.state = "START" /\ serializer'.counter = 0 /\ serializer'.bit_idx = 0
        /\ serializer'.shift = d2 /\ rx_line_value' = 0 /\ rx_fifo' = Tail(queue)
    BY <1>3, <1>8, <2>1 DEF Serializer
  <2>3. PICK zero \in 0 .. DATA_BITS + 2 : zero = 0
    BY TerminalConstants
  <2>4. UP!start(zero) = 0
    BY <2>3, Moments
  <2>5. Position(serializer'.state, serializer'.counter, serializer'.bit_idx) = 0
    BY <2>2, <2>3, <2>4 DEF Position
  <2>6. position' = 0
    BY <2>5 DEF position, Position, UP!start
  <2>7. Drove(rx_line_value', d2, 0) /\ Drove(rx'.sync, d2, -1) /\ Drove(rx'.rxReg, d2, -2)
    BY <1>5, <2>2, DriveBegins
  <2>8. 0 - 1 = -1 /\ 0 - 2 = -2
    OBVIOUS
  <2>9. /\ Drove(rx_line_value', d2, position') /\ Drove(rx'.sync, d2, position' - 1)
        /\ Drove(rx'.rxReg, d2, position' - 2)
    BY <2>6, <2>7, <2>8
  <2>10. Serializing(d2)'
    BY <2>2, <2>9 DEF Serializing, Drove, UP!start, UP!wire
  <2>11. UP!Waiting(position)'
    BY <1>5, <2>6 DEF UP!Waiting
  <2> QED
    BY <1>6, <1>8, <2>1, <2>2, <2>10, <2>11
<1> QED
  BY <1>7, <1>8

\* An edge while a byte is on the line.
LEMMA SerialMoves ==
  ASSUME RateFits, TerminalTypes, NEW d \in Byte, Serializing(d), NEW rest,
         \/ rest = <<d>> /\ (UP!Waiting(position) \/ UP!Sampling(d, position))
         \/ rest = << >> /\ UP!Listening(position),
         NEW bundle, UP!RxStep(bundle, rx_line_value),
         rest # << >> /\ rx.valReg => UP!enq_fire(bundle),
         NEW queue \in Seq(Byte), get_rx_line(queue)
  PROVE  /\ rx_fifo' = queue
         /\ \/ Receiving(rest)' /\ UP!NoneReceived(bundle)
            \/ /\ Receiving(<< >>)' /\ ~rx.valReg /\ rx'.valReg
               /\ rest = <<d>> /\ rx'.shiftReg = d
<1>0. UP!UartTypeOK /\ UP!Byte = Byte
  BY SameRegisters, SameConstants DEF TerminalTypes
<1>1. PICK s, c, b, e : serializer = Serializer(s, c, b, e) /\ SerializerOK(s, c, b, e)
  BY SerializerFields
<1>2. serializer = Serializer(s, c, b, d) /\ SerializerOK(s, c, b, d) /\ s # "IDLE"
  BY <1>1 DEF Serializing, Serializer
<1>3. position = Position(s, c, b)
  BY <1>2 DEF position, Serializer
<1> DEFINE k == Position(s, c, b)
<1>4. /\ k \in Nat /\ rx_fifo' = queue
      /\ \/ \E t, n, m : /\ serializer' = Serializer(t, n, m, d) /\ t # "IDLE"
                         /\ Position(t, n, m) = k + 1
                         /\ Drove(rx_line_value', d, k + 1)
         \/ \E n, m : /\ serializer' = Serializer("IDLE", n, m, d)
                      /\ k = UP!start(DATA_BITS + 3) - 1
                      /\ rx_line_value' = 1
  BY <1>2, SerializerDrives
<1> HIDE DEF k
<1>5. PICK at \in Nat : at = position
  BY <1>3, <1>4 DEF k
<1>6. at = k /\ rx'.sync = rx_line_value /\ rx'.rxReg = rx.sync
  BY <1>0, <1>3, <1>5, SameAssumptions, UP!RxFields DEF k
<1>7. UP!Seen(rx.rxReg, d, at - 2)
  BY <1>5, DriveIsSeen DEF Serializing
<1>8. ASSUME NEW t, NEW n, NEW m, serializer' = Serializer(t, n, m, d), t # "IDLE",
             Position(t, n, m) = k + 1, Drove(rx_line_value', d, k + 1)
      PROVE  \/ Receiving(rest)' /\ UP!NoneReceived(bundle)
             \/ /\ Receiving(<< >>)' /\ ~rx.valReg /\ rx'.valReg
                /\ rest = <<d>> /\ rx'.shiftReg = d
  <2>1. position' = at + 1
    <3>1. Position(serializer'.state, serializer'.counter, serializer'.bit_idx) = at + 1
      BY <1>6, <1>8 DEF Serializer
    <3> QED
      BY <3>1 DEF position, Position, UP!start
  <2>2. at + 1 - 1 = at /\ at + 1 - 2 = at - 1
    OBVIOUS
  <2>3. Serializing(d)'
    <3>1. /\ Drove(rx_line_value', d, at + 1) /\ Drove(rx'.sync, d, at + 1 - 1)
          /\ Drove(rx'.rxReg, d, at + 1 - 2)
      BY <1>5, <1>6, <1>8, <2>2 DEF Serializing
    <3>2. serializer'.state # "IDLE" /\ serializer'.shift = d
      BY <1>8 DEF Serializer
    <3> QED
      BY <2>1, <3>1, <3>2 DEF Serializing, Drove, UP!start, UP!wire
  <2>4. /\ UP!Waiting(at + 1)' => UP!Waiting(position)'
        /\ UP!Sampling(d, at + 1)' => UP!Sampling(d, position)'
        /\ UP!Listening(at + 1)' => UP!Listening(position)'
    BY <2>1 DEF UP!Waiting, UP!Sampling, UP!Listening, UP!due, UP!start
  <2>5. CASE rest = <<d>> /\ UP!Waiting(position)
    <3>1. (UP!Waiting(at + 1)' \/ UP!Sampling(d, at + 1)') /\ ~rx'.valReg
      BY <1>0, <1>5, <1>7, <2>5, SameAssumptions, UP!StartBitFound
    <3>2. UP!NoneReceived(bundle)
      BY <2>5, <3>1 DEF UP!NoneReceived
    <3> QED
      BY <2>3, <2>4, <2>5, <3>1, <3>2 DEF Receiving
  <2>6. CASE rest = <<d>> /\ UP!Sampling(d, position)
    <3>1. CASE UP!Sampling(d, at + 1)' /\ ~rx'.valReg
      BY <2>3, <2>4, <2>6, <3>1 DEF Receiving, UP!NoneReceived, UP!Sampling
    <3>2. CASE UP!Listening(at + 1)' /\ rx'.valReg /\ rx'.shiftReg = d
      BY <2>3, <2>4, <2>6, <3>2 DEF Receiving, UP!Sampling
    <3>3. RateFits => UP!RateFits
      BY SameConstants DEF RateFits, UP!RateFits
    <3> QED
      BY <1>0, <1>5, <1>7, <2>6, <3>1, <3>2, <3>3, SameAssumptions, UP!SamplesGoOn
  <2>7. CASE rest = << >> /\ UP!Listening(position)
    <3>1. UP!RateFits
      BY SameConstants DEF RateFits, UP!RateFits
    <3>2. /\ UP!Listening(at + 1)' /\ rx'.shiftReg = rx.shiftReg
          /\ rx'.valReg <=> rx.valReg /\ ~UP!enq_fire(bundle)
      BY <1>0, <1>5, <1>7, <2>7, <3>1, SameAssumptions, UP!ListensOn
    <3> QED
      BY <2>3, <2>4, <2>7, <3>2 DEF Receiving, UP!NoneReceived
  <2> QED
    BY <2>5, <2>6, <2>7
<1>9. ASSUME NEW n, NEW m, serializer' = Serializer("IDLE", n, m, d),
             k = UP!start(DATA_BITS + 3) - 1, rx_line_value' = 1
      PROVE  Receiving(rest)' /\ UP!NoneReceived(bundle)
  <2>1. UP!RateFits
    BY SameConstants DEF RateFits, UP!RateFits
  <2>2. /\ ~UP!Waiting(at) /\ ~UP!Sampling(d, at)
        /\ UP!Listening(at) => rx.bitsReg = 0 /\ rx.cntReg = 0
    BY <1>0, <1>6, <1>9, <2>1, SameAssumptions, UP!ReceivedInTime
  <2>3. rest = << >> /\ rx.bitsReg = 0 /\ rx.cntReg = 0
    BY <1>5, <2>2
  <2>4. rx_line_value = 1 /\ rx.sync = 1 /\ rx.rxReg = 1
    <3>1. /\ UP!start(DATA_BITS + 1) \in Int /\ CYCLES_PER_BIT \in Nat /\ CYCLES_PER_BIT >= 2
          /\ UP!start(DATA_BITS + 3) = UP!start(DATA_BITS + 1) + 2 * CYCLES_PER_BIT
      <4>1. /\ DATA_BITS + 1 \in Int /\ DATA_BITS + 2 \in Int
            /\ DATA_BITS + 1 + 1 = DATA_BITS + 2 /\ DATA_BITS + 2 + 1 = DATA_BITS + 3
            /\ CYCLES_PER_BIT \in Nat /\ CYCLES_PER_BIT = BIT_CNT + 1 /\ BIT_CNT \in Nat
        BY TerminalConstants
      <4>2. /\ UP!start(DATA_BITS + 1) \in Int
            /\ UP!start(DATA_BITS + 2) = UP!start(DATA_BITS + 1) + CYCLES_PER_BIT
            /\ UP!start(DATA_BITS + 3) = UP!start(DATA_BITS + 2) + CYCLES_PER_BIT
        BY <4>1, Moments
      <4> QED
        BY <4>1, <4>2 DEF RateFits
    <3>2. /\ at - 1 >= UP!start(DATA_BITS + 1) /\ at - 1 - 1 >= UP!start(DATA_BITS + 1)
          /\ at - 2 - 1 >= UP!start(DATA_BITS + 1)
      <4> DEFINE stop == UP!start(DATA_BITS + 1)
                 two == CYCLES_PER_BIT + CYCLES_PER_BIT
      <4>1. stop \in Int /\ two \in Nat /\ two >= 4 /\ at \in Nat
        BY <3>1
      <4>2. at = stop + two - 1
        BY <1>6, <1>9, <3>1
      <4> HIDE DEF stop, two
      <4>3. at - 1 >= stop /\ at - 1 - 1 >= stop /\ at - 2 - 1 >= stop
        BY <4>1, <4>2
      <4> QED
        BY <4>3 DEF stop
    <3> QED
      BY <1>5, <3>2 DEF Serializing, Drove
  <2>5. /\ rx'.bitsReg = 0 /\ rx'.cntReg = 0 /\ rx'.shiftReg = rx.shiftReg
        /\ rx'.valReg <=> rx.valReg /\ ~UP!enq_fire(bundle)
    BY <1>0, <2>3, <2>4, SameAssumptions, UP!RxFields
  <2>6. AtRest'
    BY <1>6, <1>9, <2>4, <2>5 DEF AtRest, Serializer
  <2> QED
    BY <2>3, <2>5, <2>6 DEF Receiving, UP!NoneReceived
<1> QED
  BY <1>4, <1>8, <1>9

\* A sequence and what follows it.
LEMMA FirstAndRest ==
  ASSUME NEW S, NEW s \in Seq(S), s # << >>
  PROVE  /\ s = <<Head(s)>> \o Tail(s) /\ Head(s) \in S
         /\ <<Head(s)>> \in Seq(S) /\ Tail(s) \in Seq(S)
<1>1. Len(s) \in Nat \ {0} /\ Tail(s) \in Seq(S) /\ Head(s) \in S /\ Head(s) = s[1]
  BY EmptySeq, HeadTailProperties
<1>2. PICK n \in Nat : n = Len(s) /\ n >= 1
  BY <1>1
<1>3. PICK m \in 1 .. Len(s) : m = 1
  BY <1>2
<1>4. n \in m .. Len(s)
  BY <1>2, <1>3
<1>5. SubSeq(s, m, n) = <<s[m]>> \o SubSeq(s, m + 1, n)
  BY <1>4, SubSeqRecursiveFirst
<1>6. SubSeq(s, 1, n) = s /\ Tail(s) = SubSeq(s, 2, n) /\ m + 1 = 2
  BY <1>2, <1>3, SubSeqFull, TailIsSubSeq
<1>7. s = <<s[1]>> \o Tail(s)
  BY <1>3, <1>5, <1>6
<1>8. <<Head(s)>> \in Seq(S)
  BY <1>1
<1> QED
  BY <1>1, <1>7, <1>8

LEMMA PrefixOfConcat ==
  ASSUME NEW S, NEW s \in Seq(S), NEW t \in Seq(S)
  PROVE  IsPrefix(s, s \o t)
<1> DEFINE all == s \o t
<1>1. /\ Len(s) \in Nat /\ Len(t) \in Nat /\ all \in Seq(S) /\ Len(all) = Len(s) + Len(t)
      /\ \A i \in 1 .. Len(s) + Len(t) : all[i] = IF i <= Len(s) THEN s[i] ELSE t[i - Len(s)]
  BY ConcatProperties, LenProperties
<1> HIDE DEF all
<1>2. /\ \A i \in 1 .. Len(s) : all[i] = s[i] /\ s[i] \in S
      /\ Len(s) <= Len(all)
  <2>1. \A i \in 1 .. Len(s) : s[i] \in S
    BY ElementOfSeq
  <2> QED
    BY <1>1, <2>1
<1>3. PICK n \in Nat : n = Len(s)
  BY <1>1
<1> DEFINE a == SubSeq(s, 1, n)
           b == SubSeq(all, 1, n)
<1>4. 1 \in Int /\ n \in Int /\ (\A i \in 1 .. n : s[i] \in S) /\ (\A i \in 1 .. n : all[i] \in S)
  BY <1>2, <1>3
<1>5. /\ a \in Seq(S) /\ Len(a) = IF 1 <= n THEN n - 1 + 1 ELSE 0
      /\ \A i \in 1 .. n - 1 + 1 : a[i] = s[1 + i - 1]
  BY <1>4, SubSeqProperties
<1>6. /\ b \in Seq(S) /\ Len(b) = IF 1 <= n THEN n - 1 + 1 ELSE 0
      /\ \A i \in 1 .. n - 1 + 1 : b[i] = all[1 + i - 1]
  BY <1>4, SubSeqProperties
<1> HIDE DEF a, b
<1>7. Len(a) = n /\ Len(b) = n /\ \A i \in 1 .. n : a[i] = b[i]
  <2>1. \A i \in 1 .. n : i \in 1 .. n - 1 + 1 /\ 1 + i - 1 = i
    OBVIOUS
  <2> QED
    BY <1>2, <1>3, <1>5, <1>6, <2>1
<1>8. a = b
  BY <1>5, <1>6, <1>7, SeqEqual
<1> QED
  BY <1>2, <1>3, <1>8 DEF IsPrefix, all, a, b

\* What the program has got: the bytes it has answered, and the one it will answer.
got == taken \o program.held

\* What it reads leaves the FIFO and comes to it.
LEMMA GetcTakesFirst ==
  ASSUME TerminalTypes, TerminalTypes', NEW bundle, Answering(bundle)
  PROVE  /\ got \in Seq(Byte) /\ got' \in Seq(Byte)
         /\ UP!held \in Seq(Byte) /\ UP!held' \in Seq(Byte) /\ UP!remaining(bundle) \in Seq(Byte)
         /\ got \o UP!held = got' \o UP!remaining(bundle)
<1>1. /\ taken \in Seq(Byte) /\ program.held \in Seq(Byte) /\ taken' \in Seq(Byte)
      /\ program'.held \in Seq(Byte) /\ rxFifo \in Seq(Byte)
      /\ UP!UartTypeOK /\ UP!UartTypeOK' /\ UP!Byte = Byte
  BY SameRegisters, SameConstants DEF TerminalTypes, UartTypeOK
<1>2. /\ UP!held \in Seq(Byte) /\ UP!remaining(bundle) \in Seq(Byte)
      /\ UP!deq_fire(bundle) => UP!held # << >>
  BY <1>1, SameAssumptions, UP!HeldType
<1>3. UP!held' \in Seq(Byte)
  <2> DEFINE last == IF rx'.valReg THEN <<rx'.shiftReg>> ELSE << >>
  <2>1. rxFifo' \in Seq(Byte) /\ last \in Seq(Byte)
    BY DEF TerminalTypes, UartTypeOK
  <2> HIDE DEF last
  <2>2. rxFifo' \o last \in Seq(Byte)
    BY <2>1, ConcatProperties
  <2> QED
    BY <2>2 DEF UP!held, last
<1>4. got \in Seq(Byte) /\ got' \in Seq(Byte)
  BY <1>1, ConcatProperties DEF got
<1> DEFINE h == UP!held
<1>5. CASE CanRead /\ deq_fire(bundle) /\ program'.held = <<Head(rxFifo)>> /\ taken' = taken
  <2>1. /\ UP!remaining(bundle) = Tail(h) /\ h # << >> /\ rxFifo # << >>
        /\ program.held = << >>
    BY <1>2, <1>5, SameAccesses DEF UP!remaining, CanRead, rx_valid
  <2>2. Head(h) = Head(rxFifo)
    <3> DEFINE last == IF rx.valReg THEN <<rx.shiftReg>> ELSE << >>
    <3>1. last \in Seq(Byte)
      BY DEF TerminalTypes, UartTypeOK
    <3>2. h = rxFifo \o last
      BY DEF UP!held
    <3> HIDE DEF last, h
    <3>3. Len(rxFifo) \in Nat /\ Len(rxFifo) # 0 /\ Len(last) \in Nat
      BY <1>1, <2>1, <3>1, EmptySeq, LenProperties
    <3>4. 1 \in 1 .. Len(rxFifo) + Len(last) /\ 1 <= Len(rxFifo)
      BY <3>3
    <3>5. h[1] = rxFifo[1]
      BY <1>1, <3>1, <3>2, <3>4, ConcatProperties
    <3> QED
      BY <3>5
  <2> HIDE DEF h
  <2>3. h = <<Head(h)>> \o Tail(h) /\ <<Head(h)>> \in Seq(Byte) /\ Tail(h) \in Seq(Byte)
    BY <1>2, <2>1, FirstAndRest DEF h
  <2>4. got = taken
    BY <1>1, <2>1, ConcatEmptySeq DEF got
  <2>5. got' = taken \o <<Head(h)>>
    BY <1>5, <2>2 DEF got
  <2>6. taken \o h = taken \o (<<Head(h)>> \o Tail(h))
    BY <2>3
  <2> DEFINE one == <<Head(h)>>
             others == Tail(h)
  <2>a. one \in Seq(Byte) /\ others \in Seq(Byte) /\ taken \in Seq(Byte)
    BY <1>1, <2>3
  <2>7. (taken \o one) \o others = taken \o (one \o others)
    <3> HIDE DEF one, others
    <3> QED
      BY <2>a, BytesRegroup, ZenonT(90)
  <2>8. got \o h = got' \o Tail(h)
    BY <2>4, <2>5, <2>6, <2>7
  <2> QED
    BY <1>2, <1>3, <1>4, <2>1, <2>8 DEF h
<1>6. CASE ~deq_fire(bundle) /\ program'.held = << >> /\ taken' = taken \o program.held
  <2>1. UP!remaining(bundle) = h
    BY <1>6, SameAccesses DEF UP!remaining
  <2>2. got' = got
    BY <1>4, <1>6, ConcatEmptySeq DEF got
  <2> QED
    BY <1>2, <1>3, <1>4, <2>1, <2>2
<1>7. CASE ~deq_fire(bundle) /\ program'.held = program.held /\ taken' = taken
  <2>1. UP!remaining(bundle) = h
    BY <1>7, SameAccesses DEF UP!remaining
  <2>2. got' = got
    BY <1>7 DEF got
  <2> QED
    BY <1>2, <1>3, <1>4, <2>1, <2>2
<1> QED
  BY <1>5, <1>6, <1>7 DEF Answering

\* The invariant of the way in: the keys that the program has not got stand in the FIFO, in
\* the receiver, on the line and in the queue of the terminal.
KeysInv == \E rest \in Seq(Byte) : Receiving(rest) /\ typed = ((got \o UP!held) \o rest) \o rx_fifo

\* Of the keys that have left the terminal, the program has not got as many as find room in
\* the FIFO, and one more in the receiver.
KeysFit == Len(typed) <= Len(rx_fifo) + Len(got) + FifoEntries + 1

\* A byte that is kept in the receiver then finds room once another is on the line.
LEMMA RoomForKey ==
  ASSUME TerminalTypes, KeysFit, NEW rest \in Seq(Byte), rest # << >>, rx.valReg,
         typed = ((got \o UP!held) \o rest) \o rx_fifo, NEW bundle
  PROVE  UP!enq_fire(bundle)
<1> DEFINE last == <<rx.shiftReg>>
<1>1. /\ taken \in Seq(Byte) /\ program.held \in Seq(Byte) /\ rxFifo \in Seq(Byte)
      /\ last \in Seq(Byte) /\ Len(last) = 1 /\ rx_fifo \in Seq(Byte)
      /\ FifoEntries \in Nat
  BY TerminalConstants DEF TerminalTypes, UartTypeOK
<1>2. UP!held = rxFifo \o last
  BY DEF UP!held
<1> HIDE DEF last
<1>3. UP!held \in Seq(Byte) /\ Len(UP!held) = Len(rxFifo) + 1
  <2>a. rxFifo \in Seq(Byte) /\ last \in Seq(Byte)
    BY <1>1
  <2>1. rxFifo \o last \in Seq(Byte) /\ Len(rxFifo \o last) = Len(rxFifo) + Len(last)
    BY <2>a, ConcatProperties, SMTT(30)
  <2> QED
    BY <1>1, <1>2, <2>1
<1>4. got \in Seq(Byte)
  BY <1>1, ConcatProperties DEF got
<1> DEFINE x == got \o UP!held
           y == x \o rest
<1>5. x \in Seq(Byte) /\ Len(x) = Len(got) + Len(UP!held)
  BY <1>3, <1>4, ConcatProperties
<1>6. y \in Seq(Byte) /\ Len(y) = Len(x) + Len(rest)
  BY <1>5, ConcatProperties
<1>7. Len(y \o rx_fifo) = Len(y) + Len(rx_fifo)
  BY <1>1, <1>6, ConcatProperties
<1>8. typed = y \o rx_fifo
  OBVIOUS
<1>9. /\ Len(rest) >= 1 /\ Len(rest) \in Nat /\ Len(rx_fifo) \in Nat /\ Len(rxFifo) \in Nat
      /\ Len(got) \in Nat
  BY <1>1, <1>4, EmptySeq, LenProperties
<1> HIDE DEF x, y
<1>10. Len(typed) = Len(got) + Len(rxFifo) + 1 + Len(rest) + Len(rx_fifo)
  BY <1>3, <1>5, <1>6, <1>7, <1>8, <1>9
<1>11. Len(rxFifo) < FifoEntries
  BY <1>1, <1>9, <1>10 DEF KeysFit
<1> QED
  BY <1>11 DEF UP!enq_fire, UP!enq_ready

LEMMA KeysArrive ==
  ASSUME RateFits, TerminalTypes, TerminalTypes', KeysInv, KeysFit,
         NEW bundle, Answering(bundle), NEW keys \in Seq(Byte), typed' = typed \o keys,
         UP!RxStep(bundle, rx_line_value), UP!FifoStep(bundle), get_rx_line(rx_fifo \o keys)
  PROVE  KeysInv' /\ Len(got \o UP!held) <= Len(got' \o UP!held')
<1>1. PICK rest \in Seq(Byte) : Receiving(rest) /\ typed = ((got \o UP!held) \o rest) \o rx_fifo
  BY DEF KeysInv
<1>2. /\ got \in Seq(Byte) /\ got' \in Seq(Byte)
      /\ UP!held \in Seq(Byte) /\ UP!held' \in Seq(Byte) /\ UP!remaining(bundle) \in Seq(Byte)
      /\ got \o UP!held = got' \o UP!remaining(bundle)
  BY GetcTakesFirst
<1>3. rx_fifo \in Seq(Byte) /\ rx_fifo' \in Seq(Byte) /\ UP!UartTypeOK
  BY SameRegisters DEF TerminalTypes
<1>4. rest # << >> /\ rx.valReg => UP!enq_fire(bundle)
  BY <1>1, RoomForKey
<1>5. PICK queue \in Seq(Byte) : queue = rx_fifo \o keys
  BY <1>3, ConcatProperties
<1> DEFINE x == got' \o UP!remaining(bundle)
           y == x \o rest
<1>6. x \in Seq(Byte)
  BY <1>2, ConcatProperties
<1>7. y \in Seq(Byte)
  BY <1>6, ConcatProperties
<1>8. typed' = y \o queue
  <2>1. typed = y \o rx_fifo
    BY <1>1, <1>2
  <2> HIDE DEF y
  <2>2. (y \o rx_fifo) \o keys = y \o (rx_fifo \o keys)
    BY <1>3, <1>7, BytesRegroup, ZenonT(90)
  <2> QED
    BY <1>5, <2>1, <2>2
<1>9. get_rx_line(queue)
  BY <1>5
<1> HIDE DEF x, y
<1> DEFINE goal == /\ \E left \in Seq(Byte) :
                        /\ Receiving(left)'
                        /\ typed' = ((got' \o UP!held') \o left) \o rx_fifo'
                   /\ got' \o UP!held' = x \/ got' \o UP!held' = y
<1> SUFFICES goal
  <2>1. Len(x) \in Nat /\ Len(rest) \in Nat /\ Len(x \o rest) = Len(x) + Len(rest)
    BY <1>6, ConcatProperties, LenProperties
  <2>2. Len(x) <= Len(x) /\ Len(x) <= Len(y)
    BY <2>1 DEF y
  <2>3. got \o UP!held = x
    BY <1>2 DEF x
  <2> QED
    BY <2>2, <2>3 DEF KeysInv
<1>10. UP!NoneReceived(bundle) => UP!held' = UP!remaining(bundle)
  BY <1>3, SameAssumptions, UP!HeldStays DEF UP!NoneReceived
<1>11. CASE rest = << >> /\ AtRest
  <2>1. /\ UP!NoneReceived(bundle)
        /\ queue = << >> => AtRest' /\ rx_fifo' = queue
        /\ queue # << >> => /\ rx_fifo' = Tail(queue) /\ Head(queue) \in Byte
                            /\ Serializing(Head(queue))' /\ UP!Waiting(position)'
    BY <1>9, <1>11, RestMoves
  <2>2. got' \o UP!held' = x
    BY <1>10, <2>1 DEF x
  <2>3. CASE queue = << >>
    <3>1. Receiving(rest)' /\ rx_fifo' = queue
      BY <1>11, <2>1, <2>3 DEF Receiving
    <3>2. typed' = ((got' \o UP!held') \o rest) \o rx_fifo'
      BY <1>8, <2>2, <3>1 DEF y
    <3> QED
      BY <2>2, <3>1, <3>2
  <2>4. CASE queue # << >>
    <3>1. PICK d \in Byte : d = Head(queue)
      BY <2>1, <2>4
    <3> DEFINE one == <<d>>
               others == Tail(queue)
    <3>2. Receiving(one)' /\ rx_fifo' = others
      BY <2>1, <2>4, <3>1 DEF Receiving
    <3>3. queue = one \o others /\ one \in Seq(Byte) /\ others \in Seq(Byte)
      BY <2>4, <3>1, FirstAndRest
    <3>4. y = x
      BY <1>6, <1>11, ConcatEmptySeq DEF y
    <3> HIDE DEF one, others
    <3>5. (x \o one) \o others = x \o (one \o others)
      BY <1>6, <3>3, BytesRegroup, ZenonT(90)
    <3>6. typed' = (x \o one) \o others
      BY <1>8, <3>3, <3>4, <3>5
    <3>7. typed' = ((got' \o UP!held') \o one) \o rx_fifo'
      BY <2>2, <3>2, <3>6
    <3> QED
      BY <2>2, <3>2, <3>3, <3>7
  <2> QED
    BY <2>3, <2>4
<1>12. ASSUME NEW d \in Byte, Serializing(d),
              \/ rest = <<d>> /\ (UP!Waiting(position) \/ UP!Sampling(d, position))
              \/ rest = << >> /\ UP!Listening(position)
       PROVE  goal
  <2>1. /\ rx_fifo' = queue
        /\ \/ Receiving(rest)' /\ UP!NoneReceived(bundle)
           \/ /\ Receiving(<< >>)' /\ ~rx.valReg /\ rx'.valReg
              /\ rest = <<d>> /\ rx'.shiftReg = d
    BY <1>4, <1>9, <1>12, SerialMoves
  <2>2. CASE Receiving(rest)' /\ UP!NoneReceived(bundle)
    <3>1. got' \o UP!held' = x
      BY <1>10, <2>2 DEF x
    <3>2. typed' = ((got' \o UP!held') \o rest) \o rx_fifo'
      BY <1>8, <2>1, <3>1 DEF y
    <3> QED
      BY <2>2, <3>1, <3>2
  <2>3. CASE /\ Receiving(<< >>)' /\ ~rx.valReg /\ rx'.valReg
             /\ rest = <<d>> /\ rx'.shiftReg = d
    <3> DEFINE r == UP!remaining(bundle)
               g == got'
    <3>1. UP!held' = r \o rest
      BY <1>3, <2>3, SameAssumptions, UP!HeldGrows
    <3>a. g \in Seq(Byte) /\ r \in Seq(Byte)
      BY <1>2
    <3> HIDE DEF r, g
    <3>2. g \o (r \o rest) = (g \o r) \o rest
      BY <3>a, BytesRegroup, ZenonT(90)
    <3>3. got' \o UP!held' = y
      BY <3>1, <3>2 DEF x, y, g, r
    <3>4. (got' \o UP!held') \o << >> = y /\ << >> \in Seq(Byte)
      BY <1>7, <3>3, ConcatEmptySeq
    <3>5. typed' = ((got' \o UP!held') \o << >>) \o rx_fifo'
      BY <1>8, <2>1, <3>4
    <3> QED
      BY <2>3, <3>3, <3>4, <3>5
  <2> QED
    BY <2>1, <2>2, <2>3
<1> QED
  BY <1>1, <1>11, <1>12 DEF Receiving

-----------------------------------------------------------------------------
(***************************************************************************)
(* Both ways together.                                                     *)
(***************************************************************************)
LEMMA UartTypesBegin == ASSUME UartInit PROVE UartTypeOK
<1>1. /\ TX_IDLE \in [1 .. TX_FRAME_BITS -> Bit] /\ Zero \in Byte /\ 0 \in Bit /\ 1 \in Bit
      /\ 0 \in 0 .. MaxCount /\ 0 \in 0 .. TX_FRAME_BITS /\ 0 \in 0 .. DATA_BITS
      /\ << >> \in Seq(Byte) /\ Len(<< >>) = 0 /\ 0 <= FifoEntries
  BY UartAssumption DEF TX_IDLE, TX_FRAME_BITS, STOP_BITS, Zero, Byte, Bit
<1> QED
  BY <1>1 DEF UartInit, UartTypeOK

LEMMA TypesBegin == ASSUME Init PROVE TerminalTypes
<1>1. UartTypeOK
  BY UartTypesBegin DEF Init
<1>2. /\ Zero \in Byte /\ 1 \in Bit /\ DATA_BITS \in Nat \ {0} /\ Slack \in Nat /\ MaxKeys \in Nat
  BY TerminalConstants
<1>3. /\ << >> \in Seq(Byte) /\ << >> \in Seq(Bit) /\ << >> \in Seq(Keys) /\ Len(<< >>) = 0
      /\ 0 \in 0 .. Slack /\ 0 \in 0 .. DATA_BITS /\ 0 <= DATA_BITS /\ 0 <= MaxKeys /\ 0 <= 1
      /\ 0 \in Nat /\ "IDLE" \in Phases
  BY <1>2 DEF Phases
<1>4. /\ decoder \in [state : Phases, counter : Nat, data : Seq(Bit), prev : Bit]
      /\ decoder.state = "IDLE" /\ decoder.data = << >>
  BY <1>2, <1>3 DEF Init
<1>5. /\ serializer \in [state : Phases, counter : Nat, bit_idx : 0 .. DATA_BITS, shift : Byte]
      /\ serializer.state = "IDLE"
  BY <1>2, <1>3 DEF Init
<1>6. /\ program \in [held : Seq(Byte), delay : 0 .. Slack] /\ Len(program.held) <= 1
  BY <1>2, <1>3 DEF Init
<1> QED
  BY <1>1, <1>2, <1>3, <1>4, <1>5, <1>6 DEF Init, TerminalTypes

\* Histories that are empty.
LEMMA NothingUnderWay ==
  ASSUME Init
  PROVE  AnswersInv /\ KeysInv
<1>1. /\ TX_IDLE[1] = 1 /\ 0 <= BIT_CNT /\ << >> \in Seq(Byte)
  BY TerminalConstants DEF TX_IDLE, TX_FRAME_BITS, STOP_BITS
<1>2. /\ tx.bitsReg = 0 /\ tx.shiftReg = TX_IDLE /\ tx.cntReg = 0 /\ ~buf.full
      /\ rxFifo = << >> /\ ~rx.valReg /\ rx.sync = 1 /\ rx.rxReg = 1
      /\ rx.bitsReg = 0 /\ rx.cntReg = 0
      /\ decoder.state = "IDLE" /\ decoder.prev = 1 /\ serializer.state = "IDLE"
      /\ rx_fifo = << >> /\ rx_line_value = 1 /\ program.held = << >>
      /\ typed = << >> /\ taken = << >> /\ printed = << >>
  BY DEF Init, UartInit
<1>3. << >> \o << >> = << >>
  BY <1>1, ConcatEmptySeq
<1>4. UP!buffered = << >> /\ UP!held = << >> /\ got = << >>
  BY <1>2, <1>3 DEF UP!buffered, UP!held, got
<1>5. Transmitting(<< >>) /\ Receiving(<< >>)
  BY <1>1, <1>2 DEF Transmitting, Quiet, Receiving, AtRest
<1>6. decoder.prev = txd
  BY <1>1, <1>2 DEF txd
<1>7. taken = printed \o (<< >> \o UP!buffered)
  BY <1>2, <1>3, <1>4
<1>8. typed = ((got \o UP!held) \o << >>) \o rx_fifo
  BY <1>2, <1>3, <1>4
<1> QED
  BY <1>1, <1>5, <1>6, <1>7, <1>8 DEF AnswersInv, KeysInv

\* What stands on the way stands behind what has arrived.
LEMMA ArrivedInOrder ==
  ASSUME TerminalTypes, AnswersInv, KeysInv
  PROVE  TerminalIsFaithful
<1>1. PICK rest \in Seq(Byte) : taken = printed \o (rest \o UP!buffered)
  BY DEF AnswersInv
<1>2. PICK left \in Seq(Byte) : typed = ((got \o UP!held) \o left) \o rx_fifo
  BY DEF KeysInv
<1>3. /\ UP!buffered \in Seq(Byte) /\ UP!held \in Seq(Byte) /\ got \in Seq(Byte)
      /\ printed \in Seq(Byte) /\ rx_fifo \in Seq(Byte)
  <2>1. /\ UP!UartTypeOK /\ UP!Byte = Byte /\ buf.data \in Byte
        /\ taken \in Seq(Byte) /\ program.held \in Seq(Byte)
        /\ printed \in Seq(Byte) /\ rx_fifo \in Seq(Byte)
    BY SameRegisters, SameConstants DEF TerminalTypes, UartTypeOK
  <2>2. UP!buffered \in Seq(Byte)
    BY <2>1 DEF UP!buffered
  <2>3. UP!held \in Seq(Byte)
    <3> DEFINE last == IF rx.valReg THEN <<rx.shiftReg>> ELSE << >>
    <3>1. rxFifo \in Seq(Byte) /\ last \in Seq(Byte)
      BY DEF TerminalTypes, UartTypeOK
    <3> HIDE DEF last
    <3>2. rxFifo \o last \in Seq(Byte)
      BY <3>1, ConcatProperties
    <3> QED
      BY <3>2 DEF UP!held, last
  <2>4. got \in Seq(Byte)
    BY <2>1, ConcatProperties DEF got
  <2> QED
    BY <2>1, <2>2, <2>3, <2>4
<1> DEFINE b == UP!buffered
           h == UP!held
<1>4. IsPrefix(printed, taken)
  <2>1. rest \o b \in Seq(Byte)
    BY <1>3, ConcatProperties
  <2> QED
    BY <1>1, <1>3, <2>1, PrefixOfConcat
<1>5. IsPrefix(got, typed)
  <2>a. h \in Seq(Byte) /\ b \in Seq(Byte)
    BY <1>3
  <2> HIDE DEF h
  <2>1. h \o left \in Seq(Byte)
    BY <2>a, ConcatProperties
  <2>4. (got \o h) \o left = got \o (h \o left)
    <3>1. got \in Seq(Byte) /\ h \in Seq(Byte) /\ left \in Seq(Byte)
      BY <1>3, <2>a
    <3> QED
      BY <3>1, BytesRegroup, ZenonT(90)
  <2> DEFINE hl == h \o left
  <2>2. hl \in Seq(Byte) /\ (got \o h) \o left = got \o hl
    BY <2>1, <2>4
  <2> HIDE DEF hl
  <2>3. hl \o rx_fifo \in Seq(Byte)
    BY <1>3, <2>2, ConcatProperties
  <2>5. (got \o hl) \o rx_fifo = got \o (hl \o rx_fifo)
    <3>1. got \in Seq(Byte) /\ hl \in Seq(Byte) /\ rx_fifo \in Seq(Byte)
      BY <1>3, <2>2
    <3> QED
      BY <3>1, BytesRegroup, ZenonT(90)
  <2>6. typed = got \o (hl \o rx_fifo)
    BY <1>2, <2>2, <2>5 DEF h
  <2> QED
    BY <1>3, <2>3, <2>6, PrefixOfConcat
<1> QED
  BY <1>4, <1>5 DEF TerminalIsFaithful, got

\* Each step keeps both, if the keys fit.
TerminalInv == TerminalTypes /\ AnswersInv /\ KeysInv

\* A step is an edge at which all of this happens.
LEMMA EdgeTaken ==
  ASSUME TerminalTypes, Next
  PROVE  \E bundle : \E keys \in Polled :
           /\ bundle.data \in Byte /\ Tick(bundle, keys) /\ Answering(bundle)
           /\ TerminalTypes'
           /\ UP!TxStep /\ UP!BufferStep(bundle) /\ UP!RxStep(bundle, rx_line_value)
           /\ UP!FifoStep(bundle) /\ process_tx(txd') /\ get_rx_line(rx_fifo \o keys)
           /\ typed' = typed \o keys /\ keys \in Seq(Byte)
<1>1. PICK bundle : \E keys \in Polled :
           /\ bundle.data \in Byte /\ Tick(bundle, keys) /\ Answering(bundle)
           /\ program' \in [held : Seq(Byte), delay : 0 .. Slack] /\ Len(program'.held) <= 1
  BY StepIsEdge
<1>2. PICK keys \in Polled :
           /\ bundle.data \in Byte /\ Tick(bundle, keys) /\ Answering(bundle)
           /\ program' \in [held : Seq(Byte), delay : 0 .. Slack] /\ Len(program'.held) <= 1
  BY <1>1
<1>3. TerminalTypes'
  BY <1>2, TypesMove
<1>4. /\ UartStep(bundle, rx_line_value) /\ process_tx(txd')
      /\ get_rx_line(rx_fifo \o keys) /\ typed' = typed \o keys
  BY <1>2 DEF Tick, poll_input
<1>5. /\ UP!TxStep /\ UP!BufferStep(bundle) /\ UP!RxStep(bundle, rx_line_value)
      /\ UP!FifoStep(bundle)
  BY <1>4, SameEdges
<1>6. keys \in Seq(Byte)
  BY PolledType
<1> QED
  BY <1>2, <1>3, <1>4, <1>5, <1>6

LEMMA BothMove ==
  ASSUME RateFits, TerminalInv, KeysFit, Next
  PROVE  TerminalInv'
<1>1. TerminalTypes /\ AnswersInv /\ KeysInv
  BY DEF TerminalInv
<1>2. PICK bundle : \E keys \in Polled :
           /\ bundle.data \in Byte /\ Tick(bundle, keys) /\ Answering(bundle)
           /\ TerminalTypes'
           /\ UP!TxStep /\ UP!BufferStep(bundle) /\ UP!RxStep(bundle, rx_line_value)
           /\ UP!FifoStep(bundle) /\ process_tx(txd') /\ get_rx_line(rx_fifo \o keys)
           /\ typed' = typed \o keys /\ keys \in Seq(Byte)
  BY <1>1, EdgeTaken
<1>3. PICK keys \in Polled :
           /\ bundle.data \in Byte /\ Tick(bundle, keys) /\ Answering(bundle)
           /\ TerminalTypes'
           /\ UP!TxStep /\ UP!BufferStep(bundle) /\ UP!RxStep(bundle, rx_line_value)
           /\ UP!FifoStep(bundle) /\ process_tx(txd') /\ get_rx_line(rx_fifo \o keys)
           /\ typed' = typed \o keys /\ keys \in Seq(Byte)
  BY <1>2
<1>4. AnswersInv'
  BY <1>1, <1>3, AnswersArrive
<1>5. KeysInv'
  BY <1>1, <1>3, KeysArrive
<1> QED
  BY <1>3, <1>4, <1>5 DEF TerminalInv

\* A step of nothing keeps all that is said of the terminal.
LEMMA BothStay ==
  ASSUME TerminalInv, UNCHANGED vars
  PROVE  TerminalInv'
<1>1. TerminalTypes /\ AnswersInv /\ KeysInv
  BY DEF TerminalInv
<1>2. /\ tx' = tx /\ rx' = rx /\ buf' = buf /\ rxFifo' = rxFifo /\ interrupt' = interrupt
      /\ decoder' = decoder /\ serializer' = serializer /\ rx_fifo' = rx_fifo
      /\ rx_line_value' = rx_line_value /\ ctrl_c' = ctrl_c /\ tx_idle_cycles' = tx_idle_cycles
      /\ running' = running /\ program' = program /\ typed' = typed /\ taken' = taken
      /\ printed' = printed
  BY DEF vars, uart_vars, terminal_vars
<1>3. TerminalTypes'
  BY <1>1, <1>2 DEF TerminalTypes, UartTypeOK
<1>4. UP!buffered' = UP!buffered /\ UP!held' = UP!held /\ got' = got /\ txd' = txd
  BY <1>2 DEF UP!buffered, UP!held, got, txd
<1>5. ASSUME NEW rest, Transmitting(rest)
      PROVE  Transmitting(rest)'
  BY <1>2, <1>5, SMTT(60)
     DEF Transmitting, Quiet, UP!Framing, Decoding, Follows, through, UP!cycle, UP!bit,
         UP!start, UP!wire
<1>6. ASSUME NEW rest, Receiving(rest)
      PROVE  Receiving(rest)'
  BY <1>2, <1>6 DEF Receiving, AtRest, Serializing, Drove, UP!Waiting, UP!Sampling, UP!Listening,
                    position, Position, UP!due, UP!start, UP!wire
<1>7. AnswersInv'
  BY <1>1, <1>2, <1>4, <1>5 DEF AnswersInv
<1>8. KeysInv'
  BY <1>1, <1>2, <1>4, <1>6 DEF KeysInv
<1> QED
  BY <1>3, <1>7, <1>8 DEF TerminalInv

-----------------------------------------------------------------------------
(***************************************************************************)
(* The end of the session.                                                 *)
(***************************************************************************)
\* How long it takes until the transmitter can take a byte, while nothing but the last
\* stop bit is sent.
wait == IF tx.bitsReg = 0 THEN tx.cntReg ELSE tx.cntReg + CYCLES_PER_BIT

\* An answer comes before the idle time is over: it is in the buffer, or the program has
\* time enough for each access that it takes.
Deadline ==
  /\ tx_idle_cycles + wait <= TX_IDLE_EXIT_THRESHOLD
  /\ \/ buf.full
     \/ /\ program.held # << >>
        /\ tx_idle_cycles + (Slack - program.delay) + 1 + BIT_CNT <= TX_IDLE_EXIT_THRESHOLD
     \/ /\ program.held = << >> /\ rxFifo # << >>
        /\ tx_idle_cycles + (Slack - program.delay) + Slack + 2 + BIT_CNT <= TX_IDLE_EXIT_THRESHOLD
     \/ /\ program.held = << >> /\ rxFifo = << >> /\ rx.valReg
        /\ tx_idle_cycles + 2 * Slack + 3 + BIT_CNT <= TX_IDLE_EXIT_THRESHOLD

LEMMA Threshold ==
  /\ TX_IDLE_EXIT_THRESHOLD \in Int /\ CYCLES_PER_BIT = BIT_CNT + 1 /\ BIT_CNT \in Nat /\ Slack \in Nat
  /\ TX_IDLE_EXIT_THRESHOLD > 2 * CYCLES_PER_BIT + 2 * Slack
BY TerminalAssumption, TerminalConstants

\* While the decoder rests, no more than the last stop bit is sent.
LEMMA LastBit ==
  ASSUME RateFits, TerminalTypes, AnswersInv, decoder.state = "IDLE"
  PROVE  /\ tx.bitsReg \in {0, 1} /\ tx.cntReg \in 0 .. BIT_CNT
         /\ \A rest : Transmitting(rest) => rest = << >>
<1>0. /\ DATA_BITS \in Nat \ {0} /\ CYCLES_PER_BIT = BIT_CNT + 1 /\ BIT_CNT \in Nat
      /\ HALF_BIT \in 1 .. BIT_CNT /\ tx.cntReg \in Nat
      /\ tx.bitsReg \in 0 .. DATA_BITS + 3
  <2>1. tx.cntReg \in Nat /\ TX_FRAME_BITS = DATA_BITS + 3 /\ tx.bitsReg \in 0 .. TX_FRAME_BITS
    BY TerminalConstants, UartAssumption
       DEF TerminalTypes, UartTypeOK, TX_FRAME_BITS, STOP_BITS
  <2> QED
    BY <2>1, TerminalConstants, HalfBit
<1>1. UP!BIT_CNT = BIT_CNT
  BY SameConstants
<1>2. ASSUME NEW d, UP!Framing(d), UP!cycle >= through(DATA_BITS + 3)
      PROVE  tx.bitsReg = 1 /\ tx.cntReg <= BIT_CNT
  <2>1. tx.bitsReg > 0 /\ tx.cntReg <= BIT_CNT
    BY <1>1, <1>2 DEF UP!Framing
  <2>2. PICK i \in Int : i = DATA_BITS + 3 - tx.bitsReg
    BY <1>0
  <2>3. UP!start(i) \in Int /\ UP!cycle = UP!start(i) + BIT_CNT - tx.cntReg
    BY <1>1, <2>2, Moments DEF UP!cycle, UP!bit
  <2>4. /\ through(DATA_BITS + 3) = UP!start(DATA_BITS + 3) - HALF_BIT
        /\ DATA_BITS + 2 \in Int /\ DATA_BITS + 2 + 1 = DATA_BITS + 3
    BY <1>0, FrameIsLonger
  <2>5. /\ UP!start(DATA_BITS + 2) \in Int
        /\ UP!start(DATA_BITS + 3) = UP!start(DATA_BITS + 2) + CYCLES_PER_BIT
    BY <2>4, Moments
  <2>6. i < DATA_BITS + 2 => UP!start(i) + BIT_CNT + 1 <= UP!start(DATA_BITS + 2)
    BY <1>1, <2>4, SameAssumptions, UP!Starts
  <2>7. ~(i < DATA_BITS + 2)
    BY <1>0, <1>2, <2>1, <2>3, <2>4, <2>5, <2>6
  <2> QED
    BY <1>0, <2>1, <2>2, <2>7
<1>3. PICK rest : Transmitting(rest)
  BY DEF AnswersInv
<1>4. tx.bitsReg \in {0, 1} /\ tx.cntReg <= BIT_CNT
  BY <1>2, <1>3 DEF Transmitting, Quiet, Decoding, Follows
<1>5. \A some : Transmitting(some) => some = << >>
  BY DEF Transmitting, Decoding, Follows
<1> QED
  BY <1>0, <1>4, <1>5

\* The transmitter comes closer to it in each edge, and starts over when it finds nothing.
LEMMA WaitGoesDown ==
  ASSUME TerminalTypes, tx.bitsReg \in {0, 1}, tx.cntReg \in 0 .. BIT_CNT, TxStep,
         ~(buf.full /\ channel_ready)
  PROVE  /\ wait \in Nat
         /\ wait # 0 => wait' = wait - 1
         /\ wait = 0 => ~buf.full /\ wait' = BIT_CNT
<1>0. BIT_CNT \in Nat /\ CYCLES_PER_BIT = BIT_CNT + 1
  BY TerminalConstants
<1>1. CASE tx.cntReg # 0
  <2>1. tx' = [tx EXCEPT !.cntReg = @ - 1]
    BY <1>1 DEF TxStep
  <2>2. tx'.cntReg = tx.cntReg - 1 /\ tx'.bitsReg = tx.bitsReg
    BY <2>1 DEF TerminalTypes, UartTypeOK
  <2> QED
    BY <1>0, <1>1, <2>2 DEF wait
<1>2. CASE tx.cntReg = 0 /\ tx.bitsReg = 1
  <2>1. tx'.cntReg = BIT_CNT /\ tx'.bitsReg = 0
    BY <1>2 DEF TxStep
  <2> QED
    BY <1>0, <1>2, <2>1 DEF wait
<1>3. CASE tx.cntReg = 0 /\ tx.bitsReg = 0
  <2>1. ~buf.full
    BY <1>3 DEF channel_ready
  <2>2. tx'.cntReg = BIT_CNT /\ tx'.bitsReg = 0
    BY <1>3, <2>1 DEF TxStep
  <2> QED
    BY <1>0, <1>3, <2>1, <2>2 DEF wait
<1> QED
  BY <1>1, <1>2, <1>3

\* What an edge does to the registers that the program looks at.
LEMMA RegistersMove ==
  ASSUME TerminalTypes, NEW bundle, Answering(bundle), ~UP!taken,
         UP!BufferStep(bundle), UP!RxStep(bundle, rx_line_value), UP!FifoStep(bundle)
  PROVE  /\ buf.full => buf'.full
         /\ accepted(bundle) => buf'.full
         /\ rxFifo # << >> /\ ~deq_fire(bundle) => rxFifo' # << >>
         /\ rxFifo = << >> /\ rx.valReg => rxFifo' # << >>
<1>1. UP!UartTypeOK /\ rxFifo \in Seq(Byte) /\ rx.shiftReg \in Byte /\ FifoEntries \in Nat \ {0}
  BY SameRegisters, UartAssumption DEF TerminalTypes, UartTypeOK
<1>2. /\ UP!taken => UP!buffered' = << >> /\ UP!buffered = <<buf.data>> /\ ~accepted(bundle)
      /\ ~UP!taken => \/ UP!buffered' = UP!buffered /\ ~accepted(bundle)
                      \/ /\ UP!buffered = << >> /\ accepted(bundle)
                         /\ UP!buffered' = <<bundle.data>>
  BY <1>1, SameAssumptions, SameAccesses, UP!BufferMoves
<1>3. (buf.full => buf'.full) /\ (accepted(bundle) => buf'.full)
  <2>1. /\ buf.full <=> UP!buffered # << >>
        /\ buf'.full <=> UP!buffered' # << >>
    BY DEF UP!buffered
  <2>2. <<bundle.data>> # << >>
    OBVIOUS
  <2> QED
    BY <1>2, <2>1, <2>2
<1>4. /\ rxFifo' = IF enq_fire(bundle)
                   THEN Append(IF deq_fire(bundle) THEN Tail(rxFifo) ELSE rxFifo, rx.shiftReg)
                   ELSE IF deq_fire(bundle) THEN Tail(rxFifo) ELSE rxFifo
  BY SameAccesses DEF UP!FifoStep
<1>5. Append(rxFifo, rx.shiftReg) # << >>
  BY <1>1, AppendProperties
<1>6. rxFifo = << >> => ~deq_fire(bundle)
  BY DEF deq_fire, rx_valid
<1>7. rxFifo = << >> /\ rx.valReg => enq_fire(bundle)
  <2>1. Len(<< >>) = 0
    OBVIOUS
  <2> QED
    BY <1>1, <2>1 DEF enq_fire, enq_ready
<1> QED
  BY <1>3, <1>4, <1>5, <1>6, <1>7

\* The deadline stays in reach.
LEMMA DeadlineKept ==
  ASSUME RateFits, TerminalTypes, TerminalTypes', AnswersInv, NEW bundle, Answering(bundle),
         UP!TxStep, UP!BufferStep(bundle), UP!RxStep(bundle, rx_line_value), UP!FifoStep(bundle),
         TxStep, ~UP!taken, decoder.state = "IDLE", Deadline,
         tx_idle_cycles' = tx_idle_cycles + 1
  PROVE  Deadline'
<1> DEFINE T == TX_IDLE_EXIT_THRESHOLD
           idle == tx_idle_cycles
           delay == program.delay
           later == program'.delay
<1>1. /\ T \in Int /\ BIT_CNT \in Nat /\ Slack \in Nat /\ idle \in Nat
      /\ delay \in 0 .. Slack /\ later \in 0 .. Slack
  BY Threshold DEF TerminalTypes
<1>2. /\ wait \in Nat
      /\ wait # 0 => wait' = wait - 1
      /\ wait = 0 => ~buf.full /\ wait' = BIT_CNT
  <2>1. tx.bitsReg \in {0, 1} /\ tx.cntReg \in 0 .. BIT_CNT
    BY LastBit
  <2>2. ~(buf.full /\ channel_ready)
    BY SameRegisters DEF UP!taken
  <2> QED
    BY <2>1, <2>2, WaitGoesDown
<1>3. /\ buf.full => buf'.full
      /\ accepted(bundle) => buf'.full
      /\ rxFifo # << >> /\ ~deq_fire(bundle) => rxFifo' # << >>
      /\ rxFifo = << >> /\ rx.valReg => rxFifo' # << >>
  BY RegistersMove
<1>4. idle + wait <= T
  BY DEF Deadline
<1>5. tx_idle_cycles' = idle + 1 /\ later = program'.delay
  OBVIOUS
<1>6. ASSUME idle + 1 + BIT_CNT <= T \/ buf.full
      PROVE  tx_idle_cycles' + wait' <= T
  <2> HIDE DEF idle, T
  <2> QED
    BY <1>1, <1>2, <1>4, <1>5, <1>6
<1> SUFFICES /\ idle + 1 + BIT_CNT <= T \/ buf.full
             /\ \/ buf'.full
                \/ /\ program'.held # << >>
                   /\ idle + 1 + (Slack - later) + 1 + BIT_CNT <= T
                \/ /\ program'.held = << >> /\ rxFifo' # << >>
                   /\ idle + 1 + (Slack - later) + Slack + 2 + BIT_CNT <= T
  BY <1>5, <1>6 DEF Deadline
<1>7. CASE buf.full
  BY <1>3, <1>7
<1>8. CASE /\ ~buf.full /\ program.held # << >>
           /\ idle + (Slack - delay) + 1 + BIT_CNT <= T
  <2>1. CanWrite /\ ~CanRead
    BY <1>8 DEF CanWrite, CanRead, tx_ready
  <2>2. \/ accepted(bundle)
        \/ program'.held = program.held /\ later = delay + 1
    BY <2>1 DEF Answering
  <2> HIDE DEF idle, T, delay, later
  <2>3. idle + 1 + BIT_CNT <= T
    BY <1>1, <1>8
  <2>4. CASE accepted(bundle)
    BY <1>3, <2>3, <2>4
  <2>5. CASE program'.held = program.held /\ later = delay + 1
    <3>1. idle + 1 + (Slack - later) + 1 + BIT_CNT <= T
      BY <1>1, <1>8, <2>5
    <3> QED
      BY <1>8, <2>3, <2>5, <3>1
  <2> QED
    BY <2>2, <2>4, <2>5
<1>9. CASE /\ ~buf.full /\ program.held = << >> /\ rxFifo # << >>
           /\ idle + (Slack - delay) + Slack + 2 + BIT_CNT <= T
  <2>1. CanRead /\ ~CanWrite
    BY <1>9 DEF CanWrite, CanRead, rx_valid
  <2>2. \/ program'.held = <<Head(rxFifo)>> /\ later = 0
        \/ ~deq_fire(bundle) /\ program'.held = program.held /\ later = delay + 1
    BY <2>1 DEF Answering
  <2> HIDE DEF idle, T, delay, later
  <2>3. idle + 1 + BIT_CNT <= T
    BY <1>1, <1>9
  <2>4. CASE program'.held = <<Head(rxFifo)>> /\ later = 0
    <3>1. idle + 1 + (Slack - later) + 1 + BIT_CNT <= T
      BY <1>1, <1>9, <2>4
    <3>2. program'.held # << >>
      BY <2>4
    <3> QED
      BY <2>3, <3>1, <3>2
  <2>5. CASE ~deq_fire(bundle) /\ program'.held = program.held /\ later = delay + 1
    <3>1. idle + 1 + (Slack - later) + Slack + 2 + BIT_CNT <= T
      BY <1>1, <1>9, <2>5
    <3> QED
      BY <1>3, <1>9, <2>3, <2>5, <3>1
  <2> QED
    BY <2>2, <2>4, <2>5
<1>10. CASE /\ ~buf.full /\ program.held = << >> /\ rxFifo = << >> /\ rx.valReg
            /\ idle + 2 * Slack + 3 + BIT_CNT <= T
  <2>1. ~CanRead /\ ~CanWrite
    BY <1>10 DEF CanWrite, CanRead, rx_valid
  <2>2. program'.held = program.held /\ later = 0
    BY <2>1 DEF Answering
  <2> HIDE DEF idle, T, delay, later
  <2>3. idle + 1 + BIT_CNT <= T
    BY <1>1, <1>10
  <2>a. 2 * Slack = Slack + Slack /\ Slack - later = Slack
    BY <1>1, <2>2
  <2>b. idle + 1 + Slack + Slack + 2 + BIT_CNT <= T
    BY <1>1, <1>10, <2>a
  <2>4. idle + 1 + (Slack - later) + Slack + 2 + BIT_CNT <= T
    BY <1>1, <2>a, <2>b, SMTT(60)
  <2> QED
    BY <1>3, <1>10, <2>2, <2>3, <2>4
<1> QED
  BY <1>7, <1>8, <1>9, <1>10 DEF Deadline

\* The ctrl-C among the keys, and keys that have come as far as the UART.
Interrupts(n) == n \in DOMAIN typed /\ typed[n] = CTRL_C
Reached(n) == n <= Len(got \o UP!held)

\* When the decoder comes to rest and an answer is not printed, the program can give it
\* before the idle time is over.
DeadlineSet == \A n \in Nat : Reached(n) /\ n > Len(printed) => Deadline

LEMMA DeadlineBegins ==
  RateFits /\ TerminalTypes /\ AnswersInv /\ decoder.state = "IDLE" /\ tx_idle_cycles <= 1
    => DeadlineSet
<1> SUFFICES ASSUME RateFits, TerminalTypes, AnswersInv, decoder.state = "IDLE",
                    tx_idle_cycles <= 1, NEW n \in Nat, Reached(n), n > Len(printed)
             PROVE  Deadline
  BY DEF DeadlineSet
<1> DEFINE T == TX_IDLE_EXIT_THRESHOLD
           idle == tx_idle_cycles
           delay == program.delay
           h == program.held
<1>1. /\ T \in Int /\ BIT_CNT \in Nat /\ BIT_CNT >= 2 /\ Slack \in Nat /\ idle \in 0 .. 1
      /\ delay \in 0 .. Slack /\ CYCLES_PER_BIT = BIT_CNT + 1
      /\ T > 2 * CYCLES_PER_BIT + 2 * Slack
      /\ 2 * CYCLES_PER_BIT = 2 * BIT_CNT + 2
  BY Threshold DEF TerminalTypes, RateFits
<1>2. wait <= 2 * BIT_CNT + 1
  <2>1. tx.bitsReg \in {0, 1} /\ tx.cntReg \in 0 .. BIT_CNT
    BY LastBit
  <2> QED
    BY <1>1, <2>1 DEF wait
<1>3. wait \in Int
  <2>1. tx.cntReg \in 0 .. BIT_CNT
    BY LastBit
  <2> QED
    BY <1>1, <2>1 DEF wait
<1>4. idle + wait <= T
  <2> HIDE DEF idle, T
  <2> QED
    BY <1>1, <1>2, <1>3
<1>5. /\ idle + (Slack - delay) + 1 + BIT_CNT <= T
      /\ idle + (Slack - delay) + Slack + 2 + BIT_CNT <= T
      /\ idle + 2 * Slack + 3 + BIT_CNT <= T
  <2> HIDE DEF idle, T, delay
  <2>1. 2 * Slack = Slack + Slack /\ 2 * BIT_CNT = BIT_CNT + BIT_CNT
    BY <1>1
  <2>2. T > BIT_CNT + BIT_CNT + 2 + (Slack + Slack)
    BY <1>1, <2>1
  <2> QED
    BY <1>1, <2>1, <2>2
<1>6. buf.full \/ h # << >> \/ rxFifo # << >> \/ rx.valReg
  <2> SUFFICES ASSUME ~buf.full, h = << >>, rxFifo = << >>, ~rx.valReg
               PROVE  FALSE
    OBVIOUS
  <2>1. PICK rest \in Seq(Byte) : Transmitting(rest) /\ taken = printed \o (rest \o UP!buffered)
    BY DEF AnswersInv
  <2>2. /\ rest = << >> /\ UP!buffered = << >> /\ UP!held = << >> \o << >>
        /\ printed \in Seq(Byte) /\ taken \in Seq(Byte)
    BY <2>1, LastBit DEF UP!buffered, UP!held, TerminalTypes
  <2>3. << >> \in Seq(Byte) /\ << >> \o << >> = << >>
    BY ConcatEmptySeq
  <2>4. taken = printed
    BY <2>1, <2>2, <2>3, ConcatEmptySeq
  <2>5. got = taken
    BY <2>2, ConcatEmptySeq DEF got
  <2>6. got \o UP!held = printed
    BY <2>2, <2>3, <2>4, <2>5, ConcatEmptySeq
  <2>7. n <= Len(printed) /\ Len(printed) \in Nat
    BY <2>2, <2>6 DEF Reached
  <2> QED
    BY <2>7
<1> QED
  BY <1>4, <1>5, <1>6 DEF Deadline

\* What an edge does to the queue of the terminal.
LEMMA QueueMoves ==
  ASSUME TerminalTypes, NEW queue \in Seq(Byte), get_rx_line(queue)
  PROVE  /\ serializer.state = "IDLE" /\ queue = << >> =>
              rx_fifo' = queue /\ serializer'.state = "IDLE"
         /\ serializer.state = "IDLE" /\ queue # << >> =>
              rx_fifo' = Tail(queue) /\ serializer'.state # "IDLE"
         /\ serializer.state # "IDLE" =>
              /\ rx_fifo' = queue
              /\ serializer'.state = "IDLE" <=> serializer.state = "STOP" /\ over(serializer, 2)
<1>1. PICK s, c, b, d : serializer = Serializer(s, c, b, d) /\ SerializerOK(s, c, b, d)
  BY SerializerFields
<1>2. /\ c \in Nat /\ b \in Nat /\ s \in Phases
      /\ serializer.state = s /\ serializer.counter = c /\ CYCLES_PER_BIT \in Nat
  BY <1>1, TerminalConstants DEF SerializerOK, Serializer
<1>3. /\ s = "IDLE" /\ queue = << >> =>
           rx_line_value' = 1 /\ rx_fifo' = queue /\ serializer' = serializer
      /\ s = "IDLE" /\ queue # << >> =>
           /\ rx_line_value' = 0 /\ rx_fifo' = Tail(queue)
           /\ serializer' = Serializer("START", 0, 0, Head(queue))
      /\ s = "START" => rx_line_value' = 0 /\ rx_fifo' = queue
      /\ s = "START" /\ c + 1 < CYCLES_PER_BIT => serializer' = Serializer("START", c + 1, b, d)
      /\ s = "START" /\ c + 1 >= CYCLES_PER_BIT => serializer' = Serializer("DATA", 0, b, d)
      /\ s = "DATA" => rx_line_value' = d[b + 1] /\ rx_fifo' = queue
      /\ s = "DATA" /\ c + 1 < CYCLES_PER_BIT => serializer' = Serializer("DATA", c + 1, b, d)
      /\ s = "DATA" /\ c + 1 >= CYCLES_PER_BIT =>
           serializer' = Serializer(IF b + 1 >= DATA_BITS THEN "STOP" ELSE "DATA", 0, b + 1, d)
      /\ s = "STOP" => rx_line_value' = 1 /\ rx_fifo' = queue
      /\ s = "STOP" /\ c + 1 < 2 * CYCLES_PER_BIT => serializer' = Serializer("STOP", c + 1, b, d)
      /\ s = "STOP" /\ c + 1 >= 2 * CYCLES_PER_BIT => serializer' = Serializer("IDLE", 0, b, d)
  BY <1>1, <1>2, SerializerMoves, ZenonT(60)
<1>4. \A t, m, i, e : Serializer(t, m, i, e).state = t
  BY DEF Serializer
<1>5. /\ c + 1 < CYCLES_PER_BIT \/ c + 1 >= CYCLES_PER_BIT
      /\ c + 1 < 2 * CYCLES_PER_BIT <=> ~(c + 1 >= 2 * CYCLES_PER_BIT)
      /\ over(serializer, 2) <=> c + 1 >= 2 * CYCLES_PER_BIT
  BY <1>2 DEF over
<1>6. (IF b + 1 >= DATA_BITS THEN "STOP" ELSE "DATA") # "IDLE"
  OBVIOUS
<1>7. CASE s = "IDLE"
  BY <1>2, <1>3, <1>4, <1>7
<1>8. CASE s = "START"
  BY <1>2, <1>3, <1>4, <1>5, <1>8
<1>9. CASE s = "DATA"
  BY <1>2, <1>3, <1>4, <1>5, <1>6, <1>9
<1>10. CASE s = "STOP"
  BY <1>2, <1>3, <1>4, <1>5, <1>10
<1> QED
  BY <1>2, <1>7, <1>8, <1>9, <1>10 DEF Phases

\* The bytes the program has got and those the UART keeps for it.
LEMMA GotBytes ==
  TerminalTypes =>
    /\ UP!held \in Seq(Byte) /\ got \in Seq(Byte) /\ got \o UP!held \in Seq(Byte)
    /\ Len(got \o UP!held) \in Nat
<1> SUFFICES ASSUME TerminalTypes
             PROVE  /\ UP!held \in Seq(Byte) /\ got \in Seq(Byte) /\ got \o UP!held \in Seq(Byte)
                    /\ Len(got \o UP!held) \in Nat
  OBVIOUS
<1> DEFINE last == IF rx.valReg THEN <<rx.shiftReg>> ELSE << >>
<1>1. rxFifo \in Seq(Byte) /\ last \in Seq(Byte)
  BY DEF TerminalTypes, UartTypeOK
<1> HIDE DEF last
<1>2. rxFifo \o last \in Seq(Byte)
  BY <1>1, ConcatProperties
<1>3. UP!held \in Seq(Byte)
  BY <1>2 DEF UP!held, last
<1>4. taken \in Seq(Byte) /\ program.held \in Seq(Byte)
  BY DEF TerminalTypes
<1>5. got \in Seq(Byte)
  BY <1>4, ConcatProperties DEF got
<1>6. got \o UP!held \in Seq(Byte)
  BY <1>3, <1>5, ConcatProperties
<1> QED
  BY <1>3, <1>5, <1>6, LenProperties

\* When nothing is on the line all the keys that have left the queue have come to the UART.
LEMMA AllReached ==
  TerminalTypes /\ KeysInv /\ serializer.state = "IDLE"
    => Len(typed) = Len(got \o UP!held) + Len(rx_fifo)
<1> SUFFICES ASSUME TerminalTypes, KeysInv, serializer.state = "IDLE"
             PROVE  Len(typed) = Len(got \o UP!held) + Len(rx_fifo)
  OBVIOUS
<1>1. PICK rest \in Seq(Byte) : Receiving(rest) /\ typed = ((got \o UP!held) \o rest) \o rx_fifo
  BY DEF KeysInv
<1>2. rest = << >>
  BY <1>1 DEF Receiving, Serializing
<1> DEFINE x == got \o UP!held
<1>3. x \in Seq(Byte) /\ rx_fifo \in Seq(Byte)
  BY GotBytes DEF TerminalTypes
<1>4. typed = (x \o << >>) \o rx_fifo
  BY <1>1, <1>2
<1> HIDE DEF x
<1>5. typed = x \o rx_fifo
  BY <1>3, <1>4, ConcatEmptySeq
<1>6. Len(typed) = Len(x) + Len(rx_fifo)
  BY <1>3, <1>5, ConcatProperties
<1> QED
  BY <1>6 DEF x

\* A key that has left the queue of the terminal.
Left(n) == n + Len(rx_fifo) <= Len(typed)

\* An edge and the ctrl-C: it is on the line while it is in flight, and in the UART or
\* further when it counts as sent.
LEMMA CtrlCMoves ==
  ASSUME TerminalTypes, TerminalTypes', KeysInv, KeysInv', NEW keys \in Polled,
         get_rx_line(rx_fifo \o keys), typed' = typed \o keys, ctrl_c_flags(keys),
         Len(got \o UP!held) <= Len(got' \o UP!held'),
         ctrl_c = "in_flight" => serializer.state # "IDLE" /\ \E n : Interrupts(n) /\ Left(n)
  PROVE  /\ ctrl_c' = "in_flight" =>
              serializer'.state # "IDLE" /\ \E n : Interrupts(n)' /\ Left(n)'
         /\ ctrl_c' = "sent" /\ ctrl_c # "sent" => \E n : Interrupts(n)' /\ Reached(n)'
         /\ ctrl_c = "sent" => ctrl_c' = "sent"
         /\ \A n : Interrupts(n) /\ Reached(n) => Interrupts(n)' /\ Reached(n)'
<1>1. keys \in Seq(Byte) /\ keys \in Seq(Keys) /\ Len(keys) \in Nat
  BY PolledType, LenProperties
<1>2. /\ typed \in Seq(Keys) /\ rx_fifo \in Seq(Byte) /\ typed' \in Seq(Keys)
      /\ rx_fifo' \in Seq(Byte) /\ Len(rx_fifo) \in Nat /\ Len(rx_fifo') \in Nat
      /\ Len(typed) \in Nat /\ DOMAIN typed = 1 .. Len(typed) /\ DOMAIN typed' = 1 .. Len(typed')
  BY LenProperties DEF TerminalTypes
<1>3. /\ Len(typed') = Len(typed) + Len(keys)
      /\ \A i \in 1 .. Len(typed) : typed'[i] = typed[i]
  <2>1. /\ Len(typed \o keys) = Len(typed) + Len(keys)
        /\ \A i \in 1 .. Len(typed) + Len(keys) :
             (typed \o keys)[i] = IF i <= Len(typed) THEN typed[i] ELSE keys[i - Len(typed)]
    BY <1>1, <1>2, ConcatProperties
  <2>2. \A i \in 1 .. Len(typed) : i \in 1 .. Len(typed) + Len(keys) /\ i <= Len(typed)
    BY <1>1, <1>2
  <2> QED
    BY <2>1, <2>2
<1>4. PICK queue \in Seq(Byte) : queue = rx_fifo \o keys
  BY <1>1, <1>2, ConcatProperties
<1>5. Len(queue) = Len(rx_fifo) + Len(keys)
  BY <1>1, <1>2, <1>4, ConcatProperties
<1>6. get_rx_line(queue)
  BY <1>4
<1>7. /\ serializer.state = "IDLE" /\ queue = << >> =>
           rx_fifo' = queue /\ serializer'.state = "IDLE"
      /\ serializer.state = "IDLE" /\ queue # << >> =>
           rx_fifo' = Tail(queue) /\ serializer'.state # "IDLE"
      /\ serializer.state # "IDLE" =>
           /\ rx_fifo' = queue
           /\ serializer'.state = "IDLE" <=> serializer.state = "STOP" /\ over(serializer, 2)
  BY <1>6, QueueMoves
<1>8. queue # << >> => Len(Tail(queue)) = Len(queue) - 1
  BY HeadTailProperties
<1>9. Len(rx_fifo') <= Len(queue)
  <2>1. rx_fifo' = queue \/ (queue # << >> /\ rx_fifo' = Tail(queue))
    BY <1>7
  <2>2. Len(queue) \in Nat
    BY LenProperties
  <2> QED
    BY <1>8, <2>1, <2>2
<1>10. ASSUME NEW n, Interrupts(n)
       PROVE  Interrupts(n)' /\ n \in 1 .. Len(typed)
  <2>1. n \in 1 .. Len(typed) /\ typed[n] = CTRL_C
    BY <1>2, <1>10 DEF Interrupts
  <2>2. n \in 1 .. Len(typed') /\ typed'[n] = CTRL_C
    BY <1>1, <1>2, <1>3, <2>1
  <2> QED
    BY <1>2, <2>1, <2>2 DEF Interrupts
<1>11. ASSUME NEW n, Interrupts(n), Left(n)
       PROVE  Left(n)'
  <2>1. n \in Int /\ n + Len(rx_fifo) <= Len(typed)
    BY <1>10, <1>11 DEF Left
  <2>2. n + Len(rx_fifo') <= Len(typed')
    BY <1>1, <1>2, <1>3, <1>5, <1>9, <2>1
  <2> QED
    BY <2>2 DEF Left
<1>12. ASSUME NEW n, Interrupts(n), Reached(n)
       PROVE  Reached(n)'
  <2>1. n \in Int /\ n <= Len(got \o UP!held)
    BY <1>10, <1>12 DEF Reached
  <2>2. Len(got \o UP!held) \in Nat /\ Len(got' \o UP!held') \in Nat
    <3>1. TerminalTypes' => (/\ UP!held \in Seq(Byte) /\ got \in Seq(Byte)
                             /\ got \o UP!held \in Seq(Byte)
                             /\ Len(got \o UP!held) \in Nat)'
      BY GotBytes, PTL
    <3> QED
      BY <3>1, GotBytes
  <2>3. n <= Len(got' \o UP!held')
    BY <2>1, <2>2
  <2> QED
    BY <2>3 DEF Reached
<1>13. ASSUME serializer.state = "IDLE", queue # << >>, Head(queue) = CTRL_C
       PROVE  serializer'.state # "IDLE" /\ \E n : Interrupts(n)' /\ Left(n)'
  <2>1. PICK rest \in Seq(Byte) : typed = ((got \o UP!held) \o rest) \o rx_fifo
    BY DEF KeysInv
  <2>2. Len(queue) \in Nat /\ Len(queue) >= 1 /\ Len(rx_fifo') = Len(queue) - 1
    <3>1. Len(queue) \in Nat /\ Len(queue) # 0
      BY <1>13, LenProperties, EmptySeq
    <3> QED
      BY <1>7, <1>8, <1>13, <3>1
  <2>3. PICK x \in Seq(Byte) : x = (got \o UP!held) \o rest
    BY GotBytes, ConcatProperties
  <2>4. typed = x \o rx_fifo
    BY <2>1, <2>3
  <2>5. typed' = x \o queue
    <3>1. typed' = (x \o rx_fifo) \o keys
      BY <2>4
    <3>2. keys \in Seq(Byte) /\ rx_fifo \in Seq(Byte) /\ x \in Seq(Byte)
      BY <1>1, <1>2, <2>3
    <3>3. (x \o rx_fifo) \o keys = x \o (rx_fifo \o keys)
      BY <3>2, BytesRegroup, ZenonT(90)
    <3> QED
      BY <1>4, <3>1, <3>3
  <2>6. PICK n \in Nat \ {0} : n = Len(x) + 1
    BY <2>3, LenProperties
  <2>7. Len(x) \in Nat
    BY <2>3, LenProperties
  <2>8. /\ Len(typed') = Len(x) + Len(queue)
        /\ \A i \in 1 .. Len(x) + Len(queue) :
             (x \o queue)[i] = IF i <= Len(x) THEN x[i] ELSE queue[i - Len(x)]
    BY <2>3, <2>5, ConcatProperties
  <2>9. n \in 1 .. Len(x) + Len(queue) /\ ~(n <= Len(x)) /\ n - Len(x) = 1
    BY <2>2, <2>6, <2>7
  <2>10. typed'[n] = queue[1]
    BY <2>5, <2>8, <2>9
  <2>11. typed'[n] = CTRL_C
    BY <1>13, <2>10
  <2>12. n \in 1 .. Len(typed') /\ n + Len(rx_fifo') <= Len(typed')
    BY <2>2, <2>6, <2>7, <2>8
  <2>13. Interrupts(n)' /\ Left(n)'
    BY <1>2, <2>11, <2>12 DEF Interrupts, Left
  <2> QED
    BY <1>7, <1>13, <2>13
<1>14. /\ ctrl_c' = "sent" /\ ctrl_c # "sent" =>
            /\ ctrl_c = "in_flight" /\ serializer.state = "STOP" /\ over(serializer, 2)
       /\ ctrl_c = "sent" => ctrl_c' = "sent"
       /\ ctrl_c' = "in_flight" =>
            \/ /\ ctrl_c = "in_flight" /\ ~(serializer.state = "STOP" /\ over(serializer, 2))
            \/ serializer.state = "IDLE" /\ queue # << >> /\ Head(queue) = CTRL_C
  <2>1. CTRL_C \in Range(keys) => keys # << >> /\ Head(keys) = CTRL_C
    BY DEF Polled, Range
  <2>2. rx_fifo = << >> => queue = keys
    BY <1>1, <1>4, ConcatEmptySeq
  <2>3. ctrl_c' =
            CASE ctrl_c = "in_flight" /\ serializer.state = "STOP" /\ over(serializer, 2) -> "sent"
              [] ctrl_c = "received" /\ serializer.state = "IDLE"
                   /\ queue # << >> /\ Head(queue) = CTRL_C -> "in_flight"
              [] ctrl_c = "none" /\ CTRL_C \in Range(keys) ->
                   IF serializer.state = "IDLE" /\ rx_fifo = << >> THEN "in_flight" ELSE "received"
              [] OTHER -> ctrl_c
    BY <1>4 DEF ctrl_c_flags
  <2> QED
    BY <2>1, <2>2, <2>3
<1>15. ASSUME ctrl_c' = "in_flight"
       PROVE  serializer'.state # "IDLE" /\ \E n : Interrupts(n)' /\ Left(n)'
  <2>1. CASE ctrl_c = "in_flight" /\ ~(serializer.state = "STOP" /\ over(serializer, 2))
    <3>1. serializer.state # "IDLE" /\ \E n : Interrupts(n) /\ Left(n)
      BY <2>1
    <3>2. PICK n : Interrupts(n) /\ Left(n)
      BY <3>1
    <3>3. Interrupts(n)' /\ Left(n)'
      BY <1>10, <1>11, <3>2
    <3> QED
      BY <1>7, <2>1, <3>1, <3>3
  <2>2. CASE serializer.state = "IDLE" /\ queue # << >> /\ Head(queue) = CTRL_C
    BY <1>13, <2>2
  <2> QED
    BY <1>14, <1>15, <2>1, <2>2
<1>16. ASSUME ctrl_c' = "sent", ctrl_c # "sent"
       PROVE  \E n : Interrupts(n)' /\ Reached(n)'
  <2>1. ctrl_c = "in_flight" /\ serializer.state = "STOP" /\ over(serializer, 2)
    BY <1>14, <1>16
  <2>2. PICK n : Interrupts(n) /\ Left(n)
    BY <2>1
  <2>3. Interrupts(n)' /\ Left(n)' /\ n \in Int
    BY <1>10, <1>11, <2>2
  <2>4. serializer'.state = "IDLE"
    BY <1>7, <2>1
  <2>5. Len(typed)' = Len(got \o UP!held)' + Len(rx_fifo)'
    <3>1. (TerminalTypes /\ KeysInv /\ serializer.state = "IDLE")'
            => (Len(typed) = Len(got \o UP!held) + Len(rx_fifo))'
      BY AllReached, PTL
    <3> QED
      BY <2>4, <3>1
  <2>6. Len(got \o UP!held)' \in Nat
    <3>1. TerminalTypes' => (/\ UP!held \in Seq(Byte) /\ got \in Seq(Byte)
                             /\ got \o UP!held \in Seq(Byte)
                             /\ Len(got \o UP!held) \in Nat)'
      BY GotBytes, PTL
    <3> QED
      BY <3>1
  <2>7. n + Len(rx_fifo)' <= Len(typed)'
    BY <2>3 DEF Left
  <2>8. n <= Len(got \o UP!held)'
    BY <1>2, <2>3, <2>5, <2>6, <2>7
  <2> QED
    BY <2>3, <2>8 DEF Reached
<1>17. ASSUME NEW n, Interrupts(n), Reached(n)
       PROVE  Interrupts(n)' /\ Reached(n)'
  BY <1>10, <1>12, <1>17
<1> QED
  BY <1>14, <1>15, <1>16, <1>17

-----------------------------------------------------------------------------
\* The invariant of the end: ctrl-C is on the line while it is in flight, and in the UART
\* or further when it counts as sent; the idle time counts only from then on, and while it
\* does an answer that is not printed comes before it is over.
ExitInv ==
  /\ ctrl_c = "in_flight" => serializer.state # "IDLE" /\ \E n : Interrupts(n) /\ Left(n)
  /\ ctrl_c = "sent" =>
       \E n : /\ Interrupts(n) /\ Reached(n)
              /\ n > Len(printed) /\ decoder.state = "IDLE" => Deadline
  /\ ctrl_c # "sent" => tx_idle_cycles = 0
  /\ decoder.state # "IDLE" => tx_idle_cycles = 0
  /\ running => tx_idle_cycles <= TX_IDLE_EXIT_THRESHOLD
  /\ ~running => ctrl_c = "sent" /\ tx_idle_cycles > TX_IDLE_EXIT_THRESHOLD

\* Between two edges at which the decoder rests nothing is taken and nothing printed.
LEMMA DecoderRests ==
  ASSUME RateFits, TerminalTypes, TerminalTypes', AnswersInv, UP!TxStep, process_tx(txd'),
         decoder.state = "IDLE", decoder'.state = "IDLE"
  PROVE  ~UP!taken /\ printed' = printed
<1>1. PICK rest \in Seq(Byte) : Transmitting(rest)
  BY DEF AnswersInv
<1>2. decoder.prev = txd /\ rest = << >>
  BY <1>1, LastBit DEF AnswersInv
<1>3. PICK byte \in Byte : byte = buf.data
  BY DEF TerminalTypes, UartTypeOK
<1>4. \/ /\ UP!taken /\ rest = << >> /\ Transmitting(<<byte>>)' /\ printed' = printed
      \/ /\ ~UP!taken /\ Transmitting(rest)' /\ printed' = printed
      \/ /\ ~UP!taken /\ Transmitting(<< >>)'
         /\ \E d \in Byte : rest = <<d>> /\ printed' = Append(printed, d)
  BY <1>1, <1>2, <1>3, AnswersMove
<1>5. ~Transmitting(<<byte>>)'
  BY DEF Transmitting, Decoding, Follows
<1> QED
  BY <1>2, <1>4, <1>5

LEMMA ExitMoves ==
  ASSUME RateFits, TerminalInv, KeysFit, ExitInv, Next
  PROVE  ExitInv'
<1> DEFINE T == TX_IDLE_EXIT_THRESHOLD
<1>1. TerminalTypes /\ AnswersInv /\ KeysInv
  BY DEF TerminalInv
<1>2. PICK bundle : \E keys \in Polled :
           /\ bundle.data \in Byte /\ Tick(bundle, keys) /\ Answering(bundle)
           /\ TerminalTypes'
           /\ UP!TxStep /\ UP!BufferStep(bundle) /\ UP!RxStep(bundle, rx_line_value)
           /\ UP!FifoStep(bundle) /\ process_tx(txd') /\ get_rx_line(rx_fifo \o keys)
           /\ typed' = typed \o keys /\ keys \in Seq(Byte)
  BY <1>1, EdgeTaken
<1>3. PICK keys \in Polled :
           /\ bundle.data \in Byte /\ Tick(bundle, keys) /\ Answering(bundle)
           /\ TerminalTypes'
           /\ UP!TxStep /\ UP!BufferStep(bundle) /\ UP!RxStep(bundle, rx_line_value)
           /\ UP!FifoStep(bundle) /\ process_tx(txd') /\ get_rx_line(rx_fifo \o keys)
           /\ typed' = typed \o keys /\ keys \in Seq(Byte)
  BY <1>2
<1>4. AnswersInv' /\ KeysInv'
  BY BothMove DEF TerminalInv
<1>5. Len(got \o UP!held) <= Len(got' \o UP!held')
  BY <1>1, <1>3, KeysArrive
<1>6. /\ TxStep /\ ctrl_c_flags(keys) /\ running
      /\ tx_idle_cycles' = IF ctrl_c' # "sent" THEN tx_idle_cycles
                           ELSE IF decoder'.state = "IDLE" THEN tx_idle_cycles + 1 ELSE 0
      /\ running' = ~(ctrl_c' = "sent" /\ tx_idle_cycles' > T)
  BY <1>3 DEF Tick, UartStep, count_idle
<1>7. /\ ctrl_c' = "in_flight" =>
           serializer'.state # "IDLE" /\ \E n : Interrupts(n)' /\ Left(n)'
      /\ ctrl_c' = "sent" /\ ctrl_c # "sent" => \E n : Interrupts(n)' /\ Reached(n)'
      /\ ctrl_c = "sent" => ctrl_c' = "sent"
      /\ \A n : Interrupts(n) /\ Reached(n) => Interrupts(n)' /\ Reached(n)'
  BY <1>1, <1>3, <1>4, <1>5, <1>6, CtrlCMoves DEF ExitInv
<1>8. /\ ctrl_c # "sent" => tx_idle_cycles = 0
      /\ decoder.state # "IDLE" => tx_idle_cycles = 0
      /\ tx_idle_cycles \in Nat /\ tx_idle_cycles' \in Nat /\ T \in Int /\ T >= 0
  <2>1. tx_idle_cycles \in Nat /\ tx_idle_cycles' \in Nat
    BY <1>1, <1>3 DEF TerminalTypes
  <2>2. T \in Int /\ T >= 0
    BY TerminalAssumption
  <2> QED
    BY <2>1, <2>2 DEF ExitInv
<1>9. /\ ctrl_c' # "sent" => tx_idle_cycles' = 0
      /\ decoder'.state # "IDLE" => tx_idle_cycles' = 0
      /\ running' => tx_idle_cycles' <= T
      /\ ~running' => ctrl_c' = "sent" /\ tx_idle_cycles' > T
  <2> HIDE DEF T
  <2>1. /\ ctrl_c' # "sent" => tx_idle_cycles' = 0
        /\ decoder'.state # "IDLE" => tx_idle_cycles' = 0
    BY <1>6, <1>7, <1>8
  <2>2. /\ running' => ctrl_c' # "sent" \/ ~(tx_idle_cycles' > T)
        /\ ~running' => ctrl_c' = "sent" /\ tx_idle_cycles' > T
    BY <1>6
  <2> QED
    BY <1>8, <2>1, <2>2
<1>10. ASSUME ctrl_c' = "sent", decoder'.state = "IDLE", tx_idle_cycles = 0,
              NEW n \in Nat, Reached(n)', n > Len(printed)'
       PROVE  Deadline'
  <2>1. tx_idle_cycles' <= 1
    BY <1>6, <1>10
  <2>2. RateFits /\ (TerminalTypes /\ AnswersInv /\ decoder.state = "IDLE" /\ tx_idle_cycles <= 1)'
          => DeadlineSet'
    <3>1. RateFits'
      BY DEF RateFits
    <3> QED
      BY <3>1, DeadlineBegins, PTL
  <2>3. DeadlineSet'
    BY <1>3, <1>4, <1>10, <2>1, <2>2
  <2> QED
    BY <1>10, <2>3 DEF DeadlineSet
<1>11. ASSUME NEW n, Interrupts(n)'
       PROVE  n \in Nat
  BY <1>3, <1>11, LenProperties, SMTT(40) DEF Interrupts, TerminalTypes
<1>12. ASSUME ctrl_c' = "sent"
       PROVE  \E n : /\ Interrupts(n)' /\ Reached(n)'
                     /\ n > Len(printed)' /\ decoder'.state = "IDLE" => Deadline'
  <2>1. CASE ctrl_c # "sent"
    <3>1. PICK n : Interrupts(n)' /\ Reached(n)'
      BY <1>7, <1>12, <2>1
    <3> QED
      BY <1>8, <1>10, <1>11, <1>12, <2>1, <3>1
  <2>2. CASE ctrl_c = "sent"
    <3>1. PICK n : /\ Interrupts(n) /\ Reached(n)
                   /\ n > Len(printed) /\ decoder.state = "IDLE" => Deadline
      BY <2>2 DEF ExitInv
    <3>2. Interrupts(n)' /\ Reached(n)' /\ n \in Nat
      BY <1>7, <1>11, <3>1
    <3>3. ASSUME n > Len(printed)', decoder'.state = "IDLE", decoder.state = "IDLE"
          PROVE  Deadline'
      <4>1. ~UP!taken /\ printed' = printed
        BY <1>1, <1>3, <3>3, DecoderRests
      <4>2. Deadline
        BY <3>1, <3>3, <4>1
      <4>3. tx_idle_cycles' = tx_idle_cycles + 1
        BY <1>6, <1>12, <3>3
      <4> QED
        BY <1>1, <1>3, <1>6, <3>3, <4>1, <4>2, <4>3, DeadlineKept
    <3>4. ASSUME n > Len(printed)', decoder'.state = "IDLE", decoder.state # "IDLE"
          PROVE  Deadline'
      BY <1>8, <1>10, <1>12, <3>2, <3>4
    <3> QED
      BY <3>2, <3>3, <3>4
  <2> QED
    BY <2>1, <2>2
<1> QED
  BY <1>7, <1>9, <1>12 DEF ExitInv

LEMMA ExitBegins == ASSUME Init PROVE ExitInv
BY TerminalAssumption DEF Init, ExitInv

\* The idle time is over only when the deadline is, and then the answers are printed.
LEMMA NothingLost ==
  ASSUME TerminalInv, ExitInv
  PROVE  NothingLostAtExit
<1> SUFFICES ASSUME ~running
             PROVE  \E n \in DOMAIN printed : typed[n] = CTRL_C
  BY DEF NothingLostAtExit
<1>1. /\ ctrl_c = "sent" /\ tx_idle_cycles > TX_IDLE_EXIT_THRESHOLD
      /\ tx_idle_cycles \in Nat /\ TX_IDLE_EXIT_THRESHOLD \in Nat
      /\ TerminalTypes
  BY TerminalAssumption DEF ExitInv, TerminalInv, TerminalTypes
<1>2. decoder.state = "IDLE"
  BY <1>1 DEF ExitInv
<1>3. ~Deadline
  <2>1. tx.cntReg \in Nat /\ CYCLES_PER_BIT \in Nat
    BY <1>1, TerminalConstants DEF TerminalTypes, UartTypeOK
  <2>2. wait \in Nat
    BY <2>1 DEF wait
  <2> QED
    BY <1>1, <2>2 DEF Deadline
<1>4. PICK n : Interrupts(n) /\ ~(n > Len(printed))
  BY <1>1, <1>2, <1>3 DEF ExitInv
<1>5. n \in 1 .. Len(typed) /\ typed[n] = CTRL_C /\ Len(typed) \in Nat /\ Len(printed) \in Nat
  BY <1>1, <1>4, LenProperties DEF Interrupts, TerminalTypes
<1>6. DOMAIN printed = 1 .. Len(printed)
  BY <1>1, LenProperties DEF TerminalTypes
<1>7. n \in DOMAIN printed
  BY <1>4, <1>5, <1>6
<1> QED
  BY <1>5, <1>7

\* A step of nothing keeps what is said of the end.
LEMMA ExitStays ==
  ASSUME ExitInv, UNCHANGED vars
  PROVE  ExitInv'
<1>1. /\ tx' = tx /\ rx' = rx /\ buf' = buf /\ rxFifo' = rxFifo
      /\ decoder' = decoder /\ serializer' = serializer /\ rx_fifo' = rx_fifo
      /\ ctrl_c' = ctrl_c /\ tx_idle_cycles' = tx_idle_cycles /\ running' = running
      /\ program' = program /\ typed' = typed /\ taken' = taken /\ printed' = printed
  BY DEF vars, uart_vars, terminal_vars
<1>2. UP!held' = UP!held /\ got' = got /\ wait' = wait
  BY <1>1 DEF UP!held, got, wait
<1>3. Deadline' <=> Deadline
  BY <1>1, <1>2 DEF Deadline
<1>4. \A n : /\ Interrupts(n)' <=> Interrupts(n)
             /\ Reached(n)' <=> Reached(n)
             /\ Left(n)' <=> Left(n)
  BY <1>1, <1>2 DEF Interrupts, Reached, Left
<1> QED
  BY <1>1, <1>3, <1>4 DEF ExitInv

-----------------------------------------------------------------------------
(***************************************************************************)
(* The theorems.                                                           *)
(***************************************************************************)
\* Both directions and the end are in order in every state.
LEMMA TerminalInvariant ==
  ASSUME RateFits
  PROVE  Spec /\ []KeysFit => [](TerminalInv /\ ExitInv)
<1>1. Init => TerminalInv /\ ExitInv
  BY TypesBegin, NothingUnderWay, ExitBegins DEF TerminalInv
<1>2. TerminalInv /\ ExitInv /\ KeysFit /\ [Next]_vars => (TerminalInv /\ ExitInv)'
  BY BothMove, BothStay, ExitMoves, ExitStays
<1> QED
  BY <1>1, <1>2, PTL DEF Spec

\* TerminalIsFaithful: whatever keys are typed and whenever the program looks, it answers
\* the keys each once and in order, and the terminal shows its answers each once and in
\* order, as long as the keys that it has not got find room in the UART (sim.cpp:139-278).
THEOREM TerminalAnswersInOrder ==
  ASSUME RateFits
  PROVE  Spec /\ []KeysFit => []TerminalIsFaithful
<1>1. TerminalInv => TerminalIsFaithful
  BY ArrivedInOrder DEF TerminalInv
<1> QED
  BY <1>1, TerminalInvariant, PTL

\* NothingLostAtExit: when the harness leaves, the program has got every key up to a
\* ctrl-C, and its answers to them are on the terminal (sim.cpp:386-392, 572-596).
THEOREM ExitLosesNothing ==
  ASSUME RateFits
  PROVE  Spec /\ []KeysFit => []NothingLostAtExit
<1>1. TerminalInv /\ ExitInv => NothingLostAtExit
  BY NothingLost
<1> QED
  BY <1>1, TerminalInvariant, PTL

-----------------------------------------------------------------------------
\* The types, and the idle time up to its threshold: however many keys are typed.
TerminalTyped ==
  /\ TerminalTypes
  /\ tx_idle_cycles <= TX_IDLE_EXIT_THRESHOLD + 1
  /\ running => tx_idle_cycles <= TX_IDLE_EXIT_THRESHOLD

LEMMA TypedMoves ==
  ASSUME TerminalTyped, Next
  PROVE  TerminalTyped'
<1> DEFINE T == TX_IDLE_EXIT_THRESHOLD
<1>1. TerminalTypes
  BY DEF TerminalTyped
<1>2. PICK bundle : \E keys \in Polled : Tick(bundle, keys) /\ TerminalTypes'
  BY <1>1, EdgeTaken
<1>3. /\ running /\ TerminalTypes'
      /\ tx_idle_cycles' = IF ctrl_c' # "sent" THEN tx_idle_cycles
                           ELSE IF decoder'.state = "IDLE" THEN tx_idle_cycles + 1 ELSE 0
      /\ running' = ~(ctrl_c' = "sent" /\ tx_idle_cycles' > T)
  BY <1>2 DEF Tick, count_idle
<1>4. tx_idle_cycles \in Nat /\ T \in Nat /\ tx_idle_cycles <= T
  BY <1>1, <1>3, TerminalAssumption DEF TerminalTypes, TerminalTyped
<1> HIDE DEF T
<1>5. tx_idle_cycles' \in Nat /\ tx_idle_cycles' <= T + 1
  BY <1>3, <1>4
<1>6. running' => tx_idle_cycles' <= T
  <2>1. running' => ctrl_c' # "sent" \/ ~(tx_idle_cycles' > T)
    BY <1>3
  <2> QED
    BY <1>3, <1>4, <1>5, <2>1
<1> QED
  BY <1>3, <1>5, <1>6 DEF TerminalTyped, T

LEMMA TypedStays ==
  ASSUME TerminalTyped, UNCHANGED vars
  PROVE  TerminalTyped'
<1>1. /\ tx' = tx /\ rx' = rx /\ buf' = buf /\ rxFifo' = rxFifo /\ interrupt' = interrupt
      /\ decoder' = decoder /\ serializer' = serializer /\ rx_fifo' = rx_fifo
      /\ rx_line_value' = rx_line_value /\ ctrl_c' = ctrl_c /\ tx_idle_cycles' = tx_idle_cycles
      /\ running' = running /\ program' = program /\ typed' = typed /\ taken' = taken
      /\ printed' = printed
  BY DEF vars, uart_vars, terminal_vars
<1> QED
  BY <1>1 DEF TerminalTyped, TerminalTypes, UartTypeOK

LEMMA TypedInvariant == Spec => []TerminalTyped
<1>1. Init => TerminalTyped
  <2> SUFFICES ASSUME Init PROVE TerminalTyped
    OBVIOUS
  <2>1. tx_idle_cycles = 0
    BY DEF Init
  <2> QED
    BY <2>1, TypesBegin, TerminalAssumption DEF TerminalTyped
<1>2. TerminalTyped /\ [Next]_vars => TerminalTyped'
  BY TypedMoves, TypedStays
<1> QED
  BY <1>1, <1>2, PTL DEF Spec

\* The variables of the UART and of the terminal have their types: no more bits are decoded
\* or sent than a byte has, and no more idle cycles are counted than the threshold and one.
LEMMA TerminalTypeCorrect == Spec => []TypeOK
<1>1. TerminalTyped => TypeOK
  <2> SUFFICES ASSUME TerminalTyped PROVE TypeOK
    OBVIOUS
  <2>1. /\ UartTypeOK /\ decoder.data \in Seq(Bit) /\ Len(decoder.data) <= DATA_BITS
        /\ serializer.bit_idx \in 0 .. DATA_BITS /\ tx_idle_cycles \in Nat
        /\ tx_idle_cycles <= TX_IDLE_EXIT_THRESHOLD + 1
    BY DEF TerminalTyped, TerminalTypes
  <2>2. tx_idle_cycles \in 0 .. TX_IDLE_EXIT_THRESHOLD + 1
    BY <2>1, TerminalAssumption
  <2>3. decoder.data \in UNION {[1 .. n -> Bit] : n \in 0 .. DATA_BITS}
    <3>1. PICK n \in Nat : n = Len(decoder.data)
      BY <2>1, LenProperties
    <3>2. n \in 0 .. DATA_BITS
      BY <2>1, <3>1, TerminalConstants
    <3>3. decoder.data \in [1 .. n -> Bit]
      BY <2>1, <3>1, LenProperties
    <3> QED
      BY <3>2, <3>3
  <2> QED
    BY <2>1, <2>2, <2>3 DEF TypeOK
<1> QED
  BY <1>1, TypedInvariant, PTL

\* When no more keys are typed than the UART holds, they find room in it, however slow the
\* program is.
LEMMA KeysAlwaysFit ==
  ASSUME MaxKeys <= FifoEntries + 1
  PROVE  Spec => []KeysFit
<1>1. TerminalTyped => KeysFit
  <2> SUFFICES ASSUME TerminalTyped PROVE KeysFit
    OBVIOUS
  <2>1. /\ TerminalTypes /\ Len(typed) <= MaxKeys /\ Len(rx_fifo) \in Nat /\ Len(typed) \in Nat
    BY LenProperties DEF TerminalTyped, TerminalTypes
  <2>2. Len(got) \in Nat
    BY <2>1, GotBytes, LenProperties
  <2>3. MaxKeys \in Nat /\ FifoEntries \in Nat
    BY TerminalAssumption, UartAssumption
  <2> QED
    BY <2>1, <2>2, <2>3 DEF KeysFit
<1> QED
  BY <1>1, TypedInvariant, PTL

\* Then nothing needs to be assumed of the program: both hold on every run.
COROLLARY ShortSessionIsFaithful ==
  ASSUME RateFits, MaxKeys <= FifoEntries + 1
  PROVE  Spec => [](TerminalIsFaithful /\ NothingLostAtExit)
BY KeysAlwaysFit, TerminalAnswersInOrder, ExitLosesNothing, PTL
=============================================================================
