------------------------------- MODULE Terminal -------------------------------
(***************************************************************************)
(* The terminal mode of the harness (UartTerminal and the main loop of     *)
(* verilog/verilator/sim.cpp) in front of the UART and of a program that   *)
(* answers each byte it reads with one byte, as the line editor of         *)
(* csrc/shell.c echoes a key.  One Tick is one rising edge: the UART moves *)
(* on, the terminal decodes its transmit line, polls the keys, drives the  *)
(* receive line and decides whether to leave.                              *)
(*                                                                         *)
(* stdin is polled every 64 cycles; here any edge may find a key.          *)
(***************************************************************************)
EXTENDS UART, SequencesExt

CONSTANTS
  CYCLES_PER_BIT,         \* 434 in the source
  TX_IDLE_EXIT_THRESHOLD, \* 50000 in the source
  CTRL_C, Keys,           \* a byte, and the bytes that are typed
  MaxKeys,                \* bound: keys typed in all
  Slack                   \* the longest the program takes over an access it can make

ASSUME TerminalAssumption ==
  /\ Keys \subseteq Byte /\ CTRL_C \in Byte
  /\ {MaxKeys, Slack, TX_IDLE_EXIT_THRESHOLD} \subseteq Nat
  \* The code's constants say the same of a bit as the hardware's.
  /\ CYCLES_PER_BIT = BIT_CNT + 1
  \* The threshold exceeds the idle time between two frames and the program's delay.
  /\ TX_IDLE_EXIT_THRESHOLD > 2 * CYCLES_PER_BIT + 2 * Slack

HALF_BIT == CYCLES_PER_BIT \div 2

VARIABLES
  decoder,        \* [state, counter, data, prev]: tx_state, tx_counter, tx_data, tx_prev
  serializer,     \* [state, counter, bit_idx, shift]
  rx_fifo,        \* bytes queued for the program
  rx_line_value,
  ctrl_c,         \* what has become of ctrl-C: "none", "received", "in_flight" or "sent"
  tx_idle_cycles,
  running,
  program,        \* [held, delay]: the byte it will answer, if any, and how long it has waited
  typed, taken, printed  \* histories: keys, answers the UART took, and terminal output

terminal_vars == <<decoder, serializer, rx_fifo, rx_line_value, ctrl_c, tx_idle_cycles, running,
                   program, typed, taken, printed>>
vars == <<uart_vars, terminal_vars>>

Init ==
  /\ UartInit
  /\ decoder = [state |-> "IDLE", counter |-> 0, data |-> << >>, prev |-> 1]
  /\ serializer = [state |-> "IDLE", counter |-> 0, bit_idx |-> 0, shift |-> Zero]
  /\ rx_fifo = << >> /\ rx_line_value = 1
  /\ ctrl_c = "none" /\ tx_idle_cycles = 0 /\ running = TRUE
  /\ program = [held |-> << >>, delay |-> 0]
  /\ typed = << >> /\ taken = << >> /\ printed = << >>

-----------------------------------------------------------------------------
(***************************************************************************)
(* From the program to the terminal.                                       *)
(***************************************************************************)
counted(machine)    == [machine EXCEPT !.counter = @ + 1]

\* Variant: a bit lasts one cycle longer.
over_late(machine, bits) == machine.counter + 1 > bits * CYCLES_PER_BIT

over(machine, bits) == machine.counter + 1 >= bits * CYCLES_PER_BIT
enters(machine, s)  == [machine EXCEPT !.state = s, !.counter = 0]

\* What the decoder is after it has seen the line: it looks at each bit in its
\* middle, half a bit after the falling edge.
decoded(line) ==
  LET d == decoder IN
  CASE d.state = "IDLE" ->
         IF d.prev = 1 /\ line = 0
         THEN [d EXCEPT !.state = "START", !.counter = HALF_BIT, !.data = << >>] ELSE d
    [] d.state = "START" ->
         IF ~over(d, 1) THEN counted(d) ELSE enters(d, IF line = 0 THEN "DATA" ELSE "IDLE")
    [] d.state = "DATA" ->
         IF ~over(d, 1) THEN counted(d)
         ELSE [enters(d, IF Len(d.data) + 1 >= DATA_BITS THEN "STOP" ELSE "DATA")
                 EXCEPT !.data = Append(@, line)]
    [] d.state = "STOP" -> IF ~over(d, 2) THEN counted(d) ELSE enters(d, "IDLE")

process_tx(line) ==
  /\ decoder' = [decoded(line) EXCEPT !.prev = line]
  /\ printed' = IF decoder.state = "STOP" /\ over(decoder, 2)
                THEN Append(printed, decoder.data) ELSE printed

-----------------------------------------------------------------------------
(***************************************************************************)
(* From the terminal to the program.                                       *)
(***************************************************************************)
\* What is read from stdin: nothing, or a key.
poll_input(keys) ==
  /\ keys = << >> \/ Len(typed) < MaxKeys
  /\ typed' = typed \o keys

\* The line is driven before the state moves on: the start bit lasts one cycle
\* longer than a bit.
get_rx_line(queue) ==
  LET s == serializer IN
  CASE s.state = "IDLE" /\ queue = << >> ->
         /\ rx_line_value' = 1 /\ rx_fifo' = queue
         /\ UNCHANGED serializer
    [] s.state = "IDLE" /\ queue # << >> ->
         /\ rx_line_value' = 0 /\ rx_fifo' = Tail(queue)
         /\ serializer' = [state |-> "START", counter |-> 0, bit_idx |-> 0, shift |-> Head(queue)]
    [] s.state = "START" ->
         /\ rx_line_value' = 0 /\ rx_fifo' = queue
         /\ serializer' = IF over(s, 1) THEN enters(s, "DATA") ELSE counted(s)
    [] s.state = "DATA" ->
         /\ rx_line_value' = s.shift[s.bit_idx + 1] /\ rx_fifo' = queue
         /\ serializer' =
              IF ~over(s, 1) THEN counted(s)
              ELSE [enters(s, IF s.bit_idx + 1 >= DATA_BITS THEN "STOP" ELSE "DATA")
                      EXCEPT !.bit_idx = @ + 1]
    [] s.state = "STOP" ->
         /\ rx_line_value' = 1 /\ rx_fifo' = queue
         /\ serializer' = IF over(s, 2) THEN enters(s, "IDLE") ELSE counted(s)

\* Variant: ctrl-C counts as sent when it is taken from the queue.
ctrl_c_flags_early(keys) ==
  ctrl_c' = IF serializer.state = "IDLE" /\ rx_fifo \o keys # << >> /\ Head(rx_fifo \o keys) = CTRL_C
            THEN "sent" ELSE ctrl_c

\* ctrl-C is queued like any key; it counts as sent when its stop bits are over,
\* and another one changes nothing.
ctrl_c_flags(keys) ==
  ctrl_c' = CASE ctrl_c = "in_flight" /\ serializer.state = "STOP" /\ over(serializer, 2) -> "sent"
              [] ctrl_c = "received" /\ serializer.state = "IDLE"
                   /\ rx_fifo \o keys # << >> /\ Head(rx_fifo \o keys) = CTRL_C -> "in_flight"
              [] ctrl_c = "none" /\ CTRL_C \in Range(keys) ->
                   IF serializer.state = "IDLE" /\ rx_fifo = << >> THEN "in_flight" ELSE "received"
              [] OTHER -> ctrl_c

count_idle ==
  tx_idle_cycles' = IF ctrl_c' # "sent" THEN tx_idle_cycles
                    ELSE IF decoder'.state = "IDLE" THEN tx_idle_cycles + 1 ELSE 0

-----------------------------------------------------------------------------
(***************************************************************************)
(* The program polls STATUS before each access, and answers what it read   *)
(* before it reads again.                                                  *)
(***************************************************************************)
Access(op, reg, data) == [op |-> op, reg |-> reg, data |-> data]
CanRead  == program.held = << >> /\ rx_valid
CanWrite == program.held # << >> /\ tx_ready

uart_getc ==
  /\ CanRead
  /\ program' = [held |-> <<Head(rxFifo)>>, delay |-> 0]
  /\ UNCHANGED taken

uart_putc ==
  /\ CanWrite
  /\ program' = [held |-> << >>, delay |-> 0]
  /\ taken' = taken \o program.held

busy ==
  /\ program' = [program EXCEPT !.delay = IF CanRead \/ CanWrite THEN @ + 1 ELSE 0]
  /\ program'.delay <= Slack
  /\ UNCHANGED taken

Tick(bundle, keys) ==
  /\ running
  /\ UartStep(bundle, rx_line_value)
  /\ process_tx(txd')
  /\ poll_input(keys)
  /\ get_rx_line(rx_fifo \o keys)
  /\ ctrl_c_flags(keys)
  /\ count_idle
  /\ running' = ~(ctrl_c' = "sent" /\ tx_idle_cycles' > TX_IDLE_EXIT_THRESHOLD)

Polled == {<< >>} \cup {<<k>> : k \in Keys}

Getc == \E keys \in Polled : uart_getc /\ Tick(Access("read", "RX_DATA", Zero), keys)
Putc == \E keys \in Polled : uart_putc /\ Tick(Access("write", "TX_DATA", program.held[1]), keys)
Busy == \E keys \in Polled : busy /\ Tick(Access("none", "STATUS", Zero), keys)

Next == Getc \/ Putc \/ Busy

Spec == Init /\ [][Next]_vars

-----------------------------------------------------------------------------
TypeOK ==
  /\ UartTypeOK
  /\ decoder.data \in UNION {[1 .. n -> Bit] : n \in 0 .. DATA_BITS}
  /\ serializer.bit_idx \in 0 .. DATA_BITS
  /\ tx_idle_cycles \in 0 .. TX_IDLE_EXIT_THRESHOLD + 1

\* TerminalIsFaithful: the program answers the keys that were typed, each once and
\* in order, and the terminal shows its answers, each once and in order, with keys
\* and answers on the two lines at the same time (sim.cpp:139-278).
TerminalIsFaithful ==
  /\ IsPrefix(taken \o program.held, typed)
  /\ IsPrefix(printed, taken)

\* NothingLostAtExit: the harness leaves only after the program has got every key
\* up to ctrl-C, and its answers to them are on the terminal; keys typed behind
\* ctrl-C may go unanswered (sim.cpp:386-392, 572-596).
NothingLostAtExit ==
  ~running => \E n \in DOMAIN printed : typed[n] = CTRL_C
=============================================================================
