# MyCPU 4-soc: a verification project

The repository is a pipelined RV32I SoC written in Chisel (`src/4-soc`): a five-stage
core with branch prediction, a CLINT, an AXI4-Lite bus with a memory, a VGA text/pixel
device and a UART, a Verilator harness, and the C programs that run on it (a shell,
tetris, a runner game, demos).  The modules here model it in TLA+, TLC checks them on
small instances, and TLAPS proves the main theorems for every instance.

All of the hardware sits in one clock domain (VGA adds a second one), so a step of a
hardware module is one rising clock edge: every register takes its next value from
registers and wires of the same cycle.  A component module defines, for each of its
states, what its registers become given its input wires (`Step(in)`), and a composing
module connects the wires and conjoins the steps into one `Tick`.

## 1. Inventory

| Part | State it keeps | Operations | Talks to | What is hard |
|---|---|---|---|---|
| AXI4-Lite master (`bus/AXI4Lite.scala`) | FSM, address, data, five channel flags, completion pulses | start read/write, one transition per handshake | MEM stage, switch | one-cycle pulses, VALID stability |
| AXI4-Lite slave adapter (same file) | FSM, address, strobes, response | accept address, strobe the device once, respond | switch, one device | side effects of reads must happen once |
| Bus switch (`bus/BusSwitch.scala`) | latched selections | decode, gate VALIDs, route responses | CPU latch, master, slaves | three copies of one address |
| DummySlave (`peripheral/DummySlave.scala`) | pending flags | error responses | switch | which regions really reach it |
| CPU wrapper (`riscv/core/CPU.scala`) | bus address latch | latch on start | core, master, switch | staleness of the latch |
| MEM stage (`riscv/core/MemoryAccess.scala`) | stall FSM, latches | load, store, pass; byte lanes | EX2MEM, MEM2WB, master | stall release, bypass of the latch |
| IF stage (`riscv/core/InstructionFetch.scala`) | pc, pending jump | next, jump, hold, redirect | predictors, ID, memory | redirects that arrive during stalls |
| Hazard control (`riscv/core/Control.scala`, `PipelinedCPU.scala`) | none; wires and three sticky flags | stall and flush each register | all stages | several hazards in one cycle |
| Forwarding (`riscv/core/Forwarding.scala`) | none | pick the newest value | ID, EX, MEM, WB | stale operands |
| ID, EX, ALU, WB (`riscv/core/*.scala`) | none | decode, compute, select | pipeline registers | wide case tables |
| RegisterFile | 32 registers | read, write | ID, WB | x0, write-through |
| Predictors: BTB, RAS, IndirectBTB | tables, stack, ages | predict, train, push, pop, restore | IF, ID | stack at its limits, aliasing, LRU |
| CLINT and CSR (`CLINT.scala`, `CSR.scala`) | mstatus, mepc, mcause, mie, mtvec, counters | take trap, return, read/write CSR, count | ID, IF, interrupt lines | the same CSR written from two sides; traps in stalled cycles |
| UART (`peripheral/UART.scala`) | shift registers, FIFO, buffer, interrupt flag | send, receive, register reads and writes | adapter, lines, CPU interrupt | overrun, interrupt set and cleared in one cycle |
| VGA (`peripheral/VGA.scala`) | frame memory, palette, cursor registers, counters | bus writes, pixel scan, vblank interrupt | adapter, display | two clocks, write-one-to-clear racing the edge |
| Timer (`peripheral/Timer.scala`) | count, limit, enabled | count, registers | not on this board | boundary of the limit |
| Memory, ROMLoader, InstructionROM | words | read, write, load program | test benches only | write strobes |
| Harness (`verilog/verilator/sim.cpp`) | memory, UART terminal machines, exit timer | clock, serve memory, bridge stdin, leave on ctrl-C | Top | bit timing; keys and answers at once; leaving while a byte is on the line |
| Shell (`csrc/shell.c`) | one line buffer, cut up in place | edit, parse, `mem`, `memw`, `perf`, numbers in and out | UART and counters by MMIO and CSR | a buffer used again uncleared; borders of the line; widths of numbers |
| Tetris (`csrc/tetris/`) | grid with relief and row bits, falling block, bag, timer | move, turn with kicks, drop, lock, clear lines, draw, upload; decode keys | UART, VGA | the rim of the well, several full rows, a kick that fails, bytes of a key one by one |
| T-Rex (`csrc/trex/`) | position and speed of the dino, cactus, picture | jump, pull down, scroll, crash, draw and upload a band | UART, VGA | speeds reached only by a pull in the air; what lies outside the band |
| Nyancat (`csrc/nyancat.c`, `nyancat-frames.h`) | decoder, two frame buffers | decode an opcode, upload, animate | VGA | frames coded as differences |
| Text interface (`csrc/tui copy.c`) | output buffer; screen, dirty tiles, cached cursor and attributes | write, flush; print, clear, refresh | terminal by `write`/`writev` | short writes, limits of pools, caches that go stale |

What makes each correct: an access reaches its own device once and returns that
device's word; every fetched instruction is executed once and in program order whatever
stalls, predictions and redirects meet; operands are the newest values; predictors
affect speed only; a trap resumes at the instruction it interrupted; the UART loses no
byte without saying so and no interrupt without software having cleared it; counters
count what their comments say; a game shows the state it acts on and keeps its rules at
every rim; a line of the shell means what was typed; the terminal shows what was printed.

## 2. Plan

| Step | Modules | State |
|---|---|---|
| 1. Bus fabric | `AXI4LiteMaster`, `AXI4LiteSlave`, `BusSwitch`, `DummySlave`, `MemoryAccess`, composed by `BusFabric`, which refines `LoadStore` | modelled, checked, safety proved |
| 2. Pipeline and predictors | `Instructions`, `Control`, `Forwarding`, `BranchTargetBuffer`, `ReturnAddressStack`, `IndirectBTB`, `InstructionFetch`, composed by `PipelinedCPU`, which is compared with the sequential `Hart` | modelled, checked |
| 3. UART | `UART`, composed with the harness and a program by `UartLoopback` | modelled, checked; types, interrupt flag and delivery proved |
| 4. Pipeline theorems | `PipelineProofs`: types, operands, branch hazards, predictors, and sequential execution of plain programs | proved |
| 5. Traps | `CSR`, `CLINT`, connected in `PipelinedCPU`; interrupts, calls and returns of `Hart` | modelled, checked |
| 6. VGA | registers and upload port: `VGA`, under the programs of step 8; blanking, its interrupt and the second clock | the first half modelled |
| 7. Serial peers | `Terminal`: the terminal of `sim.cpp` in front of `UART`; `Shell`; composed by `MCText` | modelled, checked; what the terminal passes and the line of the shell proved |
| 8. Programs on the display | `TetrisShapes`, `TetrisGrid`, `TetrisDraw` under `Tetris`; `TetrisInput`; `TRex`; `Nyancat`; composed by `MCGraphics` | modelled, checked; types and every safety property proved |
| 9. Text interface | `TuiOutput`, which refines `ByteStream`; `TuiScreen`; composed by `MCText` | modelled, checked; the refinement, the screen and its caches proved |
| 10. More theorems | `BusFabricProofs`: also the handshake rule and the refinement of the fabric; `TetrisProofs`, `GraphicsProofs`: the programs on the display; `TerminalProofs`: the terminal of the harness; `TextProofs`: the output buffer and the line of the shell; `ScreenProofs`: the screen | proved |

`BusFabric` and `PipelinedCPU` meet at the MEM stage: both instantiate `MemoryAccess`.
`BusFabric` puts the real bus behind it and an arbitrary instruction stream in front;
`PipelinedCPU` puts the real pipeline in front and, behind it, the bus reduced to what
`BusFabric` shows of it (free, busy for any number of cycles, done for one).

## 3. Modules and code

A definition that starts with "Variant:" in its comment is a deliberate mistake: no
other definition uses it.  It is there to show that a property fails when the code is
changed that way.

### The bus fabric

- `AXI4LiteMaster` (`bus/AXI4Lite.scala`): `m` is the register file of the master; one
  operator per state of its FSM.
- `AXI4LiteSlave`: `slave[p]` is the adapter of the peripheral at port `p`;
  `Idle`, `ReadAddr`, ... are the branches of its `switch`.
- `BusSwitch`: the decoder is combinational (`sel`), the response paths use latched
  selections. `DummySlave`: its three registers.
- `MemoryAccess`: `mem_access_state` and the latches of the MEM stage; `Step` is the
  `when` chain of the source with its order.
- `BusFabric`: the wires of `CPU.scala` and `Top.scala`. `Top.scala` connects the
  DummySlave to every reserved port in turn and Chisel's last connection wins, so its
  request wires belong to the last port only (`DummyPort`).
  `op` is the instruction in EX2MEM, `dev` the word each device holds, `effects` counts
  strobes. Devices in `Slow` may delay a read.
- `LoadStore` is the abstract specification: an access waits, takes effect once, and its
  result is written back.

### The pipeline

- `Instructions`: what decoding yields. `rd` is kept for stores and branches too, because
  ID passes bits 11..7 on unconditionally and the hazard unit looks at them.
- `Control`, `Forwarding`: the combinational units.
- `BranchTargetBuffer`, `ReturnAddressStack`, `IndirectBTB`: tables with lookup and
  training; `InstructionFetch` combines them with the program counter and the jump latch.
- `PipelinedCPU`: the four pipeline registers, the operands, the branch decision, the
  checks of predictions, and `Tick`. `load_finished` is `instruction_valid`, low only
  before the program is loaded.
- `CSR`, `CLINT`: the six trap registers, and the controller, which has no state of its own:
  in each cycle it looks at the instruction in ID and at the interrupt line, redirects IF and
  rewrites mstatus, mepc and mcause, with the write of EX merged in. `interrupt` is the line,
  and may change in every cycle where `Interrupts` lets it. The two bits of mstatus and the
  one of mie that the hardware looks at are placed side by side, so that small words hold
  them.
- `Hart` executes a program one instruction at a time. A step of it is a change of the
  registers or of the memory that a program can see; the refinement keeps `at`, the
  address at which sequential execution stands, and `csr_at`, its CSRs there. When an
  interrupt comes is not for the program to say, but where it comes is: `marks` follows the
  instruction behind which CLINT took it down the pipeline, and as that leaves MEM the address
  saved in mepc is appended to `due`. `Hart` takes the interrupt when it stands at that
  address, and at no other.

### The UART

- `UART`: transmitter, one-byte buffer, receiver, FIFO, interrupt flag. Bytes are
  sequences of bits; `BIT_CNT` and `START_CNT` are computed as in the source.
- `UartLoopback`: outside terminal mode the harness ties the transmit line to the receive
  line; the program may access any register in any cycle. The AXI4-Lite adapter in front
  strobes each access for one cycle, which is what the fabric shows (`ExactlyOnce`).

### The programs on the display

The board runs one binary at a time.  `MCGraphics` chooses which one at the start
(`program`); the variables of the others keep one value.  `MCText` does the same for the
programs with text (`running_program`).

- `TetrisShapes`, `TetrisGrid`, `TetrisDraw` are the functions of the three files as
  operators on the structures `grid_t` and `block_t` and on the framebuffer: a row is the
  set of its occupied columns, a picture the function of its lit pixels.  The loop that
  removes full rows is modelled round by round: a `clear_round` removes the row at which the
  loop stands and stays there when that row is full, and goes up one row when it is not;
  `clear_loop` is the fold of as many rounds as the loop can take.  `Tetris` is the
  loop of `main`: "draw" clears, draws and uploads, "input" takes at most one input, "tick"
  lets gravity pull.  `locked` and `dealt` are history.
- `TetrisInput` is `input_poll` byte by byte: `at` is the place in the function at which it
  waits, `fifo` what the UART holds, `line` what is on its way.  All its inputs are there,
  pause and quit included; after a quit the game reads no more (`at` is "over").
- `TRex` is the loop of `play`: key, motion and crash, scrolling, drawing of the band, show.
- `Nyancat` is the decoder: `phase` says which loop of `main` runs, `movie` holds the coded
  frames.  The coder is `src/scripts/gen-nyancat-data.py`, which takes the longest run or skip
  at each pixel and the shortest opcodes for it.  `run_is_true` and `skip_is_true` allow all that
  it writes and every other coding of runs and skips that decodes to the pictures, so that the
  result is about the decoder and not about the choices of the coder.
- `VGA` holds the registers these programs write; the upload address runs through a frame
  and wraps in it, a frame shows when it is selected.

### The programs with text

- `Terminal` puts the terminal of `sim.cpp` (`tx_` and `rx_` machines, the exit timer) in
  front of `UART` and a program that answers each byte with one byte; `shown` and the like
  are history.
- `Shell`: `line_buf` and `len` are those of `read_line`; Enter runs parser and command to
  their end and leaves what they print in `answer`.  `term` is what the terminal shows of
  the line.
- `ByteStream` promises of buffered output: every byte once and in order, in portions of any
  size.  `TuiOutput` is the buffer with its two ways out, `writev` over vectors and `write`
  over one buffer; its `waiting` is what the caller of a flushing call still has to add.
- `TuiScreen`: `screen` and `prev` are the two buffers of the standard window, `tiles` the
  list of dirty tiles (`use_hierarchical_tiles` as the source decides it), `cache` what the
  program believes of cursor and attributes, `terminal` what is so.

## 4. Runs

| Run | Question | Bounds |
|---|---|---|
| `fabric` | Does each access reach its own device once, return that device's word, and keep the AXI rules? Is it a refinement of `LoadStore`? | four ports (two peripherals, one reserved, the DummySlave), an address each, two words, two registers |
| `fabric_live` | Does an access to a peripheral or to the DummySlave complete? | the same board, one register |
| `fabric_unmapped` | The comments promise that *every* region is answered: violated | the same |
| `pipe_sequential` | Do programs run as if one instruction followed the other? | all programs of five words from six families: branches, loads and stores, forward jumps, loops of all of them (`PlainPrograms`), calls with their returns (`CallPrograms`), and indirect jumps and returns whose targets change (`IndirectPrograms`) |
| `pipe_mixed` | Operands, jump decisions, predictors, types, release of stalls | all 512 programs of three words over eight instructions, one of each kind |
| `pipe_traps` | Does a program go on after an interrupt, a call of the handler or a write of a CSR as if nothing had come between? | 60 programs of twelve words: four that set up the CSRs, a loop of two, a handler of three; the interrupt line at either level in each cycle |
| `pipe_back_jump`, `pipe_branch_field` | One program each that does not run as it should: the head of a loop is executed twice, or the pipeline stops for ever; violated | 4 and 3 words |
| `uart_loopback` | Is every byte delivered once, in order and intact? Does the flag follow the FIFO? Does a byte always arrive? | two bits a byte, three cycles a bit, the real FIFO of four, five bytes ahead |
| `uart_overrun` | What happens to the byte after those? violated | FIFO of two, four bytes ahead |
| `graphics` | Do the games keep their rules and show what they act on, does every piece of tetris come down? Does each frame of the film hold its picture? | well of 4 x 4, three shapes, five pieces, cells of one pixel; nine keys, pause and quit among them, five bytes of room; all 64 rows of T-Rex with a cactus from its real column; three frames of two words of two pixels |
| `text` | Does the terminal pass every byte, the shell obey the line that is shown, the output buffer keep the stream, a refresh show what was printed? | bytes of two bits, three cycles a bit, five keys; lines of five characters, three words, numbers below 1024; vectors of four, pools of four to six; a screen of 2 x 6, tiles of 2 and 4 columns |

**Why the bounds are enough.** The fabric has no counter and one transaction at a time;
two words tell a fresh value from a stale one, one address per port tells the ports
apart, and the theorems of section 6 lift the safety part to every board. In the
pipeline, five instructions are in flight, so that three to five words give every pair
and triple of neighbours, loops included; addresses, register values and the memory word
are numbers modulo the length of the program; two entries of each predictor make
collisions, replacement and overflow happen. In `pipe_traps` the interrupt may come in
any cycle, so it meets each instruction of the loop and of the handler in each stage, the
return from an earlier interrupt included. The UART's behaviour depends on the phase of
the line and on the number of bytes in flight: two data bits, three cycles per bit (an odd
number, from rates that do not divide) and every byte value give all phases; the FIFO has
its real depth, and the credit of five is the largest that does not overrun.

The well is narrower and lower than the real one, so that full rows, stacks to the rim and
several rows cleared at once come with few pieces; the three shapes are the square, the T
and the bar, which need no kick, one kick and both; five pieces empty the bag once and fill
it again.  T-Rex has the constants of the source.  The decoder of nyancat sees every pair of
pictures of four pixels and every legal coding.  The threshold of the harness is larger than a frame
on the line, as 50000 is than ten bits of 434; a line of five characters is shorter than two words and
a number of its commands, so every way of not fitting occurs; the screen is wider than two
tiles of the upper level, the pool of tiles smaller than what a full refresh asks for.

**Two instructions that look alike hide errors.** With two additions that differ only in
names, wrong control flow had no visible effect; the families of `pipe_sequential` use
instructions whose effects depend on how often and in which order they are executed.

**Fairness.** Hardware steps are clock edges, and nothing but the clock is assumed to go
on: `WF_vars(Next)` for the UART, whose program may do as it likes. A memory that can
delay an answer must answer in the end: `PromptTick` (fabric) and `Tick(TRUE)` (pipeline)
are weakly fair. The harness justifies both: `sim.cpp` toggles the clock for ever and
answers a memory request at the next edge.  Of tetris it is assumed that the program
runs (`WF` of its rounds, `GoesOn`): nobody has to press a key, and a key may come in every
round.  Its loop blocks on nothing. `text` has no liveness and lets behaviours end, because the harness leaves its loop
on ctrl-C.

## 5. Where code and promise part

The runs with an expected violation show the first, the second and the third of these, and
`uart_overrun`.  The program shapes that follow have no run of their own: each is a set of
programs in `MCPipeline` that violates `ExecutesSequentially` when it is put in the place of
`Programs` in `pipe_back_jump.cfg`, with the number of words given (and with
`Interrupts = {FALSE, TRUE}` where interrupts are spoken of).

- `fabric_unmapped`: only port 7's requests reach the DummySlave; a load from another
  reserved region stalls the core for ever, against the comments of `BusSwitch` and
  `DummySlave`.
- `pipe_back_jump`: a loop whose backward jump comes two instructions behind a load. The
  jump is predicted correctly and decided in ID while MEM stalls; the IF stage latches it
  all the same and redirects to the target again when the stall ends, so that the head of
  the loop is executed twice. With the latch taken out of the model this program runs as
  it should: ID decides again after the stall.
- `pipe_branch_field`: bits 11..7 of a branch are part of its offset; when they name one of
  its operands, the branch in EX keeps its own copy in ID waiting, for ever.
- `StoreThenLoad` (3 words): with a load directly behind a store the front end stops, but EX gets no
  bubble: the instruction behind the load is executed twice.
- `LinkReadBehindLoad` (4): the flush of ID2EX for the hazard on a link is not held back while MEM
  stalls; the instruction that waits in EX is lost.
- `CallAndReturn` (7): only a prediction of the BTB keeps IF from redirecting again; after a return
  predicted by the return address stack the instruction behind the call is executed twice.
- `CsrTwice` (4): ID reads a CSR from its register while EX writes it; two neighbouring
  `csrrw` of `mscratch` exchange a stale word.  In the same way `csrr` directly behind a write
  of the same CSR undoes the write and, if it is mstatus, turns interrupts off again.
- `BranchNotTaken` (12, interrupts): mepc is taken from the jump wires of ID (`InstructionDecode.scala:190`),
  so an interrupt while a branch that is not taken stands in ID resumes at its target.
- `LoadInLoop` (12, interrupts): an interrupt is taken while a jump waits in ID behind a load.  The jump
  goes on to EX all the same, its target is latched by the next stall, and the handler is left
  for the loop it interrupted, with interrupts off.
  On the board these two cannot happen: the harness ties the interrupt line low (`sim.cpp:407`).
- `JumpBehindLoad` and `JumpThroughItsLink` (5): the first goes wrong by the latch of
  `pipe_back_jump`, the second, as `StoreThenLoad`, because the jump in ID is copied into EX
  while it waits.
- `ecall` that waits in ID (for a load of the handler's) shifts MIE into MPIE twice, seen
  while `TrapPrograms` was chosen.
- The programs of `pipe_sequential` and `pipe_traps` are chosen to avoid all these shapes, and
  the comments in `MCPipeline` say how: what they show is that nothing else is wrong within
  their bounds.  The families with calls do execute instructions twice behind a correctly
  predicted return or indirect jump (`CallAndReturn`); there these are instructions that may
  be executed twice without a trace, and what is left to fail is the flush of a wrong path:
  with the comparison of targets dropped, for the return address stack or for the IndirectBTB,
  the run is violated.
- `csrr` is decoded as `csrrs` with x0 and writes back what it has read, one cycle later.
  Read from the code only, as the counters are left out: `read_mcycle` in `shell.c:217` sets
  the cycle counter back a little each time; and the high word of a counter is latched
  whenever bits 31..20 of the instruction in ID spell the address of its low word, whatever
  that instruction is. `__trap_entry` of `init.S` loads STACK_LIMIT into t0 before it has
  saved t0.
- `uart_overrun`: a low level and not a falling edge starts a reception, so that after
  an overrun the receiver takes the middle of a frame for a new one.
- The header of `shell.c` promises editing and a history of commands; what the code has is
  insertion at the end and backspace (`shell.c:268-295`).  The comment at `shell.c:293` says
  that other control characters are ignored, but of an arrow key only the escape byte is: the
  two bytes behind it, "[" and "A", go into the line.
- `shell.c:497` computes the cycles per instruction from `cycles * 100` in 32 bits, which
  wraps after 43 million cycles; `CommandsObeyLine` states what is printed then.
- A paste overruns the receiver: a key takes eleven bit times on the line and its echo twelve,
  so that a program which waits for each echo falls behind.  Keys typed behind ctrl-C may go
  unanswered (`NothingLostAtExit` is about what was answered).  `sim.cpp` waits for a
  "Goodbye!" that no program prints.
- In `tui copy.c` the cursor is remembered behind the last column, where the
  terminal still stands on it; a relative move from there ends a column off, and what is drawn
  next stands in the wrong place.  The history variable `strayed` records it, and
  `ScreenShowsWindow` and `CachesTellTerminal` excuse what follows: they say that nothing else
  goes wrong.  A full redraw of 100 columns, whose last tile is four wide, does it.  To see it in the model, let `Next`
  of `TuiScreen` run by itself with one text of one character: `~dirty.has => terminal.cells =
  screen`, without the excuse, is violated, with the second character a column to the left.
- When the pool of dirty tiles of `tui copy.c` is used up, a tile or block is silently not
  listed and the changes in it are forgotten undrawn: with a pool of three, too few for the
  tiles and blocks of its screen, `ScreenShowsWindow` is violated.  The source has 512 places and allows
  128 x 64 tiles; a screen of 256 columns by 128 rows uses all places before the first block
  is listed.  Left out of the model, seen while reading: ECH clears
  one row of a window (`tui copy.c:3538-3602`), and `tui_init_pair` may allocate a color pair
  twice when a pair below ten is set first.
- `game_loop`, `game_update` and `game_render` of `tetris.c` are called by nobody; `main` has
  its own loop, without score and level.
- The source counts completed stores by `mem.io.bus.write && mem.io.bus.write_valid`, two
  wires that are never up together; the counters are left out, so no property says it.
- A write to INTERRUPT, called "enable" in the register list, sets or clears the pending
  flag itself, and has priority over an arrival in the same cycle, as the comment at
  `UART.scala:253` says.  `InterruptTellsFifo` therefore excuses the time after such a write: a
  program that clears the flag as a byte arrives has to look at STATUS itself.

## 6. Theorems

### The bus fabric

`BusFabricProofs` proves, for every set of ports, peripherals, addresses, words and
registers that satisfies `FabricAssumption`, and for any set of slow devices: type
correctness (`TypeCorrect`), `RouteStable`, `NoCrossTalk`, `StallInStep`, `EffectOnce` and
`LoadCorrect`, one for each invariant of run `fabric`. None of the five is inductive by
itself. The invariant `IInv` adds what ties the parties together: which wires of the master
are up in each state (`MasterWires`), that MEM waits for what the instruction asked
(`StallMatchesOp`), which selections the switch has latched (`Latches`), and in which phase
of the transaction the target is, together with the count of effects and the word in the
adapter (`TargetPhase`). The proof of a step has a lemma for an edge outside
transactions, and one for each state of the master, split by whether a peripheral or the
DummySlave answers.

`BusFabricProofs` also proves that the fabric implements the abstract memory access
(`FabricImplementsLoadStore`, `Spec => LoadStoreIsAtomic`): initial states map to initial
states, and each clock edge is a step of `LoadStore` or changes nothing there.  The argument
follows `IInv`: outside transactions nothing abstract changes but the start of an access;
within one, the phase of the target decides whether the access waits, has had its effect,
or delivers.  The same invariant gives the handshake rule on every channel
(`HandshakesHold`, `Spec => HandshakeStable`): what lowers a VALID is a state of the master
or of the adapter that is left only with READY up.

### The UART

`UartLoopbackProofs` proves, for every rate that fits the counters, width of a byte, depth
of the FIFO, payload and credit: `TypeCorrect` (the FIFO never holds more than its entries,
also when it is read and filled in one cycle while full) and `FlagCorrect`
(`InterruptTellsFifo`, inductive once types are known).

`BytesAreIntact` proves `BytesArriveIntact`, which is about the timing of the line, at every
rate of at least three cycles a bit (`RateFits`) and while the program is ahead of its reading
by no more bytes than the FIFO and the receiver hold (`CreditFits`).  Run `uart_overrun` shows
that the second cannot be left out. Nor can the first: at a clock of 249 and a rate of 100, two
cycles a bit, the reload values are rounded to 1 and 3, the sample falls into the next bit, and
TLC finds the property violated; at other rates of two cycles it holds.  The invariant `BytesInv` says that the bytes sent and not read
stand one behind the other in the FIFO, in the receiver, on the line and in the buffer.  For
the byte on the line it needs the time.  `cycle` counts the cycles of a frame from the
transmitter's registers; `Sending` gives, as a function of it, what stands on the line and
what the two registers of the synchronizer hold one and two cycles later; and the receiver is
waiting for the start bit, or takes its next sample at `due`, a cycle in which the bit it is
to sample has reached it (`SampleInBit`: the rounding of the two reload values leaves the
sample within its bit), or looks at the stop bits, which cannot start a reception.  Lemmas lead
transmitter and receiver over one edge each (`FrameBegins`, `FrameGoesOn`, `FrameEnds`,
`StartBitFound`, `SamplesGoOn`, `ListensOn`), `LineMoves` puts them together, and `RoomForHeld`
uses the credit: a receiver that holds one byte while another is on the line finds room in the
FIFO.

### The programs on the display

`GraphicsProofs` states each safety property of run `graphics` for every value of the
constants.  The board runs one of four programs, so each invariant says "while the board
runs this one".  The part about tetris is proved in `TetrisProofs`,
about the program by itself, and carried over: `GraphicsProofs`
instantiates this module, and the lemmas `SameShapes`, `SameGrid` and
so on say that the definitions reached in that way are those of the
program on the board.  The parts about T-Rex, nyancat and the keys are proved in place.

- **Tetris**, for every set of at least two of the seven shapes, any number of pieces and any
  well at least four wide and two high (`GameFits`).  `BlockNeverOverlaps` (`BlockIsFree`)
  is a case split over the moves, each of which is tested before it is kept; what makes it a
  theorem about the game is the lock, after which a row may go and the block that comes in is
  tested against the new grid.  `GridRecordsAgree` (`RecordsAgree`) and
  `RowsAlwaysFallInOrder` (`RowsFallInOrder`, an action property) rest on the invariant of the loop of
  `grid_clear_lines`, kept by either kind of round (`LoopAt`, `RoundRemoves`, `RoundGoesUp`):
  with the loop at row y and c rows removed, y rows that are not full lay under row y + c of the
  old grid and are now the rows below y, in their order, and what lay higher has come down by c.
  A round raises y or c by one, so that after the rounds of `clear_loop` y is the top
  (`LoopRounds`, `LoopEnds`).  That what the loop recomputes from the rows (relief) and what it
  moves with them (colours) is the same board follows, that no full row is left
  (`NoFullRowRemains`, a part of the invariant), and that each row that was not full has come
  down by the number of full rows below it (`ClearLeaves`).  `BagDealsFairly` (`BagIsFair`) needs to know that the
  bag holds a shape once only: it is an injection, and exactly the shapes in it have been
  dealt once less than the others; a new bag is one of all the shapes, which follows from its
  length and its being injective.  `PiecesLockWhole` (`LocksWhole`, an action property)
  counts: cells of the grid, four more of the piece, less the width for each line gone.
- **The picture of tetris** (`DisplayAlwaysShowsGame`, `DisplayShowsGame`), for every size of
  screen and cell in which well, frame and preview lie beside each other (`LayoutFits`).  What
  an operator of `TetrisDraw` leaves at a point is a lemma each; the theorem puts them
  together in the order of drawing, so that nothing drawn later covers what must be seen.
- **The keys** (`InputsAlwaysFollowKeys`, `InputsFollowKeys`), for any keys of `meaning` except
  the escape key by itself, and any room (`KeysFit`): that key stands in the source as "quit",
  but its byte is also the first of an arrow, so what it means depends on the bytes behind
  it.  The invariant `InputInv` gives each byte under way a tag that is not in the state:
  which key it belongs to, which byte of the key it is, and which input that key is to be.
  The tags of neighbouring bytes fit, the first agrees with the place at which `input_poll`
  stands, and the inputs still expected are those of the tags (`Accounted`).  Pressing a key
  appends tags, reading a byte drops one.
- **T-Rex**, for every column at which a cactus may enter.  `DinoKeepsToBand` (`DinoInBand`):
  speed and position are bounded together, by the set of pairs that a jump, cut short or not,
  can reach (`Flight`).  `PictureAlwaysShowsGame` (`PictureShowsGame`) needs in addition that
  outside the band the picture holds the horizon since the start, that an upload of the band
  replaces what lies in it whole (`BandUploaded`), and that the bottom rows of a skull are among
  those a round draws again.  `PictureFits` fixes the height of 64 rows, which the constants
  of the source assume.
- **Nyancat** (`FilmIsTrue`, `FramesHoldPictures`), for films of any number of frames and
  words, pictures of any colours, and every coding that decodes to them, in both builds of the
  program (`MovieFits`).  The invariant: up to the pixel at which the decoder stands the buffer
  holds the picture, behind it the frame before (`Decoded`), and the frames uploaded so far hold
  theirs (`Uploaded`).
- **Types** (`GraphicsTypes`): blocks stay where their cells are within four of the well, the
  bag within the shapes, no byte is lost for lack of room.

### The programs with text

**The terminal of the harness.** `TerminalProofs` is about `Terminal` by itself, every rate of at
least three cycles a bit (`RateFits`), every width of a byte, depth of the FIFO, set of keys and
number of keys typed.  `TerminalAnswersInOrder` and `ExitLosesNothing` (`TerminalIsFaithful`,
`NothingLostAtExit`) have one more hypothesis, `[]KeysFit`: of the keys that have left the
terminal, the program never leaves more unread than the FIFO and the receiver hold.  It cannot be
dropped, because the UART drops what it has no room for (run `uart_overrun`), and it is met when
no more keys are typed than there is room for, as in run `text` (`ShortSessionIsFaithful`, whose
hypotheses are about constants only).  The types need none of it.

On the UART's side the argument about time is that of `UartLoopbackProofs`, which is instantiated
(`UP`); new is the other end of each line.  On the way out the decoder of the terminal looks at
each bit once, within the cycles in which it stands on the line (`SeenInBit`): `Follows` gives its
state, counter and bits as a function of the cycle of the frame (`DecoderFollows`), and
`AnswersInv` says that what was taken is what is printed, the byte on the line and the byte in
the buffer, one behind the other.  On the way in the serializer drives the line
(`SerializerDrives`), with its own position in the frame, and `KeysInv` says that what was typed
is what the program has got, what FIFO and receiver hold, the key on the line, and the queue of
the terminal.  The two ways share the UART but not their lines, and the program, which takes from
one and gives to the other, keeps both (`BothMove`).

Leaving is a race between a timeout and an answer.  `ExitInv` follows ctrl-C from the line to the
FIFO, and from there on says that as long as its answer is not on the terminal and the decoder
rests, the idle time has still room for all that has to happen (`Deadline`): the accesses of the
program, each within `Slack` cycles, the stop bit of the frame before, and the start of the
answer.  This is what the threshold is for, and the assumption that it exceeds two bit times and
twice `Slack` is used here and nowhere else.  The programs of run `text` behave as `Terminal`
does or leave it at rest (`TextRunsTerminal`, `TextSpec => Spec`); so the last result holds of
them too (`TextSessionIsFaithful`, in `ScreenProofs`, where `TerminalProofs` is instantiated).

**The output buffer.** `TextProofs` proves that the output buffer of the text interface implements the byte stream
(`StreamImplemented`, `TextSpec => WritesArriveInOrder`), for every set of texts, every size of
the two buffers and of the table of vectors, every threshold at which they are flushed, with and
without vectors, and whatever the kernel takes of a write.  The abstract queue
is what lies in the buffer, or, once a flush has begun, what the vectors still point to, and
behind it the texts that the kernel has not been handed.  It is a fact about pointers that
makes this a queue: the vectors follow each other in the memory, and between two calls they
cover exactly the bytes that are used (the invariant `OutShape`).  From it follow that a
copied text extends the last vector or becomes the next one (`VectorAppended`, `OneVector`,
`TextCopied`), and that after a short write the loop over the vectors drops those that are done
and cuts the next one so that exactly the bytes the kernel did not take are left (`Advanced`).
The lemmas about sums and sequences are by induction over the number of vectors, in the form
`Induction`: a set that holds zero and with each number the next holds all.

**The shell** (`EchoIsTrue`, `EchoShowsLine`), for every set of keys, length of the line and
number of words.  The property speaks of the part of the buffer that is the line; the invariant
`ShellInv` has to say of the rest that it ends (`Ended`), because Enter hands the whole buffer
to the parser, whose searches find nothing in a line without an end: each round of the parser
keeps the end and stops in front of it (`NextParsing`, `ParsedEnds`).  The terminal is blank
behind the cursor, which a backspace has to restore with three characters (`WipedOut`).

**The screen** (`ScreenProofs`: `ScreenIsShown`, `ScreenShowsWindow`; `CachesAreTrue`, `CachesTellTerminal`),
for every size of screen, tile and block, gap between runs, set of texts, attributes and
windows, and for both ways of looking for changes.  Neither property is inductive.  The
invariant `ScreenInv` says of each cell why it may be left out of a refresh: what was drawn and
not forgotten stands on the terminal (`Shows`), and a cell that does not stand there as the
program has it lies in the box and, when tiles are used, in a listed tile and a listed block
(`Missed`); the box always holds a cell that was forgotten (`Boxed`), or drawing it tight would
leave nothing; no tile is listed twice (`Tiled`), so that the pool has room.  `Tracks` is what
the program believes of the cursor; it must also hold after a move has strayed, where the
cursor may be left of where it is believed to be but never right of it.  A step that marks
keeps the invariant because every tile of a rectangle is listed (`RegionMarked`, `AllListed`
and the lemmas about `places`).  A refresh is a fold over tiles, of folds over places.  A fold of
the library is turned into a sequence of drawings, each one step from the last (`AreaSteps`,
`TileSteps`, `BlockSteps`), and along it two things hold: a drawing never makes a cell worse
(`Improves`), and it shows the cells it has come by (`Done`): a changed cell stands in one of
the runs of its row (`RunShown`), which is drawn where it begins.  `RefreshScans` puts the cells
of the box, of the tiles and of the blocks together: what is marked is come by.

**The types** (`TextTypeCorrect`, `TextTypeOK`) follow from these invariants, with one more about
the table of vectors: it never holds more than its entries (`VectorsStayFew`), because a text
that finds it full flushes first, and what a short write leaves is no longer than what was
offered.  That the lists of tiles fit their pool is a count: no tile is listed twice
(`ListingShort`).

### The pipeline

`PipelineProofs` proves of the pipeline, for every set of programs of any length, every set
of registers, every size of the three predictors, any interrupts and any delay of the bus:
that an instruction leaving EX has computed with the newest values (`NewestOperands`,
`OperandsAreNewest`), that a jump decides in ID only with values nothing ahead of it has
still to produce (`NewestForJumps`, `JumpsDecideOnNewest`), that no training leaves a dead
entry or a twin in a predictor (`ConsistentPredictors`, `PredictorsConsistent`), and the
types of all registers (`HardwareTypeCorrect`). None of the first two is inductive. What
EX holds of a register may be older than the newest value, because the instruction in
WB writes the register file while MEM holds EX; the invariant (`OperandsInReach`) is that
it is then still in reach of forwarding: an instruction in MEM or in WB writes that register,
or the value equals that of the register file. It is established when an operand leaves ID
(`LeavingID`) and kept while MEM holds EX (`HeldInEX`). `OperandIsNewest` draws the
conclusion and needs one fact of the memory stage: that it waits for nothing but what the
instruction in EX2MEM has asked for (`MemWaits`), or else the forwarded word would be that
of a load long gone. One hypothesis, `TrapsFit`, is about the abstraction and not about the
code: a word must have room for the two bits of mstatus (a multiple of four words), unless
no program takes a trap.  With it the history has its types too (`TypeCorrect`).

`SequentialExecution` proves `ExecutesSequentially`, the refinement of `Hart`, for programs of
any length that are `Plain`, with the interrupt line low as the harness ties it: additions,
loads, stores, branches and jumps, such that no store is directly followed by a load, no access
to memory by a jump within two instructions, and bits 11..7 of a jump name no register.  Each
condition keeps out a program of section 5 that really goes wrong (`StoreThenLoad`,
`pipe_back_jump` and `JumpBehindLoad`, `pipe_branch_field` and the programs with links);
instructions on CSRs and traps are left to `pipe_traps`. The invariant is `SeqInv`.
Its heart, `Chain(a, b, c)`, reads the pipeline from behind: sequential execution comes to `a`
without a visible change; MEM holds the instruction at `a`, which with the registers as they are
seen leads to `b`, or nothing; EX holds the one at `b`, which with the registers as MEM will
leave them leads to `c`, or nothing; and IF2ID holds the one at `c` with the fetch where the BTB
sends it, or nothing and `c` is to be fetched.  "Nothing" includes the copy of a jump that waits
in ID.  A step moves the chain, puts a gap in it or leaves it (`ChainMoves`, `ChainGaps`,
`ChainFlows`, `ChainWaits`).  `Decides` goes through the ways a jump can be predicted: the fetch
goes on where the jump leads, by its prediction, a correction or a redirect.  The other parts say
that no latch ever holds a jump back (`Latches`), which is where the excluded programs differ,
that the BTB names jumps only (`BtbJumps`), and that MEM carries what is computed from the
visible registers (`DataRight`).  On the side of `Hart` a step goes to the next visible change,
in at most twice `Words` instructions.  That this many are enough needs a counting argument: a
program that stays silent for as many steps as there are addresses has been at one of them
before (`Repeats`), so that a change that the pipeline makes is one that `Hart` comes to
(`AdvancesOn`).

### What they rest on

Assumed: `FabricAssumption`, `UartAssumption`,
`CounterAssumption`, `LoopbackAssumption`, `CPUAssumption`, `InstructionsAssumption`
(sizes are not zero, register 0 exists, programs are made of instructions), and in the
theorems about the programs `GameFits`, `LayoutFits`, `KeysFit` (of `GraphicsProofs`),
`PictureFits`, `MovieFits` and `CACTUS_START \in Nat`, and for the delivery of bytes `RateFits` and `CreditFits`;
`TerminalAssumption` (the terminal counts the same cycles a bit as the hardware, and waits longer
than two bits and two accesses of the program), with `RateFits` and, of every state, `KeysFit` (of
`TerminalProofs`); and
`OutputAssumption` (sizes are numbers, the table of vectors has an entry, texts are sequences),
`ShellAssumption` (the buffer is not empty, backspace and the end of a line are not typed as
characters) and `ScreenAssumption`:
texts are not empty, windows lie on the screen, a block is some tiles wide, and the pool of
dirty tiles has a place for every tile and block of the screen.  The source has 512 places; a
screen of 150 rows of 180 columns has 437 tiles of 8 x 8 and 30 blocks.  TLC evaluates the named
assumptions in the runs, and the values of `graphics` and `uart_loopback`
satisfy the hypotheses of theorems. On the board a bit lasts several hundred cycles.

Only model-checked: `ExecutesSequentially` for programs that are not plain, with CSRs, traps or
forward jumps next to accesses; of the properties of `text`,
the commands of the shell (`CommandsObeyLine`, whose numbers are recursions over digits);
and everything that must happen in the end
(`ReachableAccessCompletes`, `StallsEnd`, `BytesArrive`, `PieceLands`), which the prover does not do.

## 7. Not modelled

- **Counters.** mcycle, minstret and the performance counters with their shadow words and
  mcountinhibit (`CSR.scala`), and the wires of `PipelinedCPU` that feed them: nothing of
  the pipeline depends on them. misa and the identification registers are constants.
- **Traps.** ebreak and the cause of an external interrupt differ from what is modelled by a
  number; the board has one interrupt line.
- **VGA.** Its pixel clock, scan counters, blanking, vertical interrupt and the synchronizers
  between the two clocks: a model of them would be one of metastability and of timing in
  nanoseconds. What the programs see, registers and upload port, is in `VGA`.
- **Data paths.** Immediates, the operations of the ALU and the comparisons of branches
  beyond one each, byte lanes and sign extension of sub-word accesses: functions without
  state, which the tests of the repository enumerate.
- **Not on the board.** `Timer` is instantiated by its test only; `Memory`, `ROMLoader` and
  `InstructionROM` by test benches; the bus arbiter has one request tied high and nobody
  looks at its grants; the restore port of the return stack is tied low; debug ports.
- **Programs.** `vga_test.c`, a list of register exercises; score and level of tetris and
  of T-Rex; the loop of `tetris.c` that nobody calls; of the text interface, UTF-8, color
  pairs, key parsing, resizing and windows refreshed on their own; of `sim.cpp`, the window,
  the command line and the report, which are input and output only.
- **Not the subject.** `Top.v` and `Top.fir` are generated from the Chisel sources; the
  scripts make pictures; `src/common` belongs to the smaller cores of the course.
