------------------------------- MODULE MCText -------------------------------
(***************************************************************************)
(* The programs that speak over a serial line or to a terminal, on small   *)
(* instances: the shell, the terminal of the harness in front of the UART, *)
(* and the output buffer and the screen of the text interface.  Which one  *)
(* runs is chosen at the start, and the variables of the others keep one   *)
(* value.                                                                  *)
(***************************************************************************)
EXTENDS Terminal

CONSTANTS
  \* the shell
  Printable, LINE_BUF_SIZE, MAX_ARGS, WORD_SIZE, HEX_DIGITS, divisors, Worlds,
  \* the output buffer
  Written, MAX_IOVECS, VEC_FLUSH_THRESHOLD, WRITEV_BUFFER_SIZE, WRITEV_DATA_POOL_SIZE,
  OUTPUT_BUFFER_SIZE, BUFFER_FLUSH_THRESHOLD,
  \* the screen
  Rows, Cols, Texts, Attrs, MaxPrints, MAX_GAP, NEAR, TILE_L1_SIZE, TILE_L2_SIZE,
  DIRTY_TILE_POOL_SIZE, Windows

VARIABLES
  running_program,
  line_buf, len, term, answer,
  use_writev, auto_flush, memory, used, vecs, pc, waiting, kernel,
  use_hierarchical_tiles, screen, prev, dirty, tiles, cache, terminal, strayed, prints

\* What a text that is written consists of, and what the fresh memory holds.
Characters == {0} \cup UNION {{text[i] : i \in DOMAIN text} : text \in Written}

ASSUME OutputAssumption ==
  /\ WRITEV_DATA_POOL_SIZE \in Nat /\ OUTPUT_BUFFER_SIZE \in Nat /\ MAX_IOVECS \in Nat \ {0}
  /\ Written \subseteq Seq(Characters)

Shell == INSTANCE Shell
Out == INSTANCE TuiOutput WITH Texts <- Written
Screen == INSTANCE TuiScreen

\* The buffer of the shell holds the end of the line; a backspace is no printable key.
ASSUME ShellAssumption ==
  /\ LINE_BUF_SIZE \in Nat \ {0} /\ MAX_ARGS \in Nat
  /\ Printable \cap {"BS", "NUL"} = {}

\* What stands in a cell and how, and the tiles and blocks of the screen.  The pool has
\* a place for each of them; texts are not empty, and windows lie on the screen.
Glyphs == {" "} \cup UNION {Screen!Range(text) : text \in Texts}
Styles == Attrs \cup {"normal"}
L1Tiles == (0 .. (Rows - 1) \div TILE_L1_SIZE) \X (0 .. (Cols - 1) \div TILE_L1_SIZE)
L2Tiles == (0 .. (Rows - 1) \div TILE_L2_SIZE) \X (0 .. (Cols - 1) \div TILE_L2_SIZE)

ScreenFits ==
  /\ Rows \in Nat \ {0} /\ Cols \in Nat \ {0} /\ MAX_GAP \in Nat
  /\ TILE_L1_SIZE \in Nat \ {0} /\ TILE_L2_SIZE \in Nat \ {0} /\ TILE_L2_SIZE % TILE_L1_SIZE = 0
  /\ DIRTY_TILE_POOL_SIZE \in Nat
  /\ Cardinality(L1Tiles) + Cardinality(L2Tiles) <= DIRTY_TILE_POOL_SIZE
  /\ \A text \in Texts : text \in Seq(Glyphs) /\ text # << >>
  /\ "invalid" \notin Attrs
  /\ \A w \in Windows : /\ w.y \in 0 .. Rows - 1 /\ w.rows \in 1 .. Rows - w.y
                        /\ w.x \in 0 .. Cols - 1 /\ w.cols \in 1 .. Cols - w.x

ASSUME ScreenAssumption == ScreenFits

harness_vars == <<uart_vars, terminal_vars>>
shell_vars == <<line_buf, len, term, answer>>
out_vars == <<use_writev, auto_flush, memory, used, vecs, pc, waiting, kernel>>
screen_vars == <<use_hierarchical_tiles, screen, prev, dirty, tiles, cache, terminal, strayed, prints>>
all_vars == <<running_program, harness_vars, shell_vars, out_vars, screen_vars>>

\* A program that does not run.  The harness rests in its initial state.
ShellOff == line_buf = 0 /\ len = 0 /\ term = 0 /\ answer = 0
OutOff ==
  /\ use_writev = TRUE /\ auto_flush = TRUE /\ memory = << >> /\ used = 0
  /\ vecs = << >> /\ pc = "idle" /\ waiting = << >> /\ kernel = Out!Quiet
ScreenOff ==
  /\ use_hierarchical_tiles = FALSE /\ screen = 0 /\ prev = 0 /\ dirty = 0 /\ tiles = 0
  /\ cache = 0 /\ terminal = 0 /\ strayed = FALSE /\ prints = 0

TextInit ==
  /\ Init
  /\ \/ running_program = "echo"   /\ ShellOff   /\ OutOff   /\ ScreenOff
     \/ running_program = "shell"  /\ Shell!Init /\ OutOff   /\ ScreenOff
     \/ running_program = "output" /\ ShellOff   /\ Out!Init /\ ScreenOff
     \/ running_program = "screen" /\ ShellOff   /\ OutOff   /\ Screen!Init

RunEcho ==
  /\ running_program = "echo" /\ Next
  /\ UNCHANGED <<running_program, shell_vars, out_vars, screen_vars>>
RunShell ==
  /\ running_program = "shell" /\ Shell!Next
  /\ UNCHANGED <<running_program, harness_vars, out_vars, screen_vars>>
RunOutput ==
  /\ running_program = "output" /\ Out!Next
  /\ UNCHANGED <<running_program, harness_vars, shell_vars, screen_vars>>
RunScreen ==
  /\ running_program = "screen" /\ Screen!Next
  /\ UNCHANGED <<running_program, harness_vars, shell_vars, out_vars>>

TextNext == RunEcho \/ RunShell \/ RunOutput \/ RunScreen

TextSpec == TextInit /\ [][TextNext]_all_vars

-----------------------------------------------------------------------------
(***************************************************************************)
(* Values for the constants.                                               *)
(***************************************************************************)
World(w, c, i) == [word |-> w, cycles |-> c, instret |-> i]
SomeWorlds == {World(0, 3, 0), World(900, 3, 7), World(0, 10, 2), World(900, 700, 7)}
Tens == <<1000, 100, 10, 1>>
CtrlC == <<1, 1>>
TypedKeys == {<<1, 1>>, <<1, 0>>}
SomeWritten == {<< >>, <<0>>, <<0, 1>>, <<1, 1, 0>>, <<0, 1, 0, 0, 1>>}
SomeTexts == {<<"a", "b">>}
SomeWindows == {[y |-> 0, x |-> 1, rows |-> 1, cols |-> 2]}

-----------------------------------------------------------------------------
(***************************************************************************)
(* The properties of the programs, each for the machine that runs it.      *)
(***************************************************************************)
\* The variables of the program that runs have their types.
TextTypeOK ==
  /\ TypeOK
  /\ running_program = "shell" => Shell!TypeOK
  /\ running_program = "output" => Out!TypeOK
  /\ running_program = "screen" => Screen!TypeOK

\* What stands behind the prompt is the line that Enter would run (shell.c:268-295).
EchoShowsLine == running_program = "shell" => Shell!EchoShowsLine

\* A line does what it says on the terminal, whatever lines stood in the buffer
\* before it (shell.c:228-251, 299-327, 415-511, 522-552).
CommandsObeyLine == running_program = "shell" => Shell!CommandsObeyLine

Stream == INSTANCE ByteStream WITH Texts <- Written, queue <- Out!Queue

\* The output buffer implements the byte stream: under short writes and flushes at
\* any time each byte reaches the terminal once and in order (tui copy.c:777-1018).
WritesArriveInOrder == Stream!Spec

\* After a refresh the terminal shows what the program printed (tui copy.c:3188-3537).
ScreenShowsWindow == running_program = "screen" => Screen!ScreenShowsWindow

\* What the program believes of cursor and attributes is so at the terminal
\* (tui copy.c:1053-1178, 3068-3172).
CachesTellTerminal == running_program = "screen" => Screen!CachesTellTerminal
=============================================================================
