----------------------------- MODULE MCGraphics -----------------------------
(***************************************************************************)
(* The programs that draw on the display, on small instances.  The board   *)
(* runs one binary; which one is chosen at the start, and the variables of *)
(* the others keep one value.                                              *)
(***************************************************************************)
EXTENDS Naturals, Sequences

CONSTANTS
  \* Tetris: a well of 4 x 4, drawn one pixel a cell
  Shapes, GRID_WIDTH, GRID_HEIGHT, SCREEN_WIDTH, SCREEN_HEIGHT, BLOCK_SIZE,
  GRID_OFFSET_X, GRID_OFFSET_Y, PREVIEW_X, PREVIEW_Y, MaxPieces,
  \* the keys of tetris
  PressedKeys, Capacity,
  \* T-Rex
  TRexWords, CACTUS_START,
  \* Nyancat
  NyanFrames, NyanWords, PIXELS_PER_WORD, Colors, Params, LONG, VERY_LONG

VARIABLES
  program,
  grid, current_block, next_block, bag, game_state, idle, tetris_pc, screen, locked, dealt,
  line, fifo, at, pressed,
  dino_y, y_velocity, setdown_times, cactus_x, body_picture, vga_framebuffer, vga, rx, trex_pc,
  movie, build, frame, pos, current_color, frame_buffer, prev_frame_buffer, nyan_vga, phase

Tetris == INSTANCE Tetris WITH pc <- tetris_pc
Input == INSTANCE TetrisInput WITH Keys <- PressedKeys
TRex == INSTANCE TRex WITH NUM_FRAMES <- 1, WORDS_PER_FRAME <- TRexWords, pc <- trex_pc
Nyancat == INSTANCE Nyancat WITH NUM_FRAMES <- NyanFrames, WORDS_PER_FRAME <- NyanWords

tetris_vars == <<grid, current_block, next_block, bag, game_state, idle, tetris_pc, screen, locked, dealt>>
input_vars == <<line, fifo, at, pressed>>
trex_vars == <<dino_y, y_velocity, setdown_times, cactus_x, body_picture, vga_framebuffer, vga, rx, trex_pc>>
nyancat_vars == <<movie, build, frame, pos, current_color, frame_buffer, prev_frame_buffer, nyan_vga, phase>>
vars == <<program, tetris_vars, input_vars, trex_vars, nyancat_vars>>

\* A program that does not run.
TetrisOff ==
  /\ grid = 0 /\ current_block = 0 /\ next_block = 0 /\ bag = 0 /\ game_state = "OFF"
  /\ idle = 0 /\ tetris_pc = "off" /\ screen = 0 /\ locked = 0 /\ dealt = 0
InputOff == line = << >> /\ fifo = << >> /\ at = "off" /\ pressed = << >>
TRexOff ==
  /\ dino_y = 0 /\ y_velocity = 0 /\ setdown_times = 0 /\ cactus_x = 0 /\ body_picture = 0
  /\ vga_framebuffer = 0 /\ vga = 0 /\ rx = "none" /\ trex_pc = "off"
NyancatOff ==
  /\ movie = 0 /\ build = 0 /\ frame = 0 /\ pos = 0 /\ current_color = 0
  /\ frame_buffer = 0 /\ prev_frame_buffer = 0 /\ nyan_vga = 0 /\ phase = "off"

Init ==
  \/ program = "tetris"  /\ Tetris!Init /\ InputOff   /\ TRexOff   /\ NyancatOff
  \/ program = "input"   /\ TetrisOff   /\ Input!Init /\ TRexOff   /\ NyancatOff
  \/ program = "trex"    /\ TetrisOff   /\ InputOff   /\ TRex!Init /\ NyancatOff
  \/ program = "nyancat" /\ TetrisOff   /\ InputOff   /\ TRexOff   /\ Nyancat!Init

RunTetris ==
  /\ program = "tetris" /\ Tetris!Next
  /\ UNCHANGED <<program, input_vars, trex_vars, nyancat_vars>>
RunInput ==
  /\ program = "input" /\ Input!Next
  /\ UNCHANGED <<program, tetris_vars, trex_vars, nyancat_vars>>
RunTRex ==
  /\ program = "trex" /\ TRex!Next
  /\ UNCHANGED <<program, tetris_vars, input_vars, nyancat_vars>>
RunNyancat ==
  /\ program = "nyancat" /\ Nyancat!Next
  /\ UNCHANGED <<program, tetris_vars, input_vars, trex_vars>>

Next == RunTetris \/ RunInput \/ RunTRex \/ RunNyancat

\* The fairness of tetris: the program runs, nobody has to press a key.
Spec == Init /\ [][Next]_vars /\ WF_tetris_pc(program = "tetris" /\ Tetris!GoesOn)

-----------------------------------------------------------------------------
(***************************************************************************)
(* The properties of the programs, each for the board that runs it.        *)
(***************************************************************************)
\* The variables of the program that runs have their types.
TypeOK ==
  /\ program = "tetris" => Tetris!TypeOK
  /\ program = "input" => Input!TypeOK
  /\ program = "trex" => TRex!TypeOK
  /\ program = "nyancat" => Nyancat!TypeOK

\* The falling block overlaps nothing while the game goes on (tetris_grid.c:293-358).
BlockIsFree == program = "tetris" => Tetris!BlockIsFree

\* Relief, colours and rows of the grid tell the same (tetris_grid.c:64-125).
RecordsAgree == program = "tetris" => Tetris!RecordsAgree

\* No shape is dealt two times more often than another (tetris_shape.c:102-137, 205-212).
BagIsFair == program = "tetris" => Tetris!BagIsFair

\* The display shows the state the player acts on (tetris.c:402-412).
DisplayShowsGame == program = "tetris" => Tetris!DisplayShowsGame

\* A piece locks where it comes to rest, and its cells are all accounted for
\* (tetris_grid.c:127-160, 248-291).
LocksWhole == [][program = "tetris" => Tetris!LocksWholeStep]_vars

\* The rows that are not full come down whole and in their order
\* (tetris_grid.c:98-111, 132-139).
RowsFallInOrder == [][program = "tetris" => Tetris!RowsFallInOrderStep]_vars

\* Gravity wins over the player (tetris.c:479-497).
PieceLands ==
  \A n \in 0 .. MaxPieces - 1 :
    (program = "tetris" /\ locked = n) ~> (locked > n \/ tetris_pc \in {"paused", "over"})

\* The game sees the pressed keys, each once and in order (tetris.c:99-169).
InputsFollowKeys == [][program = "input" => Input!InputsFollowKeysStep]_vars

\* The dino stays in the band of the picture that is cleared and uploaded
\* (trex/draw.c:193-196, 278; trex/play.c:31-50).
DinoInBand == program = "trex" => TRex!DinoInBand

\* The display shows the dino, the cactus and the horizon, and nothing older
\* (trex/draw.c:156-203).
PictureShowsGame == program = "trex" => TRex!PictureShowsGame

\* Every uploaded frame holds its picture (nyancat.c:100-252).
FramesHoldPictures == program = "nyancat" => Nyancat!FramesHoldPictures
=============================================================================
