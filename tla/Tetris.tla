------------------------------- MODULE Tetris -------------------------------
(***************************************************************************)
(* The game of csrc/tetris/tetris.c: the loop of main from the first frame *)
(* on.  A round draws the frame and uploads it in the vertical blank       *)
(* ("draw"), takes one input ("input"), and lets gravity pull ("tick").    *)
(* The times soft_tick and last_drop_time are read only as a difference,   *)
(* kept in idle.                                                           *)
(***************************************************************************)
EXTENDS TetrisDraw

CONSTANT MaxPieces   \* bound: this many pieces are locked at most

VARIABLES
  grid, current_block, next_block,
  bag,          \* the shapes still to be dealt
  game_state,
  idle,         \* soft_tick - last_drop_time
  pc,
  screen,       \* the frame the display shows
  locked,       \* history: pieces locked so far
  dealt         \* history: pieces dealt so far, by shape

vars == <<grid, current_block, next_block, bag, game_state, idle, pc, screen, locked, dealt>>

drop_interval == 2   \* main never follows get_drop_interval

TypeOK ==
  /\ grid \in Grid
  /\ {current_block, next_block} \subseteq Block
  /\ bag \in UNION { [1 .. n -> Shapes] : n \in 0 .. Cardinality(Shapes) }
  /\ game_state \in {"PLAYING", "OVER"}
  /\ idle \in 0 .. drop_interval - 1
  /\ pc \in {"draw", "input", "paused", "tick", "over"}
  /\ \A p \in DOMAIN screen : on_screen(p) /\ screen[p] \in CYAN .. GRAY
  /\ locked \in 0 .. MaxPieces

Init ==
  \E b \in shuffled_bags :
    /\ current_block = grid_block_spawn(b[1])
    /\ next_block = grid_block_spawn(b[2])
    /\ bag = Tail(Tail(b))
    /\ dealt = [s \in Shapes |-> IF s \in {b[1], b[2]} THEN 1 ELSE 0]
    /\ grid = grid_init
    /\ game_state = "PLAYING"
    /\ idle = 0
    /\ pc = "draw"
    /\ screen = black
    /\ locked = 0

-----------------------------------------------------------------------------
frame ==
  draw_preview(draw_block(draw_grid(draw_border(black), grid), current_block),
               next_block.shape)

Draw ==
  /\ pc = "draw"
  /\ screen' = frame
  /\ pc' = "input"
  /\ UNCHANGED <<grid, current_block, next_block, bag, game_state, idle, locked, dealt>>

(***************************************************************************)
(* The block stays where b is: it joins the grid, full lines go, the next  *)
(* block starts, a new one is drawn from the bag, and the game is over if  *)
(* there is no room for the one that starts.                               *)
(***************************************************************************)
LockAndSpawn(b) ==
  /\ locked < MaxPieces
  /\ grid' = grid_clear_lines(grid_block_add(grid, b))
  /\ current_block' = grid_block_spawn(next_block.shape)
  /\ \E full \in bags_to_deal(bag) :
       /\ next_block' = grid_block_spawn(Head(full))
       /\ bag' = Tail(full)
       /\ dealt' = [dealt EXCEPT ![Head(full)] = @ + 1]
  /\ game_state' = IF grid_block_collides(grid', current_block') THEN "OVER" ELSE game_state
  /\ locked' = locked + 1

Fall ==
  /\ can_move_down(grid, current_block)
  /\ current_block' = shifted(current_block, 0, -1)
  /\ UNCHANGED <<grid, next_block, bag, game_state, locked, dealt>>

Land == ~can_move_down(grid, current_block) /\ LockAndSpawn(current_block)

\* What follows the input: the loop ends at once when the game is over.
AfterInput == pc' = IF game_state' = "OVER" THEN "over" ELSE "tick"

NoInput ==
  /\ pc = "input"
  /\ pc' = "tick"
  /\ UNCHANGED <<grid, current_block, next_block, bag, game_state, idle, screen, locked, dealt>>

\* Variant: a sideways move restarts the time to the next drop.
MoveAndWait ==
  /\ pc = "input"
  /\ \E dx \in {-1, 1} : current_block' = grid_block_move(grid, current_block, dx, 0)
  /\ pc' = "tick"
  /\ idle' = 0
  /\ UNCHANGED <<grid, next_block, bag, game_state, screen, locked, dealt>>

Move ==
  /\ pc = "input"
  /\ \E dx \in {-1, 1} : current_block' = grid_block_move(grid, current_block, dx, 0)
  /\ pc' = "tick"
  /\ UNCHANGED <<grid, next_block, bag, game_state, idle, screen, locked, dealt>>

Rotate ==
  /\ pc = "input"
  /\ current_block' = grid_block_rotate(grid, current_block)
  /\ pc' = "tick"
  /\ UNCHANGED <<grid, next_block, bag, game_state, idle, screen, locked, dealt>>

SoftDrop ==
  /\ pc = "input"
  /\ Fall \/ Land
  /\ idle' = 0
  /\ AfterInput
  /\ UNCHANGED screen

HardDrop ==
  /\ pc = "input"
  /\ LockAndSpawn(shifted(current_block, 0, -grid_block_drop(grid, current_block)))
  /\ idle' = 0
  /\ AfterInput
  /\ UNCHANGED screen

\* The inner loop of the pause only shows the frame again.
Pause ==
  /\ pc = "input"
  /\ pc' = "paused"
  /\ UNCHANGED <<grid, current_block, next_block, bag, game_state, idle, screen, locked, dealt>>

Resume ==
  /\ pc = "paused"
  /\ pc' = "tick"
  /\ idle' = 0
  /\ UNCHANGED <<grid, current_block, next_block, bag, game_state, screen, locked, dealt>>

Quit ==
  /\ pc \in {"input", "paused"}
  /\ game_state' = "OVER"
  /\ pc' = "over"
  /\ UNCHANGED <<grid, current_block, next_block, bag, idle, screen, locked, dealt>>

\* Variant: gravity waits for one more round than drop_interval.
TickLate ==
  /\ pc = "tick"
  /\ IF idle + 1 > drop_interval
     THEN (Fall \/ Land) /\ idle' = 0
     ELSE /\ idle' = idle + 1
          /\ UNCHANGED <<grid, current_block, next_block, bag, game_state, locked, dealt>>
  /\ pc' = IF game_state' = "OVER" THEN "over" ELSE "draw"
  /\ UNCHANGED screen

\* The end of a round: soft_tick is counted, and the block falls when it is time.
Tick ==
  /\ pc = "tick"
  /\ IF idle + 1 >= drop_interval
     THEN (Fall \/ Land) /\ idle' = 0
     ELSE /\ idle' = idle + 1
          /\ UNCHANGED <<grid, current_block, next_block, bag, game_state, locked, dealt>>
  /\ pc' = IF game_state' = "OVER" THEN "over" ELSE "draw"
  /\ UNCHANGED screen

\* After the game the last frame is shown for ever.
Halt == (pc = "over" \/ locked = MaxPieces) /\ UNCHANGED vars

Next ==
  \/ Draw
  \/ NoInput \/ Move \/ Rotate \/ SoftDrop \/ HardDrop \/ Pause \/ Resume \/ Quit
  \/ Tick
  \/ Halt

\* The program goes on in every round: it draws, looks once for an input, and lets
\* gravity pull.  Each of these steps moves pc.
GoesOn ==
  /\ pc \in {"draw", "input", "tick"}
  /\ locked < MaxPieces
  /\ pc' \in {"draw", "input", "paused", "tick", "over"}

\* The program runs; what the player does, and whether, is left open.
Spec == Init /\ [][Next]_vars /\ WF_pc(GoesOn)

-----------------------------------------------------------------------------
(***************************************************************************)
(* Properties.                                                             *)
(***************************************************************************)
playing == game_state = "PLAYING"
area == Cardinality(occupied(grid))

\* While the game goes on the falling block overlaps nothing and is within the
\* walls, whatever kicks, drops and removed lines came before (tetris_grid.c:293-358).
BlockIsFree == playing => ~grid_block_collides(grid, current_block)

\* After every lock the relief is the skyline of the grid, and exactly the occupied
\* cells have a colour: three records of one grid that are written at different
\* places (tetris_grid.c:64-125).
RecordsAgree ==
  /\ grid.relief = recalc_relief(grid)
  /\ \A y \in Rows, x \in Cols : (x \in grid.rows[y]) <=> grid.colors[y][x] # BLACK

\* No full row is left, also when the loop that looks for them removes a row and another
\* full one comes down to the place it has just looked at (tetris_grid.c:132-139).
NoFullRowRemains == \A y \in Rows : ~grid_row_full(grid, y)

\* The three pieces of a deal differ in number by one at most: each bag holds every
\* shape once and is dealt to its end (tetris_shape.c:102-137, 205-212).
BagIsFair == \A s, t \in Shapes : dealt[s] - dealt[t] <= 1

\* While the program waits for an input the display shows the grid, the falling block
\* and the next one, each cell at its place and with its colour, and the frame whole.
DisplayShowsGame ==
  pc = "input" =>
    /\ \A c \in Cols \X Rows :
         fb_pixel(screen, <<GRID_OFFSET_X + c[1] * BLOCK_SIZE,
                            GRID_OFFSET_Y + (GRID_HEIGHT - c[2]) * BLOCK_SIZE - 1>>)
           = IF c \in cells(current_block) THEN current_block.color
             ELSE IF c[1] \in grid.rows[c[2]] THEN grid.colors[c[2]][c[1]] ELSE BLACK
    /\ \A i \in 0 .. 3, j \in 0 .. 3 :
         fb_pixel(screen, <<PREVIEW_X + 3 * i, PREVIEW_Y + 9 - 3 * j>>)
           = IF <<i, j>> \in shape_get_cells(next_block.shape, 0)
             THEN next_block.color ELSE BLACK
    /\ \A p \in rect(GRID_OFFSET_X - 1, GRID_OFFSET_Y - 1,
                    GRID_WIDTH * BLOCK_SIZE + 2, GRID_HEIGHT * BLOCK_SIZE + 2)
            \ rect(GRID_OFFSET_X, GRID_OFFSET_Y,
                   GRID_WIDTH * BLOCK_SIZE, GRID_HEIGHT * BLOCK_SIZE) :
         fb_pixel(screen, p) = RED

\* A piece that locks loses only what sticks out of the top, and a line that goes takes
\* a row's cells with it and is counted (tetris_grid.c:127-160, 248-275).  It locks at
\* the first place on its way down under which something lies.
LocksWholeStep ==
  locked' # locked =>
    \E n \in 0 .. GRID_HEIGHT :
      LET b == shifted(current_block, 0, -n) IN
      /\ \A k \in 0 .. n : is_free(grid, shifted(current_block, 0, -k))
      /\ ~can_move_down(grid, b)
      /\ area' + GRID_WIDTH * (grid.lines_cleared' - grid.lines_cleared)
           = area + Cardinality({ c \in cells(b) : on_grid(c) })
LocksWhole == [][LocksWholeStep]_vars

\* What clearing lines has to leave, said at once and not row by row: the rows that are
\* not full, in their order, at the lowest places.
rows_kept(g) == { y \in Rows : ~grid_row_full(g, y) }
came_down_to(y, kept) == { r \in kept : Cardinality({ q \in kept : q < r }) = y }
moved_down(field, kept, empty) ==
  [y \in Rows |-> IF came_down_to(y, kept) = {} THEN empty
                  ELSE field[CHOOSE r \in came_down_to(y, kept) : TRUE]]

\* Rows fall in their order: after a lock, each row that was not full lies as many rows
\* lower as full ones lay under it, with the cells and the colours it had, and the rows
\* on top are empty (tetris_grid.c:98-111, 132-139).
RowsFallInOrderStep ==
  locked' # locked =>
    \E n \in 0 .. GRID_HEIGHT :
      LET b == shifted(current_block, 0, -n)
          landed == grid_block_add(grid, b)
          kept == rows_kept(landed) IN
      /\ is_free(grid, b) /\ ~can_move_down(grid, b)
      /\ grid.rows' = moved_down(landed.rows, kept, {})
      /\ grid.colors' = moved_down(landed.colors, kept, [x \in Cols |-> BLACK])
RowsFallInOrder == [][RowsFallInOrderStep]_vars

\* Gravity wins: a piece lands in the end, or the player pauses or quits, however the
\* player moves and turns it (tetris.c:479-497).
PieceLands ==
  \A n \in 0 .. MaxPieces - 1 : (locked = n) ~> (locked > n \/ pc \in {"paused", "over"})
=============================================================================
