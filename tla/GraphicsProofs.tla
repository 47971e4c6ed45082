---------------------------- MODULE GraphicsProofs ----------------------------
(***************************************************************************)
(* The theorems of the programs that draw on the display, on the board     *)
(* that runs one of them: for every size of well, screen, picture, film    *)
(* and UART.  Those of tetris are proved in a module of its own, which is  *)
(* instantiated here; the lemmas named Same... say that the definitions    *)
(* reached through it are those that the board runs.  Those of nyancat, of *)
(* T-Rex and of the keys are proved here.                                  *)
(***************************************************************************)
EXTENDS MCGraphics, Integers, FiniteSetTheorems, SequenceTheorems, TLAPS

\* Tetris as the proofs know it.
TP == INSTANCE TetrisProofs WITH pc <- tetris_pc

-----------------------------------------------------------------------------
(***************************************************************************)
(* Tetris.                                                                 *)
(***************************************************************************)
\* The operators of the libraries.
LEMMA SameLibrary ==
  /\ \A S : TP!Cardinality(S) = Tetris!Cardinality(S)
  /\ \A S : TP!IsFiniteSet(S) = Tetris!IsFiniteSet(S)
  /\ \A S : TP!Max(S) = Tetris!Max(S)
<1>1. \A S : TP!Cardinality(S) = Tetris!Cardinality(S)
  BY Zenon DEF TP!Cardinality, Tetris!Cardinality
<1>2. \A S : TP!IsFiniteSet(S) = Tetris!IsFiniteSet(S)
  BY Zenon DEF TP!IsFiniteSet, Tetris!IsFiniteSet
<1>3. \A S : TP!Max(S) = Tetris!Max(S)
  BY DEF TP!Max, Tetris!Max
<1> QED
  BY <1>1, <1>2, <1>3

\* The colours (tetris_draw.c, tetris_shape.c).
LEMMA SameColors ==
  /\ TP!BLACK = Tetris!BLACK /\ TP!CYAN = Tetris!CYAN
  /\ TP!GRAY = Tetris!GRAY /\ TP!RED = Tetris!RED
  /\ \A s : TP!COLOR(s) = Tetris!COLOR(s)
BY DEF TP!COLOR, Tetris!COLOR, TP!SHAPE_COLORS, Tetris!SHAPE_COLORS,
       TP!BLACK, Tetris!BLACK, TP!CYAN, Tetris!CYAN, TP!YELLOW, Tetris!YELLOW,
       TP!PURPLE, Tetris!PURPLE, TP!GREEN, Tetris!GREEN, TP!RED, Tetris!RED,
       TP!BLUE, Tetris!BLUE, TP!ORANGE, Tetris!ORANGE, TP!GRAY, Tetris!GRAY

\* The functions of tetris_shape.c.
LEMMA SameShapes ==
  /\ \A s, r : TP!shape_get_cells(s, r) = Tetris!shape_get_cells(s, r)
  /\ \A s : TP!shape_num_rotations(s) = Tetris!shape_num_rotations(s)
  /\ \A s, r : TP!shape_get_width(s, r) = Tetris!shape_get_width(s, r)
  /\ \A s, r : TP!shape_get_height(s, r) = Tetris!shape_get_height(s, r)
  /\ TP!shuffled_bags = Tetris!shuffled_bags
  /\ \A bag0 : TP!bags_to_deal(bag0) = Tetris!bags_to_deal(bag0)
<1>1. \A s, r : TP!shape_get_cells(s, r) = Tetris!shape_get_cells(s, r)
  BY Zenon DEF TP!shape_get_cells, Tetris!shape_get_cells, TP!SHAPES, Tetris!SHAPES
<1>2. \A s : TP!shape_num_rotations(s) = Tetris!shape_num_rotations(s)
  BY Zenon DEF TP!shape_num_rotations, Tetris!shape_num_rotations
<1>3. /\ \A s, r : TP!shape_get_width(s, r) = Tetris!shape_get_width(s, r)
      /\ \A s, r : TP!shape_get_height(s, r) = Tetris!shape_get_height(s, r)
  BY Zenon DEF TP!shape_get_width, Tetris!shape_get_width,
               TP!shape_get_height, Tetris!shape_get_height,
               TP!SHAPE_DIMENSIONS, Tetris!SHAPE_DIMENSIONS
<1>4. TP!shuffled_bags = Tetris!shuffled_bags
  BY SameLibrary DEF TP!shuffled_bags, Tetris!shuffled_bags
<1>5. \A bag0 : TP!bags_to_deal(bag0) = Tetris!bags_to_deal(bag0)
  BY <1>4 DEF TP!bags_to_deal, Tetris!bags_to_deal
<1> QED
  BY <1>1, <1>2, <1>3, <1>4, <1>5

\* The functions of tetris_grid.c.
LEMMA SameGrid ==
  /\ TP!Cols = Tetris!Cols
  /\ TP!Rows = Tetris!Rows
  /\ TP!grid_init = Tetris!grid_init
  /\ \A b : TP!cells(b) = Tetris!cells(b)
  /\ \A c : TP!on_grid(c) = Tetris!on_grid(c)
  /\ \A g, c : TP!check_cell_collision(g, c) = Tetris!check_cell_collision(g, c)
  /\ \A g, b : TP!grid_block_collides(g, b) = Tetris!grid_block_collides(g, b)
  /\ \A b, dx, dy : TP!shifted(b, dx, dy) = Tetris!shifted(b, dx, dy)
  /\ \A g, b, dx, dy : TP!grid_block_move(g, b, dx, dy) = Tetris!grid_block_move(g, b, dx, dy)
  /\ \A g, b : TP!can_move_down(g, b) = Tetris!can_move_down(g, b)
  /\ \A g, b : TP!is_free(g, b) = Tetris!is_free(g, b)
  /\ \A b : TP!rotated(b) = Tetris!rotated(b)
  /\ \A g, b : TP!grid_block_rotate(g, b) = Tetris!grid_block_rotate(g, b)
  /\ \A g, b : TP!grid_block_drop(g, b) = Tetris!grid_block_drop(g, b)
  /\ \A s : TP!grid_block_spawn(s) = Tetris!grid_block_spawn(s)
  /\ \A g, b : TP!grid_block_add(g, b) = Tetris!grid_block_add(g, b)
  /\ \A g, y : TP!grid_row_full(g, y) = Tetris!grid_row_full(g, y)
  /\ \A g : TP!recalc_relief(g) = Tetris!recalc_relief(g)
  /\ \A f, y, e : TP!shifted_down(f, y, e) = Tetris!shifted_down(f, y, e)
  /\ \A g, y : TP!remove_row(g, y) = Tetris!remove_row(g, y)
  /\ \A g : TP!clear_loop(g) = Tetris!clear_loop(g)
  /\ \A g : TP!grid_clear_lines(g) = Tetris!grid_clear_lines(g)
  /\ \A g : TP!rows_kept(g) = Tetris!rows_kept(g)
  /\ \A y, kept : TP!came_down_to(y, kept) = Tetris!came_down_to(y, kept)
  /\ \A f, kept, empty : TP!moved_down(f, kept, empty) = Tetris!moved_down(f, kept, empty)
<1>1. TP!Cols = Tetris!Cols
  BY DEF TP!Cols, Tetris!Cols
<1>2. TP!Rows = Tetris!Rows
  BY DEF TP!Rows, Tetris!Rows
<1>3. TP!grid_init = Tetris!grid_init
  BY <1>1, <1>2, SameColors DEF TP!grid_init, Tetris!grid_init
<1>4. \A b : TP!cells(b) = Tetris!cells(b)
  BY SameShapes DEF TP!cells, Tetris!cells
<1>5. \A c : TP!on_grid(c) = Tetris!on_grid(c)
  BY <1>1, <1>2 DEF TP!on_grid, Tetris!on_grid
<1>6. \A g, c : TP!check_cell_collision(g, c) = Tetris!check_cell_collision(g, c)
  BY <1>1, <1>2 DEF TP!check_cell_collision, Tetris!check_cell_collision
<1>7. \A g, b : TP!grid_block_collides(g, b) = Tetris!grid_block_collides(g, b)
  BY <1>4, <1>6 DEF TP!grid_block_collides, Tetris!grid_block_collides
<1>8. \A b, dx, dy : TP!shifted(b, dx, dy) = Tetris!shifted(b, dx, dy)
  BY DEF TP!shifted, Tetris!shifted
<1>9. \A g, b, dx, dy : TP!grid_block_move(g, b, dx, dy) = Tetris!grid_block_move(g, b, dx, dy)
  BY <1>8, <1>7 DEF TP!grid_block_move, Tetris!grid_block_move
<1>10. \A g, b : TP!can_move_down(g, b) = Tetris!can_move_down(g, b)
  BY <1>8, <1>7 DEF TP!can_move_down, Tetris!can_move_down
<1>11. \A g, b : TP!is_free(g, b) = Tetris!is_free(g, b)
  BY <1>7 DEF TP!is_free, Tetris!is_free
<1>12. \A b : TP!rotated(b) = Tetris!rotated(b)
  BY SameShapes DEF TP!rotated, Tetris!rotated
<1>13. \A g, b : TP!grid_block_rotate(g, b) = Tetris!grid_block_rotate(g, b)
  BY <1>11, <1>12, <1>8 DEF TP!grid_block_rotate, Tetris!grid_block_rotate
<1>14. \A g, b : TP!grid_block_drop(g, b) = Tetris!grid_block_drop(g, b)
  BY SameLibrary, <1>7, <1>8 DEF TP!grid_block_drop, Tetris!grid_block_drop
<1>15. \A s : TP!grid_block_spawn(s) = Tetris!grid_block_spawn(s)
  BY SameShapes, SameColors DEF TP!grid_block_spawn, Tetris!grid_block_spawn
<1>16. \A g, b : TP!grid_block_add(g, b) = Tetris!grid_block_add(g, b)
  <2> TAKE g, b
  <2> DEFINE new == { c \in TP!cells(b) : TP!on_grid(c) }
  <2>1. new = { c \in Tetris!cells(b) : Tetris!on_grid(c) }
    BY <1>4, <1>5
  <2> HIDE DEF new
  <2> QED
    BY SameLibrary, <1>1, <1>2, <2>1
       DEF TP!grid_block_add, Tetris!grid_block_add, new
<1>17. \A g, y : TP!grid_row_full(g, y) = Tetris!grid_row_full(g, y)
  BY <1>1 DEF TP!grid_row_full, Tetris!grid_row_full
<1>18. \A g : TP!recalc_relief(g) = Tetris!recalc_relief(g)
  BY SameLibrary, <1>1, <1>2 DEF TP!recalc_relief, Tetris!recalc_relief
<1>19. \A f, y, e : TP!shifted_down(f, y, e) = Tetris!shifted_down(f, y, e)
  BY <1>2 DEF TP!shifted_down, Tetris!shifted_down
<1>20. \A g, y : TP!remove_row(g, y) = Tetris!remove_row(g, y)
  BY <1>1, <1>19, SameColors DEF TP!remove_row, Tetris!remove_row
<1>21. \A g : TP!clear_loop(g) = Tetris!clear_loop(g)
  BY Zenon DEF TP!clear_loop, Tetris!clear_loop, TP!clear_round, Tetris!clear_round,
     TP!grid_row_full, Tetris!grid_row_full, TP!remove_row, Tetris!remove_row,
     TP!shifted_down, Tetris!shifted_down, TP!Cols, Tetris!Cols, TP!Rows, Tetris!Rows,
     TP!BLACK, Tetris!BLACK
<1>22. \A g : TP!grid_clear_lines(g) = Tetris!grid_clear_lines(g)
  BY <1>18, <1>21 DEF TP!grid_clear_lines, Tetris!grid_clear_lines
<1>23. \A g : TP!rows_kept(g) = Tetris!rows_kept(g)
  BY <1>2, <1>17 DEF TP!rows_kept, Tetris!rows_kept
<1>24. \A y, kept : TP!came_down_to(y, kept) = Tetris!came_down_to(y, kept)
  BY SameLibrary DEF TP!came_down_to, Tetris!came_down_to
<1>25. \A f, kept, empty : TP!moved_down(f, kept, empty) = Tetris!moved_down(f, kept, empty)
  BY Zenon DEF TP!moved_down, Tetris!moved_down, TP!came_down_to, Tetris!came_down_to,
     TP!Rows, Tetris!Rows, TP!Cardinality, Tetris!Cardinality
<1> QED
  BY <1>1, <1>2, <1>3, <1>4, <1>5, <1>6, <1>7, <1>8, <1>9, <1>10, <1>11, <1>12,
     <1>13, <1>14, <1>15, <1>16, <1>17, <1>18, <1>19, <1>20, <1>21, <1>22, <1>23,
     <1>24, <1>25

\* The functions of tetris_draw.c.
LEMMA SameDrawing ==
  /\ \A p : TP!on_screen(p) = Tetris!on_screen(p)
  /\ TP!black = Tetris!black
  /\ \A fb, p : TP!fb_pixel(fb, p) = Tetris!fb_pixel(fb, p)
  /\ \A fb, f : TP!paint(fb, f) = Tetris!paint(fb, f)
  /\ \A P, c : TP!in_color(P, c) = Tetris!in_color(P, c)
  /\ \A x, y, w, h : TP!rect(x, y, w, h) = Tetris!rect(x, y, w, h)
  /\ \A fb, x, y, w, h, c : TP!fb_rect(fb, x, y, w, h, c) = Tetris!fb_rect(fb, x, y, w, h, c)
  /\ \A x, y, w, h : TP!outline(x, y, w, h) = Tetris!outline(x, y, w, h)
  /\ \A fb, x, y, w, h, c :
       TP!fb_rect_outline(fb, x, y, w, h, c) = Tetris!fb_rect_outline(fb, x, y, w, h, c)
  /\ \A fb : TP!draw_border(fb) = Tetris!draw_border(fb)
  /\ \A c : TP!square(c) = Tetris!square(c)
  /\ \A C : TP!squares(C) = Tetris!squares(C)
  /\ \A g : TP!occupied(g) = Tetris!occupied(g)
  /\ \A fb, g : TP!draw_grid(fb, g) = Tetris!draw_grid(fb, g)
  /\ \A fb, b : TP!draw_block(fb, b) = Tetris!draw_block(fb, b)
  /\ \A d : TP!preview_square(d) = Tetris!preview_square(d)
  /\ \A fb, s : TP!draw_preview(fb, s) = Tetris!draw_preview(fb, s)
<1>1. \A p : TP!on_screen(p) = Tetris!on_screen(p)
  BY DEF TP!on_screen, Tetris!on_screen
<1>2. TP!black = Tetris!black
  BY DEF TP!black, Tetris!black
<1>3. \A fb, p : TP!fb_pixel(fb, p) = Tetris!fb_pixel(fb, p)
  BY SameColors DEF TP!fb_pixel, Tetris!fb_pixel
<1>4. \A fb, f : TP!paint(fb, f) = Tetris!paint(fb, f)
  BY SameColors, <1>1 DEF TP!paint, Tetris!paint
<1>5. \A P, c : TP!in_color(P, c) = Tetris!in_color(P, c)
  BY DEF TP!in_color, Tetris!in_color
<1>6. \A x, y, w, h : TP!rect(x, y, w, h) = Tetris!rect(x, y, w, h)
  BY DEF TP!rect, Tetris!rect
<1>7. \A fb, x, y, w, h, c : TP!fb_rect(fb, x, y, w, h, c) = Tetris!fb_rect(fb, x, y, w, h, c)
  BY <1>4, <1>5, <1>6 DEF TP!fb_rect, Tetris!fb_rect
<1>8. \A x, y, w, h : TP!outline(x, y, w, h) = Tetris!outline(x, y, w, h)
  BY <1>6 DEF TP!outline, Tetris!outline
<1>9. \A fb, x, y, w, h, c :
        TP!fb_rect_outline(fb, x, y, w, h, c) = Tetris!fb_rect_outline(fb, x, y, w, h, c)
  BY <1>4, <1>5, <1>8 DEF TP!fb_rect_outline, Tetris!fb_rect_outline
<1>10. \A fb : TP!draw_border(fb) = Tetris!draw_border(fb)
  BY <1>9, SameColors DEF TP!draw_border, Tetris!draw_border
<1>11. \A c : TP!square(c) = Tetris!square(c)
  BY <1>6 DEF TP!square, Tetris!square
<1>12. \A C : TP!squares(C) = Tetris!squares(C)
  BY <1>11 DEF TP!squares, Tetris!squares
<1>13. \A g : TP!occupied(g) = Tetris!occupied(g)
  BY SameGrid DEF TP!occupied, Tetris!occupied
<1>14. \A fb, g : TP!draw_grid(fb, g) = Tetris!draw_grid(fb, g)
  BY <1>4, <1>12, <1>11, <1>13 DEF TP!draw_grid, Tetris!draw_grid
<1>15. \A fb, b : TP!draw_block(fb, b) = Tetris!draw_block(fb, b)
  BY <1>4, <1>5, <1>12, SameGrid DEF TP!draw_block, Tetris!draw_block
<1>16. \A d : TP!preview_square(d) = Tetris!preview_square(d)
  BY <1>6 DEF TP!preview_square, Tetris!preview_square
<1>17. \A fb, s : TP!draw_preview(fb, s) = Tetris!draw_preview(fb, s)
  BY <1>4, <1>7, <1>5, <1>16, SameShapes, SameColors DEF TP!draw_preview, Tetris!draw_preview
<1> QED
  BY <1>1, <1>2, <1>3, <1>4, <1>5, <1>6, <1>7, <1>8, <1>9, <1>10, <1>11, <1>12,
     <1>13, <1>14, <1>15, <1>16, <1>17

\* The game begins and goes on alike in both instances.
LEMMA SameStart ==
  ASSUME Tetris!Init
  PROVE  TP!Init
BY SameShapes, SameGrid, SameDrawing DEF Tetris!Init, TP!Init

\* A lock, a fall and a landing.
LEMMA SameLocks ==
  /\ \A b : Tetris!LockAndSpawn(b) => TP!LockAndSpawn(b)
  /\ Tetris!Fall => TP!Fall
  /\ Tetris!Land => TP!Land
<1>1. \A b : Tetris!LockAndSpawn(b) => TP!LockAndSpawn(b)
  BY SameShapes, SameGrid DEF Tetris!LockAndSpawn, TP!LockAndSpawn
<1>2. Tetris!Fall => TP!Fall
  BY SameGrid DEF Tetris!Fall, TP!Fall
<1> QED
  BY <1>1, <1>2, SameGrid DEF Tetris!Land, TP!Land

\* Every step of the game that the board runs is one of the game that the proofs are about.
LEMMA SameStep ==
  ASSUME Tetris!Next
  PROVE  TP!Next
<1>1. CASE Tetris!Draw
  BY <1>1, SameDrawing DEF Tetris!Draw, TP!Draw, Tetris!frame, TP!frame, TP!Next
<1>2. CASE Tetris!NoInput
  BY <1>2 DEF Tetris!NoInput, TP!NoInput, TP!Next
<1>3. CASE Tetris!Move
  BY <1>3, SameGrid DEF Tetris!Move, TP!Move, TP!Next
<1>4. CASE Tetris!Rotate
  BY <1>4, SameGrid DEF Tetris!Rotate, TP!Rotate, TP!Next
<1>5. CASE Tetris!SoftDrop
  BY <1>5, SameLocks DEF Tetris!SoftDrop, TP!SoftDrop, Tetris!AfterInput, TP!AfterInput, TP!Next
<1>6. CASE Tetris!HardDrop
  BY <1>6, SameLocks, SameGrid
     DEF Tetris!HardDrop, TP!HardDrop, Tetris!AfterInput, TP!AfterInput, TP!Next
<1>7. CASE Tetris!Pause \/ Tetris!Resume \/ Tetris!Quit
  BY <1>7 DEF Tetris!Pause, TP!Pause, Tetris!Resume, TP!Resume, Tetris!Quit, TP!Quit, TP!Next
<1>8. CASE Tetris!Tick
  BY <1>8, SameLocks DEF Tetris!Tick, TP!Tick, Tetris!drop_interval, TP!drop_interval, TP!Next
<1>9. CASE Tetris!Halt
  BY <1>9 DEF Tetris!Halt, TP!Halt, Tetris!vars, TP!vars, TP!Next
<1> QED
  BY <1>1, <1>2, <1>3, <1>4, <1>5, <1>6, <1>7, <1>8, <1>9 DEF Tetris!Next

\* While the board runs tetris the invariants of the game hold.
TetrisInv == program = "tetris" => TP!IInv /\ TP!ScreenInv

\* They hold at the start.
LEMMA TetrisStart ==
  ASSUME TP!GameFits, Init
  PROVE  TetrisInv
<1>1. ASSUME Tetris!Init
      PROVE  TP!IInv /\ TP!ScreenInv
  <2>1. TP!Init
    BY <1>1, SameStart
  <2> QED
    BY <2>1, TP!InitInvariant DEF TP!Init, TP!ScreenInv, TP!Lit, TP!black
<1> QED
  BY <1>1 DEF Init, TetrisInv

\* A step of the board is a step of tetris, or not about tetris.
LEMMA TetrisRuns ==
  ASSUME [Next]_vars, program = "tetris"
  PROVE  [TP!Next]_(TP!vars)
<1>1. CASE RunTetris
  BY <1>1, SameStep DEF RunTetris
<1>2. CASE UNCHANGED vars
  BY <1>2 DEF vars, tetris_vars, TP!vars
<1> QED
  BY <1>1, <1>2 DEF Next, RunInput, RunTRex, RunNyancat

\* The board runs one program.
LEMMA ProgramStays ==
  ASSUME [Next]_vars
  PROVE  program' = program
BY DEF Next, RunTetris, RunInput, RunTRex, RunNyancat, vars

\* They hold after every step.
LEMMA TetrisGoesOn ==
  ASSUME TP!GameFits, TetrisInv, [Next]_vars
  PROVE  TetrisInv'
<1>1. program' = program
  BY ProgramStays
<1>2. ASSUME program = "tetris"
      PROVE  TP!IInv' /\ TP!ScreenInv'
  <2>1. [TP!Next]_(TP!vars)
    BY <1>2, TetrisRuns
  <2>2. TP!IInv /\ TP!ScreenInv
    BY <1>2 DEF TetrisInv
  <2> QED
    BY <2>1, <2>2, TP!StepInvariant, TP!StepShows
<1> QED
  BY <1>1, <1>2 DEF TetrisInv

\* What the invariants say of the game, in terms of the board.
LEMMA TetrisHolds ==
  ASSUME TP!GameFits, TetrisInv
  PROVE  BlockIsFree /\ RecordsAgree /\ BagIsFair
<1> SUFFICES ASSUME program = "tetris", TP!IInv
             PROVE  Tetris!BlockIsFree /\ Tetris!RecordsAgree /\ Tetris!BagIsFair
  BY DEF TetrisInv, BlockIsFree, RecordsAgree, BagIsFair
<1>1. Tetris!BlockIsFree
  BY SameGrid DEF TP!IInv, TP!BlockIsFree, Tetris!BlockIsFree, TP!playing, Tetris!playing
<1>2. Tetris!RecordsAgree
  BY SameGrid, SameColors DEF TP!IInv, TP!BoardInv, TP!Agree, Tetris!RecordsAgree
<1>3. Tetris!BagIsFair
  BY TP!FairDeal DEF TP!IInv, TP!BagIsFair, Tetris!BagIsFair
<1> QED
  BY <1>1, <1>2, <1>3

\* The invariant of tetris holds in every state of the board.
LEMMA TetrisInvariant ==
  ASSUME TP!GameFits
  PROVE  Spec => []TetrisInv
<1>1. Init => TetrisInv
  BY TetrisStart
<1>2. TetrisInv /\ [Next]_vars => TetrisInv'
  BY TetrisGoesOn
<1> QED
  BY <1>1, <1>2, PTL DEF Spec

\* While tetris runs and the game goes on, the falling block lies within the walls and
\* overlaps nothing (tetris_grid.c:236-358).
THEOREM BlockNeverOverlaps ==
  ASSUME TP!GameFits
  PROVE  Spec => []BlockIsFree
<1>1. TetrisInv => BlockIsFree
  BY TetrisHolds
<1> QED
  BY <1>1, TetrisInvariant, PTL

\* Relief, rows and colours of the grid agree in every state (tetris_grid.c:64-160).
THEOREM GridRecordsAgree ==
  ASSUME TP!GameFits
  PROVE  Spec => []RecordsAgree
<1>1. TetrisInv => RecordsAgree
  BY TetrisHolds
<1> QED
  BY <1>1, TetrisInvariant, PTL

\* Over any number of bags two shapes differ by one at most in how often they were dealt
\* (tetris_shape.c:102-137, 205-212).
THEOREM BagDealsFairly ==
  ASSUME TP!GameFits
  PROVE  Spec => []BagIsFair
<1>1. TetrisInv => BagIsFair
  BY TetrisHolds
<1> QED
  BY <1>1, TetrisInvariant, PTL

\* While the program waits for an input, the display shows every cell of the well, the
\* falling block, the next piece and the whole frame, for a well, cells and a screen of any
\* size that fit each other (tetris_draw.c:144-300, tetris.c:402-412).
THEOREM DisplayAlwaysShowsGame ==
  ASSUME TP!GameFits, TP!LayoutFits
  PROVE  Spec => []DisplayShowsGame
<1>1. TetrisInv => DisplayShowsGame
  <2> SUFFICES ASSUME program = "tetris", TP!IInv, TP!ScreenInv
               PROVE  Tetris!DisplayShowsGame
    BY DEF TetrisInv, DisplayShowsGame
  <2>1. TP!DisplayShowsGame
    BY TP!ShownAsIs
  <2> QED
    BY <2>1, SameDrawing, SameGrid, SameShapes, SameColors
       DEF TP!DisplayShowsGame, Tetris!DisplayShowsGame
<1> QED
  BY <1>1, TetrisInvariant, PTL

\* A piece locks at the first place on its way down under which something lies; all its
\* cells on the grid are added, and every line that goes takes a row of cells with it and
\* is counted (tetris_grid.c:127-160, 248-291).
THEOREM PiecesLockWhole ==
  ASSUME TP!GameFits
  PROVE  Spec => LocksWhole
<1>1. ASSUME TetrisInv, [Next]_vars
      PROVE  program = "tetris" => Tetris!LocksWholeStep
  <2> SUFFICES ASSUME program = "tetris"
               PROVE  Tetris!LocksWholeStep
    OBVIOUS
  <2>1. [TP!Next]_(TP!vars) /\ TP!IInv
    BY <1>1, TetrisRuns DEF TetrisInv
  <2>2. TP!LocksWholeStep
    BY <2>1, TP!StepLocksWhole
  <2>3. TP!area = Tetris!area
    BY SameLibrary, SameDrawing DEF TP!area, Tetris!area
  <2>4. TP!area' = Tetris!area'
    BY SameLibrary, SameDrawing DEF TP!area, Tetris!area
  <2> QED
    BY <2>2, <2>3, <2>4, SameLibrary, SameGrid DEF TP!LocksWholeStep, Tetris!LocksWholeStep
<1> QED
  BY <1>1, TetrisInvariant, PTL DEF Spec, LocksWhole

\* After every lock the rows that were not full have come down by as many rows as full
\* ones lay under them, whole and in their order, whatever the loop of grid_clear_lines
\* removed on its way up (tetris_grid.c:98-140).
THEOREM RowsAlwaysFallInOrder ==
  ASSUME TP!GameFits
  PROVE  Spec => RowsFallInOrder
<1>1. ASSUME TetrisInv, [Next]_vars
      PROVE  program = "tetris" => Tetris!RowsFallInOrderStep
  <2> SUFFICES ASSUME program = "tetris"
               PROVE  Tetris!RowsFallInOrderStep
    OBVIOUS
  <2>1. [TP!Next]_(TP!vars) /\ TP!IInv
    BY <1>1, TetrisRuns DEF TetrisInv
  <2>2. TP!RowsFallInOrderStep
    BY <2>1, TP!StepLocksWhole
  <2> QED
    BY <2>2, SameGrid, SameColors DEF TP!RowsFallInOrderStep, Tetris!RowsFallInOrderStep
<1> QED
  BY <1>1, TetrisInvariant, PTL DEF Spec, RowsFallInOrder

-----------------------------------------------------------------------------
(***************************************************************************)
(* Nyancat.                                                                *)
(***************************************************************************)
\* There is a picture to show, an index 0 for the background, and an opcode counts pixels.
MovieFits ==
  /\ NyanFrames \in Nat /\ NyanFrames >= 1
  /\ NyanWords \in Nat /\ NyanWords >= 1
  /\ PIXELS_PER_WORD \in Nat /\ PIXELS_PER_WORD >= 1
  /\ 0 \in Colors
  /\ Params \subseteq Nat /\ LONG \in Nat /\ VERY_LONG \in Nat

\* The state of the decoder.
DecoderTyped ==
  /\ movie \in [0 .. NyanFrames - 1 -> Nyancat!Picture]
  /\ build \in {"prepacked", "delta", "rle"}
  /\ Nyancat!TypeOK
  /\ phase = "animate" <=> frame = NyanFrames
  /\ build = "prepacked" => phase # "decode"

\* What is decoded so far: up to pos the picture at hand, from there on what the code
\* of the frame refers to; a difference refers to the frame before.
Decoded ==
  /\ build = "delta" /\ frame > 0 /\ phase \in {"start", "decode"}
       => prev_frame_buffer = movie[frame - 1]
  /\ phase = "decode" =>
       \A p \in Nyancat!Pixels :
         /\ p < pos => frame_buffer[p] = movie[frame][p]
         /\ p >= pos /\ ~Nyancat!baseline => frame_buffer[p] = movie[frame - 1][p]
  /\ phase = "upload" /\ build # "prepacked" => frame_buffer = movie[frame]
  /\ phase = "upload" /\ build = "delta" => prev_frame_buffer = movie[frame]

\* The registers of the display and its memory.
IsVga(v) ==
  \E u, w, s, e, b :
    v = [upload_frame |-> u, upload_word |-> w, frame_sel |-> s, enabled |-> e, framebuffer |-> b]

\* Where the next word goes, and what is in the memory.
Uploaded ==
  /\ DOMAIN nyan_vga.framebuffer = 0 .. NyanFrames * NyanWords - 1
  /\ IsVga(nyan_vga)
  /\ phase \in {"decode", "upload"} =>
       nyan_vga.upload_frame = frame /\ nyan_vga.upload_word = 0
  /\ Nyancat!FramesHoldPictures

\* Nothing is decoded or uploaded yet.
LEMMA NyancatStart ==
  ASSUME MovieFits, Nyancat!Init
  PROVE  DecoderTyped /\ Decoded /\ Uploaded
<1>1. DecoderTyped
  BY DEF Nyancat!Init, DecoderTyped, MovieFits, Nyancat!TypeOK, Nyancat!nyancat_frames,
         Nyancat!blank, Nyancat!Picture
<1>2. Decoded
  BY DEF Nyancat!Init, Decoded
<1>3. Uploaded
  <2> DEFINE v == Nyancat!vga_reset(<< >>)
  <2>1. nyan_vga = [v EXCEPT !.frame_sel = IF 0 < NyanFrames THEN 0 ELSE @, !.enabled = TRUE]
        /\ frame = 0 /\ phase = "start"
    BY DEF Nyancat!Init, Nyancat!set_ctrl
  <2>2. nyan_vga = [upload_frame |-> 0, upload_word |-> 0, frame_sel |-> 0, enabled |-> TRUE,
                    framebuffer |-> [a \in 0 .. NyanFrames * NyanWords - 1 |-> << >>]]
    BY <2>1 DEF Nyancat!vga_reset, MovieFits
  <2>3. Nyancat!FramesHoldPictures
    BY <2>1 DEF Nyancat!FramesHoldPictures
  <2>4. phase = "start"
    BY <2>1
  <2> DEFINE words == [a \in 0 .. NyanFrames * NyanWords - 1 |-> << >>]
  <2>5. DOMAIN words = 0 .. NyanFrames * NyanWords - 1
    OBVIOUS
  <2> HIDE DEF words, v
  <2>6. nyan_vga.framebuffer = words /\ IsVga(nyan_vga)
    BY <2>2 DEF words, IsVga
  <2> QED
    BY <2>3, <2>4, <2>5, <2>6 DEF Uploaded
<1> QED
  BY <1>1, <1>2, <1>3

\* Opcodes write what the picture has; none of them touches the VGA (nyancat.c:112-221).
LEMMA OpcodeKeeps ==
  ASSUME MovieFits, DecoderTyped, Decoded, Uploaded,
         Nyancat!SetColor \/ Nyancat!Repeat \/ Nyancat!Skip
  PROVE  DecoderTyped' /\ Decoded' /\ Uploaded'
<1>1. /\ phase = "decode" /\ phase' = "decode" /\ build' = build /\ frame' = frame
      /\ movie' = movie /\ nyan_vga' = nyan_vga /\ prev_frame_buffer' = prev_frame_buffer
      /\ Nyancat!baseline' = Nyancat!baseline
  BY DEF Nyancat!SetColor, Nyancat!Repeat, Nyancat!Skip, Nyancat!baseline
<1>2. Uploaded'
  BY <1>1 DEF Uploaded, Nyancat!FramesHoldPictures
<1>3. CASE Nyancat!SetColor
  BY <1>1, <1>2, <1>3 DEF Nyancat!SetColor, DecoderTyped, Nyancat!TypeOK, Decoded
<1>4. frame \in 0 .. NyanFrames - 1 /\ pos \in Nat /\ frame_buffer \in Nyancat!Picture
      /\ movie[frame] \in Nyancat!Picture
  BY <1>1 DEF DecoderTyped, Nyancat!TypeOK, MovieFits
<1>5. Nyancat!FRAME_SIZE \in Nat /\ Nyancat!Pixels = 0 .. Nyancat!FRAME_SIZE - 1
  BY DEF Nyancat!FRAME_SIZE, Nyancat!Pixels, MovieFits
<1>6. CASE Nyancat!Repeat
  <2>1. PICK count \in Nat :
          /\ Nyancat!run_is_true(count)
          /\ frame_buffer' = [p \in Nyancat!Pixels |-> IF p \in Nyancat!span(count)
                                THEN current_color ELSE frame_buffer[p]]
          /\ pos' = IF pos + count < Nyancat!FRAME_SIZE THEN pos + count ELSE Nyancat!FRAME_SIZE
    <3>1. PICK param \in Params, unit \in {1, LONG} :
            /\ Nyancat!run_is_true(param * unit)
            /\ frame_buffer' = [p \in Nyancat!Pixels |-> IF p \in Nyancat!span(param * unit)
                                  THEN current_color ELSE frame_buffer[p]]
            /\ pos' = IF pos + param * unit < Nyancat!FRAME_SIZE THEN pos + param * unit
                      ELSE Nyancat!FRAME_SIZE
      BY <1>6 DEF Nyancat!Repeat
    <3>2. param * unit \in Nat
      BY DEF MovieFits
    <3> QED
      BY <3>1, <3>2
  <2>2. \A p \in Nyancat!Pixels : p \in Nyancat!span(count) <=> p >= pos /\ p < pos + count
    BY DEF Nyancat!span
  <2>3. \A p \in Nyancat!Pixels :
          /\ p < pos' => p < pos \/ p \in Nyancat!span(count)
          /\ p >= pos' => p >= pos /\ p \notin Nyancat!span(count)
    BY <1>4, <1>5, <2>1, <2>2
  <2>4. Decoded'
    BY <1>1, <1>4, <2>1, <2>2, <2>3 DEF Decoded, Nyancat!run_is_true
  <2>5. DecoderTyped'
    <3>1. current_color \in Colors
      BY DEF DecoderTyped, Nyancat!TypeOK
    <3>2. frame_buffer' \in Nyancat!Picture
      BY <1>4, <2>1, <3>1 DEF Nyancat!Picture
    <3>3. pos' \in Nat
      BY <1>4, <1>5, <2>1
    <3>4. current_color' = current_color
      BY <1>6 DEF Nyancat!Repeat
    <3> QED
      BY <1>1, <3>2, <3>3, <3>4 DEF DecoderTyped, Nyancat!TypeOK
  <2> QED
    BY <1>2, <2>4, <2>5
<1>7. CASE Nyancat!Skip
  <2>1. PICK count \in Nat : Nyancat!skip_is_true(count) /\ pos' = pos + count
    <3>1. PICK param \in Params, unit \in {1, LONG, VERY_LONG} :
            Nyancat!skip_is_true(param * unit) /\ pos' = pos + param * unit
      BY <1>7 DEF Nyancat!Skip
    <3>2. param * unit \in Nat
      BY DEF MovieFits
    <3> QED
      BY <3>1, <3>2
  <2>2. ~Nyancat!baseline /\ frame_buffer' = frame_buffer /\ current_color' = current_color
    BY <1>7 DEF Nyancat!Skip
  <2>3. \A p \in Nyancat!Pixels :
          /\ p < pos' => p < pos \/ (p >= pos /\ p \in Nyancat!span(count))
          /\ p >= pos' => p >= pos
    BY <1>4, <1>5, <2>1 DEF Nyancat!span
  <2>4. Decoded'
    BY <1>1, <1>4, <2>1, <2>2, <2>3 DEF Decoded, Nyancat!skip_is_true
  <2>5. DecoderTyped'
    BY <1>1, <1>4, <2>1, <2>2 DEF DecoderTyped, Nyancat!TypeOK
  <2> QED
    BY <1>2, <2>4, <2>5
<1> QED
  BY <1>3, <1>6, <1>7

\* A frame starts with the upload address set to it, and a difference with the picture of
\* the frame before (nyancat.c:112-120, 230-252).
LEMMA StartKeeps ==
  ASSUME MovieFits, DecoderTyped, Decoded, Uploaded, Nyancat!StartFrame
  PROVE  DecoderTyped' /\ Decoded' /\ Uploaded'
<1>1. /\ phase = "start" /\ phase' = IF build = "prepacked" THEN "upload" ELSE "decode"
      /\ frame_buffer' = IF build = "prepacked" \/ Nyancat!baseline THEN frame_buffer
                         ELSE prev_frame_buffer
      /\ pos' = 0 /\ current_color' = 0
      /\ UNCHANGED <<movie, build, frame, prev_frame_buffer>>
  BY DEF Nyancat!StartFrame
<1>2. DecoderTyped'
  BY <1>1 DEF DecoderTyped, Nyancat!TypeOK, MovieFits
<1>3. Decoded'
  BY <1>1 DEF Decoded, DecoderTyped, Nyancat!TypeOK, Nyancat!baseline, Nyancat!Pixels, MovieFits
<1>4. Uploaded'
  <2> DEFINE v == nyan_vga
             c == [v EXCEPT !.upload_frame = frame]
             d == [c EXCEPT !.upload_word = 0]
  <2>1. nyan_vga' = d
    BY DEF Nyancat!StartFrame, Nyancat!set_upload_addr
  <2>2. PICK u, w, s, e, b :
          v = [upload_frame |-> u, upload_word |-> w, frame_sel |-> s, enabled |-> e,
               framebuffer |-> b]
    BY DEF Uploaded, IsVga
  <2>3. c = [upload_frame |-> frame, upload_word |-> w, frame_sel |-> s, enabled |-> e,
             framebuffer |-> b]
    BY <2>2
  <2> HIDE DEF c
  <2>4. d = [upload_frame |-> frame, upload_word |-> 0, frame_sel |-> s, enabled |-> e,
             framebuffer |-> b]
    BY <2>3
  <2> HIDE DEF v, d
  <2>5. d.upload_frame = frame /\ d.upload_word = 0 /\ d.framebuffer = v.framebuffer /\ IsVga(d)
    BY <2>2, <2>4 DEF IsVga
  <2> QED
    BY <1>1, <2>1, <2>5 DEF v, Uploaded, Nyancat!FramesHoldPictures, Nyancat!frame_word,
                            Nyancat!vga_pack8_pixels
<1> QED
  BY <1>2, <1>3, <1>4

\* What the code of a frame leaves out is background, or as in the frame before
\* (nyancat.c:95-99, 160-164, 213-221).
LEMMA EndKeeps ==
  ASSUME MovieFits, DecoderTyped, Decoded, Uploaded, Nyancat!EndOfFrame
  PROVE  DecoderTyped' /\ Decoded' /\ Uploaded'
<1>1. /\ phase = "decode" /\ phase' = "upload"
      /\ \A p \in Nyancat!Pixels : p >= pos =>
           movie[frame][p] = IF Nyancat!baseline THEN 0 ELSE movie[frame - 1][p]
      /\ prev_frame_buffer' = IF build = "rle" THEN prev_frame_buffer ELSE frame_buffer'
      /\ UNCHANGED <<movie, build, frame, pos, current_color, nyan_vga>>
  BY DEF Nyancat!EndOfFrame
<1>2. frame_buffer' = IF ~Nyancat!baseline THEN frame_buffer
                      ELSE [p \in Nyancat!Pixels |-> IF p >= pos THEN 0 ELSE frame_buffer[p]]
  BY DEF Nyancat!EndOfFrame
<1>3. frame \in 0 .. NyanFrames - 1 /\ pos \in Nat /\ frame_buffer \in Nyancat!Picture
      /\ movie[frame] \in Nyancat!Picture /\ 0 \in Colors
  BY <1>1 DEF DecoderTyped, Nyancat!TypeOK, MovieFits
<1>4. \A p \in Nyancat!Pixels : p \in Int
  BY DEF Nyancat!Pixels
<1>5. frame_buffer' \in Nyancat!Picture
  BY <1>2, <1>3 DEF Nyancat!Picture
<1>6. \A p \in Nyancat!Pixels : frame_buffer'[p] = movie[frame][p]
  <2> TAKE p \in Nyancat!Pixels
  <2>1. CASE p < pos
    <3>1. frame_buffer[p] = movie[frame][p]
      BY <1>1, <2>1 DEF Decoded
    <3>2. ~(p >= pos)
      BY <1>3, <1>4, <2>1
    <3> QED
      BY <1>2, <3>1, <3>2
  <2>2. CASE p >= pos
    <3>1. ~Nyancat!baseline => frame_buffer[p] = movie[frame - 1][p]
      BY <1>1, <2>2 DEF Decoded
    <3> QED
      BY <1>1, <1>2, <2>2, <3>1
  <2> QED
    BY <1>3, <1>4, <2>1, <2>2
<1>7. frame_buffer' = movie[frame]
  BY <1>3, <1>5, <1>6 DEF Nyancat!Picture
<1>8. DecoderTyped'
  BY <1>1, <1>5 DEF DecoderTyped, Nyancat!TypeOK
<1>9. Decoded'
  BY <1>1, <1>7 DEF Decoded
<1>10. Uploaded'
  BY <1>1 DEF Uploaded, Nyancat!FramesHoldPictures
<1> QED
  BY <1>8, <1>9, <1>10

\* A word of a frame lies in the memory, and no other frame has a word there.
LEMMA WordOf ==
  ASSUME MovieFits, NEW f \in 0 .. NyanFrames - 1, NEW w \in 0 .. NyanWords - 1
  PROVE  /\ f * NyanWords + w \in 0 .. NyanFrames * NyanWords - 1
         /\ \A g \in 0 .. NyanFrames - 1 :
              f * NyanWords + w \in g * NyanWords .. g * NyanWords + NyanWords - 1 <=> f = g
<1>1. NyanWords \in Nat /\ NyanWords >= 1 /\ NyanFrames \in Nat
  BY DEF MovieFits
<1>2. f * NyanWords >= 0 /\ f * NyanWords + NyanWords <= NyanFrames * NyanWords
      /\ f * NyanWords \in Int /\ NyanFrames * NyanWords \in Int
  <2>1. (NyanFrames - f - 1) * NyanWords >= 0 /\ f * NyanWords >= 0
    BY <1>1
  <2> QED
    BY <1>1, <2>1
<1>3. ASSUME NEW i \in Int, NEW j \in Int, i < j
      PROVE  i * NyanWords + NyanWords <= j * NyanWords
  <2>1. (j - i - 1) * NyanWords >= 0
    BY <1>1, <1>3
  <2> QED
    BY <1>1, <2>1
<1>4. ASSUME NEW g \in 0 .. NyanFrames - 1
      PROVE  f * NyanWords + w \in g * NyanWords .. g * NyanWords + NyanWords - 1 <=> f = g
  <2>1. f < g => f * NyanWords + NyanWords <= g * NyanWords
    BY <1>3
  <2>2. g < f => g * NyanWords + NyanWords <= f * NyanWords
    BY <1>3
  <2>3. g * NyanWords \in Int
    BY <1>1
  <2> QED
    BY <1>1, <1>2, <2>1, <2>2, <2>3
<1> QED
  BY <1>1, <1>2, <1>4

\* A frame that is streamed from its first word on fills its part of the memory and
\* nothing else.
LEMMA FrameStored ==
  ASSUME MovieFits, NEW v, NEW data, NEW f \in 0 .. NyanFrames - 1,
         v.upload_frame = f, v.upload_word = 0, Len(data) = NyanWords, IsVga(v)
  PROVE  /\ IsVga(Nyancat!stream_data(v, data))
         /\ DOMAIN Nyancat!stream_data(v, data).framebuffer = DOMAIN v.framebuffer
         /\ \A a \in DOMAIN v.framebuffer :
              Nyancat!stream_data(v, data).framebuffer[a] =
                IF a \in f * NyanWords .. f * NyanWords + NyanWords - 1
                THEN data[1 + (a - f * NyanWords)] ELSE v.framebuffer[a]
<1> DEFINE base == f * NyanWords
           nth(a) == 1 + ((a - base - 0) % NyanWords)
           old == v.framebuffer
           new == [a \in DOMAIN old |->
                     IF a \in base .. base + NyanWords - 1 /\ nth(a) <= NyanWords
                     THEN data[nth(a)] ELSE old[a]]
           goal == [a \in DOMAIN old |->
                     IF a \in base .. base + NyanWords - 1
                     THEN data[1 + (a - base)] ELSE old[a]]
           m == (0 + NyanWords) % NyanWords
           v1 == [v EXCEPT !.framebuffer = new]
           v2 == [v1 EXCEPT !.upload_frame = f]
           v3 == [v2 EXCEPT !.upload_word = m]
<1>1. base \in Int /\ NyanWords \in Nat /\ NyanWords >= 1
  BY DEF MovieFits
<1>2. Nyancat!clamped(f) = f
  BY DEF Nyancat!clamped, MovieFits
<1>3. Nyancat!stream_data(v, data)
        = [v EXCEPT !.framebuffer = new, !.upload_frame = f, !.upload_word = m]
  BY <1>2 DEF Nyancat!stream_data
<1>4. ASSUME NEW a \in base .. base + NyanWords - 1
      PROVE  nth(a) = 1 + (a - base) /\ nth(a) <= NyanWords
  <2> DEFINE k == a - base - 0
  <2> HIDE DEF base
  <2>1. k \in Int /\ 0 <= k /\ k < NyanWords /\ k = a - base
    BY <1>1
  <2> HIDE DEF k
  <2>2. k % NyanWords = k
    BY <1>1, <2>1
  <2>3. nth(a) = 1 + (k % NyanWords)
    BY DEF k
  <2> HIDE DEF nth
  <2> QED
    BY <1>1, <2>1, <2>2, <2>3
<1> HIDE DEF nth, base
<1>5. new = goal
  BY <1>4
<1> HIDE DEF m, new, goal
<1>6. PICK u, w, s, e, b :
        v = [upload_frame |-> u, upload_word |-> w, frame_sel |-> s, enabled |-> e,
             framebuffer |-> b]
  BY DEF IsVga
<1>7. v1 = [upload_frame |-> u, upload_word |-> w, frame_sel |-> s, enabled |-> e,
            framebuffer |-> new]
  BY <1>6
<1>8. Nyancat!stream_data(v, data) = v3
  BY <1>3
<1> HIDE DEF v1
<1>9. v2 = [upload_frame |-> f, upload_word |-> w, frame_sel |-> s, enabled |-> e,
            framebuffer |-> new]
  BY <1>7
<1> HIDE DEF v2
<1>10. v3 = [upload_frame |-> f, upload_word |-> m, frame_sel |-> s, enabled |-> e,
             framebuffer |-> new]
  BY <1>9
<1> HIDE DEF v3
<1>11. IsVga(v3) /\ v3.framebuffer = goal
  BY <1>5, <1>10 DEF IsVga
<1>12. /\ DOMAIN goal = DOMAIN old
       /\ \A a \in DOMAIN old :
            goal[a] = IF a \in base .. base + NyanWords - 1 THEN data[1 + (a - base)] ELSE old[a]
  BY Zenon DEF goal
<1> HIDE DEF old
<1> QED
  BY <1>8, <1>11, <1>12 DEF base, old

\* The frame that is uploaded holds its picture, and the ones before keep theirs
\* (nyancat.c:230-252).
LEMMA UploadKeeps ==
  ASSUME MovieFits, DecoderTyped, Decoded, Uploaded, Nyancat!UploadFrame
  PROVE  DecoderTyped' /\ Decoded' /\ Uploaded'
<1> DEFINE picture == IF build = "prepacked" THEN movie[frame] ELSE frame_buffer
           data == Nyancat!packed(picture)
<1>1. /\ phase = "upload" /\ nyan_vga' = Nyancat!stream_data(nyan_vga, data)
      /\ frame' = frame + 1
      /\ phase' = IF frame + 1 < NyanFrames THEN "start" ELSE "animate"
      /\ UNCHANGED <<movie, build, pos, current_color, frame_buffer, prev_frame_buffer>>
  BY DEF Nyancat!UploadFrame
<1>2. frame \in 0 .. NyanFrames - 1 /\ NyanFrames \in Nat /\ NyanWords \in Nat
  BY <1>1 DEF DecoderTyped, Nyancat!TypeOK, MovieFits
<1>3. DecoderTyped'
  BY <1>1, <1>2 DEF DecoderTyped, Nyancat!TypeOK
<1>4. Decoded'
  BY <1>1, <1>2 DEF Decoded
<1>5. picture = movie[frame]
  BY <1>1 DEF Decoded
<1>6. Len(data) = NyanWords
      /\ \A w \in 0 .. NyanWords - 1 : data[1 + w] = Nyancat!vga_pack8_pixels(picture, w)
  <2> HIDE DEF picture
  <2>1. data = [w \in 1 .. NyanWords |-> Nyancat!vga_pack8_pixels(picture, w - 1)]
    BY DEF Nyancat!packed
  <2>2. \A w \in 0 .. NyanWords - 1 : 1 + w \in 1 .. NyanWords /\ (1 + w) - 1 = w
    BY <1>2
  <2> HIDE DEF data
  <2>3. Len(data) = NyanWords
    BY <1>2, <2>1
  <2> QED
    BY <2>1, <2>2, <2>3
<1> HIDE DEF picture, data
<1> DEFINE old == nyan_vga.framebuffer
<1>7. /\ IsVga(nyan_vga') /\ DOMAIN nyan_vga'.framebuffer = DOMAIN old
      /\ \A a \in DOMAIN old :
           nyan_vga'.framebuffer[a] =
             IF a \in frame * NyanWords .. frame * NyanWords + NyanWords - 1
             THEN data[1 + (a - frame * NyanWords)] ELSE old[a]
  <2>1. nyan_vga.upload_frame = frame /\ nyan_vga.upload_word = 0 /\ IsVga(nyan_vga)
    BY <1>1 DEF Uploaded
  <2> QED
    BY <1>1, <1>2, <1>6, <2>1, FrameStored
<1>8. DOMAIN old = 0 .. NyanFrames * NyanWords - 1
  BY DEF Uploaded
<1>9. ASSUME NEW f \in 0 .. frame, NEW w \in 0 .. NyanWords - 1
      PROVE  nyan_vga'.framebuffer[f * NyanWords + w] = Nyancat!vga_pack8_pixels(movie[f], w)
  <2> DEFINE a == f * NyanWords + w
  <2>1. f \in 0 .. NyanFrames - 1
    BY <1>2
  <2>2. a \in DOMAIN old
        /\ (a \in frame * NyanWords .. frame * NyanWords + NyanWords - 1 <=> f = frame)
    BY <1>2, <1>8, <2>1, WordOf
  <2>3. CASE f = frame
    <3>1. 1 + (a - frame * NyanWords) = 1 + w
      <4>1. f * NyanWords \in Int
        BY <1>2, <2>1
      <4> QED
        BY <1>2, <2>3, <4>1
    <3> HIDE DEF a, old
    <3>2. nyan_vga'.framebuffer[a] = data[1 + w]
      BY <1>7, <2>2, <2>3, <3>1
    <3> QED
      BY <1>5, <1>6, <2>3, <3>2 DEF a
  <2>4. CASE f # frame
    <3>1. f \in 0 .. frame - 1
      BY <1>2, <2>4
    <3>2. old[a] = Nyancat!vga_pack8_pixels(movie[f], w)
      BY <3>1 DEF Uploaded, Nyancat!FramesHoldPictures, Nyancat!frame_word
    <3> HIDE DEF a, old
    <3>3. nyan_vga'.framebuffer[a] = old[a]
      BY <1>7, <2>2, <2>4
    <3> QED
      BY <3>2, <3>3 DEF a
  <2> QED
    BY <2>3, <2>4
<1>10. Nyancat!FramesHoldPictures'
  <2>1. frame' - 1 = frame /\ movie' = movie
    BY <1>1, <1>2
  <2> QED
    BY <1>9, <2>1 DEF Nyancat!FramesHoldPictures, Nyancat!frame_word, Nyancat!vga_pack8_pixels
<1>11. DOMAIN nyan_vga'.framebuffer = 0 .. NyanFrames * NyanWords - 1
  BY <1>7, <1>8
<1>12. phase' \notin {"decode", "upload"}
  BY <1>1
<1> QED
  BY <1>3, <1>4, <1>7, <1>10, <1>11, <1>12 DEF Uploaded

\* Showing a frame does not touch the memory (nyancat.c:254-275).
LEMMA AnimateKeeps ==
  ASSUME MovieFits, DecoderTyped, Decoded, Uploaded, Nyancat!Animate
  PROVE  DecoderTyped' /\ Decoded' /\ Uploaded'
<1> DEFINE v == nyan_vga
           next == IF v.frame_sel + 1 < NyanFrames THEN v.frame_sel + 1 ELSE 0
           shown == IF next < NyanFrames THEN next ELSE v.frame_sel
           c == [v EXCEPT !.frame_sel = shown]
           on == TRUE
           d == [c EXCEPT !.enabled = on]
<1>1. /\ phase = "animate"
      /\ UNCHANGED <<movie, build, frame, pos, current_color, frame_buffer, prev_frame_buffer,
                    phase>>
  BY DEF Nyancat!Animate
<1>2. nyan_vga' = d
  BY DEF Nyancat!Animate, Nyancat!set_ctrl
<1>3. PICK u, w, s, e, b :
        v = [upload_frame |-> u, upload_word |-> w, frame_sel |-> s, enabled |-> e,
             framebuffer |-> b]
  BY DEF Uploaded, IsVga
<1> HIDE DEF next, shown, on
<1>4. c = [upload_frame |-> u, upload_word |-> w, frame_sel |-> shown, enabled |-> e,
           framebuffer |-> b]
  BY <1>3
<1> HIDE DEF c
<1>5. d = [upload_frame |-> u, upload_word |-> w, frame_sel |-> shown, enabled |-> on,
           framebuffer |-> b]
  BY <1>4
<1> HIDE DEF v, d
<1>6. d.framebuffer = v.framebuffer /\ IsVga(d)
  BY <1>3, <1>5 DEF IsVga
<1>7. nyan_vga'.framebuffer = nyan_vga.framebuffer /\ IsVga(nyan_vga')
  BY <1>2, <1>6 DEF v
<1>8. Uploaded'
  BY <1>1, <1>7 DEF Uploaded, Nyancat!FramesHoldPictures, Nyancat!frame_word,
                    Nyancat!vga_pack8_pixels
<1> QED
  BY <1>1, <1>8 DEF DecoderTyped, Nyancat!TypeOK, Decoded, Nyancat!baseline

\* What a step that is not about nyancat leaves alone.
LEMMA NyancatUnchanged ==
  ASSUME DecoderTyped, Decoded, Uploaded, UNCHANGED nyancat_vars
  PROVE  DecoderTyped' /\ Decoded' /\ Uploaded'
BY DEF nyancat_vars, DecoderTyped, Nyancat!TypeOK, Decoded, Nyancat!baseline, Uploaded,
       Nyancat!FramesHoldPictures, Nyancat!frame_word, Nyancat!vga_pack8_pixels

\* While the board runs nyancat, the decoder keeps to the pictures and the memory holds them.
NyancatInv == program = "nyancat" => DecoderTyped /\ Decoded /\ Uploaded

\* The invariant holds in every state of the board.
LEMMA NyancatInvariant ==
  ASSUME MovieFits
  PROVE  Spec => []NyancatInv
<1>1. Init => NyancatInv
  BY NyancatStart DEF Init, NyancatInv
<1>2. ASSUME NyancatInv, [Next]_vars
      PROVE  NyancatInv'
  <2> SUFFICES ASSUME program = "nyancat"
               PROVE  DecoderTyped' /\ Decoded' /\ Uploaded'
    BY <1>2, ProgramStays DEF NyancatInv
  <2>1. DecoderTyped /\ Decoded /\ Uploaded
    BY <1>2 DEF NyancatInv
  <2>2. CASE Nyancat!Next
    BY <2>1, <2>2, StartKeeps, OpcodeKeeps, EndKeeps, UploadKeeps, AnimateKeeps DEF Nyancat!Next
  <2>3. CASE UNCHANGED vars
    BY <2>1, <2>3, NyancatUnchanged DEF vars
  <2> QED
    BY <1>2, <2>2, <2>3 DEF Next, RunTetris, RunInput, RunTRex, RunNyancat
<1> QED
  BY <1>1, <1>2, PTL DEF Spec

\* Whatever pictures, opcodes and build, every uploaded frame holds its picture, and no
\* later upload touches it (nyancat.c:95-252).
THEOREM FilmIsTrue ==
  ASSUME MovieFits
  PROVE  Spec => []FramesHoldPictures
<1>1. NyancatInv => FramesHoldPictures
  BY DEF NyancatInv, Uploaded, FramesHoldPictures
<1> QED
  BY <1>1, NyancatInvariant, PTL

-----------------------------------------------------------------------------
(***************************************************************************)
(* T-Rex.                                                                  *)
(***************************************************************************)
\* The places and velocities of a jump while nobody pulls the dino down.
Rise == { <<50, 0>>, <<50, -6>>, <<44, -5>>, <<39, -4>>, <<35, -3>>, <<32, -2>>, <<30, -1>>,
          <<29, 0>> }

\* After the top of a jump, or pulled down, the dino only sinks.
Sinking == dino_y \in 29 .. 49 /\ y_velocity \in 1 .. 21

\* Every place and velocity of a flight.
Flight == <<dino_y, y_velocity>> \in Rise \/ Sinking

\* The invariant of the flight.
FlightInv == TRex!TypeOK /\ Flight

-----------------------------------------------------------------------------
\* A round of the physics leads from one place of a flight to another (play.c:60-71).
LEMMA PhysicsKeepsFlight ==
  ASSUME Flight, TRex!update_physics
  PROVE  /\ Flight'
         /\ dino_y' \in 0 .. TRex!GROUND_Y
         /\ y_velocity' \in TRex!JUMP_IMPULSE .. 2 * TRex!GROUND_Y
<1> USE DEF TRex!update_physics, TRex!GROUND_Y, TRex!GRAVITY, TRex!JUMP_IMPULSE
<1>1. CASE Sinking
  <2>1. CASE dino_y + y_velocity < 50
    BY <1>1, <2>1 DEF Flight, Sinking
  <2>2. CASE ~(dino_y + y_velocity < 50)
    BY <1>1, <2>2 DEF Flight, Rise
  <2> QED
    BY <2>1, <2>2
<1>2. CASE <<dino_y, y_velocity>> \in Rise
  BY <1>2 DEF Flight, Rise, Sinking
<1> QED
  BY <1>1, <1>2 DEF Flight

\* No key leads out of a flight: a jump starts on the ground, and a pull down in the air
\* gives the dino the speed of a fall (play.c:25-50).
LEMMA InputKeepsFlight ==
  ASSUME TRex!TypeOK, Flight, TRex!handle_input, UNCHANGED dino_y
  PROVE  /\ Flight'
         /\ y_velocity' \in TRex!JUMP_IMPULSE .. 2 * TRex!GROUND_Y
         /\ setdown_times' \in 0 .. 2
         /\ rx' = "none"
<1> USE DEF TRex!handle_input, TRex!GROUND_Y, TRex!JUMP_IMPULSE
<1>0. dino_y \in 29 .. 50 /\ y_velocity \in -6 .. 100 /\ setdown_times \in 0 .. 2
  BY DEF TRex!TypeOK, Flight, Rise, Sinking
<1>1. CASE rx = "jump" /\ dino_y = 50
  BY <1>0, <1>1 DEF Flight, Rise
<1>2. CASE rx = "crouch" /\ dino_y < 50
  BY <1>0, <1>2 DEF Flight, Sinking
<1>3. CASE rx = "crouch" /\ dino_y >= 50
  BY <1>0, <1>3 DEF Flight, Rise, Sinking
<1>4. CASE ~(rx = "jump" /\ dino_y = 50) /\ rx # "crouch"
  BY <1>0, <1>4 DEF Flight, Rise, Sinking
<1> QED
  BY <1>0, <1>1, <1>2, <1>3, <1>4

\* At the start the dino stands on the ground.
LEMMA InitFlight ==
  ASSUME CACTUS_START \in Nat, TRex!Init
  PROVE  FlightInv
BY DEF TRex!Init, FlightInv, TRex!TypeOK, Flight, Rise, TRex!GROUND_Y, TRex!JUMP_IMPULSE, TRex!Keys

\* Every step keeps the types and the flight.
LEMMA StepFlight ==
  ASSUME CACTUS_START \in Nat, FlightInv, [TRex!Next]_(TRex!vars)
  PROVE  FlightInv'
<1> USE DEF FlightInv
<1>1. CASE TRex!KeyArrives
  BY <1>1 DEF TRex!KeyArrives, TRex!TypeOK, Flight, Sinking
<1>2. CASE TRex!Input
  <2>1. TRex!TypeOK'
    BY <1>2, InputKeepsFlight DEF TRex!Input, TRex!TypeOK
  <2> QED
    BY <1>2, <2>1, InputKeepsFlight DEF TRex!Input
<1>3. CASE TRex!Move
  <2>1. Flight' /\ dino_y' \in 0 .. TRex!GROUND_Y /\ y_velocity' \in TRex!JUMP_IMPULSE .. 2 * TRex!GROUND_Y
    BY <1>3, PhysicsKeepsFlight DEF TRex!Move
  <2>2. cactus_x' \in -8 .. CACTUS_START /\ trex_pc' \in {"dead", "scroll"}
    BY <1>3 DEF TRex!Move, TRex!TypeOK
  <2> QED
    BY <1>3, <2>1, <2>2 DEF TRex!Move, TRex!TypeOK
<1>4. CASE TRex!KeyAfterCrash
  BY <1>4 DEF TRex!KeyAfterCrash, TRex!TypeOK, Flight, Sinking
<1>5. CASE TRex!Scroll
  BY <1>5 DEF TRex!Scroll, TRex!TypeOK, Flight, Sinking
<1>6. CASE TRex!Draw
  BY <1>6 DEF TRex!Draw, TRex!TypeOK, Flight, Sinking
<1>7. CASE TRex!Show
  BY <1>7 DEF TRex!Show, TRex!TypeOK, Flight, Sinking
<1>8. CASE UNCHANGED TRex!vars
  BY <1>8 DEF TRex!vars, TRex!TypeOK, Flight, Sinking
<1> QED
  BY <1>1, <1>2, <1>3, <1>4, <1>5, <1>6, <1>7, <1>8 DEF TRex!Next, TRex!Round

-----------------------------------------------------------------------------
(***************************************************************************)
(* The display.                                                            *)
(***************************************************************************)
\* The rows of the program are those of a frame of 64 x 64 pixels.
PictureFits == TRexWords = 64

\* The memory of the display, its first frame on display or about to be.
Ready(v) ==
  /\ IsVga(v)
  /\ DOMAIN v.framebuffer = 0 .. TRexWords - 1
  /\ v.frame_sel = 0

\* The memory of a display after the rows of a picture were streamed to it.
Streamed(new, old, fb, first, last) ==
  /\ Ready(new) /\ new.enabled = old.enabled
  /\ \A r \in 0 .. 63 :
       new.framebuffer[r] = IF r \in first .. last THEN fb[r] ELSE old.framebuffer[r]

\* Rows are streamed to their places, and nothing else is written (draw.c:156-203).
LEMMA RowsStreamed ==
  ASSUME PictureFits, NEW v, Ready(v), v.upload_frame = 0, NEW fb,
         NEW first \in 0 .. 63, NEW last \in first .. 63, v.upload_word = first
  PROVE  Streamed(TRex!stream_rows(v, fb, first, last), v, fb, first, last)
<1> DEFINE data == [i \in 1 .. last - first + 1 |-> fb[first + i - 1]]
           base == TRex!clamped(0) * TRexWords
           nth(a) == 1 + ((a - base - first) % TRexWords)
           old == v.framebuffer
           new == [a \in DOMAIN old |->
                     IF a \in base .. base + TRexWords - 1 /\ nth(a) <= Len(data)
                     THEN data[nth(a)] ELSE old[a]]
           f == TRex!clamped(0)
           m == (first + Len(data)) % TRexWords
           v1 == [v EXCEPT !.framebuffer = new]
           v2 == [v1 EXCEPT !.upload_frame = f]
           v3 == [v2 EXCEPT !.upload_word = m]
<1>1. TRex!stream_rows(v, fb, first, last)
        = [v EXCEPT !.framebuffer = new, !.upload_frame = f, !.upload_word = m]
  BY DEF TRex!stream_rows, TRex!stream_data
<1>2. base = 0 /\ TRexWords = 64
  BY DEF TRex!clamped, PictureFits
<1>3. Len(data) = last - first + 1
  <2>1. last - first + 1 \in Nat
    OBVIOUS
  <2> QED
    BY <2>1
<1>4. DOMAIN old = 0 .. TRexWords - 1
  BY DEF Ready
<1>5. 0 .. 63 \subseteq DOMAIN old
  BY <1>2, <1>4 DEF PictureFits
<1>6. ASSUME NEW r \in 0 .. 63
      PROVE  new[r] = IF r \in first .. last THEN fb[r] ELSE old[r]
  <2> DEFINE k == (r - base - first) % TRexWords
  <2>1. k = IF r >= first THEN r - first ELSE r - first + 64
    BY <1>2
  <2>2. nth(r) = 1 + k
    OBVIOUS
  <2>3. new[r] = IF r \in base .. base + TRexWords - 1 /\ nth(r) <= Len(data)
                 THEN data[nth(r)] ELSE old[r]
    BY <1>5
  <2> HIDE DEF k, new, base, nth
  <2>4. CASE r \in first .. last
    <3>1. nth(r) = r - first + 1 /\ nth(r) \in 1 .. last - first + 1
      BY <2>1, <2>2, <2>4
    <3>2. data[nth(r)] = fb[r]
      <4>1. first + nth(r) - 1 = r
        BY <3>1
      <4> QED
        BY <3>1, <4>1
    <3> HIDE DEF data
    <3> QED
      BY <1>2, <1>3, <2>3, <2>4, <3>1, <3>2
  <2>5. CASE r \notin first .. last
    <3>1. ~(nth(r) <= last - first + 1)
      BY <2>1, <2>2, <2>5
    <3> HIDE DEF data
    <3> QED
      BY <1>3, <2>3, <2>5, <3>1
  <2> QED
    BY <2>4, <2>5
<1>7. DOMAIN new = DOMAIN old
  OBVIOUS
<1> HIDE DEF new, f, m, old
<1>8. PICK u, w, s, e, b :
        v = [upload_frame |-> u, upload_word |-> w, frame_sel |-> s, enabled |-> e,
             framebuffer |-> b]
  BY DEF Ready, IsVga
<1>9. v1 = [upload_frame |-> u, upload_word |-> w, frame_sel |-> s, enabled |-> e,
            framebuffer |-> new]
  BY <1>8
<1>10. TRex!stream_rows(v, fb, first, last) = v3
  BY <1>1
<1> HIDE DEF v1
<1>11. v2 = [upload_frame |-> f, upload_word |-> w, frame_sel |-> s, enabled |-> e,
            framebuffer |-> new]
  BY <1>9
<1> HIDE DEF v2
<1>12. v3 = [upload_frame |-> f, upload_word |-> m, frame_sel |-> s, enabled |-> e,
             framebuffer |-> new]
  BY <1>11
<1> HIDE DEF v3
<1>13. IsVga(v3) /\ v3.framebuffer = new /\ v3.frame_sel = v.frame_sel /\ v3.enabled = v.enabled
  BY <1>8, <1>12 DEF IsVga
<1>14. Ready(v3)
  BY <1>4, <1>7, <1>13 DEF Ready
<1> QED
  BY <1>6, <1>10, <1>13, <1>14 DEF old, Streamed

\* The upload address is set and nothing else.
LEMMA AddressSet ==
  ASSUME NEW v, Ready(v), NEW f, NEW n
  PROVE  /\ Ready(TRex!set_upload_addr(v, f, n))
         /\ TRex!set_upload_addr(v, f, n).upload_frame = f /\ TRex!set_upload_addr(v, f, n).upload_word = n
         /\ TRex!set_upload_addr(v, f, n).framebuffer = v.framebuffer
         /\ TRex!set_upload_addr(v, f, n).enabled = v.enabled
<1> DEFINE v1 == [v EXCEPT !.upload_frame = f]
           v2 == [v1 EXCEPT !.upload_word = n]
<1>1. TRex!set_upload_addr(v, f, n) = v2
  BY DEF TRex!set_upload_addr
<1>2. PICK u, w, s, e, b :
        v = [upload_frame |-> u, upload_word |-> w, frame_sel |-> s, enabled |-> e,
             framebuffer |-> b]
  BY DEF Ready, IsVga
<1>3. v1 = [upload_frame |-> f, upload_word |-> w, frame_sel |-> s, enabled |-> e,
            framebuffer |-> b]
  BY <1>2
<1> HIDE DEF v1
<1>4. v2 = [upload_frame |-> f, upload_word |-> n, frame_sel |-> s, enabled |-> e,
            framebuffer |-> b]
  BY <1>3
<1> HIDE DEF v2
<1>5. /\ IsVga(v2) /\ v2.upload_frame = f /\ v2.upload_word = n
      /\ v2.framebuffer = v.framebuffer /\ v2.enabled = v.enabled /\ v2.frame_sel = v.frame_sel
  BY <1>2, <1>4 DEF IsVga
<1> QED
  BY <1>1, <1>5 DEF Ready

\* The first frame is selected, and the memory stays.
LEMMA FrameSelected ==
  ASSUME PictureFits, NEW v, Ready(v), NEW on
  PROVE  /\ Ready(TRex!set_ctrl(v, 0, on))
         /\ TRex!set_ctrl(v, 0, on).framebuffer = v.framebuffer
<1> DEFINE first == IF 0 < 1 THEN 0 ELSE v.frame_sel
           v1 == [v EXCEPT !.frame_sel = first]
           v2 == [v1 EXCEPT !.enabled = on]
<1>0. first = 0
  BY DEF PictureFits
<1>1. TRex!set_ctrl(v, 0, on) = v2
  BY DEF TRex!set_ctrl
<1> HIDE DEF first
<1>2. PICK u, w, s, e, b :
        v = [upload_frame |-> u, upload_word |-> w, frame_sel |-> s, enabled |-> e,
             framebuffer |-> b]
  BY DEF Ready, IsVga
<1>3. v1 = [upload_frame |-> u, upload_word |-> w, frame_sel |-> 0, enabled |-> e,
            framebuffer |-> b]
  BY <1>0, <1>2
<1> HIDE DEF v1
<1>4. v2 = [upload_frame |-> u, upload_word |-> w, frame_sel |-> 0, enabled |-> on,
            framebuffer |-> b]
  BY <1>3
<1> HIDE DEF v2
<1>5. IsVga(v2) /\ v2.framebuffer = v.framebuffer /\ v2.frame_sel = 0
  BY <1>2, <1>4 DEF IsVga
<1> QED
  BY <1>1, <1>5 DEF Ready

\* Outside the band the picture is the horizon.
HorizonIn(rows) ==
  \A r \in (0 .. 63) \ TRex!BandRows :
    rows[r] = IF r = 58 THEN {"line"} ELSE IF r = 59 THEN {"dots"} ELSE {}

\* What a row of the band shows.
RowShows(row, r, y, x, picture) ==
  /\ \A s \in row : s[1] # "die"
  /\ { s \in row : s[1] = "cactus" }
       = IF r \in TRex!cactus_y .. TRex!cactus_y + 3 THEN {TRex!cactus_row(r - TRex!cactus_y, x)} ELSE {}
  /\ \A s \in { t \in row : t[1] \in {"dino", "setdown"} } : s[2] = r - y /\ s[3] = picture
  /\ Cardinality({ t \in row : t[1] \in {"dino", "setdown"} }) <= 1
  /\ r \in y + 4 .. y + 7 => { t \in row : t[1] \in {"dino", "setdown"} } # {}

\* The invariant of the display: the horizon stays, and between the upload and the next
\* input the band shows the game.
DisplayInv ==
  /\ HorizonIn(vga_framebuffer)
  /\ Ready(vga) /\ HorizonIn(vga.framebuffer)
  /\ trex_pc = "show" =>
       \A r \in TRex!BandRows : RowShows(vga.framebuffer[r], r, dino_y, cactus_x, body_picture)
  /\ trex_pc = "input" /\ vga.enabled =>
       \A r \in TRex!BandRows : RowShows(vga.framebuffer[r], r, dino_y, cactus_x, 1 - body_picture)

\* The game counts as the library does.
LEMMA SameCardinality == \A S : TRex!Cardinality(S) = Cardinality(S)
BY Zenon DEF TRex!Cardinality, Cardinality

\* A row of the band that holds a row of the cactus, or none, and one of the dino, or none.
LEMMA RowOf ==
  ASSUME NEW r \in TRex!BandRows, NEW y \in Int, NEW x, NEW picture, NEW C, NEW D,
         C = IF r \in TRex!cactus_y .. TRex!cactus_y + 3 THEN {TRex!cactus_row(r - TRex!cactus_y, x)} ELSE {},
         \/ D = {} /\ r \notin y + 4 .. y + 7
         \/ D = {TRex!dino_row(r - y, picture)}
         \/ D = {TRex!setdown_row(r - y, picture)}
  PROVE  RowShows(C \cup D, r, y, x, picture)
<1> DEFINE row == C \cup D
<1>1. \A s \in C : s[1] = "cactus"
  BY DEF TRex!cactus_row
<1>2. \A s \in D : s[1] \in {"dino", "setdown"} /\ s[2] = r - y /\ s[3] = picture
  BY DEF TRex!dino_row, TRex!setdown_row
<1>3. (D = {} \/ \E s : D = {s}) /\ (r \in y + 4 .. y + 7 => D # {})
  OBVIOUS
<1>4. Cardinality(D) <= 1
  <2>1. CASE D = {}
    <3>1. Cardinality(D) = 0
      BY <2>1, FS_EmptySet
    <3> QED
      BY <3>1
  <2>2. ASSUME NEW s, D = {s}
        PROVE  Cardinality(D) <= 1
    <3>1. Cardinality(D) = 1
      BY <2>2, FS_Singleton
    <3> QED
      BY <3>1
  <2> QED
    BY <1>3, <2>1, <2>2
<1>5. { s \in row : s[1] = "cactus" } = C
  BY <1>1, <1>2
<1>6. { s \in row : s[1] \in {"dino", "setdown"} } = D
  BY <1>1, <1>2
<1>7. \A s \in row : s[1] # "die"
  BY <1>1, <1>2
<1> HIDE DEF row
<1>8. RowShows(row, r, y, x, picture)
  BY <1>2, <1>3, <1>4, <1>5, <1>6, <1>7 DEF RowShows
<1> QED
  BY <1>8 DEF row

\* What a round draws: the horizon stays, and the band shows the game (draw.c:156-196).
LEMMA RoundDrawn ==
  ASSUME PictureFits, NEW fb, HorizonIn(fb), NEW y \in 29 .. 50, NEW x, NEW picture,
         NEW crouched \in BOOLEAN
  PROVE  LET ground == TRex!place_cactus(TRex!draw_cleanup_buffers(fb), x)
             new == IF crouched THEN TRex!place_dino_setdown(ground, y, picture)
                    ELSE TRex!place_dino(ground, y, picture)
         IN  /\ HorizonIn(new)
             /\ \A r \in TRex!BandRows : RowShows(new[r], r, y, x, picture)
<1> DEFINE clean == TRex!draw_cleanup_buffers(fb)
           ground == TRex!place_cactus(clean, x)
           low == TRex!place_dino_setdown(ground, y, picture)
           high == TRex!place_dino(ground, y, picture)
           C(r) == IF r \in TRex!cactus_y .. TRex!cactus_y + 3 THEN {TRex!cactus_row(r - TRex!cactus_y, x)} ELSE {}
           L(r) == IF r \in y + 4 .. y + 7 THEN {TRex!setdown_row(r - y, picture)} ELSE {}
           H(r) == IF r \in y .. y + 7 THEN {TRex!dino_row(r - y, picture)} ELSE {}
<1>0. TRex!PictureRows = 0 .. 63 /\ TRex!cactus_y = 54 /\ TRex!BandRows = 28 .. 57
  BY DEF TRex!PictureRows, PictureFits, TRex!cactus_y, TRex!BandRows
<1>1. \A r \in 0 .. 63 : clean[r] = IF r \in 28 .. 57 THEN {} ELSE fb[r]
  BY <1>0 DEF TRex!draw_cleanup_buffers
<1> HIDE DEF clean
<1>2. \A r \in 0 .. 63 : ground[r] = IF r \in 54 .. 57 THEN clean[r] \cup {TRex!cactus_row(r - 54, x)}
                                     ELSE clean[r]
  BY <1>0 DEF TRex!place_cactus, TRex!place
<1> HIDE DEF ground
<1>3. \A r \in 0 .. 63 : high[r] = IF r \in y .. y + 7
                                   THEN ground[r] \cup {TRex!dino_row(r - y, picture)} ELSE ground[r]
  BY <1>0 DEF TRex!place_dino, TRex!place
<1>4. ASSUME NEW r \in 0 .. 63
      PROVE  low[r] = IF r \in y + 4 .. y + 7
                      THEN ground[r] \cup {TRex!setdown_row(r - y, picture)} ELSE ground[r]
  <2> DEFINE k == r - (y + 4) + 4
  <2>1. k = r - y
    OBVIOUS
  <2>2. r \in y + 4 .. y + 4 + 4 - 1 <=> r \in y + 4 .. y + 7
    OBVIOUS
  <2>3. low[r] = IF r \in y + 4 .. y + 4 + 4 - 1
                 THEN ground[r] \cup {TRex!setdown_row(k, picture)} ELSE ground[r]
    BY <1>0 DEF TRex!place_dino_setdown, TRex!place
  <2> HIDE DEF k, low
  <2> QED
    BY <2>1, <2>2, <2>3
<1> HIDE DEF high, low
<1>5. HorizonIn(high) /\ HorizonIn(low)
  BY <1>0, <1>1, <1>2, <1>3, <1>4, SMTT(30) DEF HorizonIn
<1>6. \A r \in 28 .. 57 : high[r] = C(r) \cup H(r) /\ low[r] = C(r) \cup L(r)
  BY <1>0, <1>1, <1>2, <1>3, <1>4, SMTT(30)
<1>7. ASSUME NEW r \in 28 .. 57
      PROVE  /\ RowShows(C(r) \cup H(r), r, y, x, picture)
             /\ RowShows(C(r) \cup L(r), r, y, x, picture)
  <2>1. r \in TRex!BandRows /\ y \in Int
    BY <1>0
  <2>2. C(r) = IF r \in TRex!cactus_y .. TRex!cactus_y + 3 THEN {TRex!cactus_row(r - TRex!cactus_y, x)} ELSE {}
    OBVIOUS
  <2>3. \/ H(r) = {} /\ r \notin y + 4 .. y + 7
        \/ H(r) = {TRex!dino_row(r - y, picture)}
    OBVIOUS
  <2>4. \/ L(r) = {} /\ r \notin y + 4 .. y + 7
        \/ L(r) = {TRex!setdown_row(r - y, picture)}
    OBVIOUS
  <2> HIDE DEF C, H, L
  <2>5. RowShows(C(r) \cup H(r), r, y, x, picture)
    BY <2>1, <2>2, <2>3, RowOf
  <2>6. RowShows(C(r) \cup L(r), r, y, x, picture)
    BY <2>1, <2>2, <2>4, RowOf
  <2> QED
    BY <2>5, <2>6
<1> QED
  BY <1>0, <1>5, <1>6, <1>7, ZenonT(40) DEF ground, clean, high, low

\* The skull lies in the band: the horizon stays (draw.c:205-230).
LEMMA SkullDrawn ==
  ASSUME PictureFits, NEW fb, HorizonIn(fb)
  PROVE  HorizonIn(TRex!place_die(TRex!draw_cleanup_buffers(fb)))
<1> DEFINE clean == TRex!draw_cleanup_buffers(fb)
           new == TRex!place_die(clean)
<1>0. TRex!PictureRows = 0 .. 63 /\ TRex!BandRows = 28 .. 57
  BY DEF TRex!PictureRows, PictureFits, TRex!BandRows
<1>1. \A r \in 0 .. 63 : clean[r] = IF r \in 28 .. 57 THEN {} ELSE fb[r]
  BY <1>0 DEF TRex!draw_cleanup_buffers
<1> HIDE DEF clean
<1>2. \A r \in 0 .. 63 : new[r] = IF r \in 50 .. 57 THEN clean[r] \cup {TRex!die_row(r - 50)}
                                  ELSE clean[r]
  BY <1>0 DEF TRex!place_die, TRex!place
<1> HIDE DEF new
<1>3. HorizonIn(new)
  BY <1>0, <1>1, <1>2 DEF HorizonIn
<1> QED
  BY <1>3 DEF new, clean

\* A whole picture with the horizon is streamed and selected.
LEMMA PictureSwapped ==
  ASSUME PictureFits, NEW v, Ready(v), NEW fb, HorizonIn(fb)
  PROVE  /\ Ready(TRex!draw_swap_buffers(v, fb))
         /\ HorizonIn(TRex!draw_swap_buffers(v, fb).framebuffer)
<1> DEFINE v1 == TRex!set_upload_addr(v, 0, 0)
           first == 0
           last == 63
           v2 == TRex!stream_rows(v1, fb, first, last)
           on == TRUE
           v3 == TRex!set_ctrl(v2, 0, on)
<1>1. TRex!draw_swap_buffers(v, fb) = v3
  BY DEF TRex!draw_swap_buffers, PictureFits
<1>2. Ready(v1) /\ v1.upload_frame = 0 /\ v1.upload_word = first
  BY AddressSet
<1> HIDE DEF v1
<1>3. first \in 0 .. 63 /\ last \in first .. 63 /\ first .. last = 0 .. 63
  BY SMTT(40)
<1> HIDE DEF first, last
<1>4. Streamed(v2, v1, fb, first, last)
  BY <1>2, <1>3, RowsStreamed
<1> HIDE DEF v2, on
<1>5. Ready(v3) /\ v3.framebuffer = v2.framebuffer
  BY <1>4, FrameSelected DEF Streamed
<1> HIDE DEF v3
<1>6. HorizonIn(v3.framebuffer)
  BY <1>3, <1>4, <1>5 DEF HorizonIn, Streamed
<1> QED
  BY <1>1, <1>5, <1>6 DEF first, last

\* The band is streamed, the rest of the memory stays.
LEMMA BandUploaded ==
  ASSUME PictureFits, NEW v, Ready(v), NEW fb
  PROVE  LET new == TRex!stream_rows(TRex!set_upload_addr(v, 0, 28), fb, 28, 57)
         IN  /\ Ready(new)
             /\ \A r \in 0 .. 63 :
                  new.framebuffer[r] = IF r \in TRex!BandRows THEN fb[r] ELSE v.framebuffer[r]
<1> DEFINE v1 == TRex!set_upload_addr(v, 0, 28)
           first == 28
           last == 57
           v2 == TRex!stream_rows(v1, fb, first, last)
<1>1. Ready(v1) /\ v1.upload_frame = 0 /\ v1.upload_word = first /\ v1.framebuffer = v.framebuffer
  BY AddressSet
<1> HIDE DEF v1
<1>2. first \in 0 .. 63 /\ last \in first .. 63 /\ first .. last = TRex!BandRows
  BY SMTT(40) DEF TRex!BandRows
<1> HIDE DEF first, last
<1>3. Streamed(v2, v1, fb, first, last)
  BY <1>1, <1>2, RowsStreamed
<1> HIDE DEF v2
<1>4. Ready(v2) /\ \A r \in 0 .. 63 : v2.framebuffer[r]
                                        = IF r \in TRex!BandRows THEN fb[r] ELSE v.framebuffer[r]
  BY <1>1, <1>2, <1>3 DEF Streamed
<1> QED
  BY <1>4 DEF v2, v1, first, last

\* At the start the display is off and holds the horizon.
LEMMA DisplayStart ==
  ASSUME PictureFits, TRex!Init
  PROVE  DisplayInv
<1> DEFINE none == {}
           blank == [r \in TRex!PictureRows |-> none]
           lined == [blank EXCEPT ![58] = {"line"}]
           fb == [lined EXCEPT ![59] = {"dots"}]
           off == FALSE
           memory == [a \in 0 .. TRexWords - 1 |-> none]
           v == [ upload_frame |-> 0, upload_word |-> 0, frame_sel |-> 0, enabled |-> off,
                  framebuffer |-> memory ]
           first == 0
           last == 63
           new == TRex!stream_rows(v, fb, first, last)
<1>1. vga_framebuffer = fb /\ vga = new
  BY DEF TRex!Init, TRex!draw_horizon, TRex!draw_init_buffers, TRex!vga_reset, PictureFits
<1>2. HorizonIn(fb)
  <2>1. \A r \in 0 .. 63 : blank[r] = none
    BY DEF TRex!PictureRows, PictureFits
  <2>2. DOMAIN blank = 0 .. 63
    BY DEF TRex!PictureRows, PictureFits
  <2>0. none = {}
    OBVIOUS
  <2> HIDE DEF blank, none
  <2>3. DOMAIN lined = 0 .. 63 /\ \A r \in 0 .. 63 : lined[r] = IF r = 58 THEN {"line"} ELSE none
    BY <2>1, <2>2
  <2> HIDE DEF lined
  <2>4. \A r \in 0 .. 63 : fb[r] = IF r = 59 THEN {"dots"} ELSE lined[r]
    BY <2>3
  <2> HIDE DEF fb
  <2>5. ASSUME NEW r \in 0 .. 63
        PROVE  fb[r] = IF r = 58 THEN {"line"} ELSE IF r = 59 THEN {"dots"} ELSE {}
    <3>1. CASE r = 58
      BY <2>3, <2>4, <3>1
    <3>2. CASE r = 59
      BY <2>4, <3>2
    <3>3. CASE r # 58 /\ r # 59
      BY <2>0, <2>3, <2>4, <3>3
    <3> QED
      BY <3>1, <3>2, <3>3
  <2> QED
    BY <2>5 DEF HorizonIn
<1> HIDE DEF fb
<1>3. DOMAIN memory = 0 .. TRexWords - 1
  OBVIOUS
<1> HIDE DEF memory, off
<1>4. Ready(v) /\ v.upload_frame = 0 /\ v.upload_word = 0 /\ v.enabled = off
  BY <1>3 DEF Ready, IsVga
<1> HIDE DEF v
<1>5. first \in 0 .. 63 /\ last \in first .. 63 /\ first .. last = 0 .. 63 /\ first = 0
  OBVIOUS
<1> HIDE DEF first, last
<1>6. Streamed(new, v, fb, first, last)
  BY <1>4, <1>5, RowsStreamed
<1> HIDE DEF new
<1>7. HorizonIn(new.framebuffer)
  BY <1>2, <1>5, <1>6 DEF HorizonIn, Streamed
<1>8. ~vga.enabled /\ trex_pc = "input"
  BY <1>1, <1>4, <1>6 DEF off, TRex!Init, Streamed
<1> QED
  BY <1>1, <1>2, <1>6, <1>7, <1>8 DEF DisplayInv, Streamed

\* Every step keeps the invariant of the display.
LEMMA StepKeepsDisplay ==
  ASSUME PictureFits, CACTUS_START \in Nat, FlightInv, DisplayInv, [TRex!Next]_(TRex!vars)
  PROVE  DisplayInv'
<1>1. CASE TRex!KeyArrives
  BY <1>1 DEF TRex!KeyArrives, DisplayInv
<1>2. CASE TRex!Input
  BY <1>2 DEF TRex!Input, DisplayInv
<1>3. CASE TRex!Move
  <2>1. CASE TRex!crash(dino_y')
    <3> DEFINE fb == TRex!place_die(TRex!draw_cleanup_buffers(vga_framebuffer))
    <3>1. HorizonIn(vga_framebuffer) /\ Ready(vga)
      BY DEF DisplayInv
    <3>2. HorizonIn(fb)
      BY <3>1, SkullDrawn
    <3>3. vga_framebuffer' = fb /\ vga' = TRex!draw_swap_buffers(vga, fb) /\ trex_pc' = "dead"
      BY <1>3, <2>1 DEF TRex!Move
    <3> HIDE DEF fb
    <3>4. Ready(TRex!draw_swap_buffers(vga, fb)) /\ HorizonIn(TRex!draw_swap_buffers(vga, fb).framebuffer)
      BY <3>1, <3>2, PictureSwapped
    <3> QED
      BY <3>2, <3>3, <3>4 DEF DisplayInv
  <2>2. CASE ~TRex!crash(dino_y')
    <3>1. trex_pc' = "scroll" /\ vga_framebuffer' = vga_framebuffer /\ vga' = vga
      BY <1>3, <2>2 DEF TRex!Move
    <3> QED
      BY <3>1 DEF DisplayInv
  <2> QED
    BY <2>1, <2>2
<1>4. CASE TRex!KeyAfterCrash
  BY <1>4 DEF TRex!KeyAfterCrash, DisplayInv
<1>5. CASE TRex!Scroll
  BY <1>5 DEF TRex!Scroll, DisplayInv
<1>6. CASE TRex!Draw
  <2> DEFINE crouched == setdown_times > 0
             ground == TRex!place_cactus(TRex!draw_cleanup_buffers(vga_framebuffer), cactus_x)
             fb == IF crouched THEN TRex!place_dino_setdown(ground, dino_y, body_picture)
                   ELSE TRex!place_dino(ground, dino_y, body_picture)
             new == TRex!stream_rows(TRex!set_upload_addr(vga, 0, 28), fb, 28, 57)
  <2>1. /\ vga_framebuffer' = fb /\ vga' = new /\ trex_pc' = "show"
        /\ dino_y' = dino_y /\ cactus_x' = cactus_x /\ body_picture' = body_picture
    BY <1>6 DEF TRex!Draw
  <2>2. HorizonIn(vga_framebuffer) /\ Ready(vga) /\ HorizonIn(vga.framebuffer)
    BY DEF DisplayInv
  <2>3. dino_y \in 29 .. 50 /\ crouched \in BOOLEAN
    BY DEF FlightInv, Flight, Rise, Sinking
  <2> HIDE DEF crouched
  <2>4. HorizonIn(fb) /\ \A r \in TRex!BandRows : RowShows(fb[r], r, dino_y, cactus_x, body_picture)
    BY <2>2, <2>3, RoundDrawn
  <2> HIDE DEF fb
  <2>5. Ready(new) /\ \A r \in 0 .. 63 :
          new.framebuffer[r] = IF r \in TRex!BandRows THEN fb[r] ELSE vga.framebuffer[r]
    BY <2>2, BandUploaded
  <2> HIDE DEF new
  <2>6. HorizonIn(new.framebuffer)
    BY <2>2, <2>5 DEF HorizonIn
  <2>7. \A r \in TRex!BandRows : RowShows(new.framebuffer[r], r, dino_y, cactus_x, body_picture)
    BY <2>4, <2>5 DEF TRex!BandRows
  <2> QED
    BY <2>1, <2>4, <2>5, <2>6, <2>7 DEF DisplayInv
<1>7. CASE TRex!Show
  <2> DEFINE on == TRUE
             new == TRex!set_ctrl(vga, 0, on)
  <2>1. /\ vga' = new /\ trex_pc' = "input" /\ body_picture' = 1 - body_picture /\ trex_pc = "show"
        /\ UNCHANGED <<vga_framebuffer, dino_y, cactus_x>>
    BY <1>7 DEF TRex!Show
  <2>2. Ready(vga)
    BY DEF DisplayInv
  <2> HIDE DEF on
  <2>3. Ready(new) /\ new.framebuffer = vga.framebuffer
    BY <2>2, FrameSelected
  <2> HIDE DEF new
  <2>4. 1 - body_picture' = body_picture
    BY <2>1 DEF FlightInv, TRex!TypeOK
  <2> QED
    BY <2>1, <2>3, <2>4 DEF DisplayInv
<1>8. CASE UNCHANGED TRex!vars
  BY <1>8 DEF TRex!vars, DisplayInv
<1> QED
  BY <1>1, <1>2, <1>3, <1>4, <1>5, <1>6, <1>7, <1>8 DEF TRex!Next, TRex!Round

\* What the invariant says of the band and of the rest is what the display shows.
LEMMA ShownAsDrawn ==
  ASSUME PictureFits, FlightInv, DisplayInv
  PROVE  TRex!PictureShowsGame
<1> SUFFICES ASSUME trex_pc = "input", vga.enabled, NEW r \in TRex!PictureRows
             PROVE  LET shown == TRex!frame_word(vga, vga.frame_sel, r)
                        dino == { s \in shown : s[1] \in {"dino", "setdown"} } IN
                    CASE r = 58 -> shown = {"line"}
                      [] r = 59 -> shown = {"dots"}
                      [] OTHER ->
                           /\ \A s \in shown : s[1] # "die"
                           /\ { s \in shown : s[1] = "cactus" }
                                = IF r \in TRex!cactus_y .. TRex!cactus_y + 3
                                  THEN {TRex!cactus_row(r - TRex!cactus_y, cactus_x)} ELSE {}
                           /\ \A s \in dino : s[2] = r - dino_y /\ s[3] = 1 - body_picture
                           /\ Cardinality(dino) <= 1
                           /\ r \in dino_y + 4 .. dino_y + 7 => dino # {}
  BY SameCardinality DEF TRex!PictureShowsGame
<1> DEFINE shown == TRex!frame_word(vga, vga.frame_sel, r)
           dino == { s \in shown : s[1] \in {"dino", "setdown"} }
           rule == shown = {"line"}
           dots == shown = {"dots"}
           band == /\ \A s \in shown : s[1] # "die"
                   /\ { s \in shown : s[1] = "cactus" }
                        = IF r \in TRex!cactus_y .. TRex!cactus_y + 3
                          THEN {TRex!cactus_row(r - TRex!cactus_y, cactus_x)} ELSE {}
                   /\ \A s \in dino : s[2] = r - dino_y /\ s[3] = 1 - body_picture
                   /\ Cardinality(dino) <= 1
                   /\ r \in dino_y + 4 .. dino_y + 7 => dino # {}
<1>1. TRex!PictureRows = 0 .. 63 /\ TRex!BandRows = 28 .. 57 /\ TRex!cactus_y = 54 /\ dino_y \in 29 .. 50
  BY DEF TRex!PictureRows, PictureFits, TRex!BandRows, TRex!cactus_y, FlightInv, Flight, Rise, Sinking
<1>2. shown = vga.framebuffer[r]
  <2>1. vga.frame_sel = 0 /\ 0 * TRexWords + r = r
    BY <1>1 DEF DisplayInv, Ready, PictureFits
  <2> QED
    BY <2>1 DEF TRex!frame_word
<1> HIDE DEF shown
<1>3. ASSUME r = 58
      PROVE  rule
  BY <1>1, <1>2, <1>3 DEF DisplayInv, HorizonIn
<1>4. ASSUME r = 59
      PROVE  dots
  BY <1>1, <1>2, <1>4 DEF DisplayInv, HorizonIn
<1>5. ASSUME r # 58, r # 59
      PROVE  band
  <2>1. RowShows(shown, r, dino_y, cactus_x, 1 - body_picture)
    <3>1. CASE r \in TRex!BandRows
      BY <1>2, <3>1 DEF DisplayInv
    <3>2. CASE r \notin TRex!BandRows
      <4>1. shown = {}
        BY <1>1, <1>2, <1>5, <3>2 DEF DisplayInv, HorizonIn
      <4>2. dino = {} /\ Cardinality(dino) = 0
        BY <4>1, FS_EmptySet
      <4>3. r \notin TRex!cactus_y .. TRex!cactus_y + 3 /\ r \notin dino_y + 4 .. dino_y + 7
        BY <1>1, <3>2
      <4> QED
        BY <4>1, <4>2, <4>3 DEF RowShows
    <3> QED
      BY <3>1, <3>2
  <2> QED
    BY <2>1 DEF RowShows
<1> HIDE DEF rule, dots, band
<1>6. (CASE r = 58 -> rule [] r = 59 -> dots [] OTHER -> band)
  BY <1>3, <1>4, <1>5, Zenon
<1> QED
  BY <1>6, Zenon DEF rule, dots, band, shown, dino


\* A step of the board is a step of the game, or not about it.
LEMMA TRexRuns ==
  ASSUME [Next]_vars, program = "trex"
  PROVE  [TRex!Next]_(TRex!vars)
<1>1. CASE RunTRex
  BY <1>1 DEF RunTRex
<1>2. CASE UNCHANGED vars
  BY <1>2 DEF vars, trex_vars, TRex!vars
<1> QED
  BY <1>1, <1>2 DEF Next, RunTetris, RunInput, RunNyancat

\* While the board runs the game, the dino flies as it should.
TRexFlies == program = "trex" => FlightInv

\* The flight goes on in every state of the board.
LEMMA TRexFlightInvariant ==
  ASSUME CACTUS_START \in Nat
  PROVE  Spec => []TRexFlies
<1>1. Init => TRexFlies
  BY InitFlight DEF Init, TRexFlies
<1>2. TRexFlies /\ [Next]_vars => TRexFlies'
  BY ProgramStays, TRexRuns, StepFlight DEF TRexFlies
<1> QED
  BY <1>1, <1>2, PTL DEF Spec

\* While the board runs the game, the display holds the horizon and the last round.
TRexShows == program = "trex" => DisplayInv

\* The display is true in every state of the board.
LEMMA TRexDisplayInvariant ==
  ASSUME CACTUS_START \in Nat, PictureFits
  PROVE  Spec => [](TRexFlies /\ TRexShows)
<1>1. Init => TRexShows
  BY DisplayStart DEF Init, TRexShows
<1>2. TRexFlies /\ TRexShows /\ [Next]_vars => TRexShows'
  BY ProgramStays, TRexRuns, StepKeepsDisplay DEF TRexFlies, TRexShows
<1> QED
  BY <1>1, <1>2, TRexFlightInvariant, PTL DEF Spec

\* However often and whenever jump and crouch are pressed, the dino's eight rows lie in
\* the band that a round clears and uploads (trex/draw.c:193-196, 278; trex/play.c:31-50).
THEOREM DinoKeepsToBand ==
  ASSUME CACTUS_START \in Nat
  PROVE  Spec => []DinoInBand
<1>1. TRexFlies => DinoInBand
  <2> SUFFICES ASSUME program = "trex", FlightInv
               PROVE  TRex!DinoInBand
    BY DEF TRexFlies, DinoInBand
  <2> QED
    BY DEF FlightInv, Flight, Rise, Sinking, TRex!DinoInBand, TRex!BandRows
<1> QED
  BY <1>1, TRexFlightInvariant, PTL

\* The display shows this dino, this cactus and the horizon at the start of every round,
\* and nothing of an earlier round or of the skull, although a round clears and uploads a
\* part of the picture only (trex/draw.c:156-203).
THEOREM PictureAlwaysShowsGame ==
  ASSUME CACTUS_START \in Nat, PictureFits
  PROVE  Spec => []PictureShowsGame
<1>1. TRexFlies /\ TRexShows => PictureShowsGame
  <2> SUFFICES ASSUME program = "trex", FlightInv, DisplayInv
               PROVE  TRex!PictureShowsGame
    BY DEF TRexFlies, TRexShows, PictureShowsGame
  <2> QED
    BY ShownAsDrawn
<1> QED
  BY <1>1, TRexDisplayInvariant, PTL

-----------------------------------------------------------------------------
(***************************************************************************)
(* The keys of tetris.                                                     *)
(***************************************************************************)
\* The escape key itself is not among the keys.
KeysFit == "ESC" \notin PressedKeys /\ Capacity \in Nat

\* The keys of three bytes, the inputs and the bytes.
Arrows == {"up", "down", "right", "left", "home"}
Inputs == {"ROTATE", "SOFT_DROP", "RIGHT", "LEFT", "HARD_DROP", "PAUSE", "QUIT"}
Bytes == {"ESC", "[", "O", "A", "B", "C", "D", "H"} \cup PressedKeys

\* How many bytes a key is.
size(key) == IF key \in Arrows THEN 3 ELSE 1

\* The bytes of a key and what they stand for, one by one (tetris.c:107-169).
KeyReads(key) ==
  /\ Len(Input!bytes(key)) = size(key)
  /\ key \in Arrows =>
       /\ Input!bytes(key)[1] = "ESC"
       /\ Input!bytes(key)[2] \in {"[", "O"}
       /\ Input!arrow_of(Input!bytes(key)[3]) = Input!meaning(key)
  /\ key \notin Arrows =>
       /\ Input!bytes(key)[1] # "ESC"
       /\ Input!input_of(Input!bytes(key)[1]) = Input!meaning(key)
  /\ Input!bytes(key) \in Seq(Bytes)
  /\ Input!meaning(key) \in Inputs \cup {"NONE"}

\* An arrow is three bytes, the last of which tells which.
LEMMA ArrowIsRead ==
  ASSUME NEW key \in Arrows, NEW second \in {"[", "O"}, NEW third \in {"A", "B", "C", "D", "H"},
         Input!bytes(key) = <<"ESC", second, third>>,
         Input!arrow_of(third) = Input!meaning(key),
         Input!meaning(key) \in Inputs \cup {"NONE"}
  PROVE  KeyReads(key)
<1> DEFINE b == Input!bytes(key)
<1>1. b \in Seq(Bytes)
  <2>1. {"ESC", second, third} \subseteq Bytes
    BY DEF Bytes
  <2> QED
    BY <2>1
<1>2. Len(b) = 3 /\ b[1] = "ESC" /\ b[2] = second /\ b[3] = third
  OBVIOUS
<1> HIDE DEF b
<1> QED
  BY <1>1, <1>2 DEF KeyReads, size, b

\* A key means what its bytes stand for.
LEMMA KeyIsRead ==
  ASSUME KeysFit, NEW key \in PressedKeys
  PROVE  KeyReads(key)
<1>1. CASE key = "up"
  <2>1. Input!bytes(key) = <<"ESC", "[", "A">> /\ Input!meaning(key) = "ROTATE"
    BY <1>1, Zenon DEF Input!bytes, Input!meaning
  <2>2. Input!arrow_of("A") = "ROTATE"
    BY Zenon DEF Input!arrow_of
  <2> QED
    BY <1>1, <2>1, <2>2, ArrowIsRead DEF Arrows, Inputs
<1>2. CASE key = "down"
  <2>1. Input!bytes(key) = <<"ESC", "O", "B">> /\ Input!meaning(key) = "SOFT_DROP"
    BY <1>2, Zenon DEF Input!bytes, Input!meaning
  <2>2. Input!arrow_of("B") = "SOFT_DROP"
    BY Zenon DEF Input!arrow_of
  <2> QED
    BY <1>2, <2>1, <2>2, ArrowIsRead DEF Arrows, Inputs
<1>3. CASE key = "right"
  <2>1. Input!bytes(key) = <<"ESC", "[", "C">> /\ Input!meaning(key) = "RIGHT"
    BY <1>3, Zenon DEF Input!bytes, Input!meaning
  <2>2. Input!arrow_of("C") = "RIGHT"
    BY Zenon DEF Input!arrow_of
  <2> QED
    BY <1>3, <2>1, <2>2, ArrowIsRead DEF Arrows, Inputs
<1>4. CASE key = "left"
  <2>1. Input!bytes(key) = <<"ESC", "[", "D">> /\ Input!meaning(key) = "LEFT"
    BY <1>4, Zenon DEF Input!bytes, Input!meaning
  <2>2. Input!arrow_of("D") = "LEFT"
    BY Zenon DEF Input!arrow_of
  <2> QED
    BY <1>4, <2>1, <2>2, ArrowIsRead DEF Arrows, Inputs
<1>5. CASE key = "home"
  <2>1. Input!bytes(key) = <<"ESC", "[", "H">> /\ Input!meaning(key) = "NONE"
    BY <1>5, Zenon DEF Input!bytes, Input!meaning
  <2>2. Input!arrow_of("H") = "NONE"
    BY Zenon DEF Input!arrow_of
  <2> QED
    BY <1>5, <2>1, <2>2, ArrowIsRead DEF Arrows, Inputs
<1>6. CASE key \notin Arrows
  <2>1. Input!bytes(key) = <<key>>
    BY <1>6, Zenon DEF Input!bytes, Arrows
  <2>2. Input!input_of(key) = Input!meaning(key) /\ Input!meaning(key) \in Inputs \cup {"NONE"}
    <3>1. CASE key \in {"w", "W", "k"}
      <4>1. Input!input_of(key) = "ROTATE" /\ Input!meaning(key) = "ROTATE"
        BY <3>1, Zenon DEF Input!input_of, Input!meaning
      <4> QED
        BY <4>1 DEF Inputs
    <3>2. CASE key \in {"s", "S", "j"}
      <4>1. Input!input_of(key) = "SOFT_DROP" /\ Input!meaning(key) = "SOFT_DROP"
        BY <3>2, Zenon DEF Input!input_of, Input!meaning
      <4> QED
        BY <4>1 DEF Inputs
    <3>3. CASE key \in {"d", "D", "l"}
      <4>1. Input!input_of(key) = "RIGHT" /\ Input!meaning(key) = "RIGHT"
        BY <3>3, Zenon DEF Input!input_of, Input!meaning
      <4> QED
        BY <4>1 DEF Inputs
    <3>4. CASE key \in {"a", "A", "h"}
      <4>1. Input!input_of(key) = "LEFT" /\ Input!meaning(key) = "LEFT"
        BY <3>4, Zenon DEF Input!input_of, Input!meaning
      <4> QED
        BY <4>1 DEF Inputs
    <3>5. CASE key = " "
      <4>1. Input!input_of(key) = "HARD_DROP" /\ Input!meaning(key) = "HARD_DROP"
        BY <3>5, Zenon DEF Input!input_of, Input!meaning
      <4> QED
        BY <4>1 DEF Inputs
    <3>7. CASE key \in {"p", "P"}
      <4>1. Input!input_of(key) = "PAUSE" /\ Input!meaning(key) = "PAUSE"
        BY <3>7, Zenon DEF Input!input_of, Input!meaning
      <4> QED
        BY <4>1 DEF Inputs
    <3>8. CASE key \in {"q", "Q"}
      <4>1. Input!input_of(key) = "QUIT" /\ Input!meaning(key) = "QUIT"
        BY <3>8, Zenon DEF Input!input_of, Input!meaning
      <4> QED
        BY <4>1 DEF Inputs
    <3>6. CASE key \notin {"w", "W", "k", "s", "S", "j", "d", "D", "l", "a", "A", "h", " ",
                           "p", "P", "q", "Q"}
      <4>1. Input!input_of(key) = "NONE" /\ Input!meaning(key) = "NONE"
        BY <1>6, <3>6, Zenon DEF Input!input_of, Input!meaning, Arrows
      <4> QED
        BY <4>1
    <3> QED
      BY <3>1, <3>2, <3>3, <3>4, <3>5, <3>6, <3>7, <3>8
  <2> QED
    BY <1>6, <2>1, <2>2 DEF KeyReads, size, Bytes, KeysFit
<1> QED
  BY <1>1, <1>2, <1>3, <1>4, <1>5, <1>6 DEF Arrows

\* What explains a byte that is still to be read: the key it is of, its place in it, and
\* the number of the input that the key stands for or comes before.
Tag == [key: PressedKeys, place: 1 .. 3, number: Int]

\* The last byte of a key, and the number of the input after it.
IsLast(t) == t.place = size(t.key)
NumberAfter(t) == IF Input!meaning(t.key) = "NONE" THEN t.number ELSE t.number + 1

\* The byte is the key's, and the input of the key is in its place.
Explains(t, byte, inputs, before) ==
  /\ t.place <= size(t.key)
  /\ byte = Input!bytes(t.key)[t.place]
  /\ t.number - before \in 1 .. Len(inputs) + 1
  /\ Input!meaning(t.key) # "NONE" =>
       t.number - before \in 1 .. Len(inputs) /\ inputs[t.number - before] = Input!meaning(t.key)

\* Byte follows byte within a key, and key follows key.
Follows(t, u) ==
  /\ IsLast(t) => u.place = 1 /\ u.number = NumberAfter(t)
  /\ ~IsLast(t) => u.key = t.key /\ u.place = t.place + 1 /\ u.number = t.number

\* Where input_poll stands within a key.
place_at(where) == IF where = "start" THEN 1 ELSE IF where = "escape" THEN 2 ELSE 3

\* The bytes to be read are those of whole keys, but for the bytes that input_poll has
\* read of the first one, and the inputs are what these keys stand for, in order.
Accounted(bytes, where, inputs, tags, before) ==
  /\ before \in Int
  /\ tags \in [1 .. Len(bytes) -> Tag]
  /\ \A i \in 1 .. Len(bytes) : Explains(tags[i], bytes[i], inputs, before)
  /\ \A i \in 1 .. Len(bytes) - 1 : Follows(tags[i], tags[i + 1])
  /\ \A i, j \in 1 .. Len(bytes) :
       i < j /\ IsLast(tags[i]) => tags[j].number >= NumberAfter(tags[i])
  /\ Len(bytes) = 0 => where = "start" /\ Len(inputs) = 0
  /\ Len(bytes) > 0 =>
       /\ tags[1].place = place_at(where)
       /\ tags[1].number = before + 1
       /\ IsLast(tags[Len(bytes)])
       /\ NumberAfter(tags[Len(bytes)]) = before + Len(inputs) + 1

\* The queue of bytes: the ones the program can read, then those on their way.
queue == fifo \o line

\* Where it stands within a key; a program that is over has stopped between two keys.
stands == IF at = "over" THEN "start" ELSE at

\* The invariant of the keys: types, room in the UART, and the account.
InputInv ==
  /\ fifo \in Seq(Bytes) /\ line \in Seq(Bytes) /\ pressed \in Seq(Inputs)
  /\ at \in {"start", "escape", "bracket", "over"}
  /\ Len(line) + Len(fifo) <= Capacity
  /\ \E tags, before : Accounted(queue, stands, pressed, tags, before)

\* A byte that is not the last of its key is read.
LEMMA PartIsRead ==
  ASSUME NEW q \in Seq(Bytes), NEW where, NEW inputs \in Seq(Inputs), NEW tags, NEW before,
         Accounted(q, where, inputs, tags, before), Len(q) > 0, ~IsLast(tags[1]),
         NEW next, place_at(next) = place_at(where) + 1
  PROVE  \E tags2, before2 : Accounted(Tail(q), next, inputs, tags2, before2)
<1> DEFINE n == Len(q)
           tags2 == [i \in 1 .. n - 1 |-> tags[i + 1]]
<1>1. n \in Nat /\ n >= 2
  <2>1. n \in Nat /\ n >= 1
    OBVIOUS
  <2> QED
    BY <2>1 DEF Accounted
<1>2. Tail(q) \in Seq(Bytes) /\ Len(Tail(q)) = n - 1 /\ \A i \in 1 .. n - 1 : Tail(q)[i] = q[i + 1]
  BY <1>1, HeadTailProperties
<1> HIDE DEF n
<1>3. tags \in [1 .. n -> Tag] /\ before \in Int
  BY DEF Accounted, n
<1>4. tags2 \in [1 .. n - 1 -> Tag] /\ \A i \in 1 .. n - 1 : tags2[i] = tags[i + 1]
  BY <1>1, <1>3
<1> HIDE DEF tags2
<1>5. \A i \in 1 .. n - 1 : Explains(tags2[i], Tail(q)[i], inputs, before)
  BY <1>1, <1>2, <1>4 DEF Accounted, n
<1>6. \A i \in 1 .. n - 2 : Follows(tags2[i], tags2[i + 1])
  <2> TAKE i \in 1 .. n - 2
  <2>1. i + 1 \in 1 .. n - 1 /\ i \in 1 .. n - 1 /\ Follows(tags[i + 1], tags[i + 1 + 1])
    BY <1>1 DEF Accounted, n
  <2> QED
    BY <1>4, <2>1
<1>7. Follows(tags[1], tags[2])
  BY <1>1 DEF Accounted, n
<1>8. /\ tags2[1].place = place_at(next) /\ tags2[1].number = before + 1
      /\ IsLast(tags2[n - 1]) /\ NumberAfter(tags2[n - 1]) = before + Len(inputs) + 1
  BY <1>1, <1>4, <1>7 DEF Accounted, n, Follows
<1>9. \A i, j \in 1 .. n - 1 :
        i < j /\ IsLast(tags2[i]) => tags2[j].number >= NumberAfter(tags2[i])
  <2> TAKE i, j \in 1 .. n - 1
  <2>1. i + 1 \in 1 .. n /\ j + 1 \in 1 .. n /\ (i < j => i + 1 < j + 1)
    BY <1>1
  <2> QED
    BY <1>4, <2>1 DEF Accounted, n
<1>10. Accounted(Tail(q), next, inputs, tags2, before)
  BY <1>1, <1>2, <1>3, <1>4, <1>5, <1>6, <1>8, <1>9, SMTT(40) DEF Accounted
<1> QED
  BY <1>10

\* A place counted from one number is a place counted from the next one.
LEMMA Shifted ==
  ASSUME NEW x \in Int, NEW b \in Int, NEW b2 \in Int, NEW long \in Nat, NEW short \in Nat,
         short = long - (b2 - b), x - b \in 1 .. long, x - b2 \in 1 .. short + 1
  PROVE  x - b2 \in 1 .. short /\ (x - b2) + (b2 - b) = x - b
OBVIOUS

\* The last byte of a key is read: the input it stands for is the oldest one.
LEMMA KeyIsDone ==
  ASSUME NEW q \in Seq(Bytes), NEW where, NEW inputs \in Seq(Inputs), NEW tags, NEW before,
         Accounted(q, where, inputs, tags, before), Len(q) > 0, IsLast(tags[1])
  PROVE  LET input == Input!meaning(tags[1].key)
             rest == IF input = "NONE" THEN inputs ELSE Tail(inputs)
         IN  /\ input # "NONE" => inputs # << >> /\ input = Head(inputs)
             /\ \E tags2, before2 : Accounted(Tail(q), "start", rest, tags2, before2)
<1> DEFINE n == Len(q)
           tags2 == [i \in 1 .. n - 1 |-> tags[i + 1]]
           input == Input!meaning(tags[1].key)
           rest == IF input = "NONE" THEN inputs ELSE Tail(inputs)
           before2 == IF input = "NONE" THEN before ELSE before + 1
<1>1. n \in Nat /\ n >= 1
  OBVIOUS
<1>2. Tail(q) \in Seq(Bytes) /\ Len(Tail(q)) = n - 1 /\ \A i \in 1 .. n - 1 : Tail(q)[i] = q[i + 1]
  BY <1>1, HeadTailProperties
<1> HIDE DEF n
<1>3. tags \in [1 .. n -> Tag] /\ before \in Int
  BY DEF Accounted, n
<1>4. tags2 \in [1 .. n - 1 -> Tag] /\ \A i \in 1 .. n - 1 : tags2[i] = tags[i + 1]
  BY <1>1, <1>3
<1> HIDE DEF tags2
<1>5. input # "NONE" => Len(inputs) >= 1 /\ inputs[1] = input
  <2>1. tags[1].number = before + 1 /\ Explains(tags[1], q[1], inputs, before)
    BY <1>1 DEF Accounted, n
  <2>2. tags[1].number - before = 1
    BY <1>3, <2>1
  <2>3. input # "NONE" =>
          /\ tags[1].number - before \in 1 .. Len(inputs)
          /\ inputs[tags[1].number - before] = input
    BY <2>1 DEF Explains
  <2> HIDE DEF input
  <2> QED
    BY <2>2, <2>3
<1> HIDE DEF input
<1>6. /\ rest \in Seq(Inputs) /\ Len(rest) = Len(inputs) - (before2 - before)
      /\ before2 - before \in {0, 1} /\ before2 \in Int
      /\ \A i \in 1 .. Len(rest) : rest[i] = inputs[i + (before2 - before)]
  <2>1. CASE input = "NONE"
    BY <1>3, <2>1
  <2>2. CASE input # "NONE"
    <3>1. Tail(inputs) \in Seq(Inputs) /\ Len(Tail(inputs)) = Len(inputs) - 1
          /\ \A i \in 1 .. Len(inputs) - 1 : Tail(inputs)[i] = inputs[i + 1]
      BY <1>5, <2>2, HeadTailProperties
    <3>2. before2 - before = 1
      BY <1>3, <2>2
    <3> QED
      BY <1>3, <2>2, <3>1, <3>2
  <2> QED
    BY <2>1, <2>2
<1>7. NumberAfter(tags[1]) = before2 + 1
  BY <1>1, <1>3 DEF Accounted, n, NumberAfter, input
<1>8. \A i \in 1 .. n - 1 : tags2[i].number >= before2 + 1
  <2> TAKE i \in 1 .. n - 1
  <2>1. 1 \in 1 .. n /\ i + 1 \in 1 .. n /\ 1 < i + 1
    BY <1>1
  <2> QED
    BY <1>4, <1>7, <2>1 DEF Accounted, n
<1>9. \A i \in 1 .. n - 1 : Explains(tags2[i], Tail(q)[i], rest, before2)
  <2> TAKE i \in 1 .. n - 1
  <2> DEFINE t == tags2[i]
  <2>1. i + 1 \in 1 .. n /\ t = tags[i + 1] /\ t.number \in Int
    BY <1>1, <1>3, <1>4 DEF Tag
  <2>2. Explains(t, Tail(q)[i], inputs, before)
    BY <1>2, <2>1 DEF Accounted, n
  <2>3. t.number >= before2 + 1
    BY <1>8
  <2> HIDE DEF t, before2, rest
  <2>4. t.number - before2 \in 1 .. Len(rest) + 1
    <3> DEFINE x == t.number
               long == Len(inputs)
               short == Len(rest)
    <3>1. x - before \in 1 .. long + 1
      BY <2>2 DEF Explains
    <3>2. long \in Nat /\ short \in Nat /\ short = long - (before2 - before)
      BY <1>6
    <3>3. x \in Int /\ before \in Int /\ before2 \in Int /\ x >= before2 + 1
      BY <1>3, <1>6, <2>1, <2>3
    <3> HIDE DEF x, long, short
    <3>4. x - before2 \in 1 .. short + 1
      BY <3>1, <3>2, <3>3
    <3> QED
      BY <3>4 DEF x, short
  <2>5. ASSUME Input!meaning(t.key) # "NONE"
        PROVE  t.number - before2 \in 1 .. Len(rest)
               /\ rest[t.number - before2] = Input!meaning(t.key)
    <3>1. t.number - before \in 1 .. Len(inputs) /\ inputs[t.number - before] = Input!meaning(t.key)
      BY <2>2, <2>5 DEF Explains
    <3>2. Len(rest) \in Nat /\ Len(inputs) \in Nat
      BY <1>6
    <3> DEFINE k == t.number - before2
               x == t.number
               long == Len(inputs)
               short == Len(rest)
    <3>3. x \in Int /\ before \in Int /\ before2 \in Int
      BY <1>3, <1>6, <2>1
    <3>4. short = long - (before2 - before) /\ x - before \in 1 .. long /\ x - before2 \in 1 .. short + 1
      BY <1>6, <2>4, <3>1
    <3>5. k \in 1 .. Len(rest) /\ k + (before2 - before) = t.number - before
      <4>1. long \in Nat /\ short \in Nat
        BY <3>2
      <4> HIDE DEF x, long, short
      <4>2. x - before2 \in 1 .. short /\ (x - before2) + (before2 - before) = x - before
        BY <3>3, <3>4, <4>1, Shifted
      <4> QED
        BY <4>2 DEF x, short
    <3> HIDE DEF k
    <3>6. rest[k] = inputs[k + (before2 - before)]
      BY <1>6, <3>5
    <3>7. k \in 1 .. Len(rest) /\ rest[k] = Input!meaning(t.key)
      BY <3>1, <3>5, <3>6
    <3> QED
      BY <3>7 DEF k
  <2> QED
    BY <2>2, <2>4, <2>5 DEF Explains, t
<1>10. \A i \in 1 .. n - 2 : Follows(tags2[i], tags2[i + 1])
  <2> TAKE i \in 1 .. n - 2
  <2>1. i + 1 \in 1 .. n - 1 /\ i \in 1 .. n - 1 /\ Follows(tags[i + 1], tags[i + 1 + 1])
    BY <1>1 DEF Accounted, n
  <2> QED
    BY <1>4, <2>1
<1>11. \A i, j \in 1 .. n - 1 :
         i < j /\ IsLast(tags2[i]) => tags2[j].number >= NumberAfter(tags2[i])
  <2> TAKE i, j \in 1 .. n - 1
  <2>1. i + 1 \in 1 .. n /\ j + 1 \in 1 .. n /\ (i < j => i + 1 < j + 1)
    BY <1>1
  <2> QED
    BY <1>4, <2>1 DEF Accounted, n
<1> HIDE DEF before2, rest
<1>12. IsLast(tags[n]) /\ NumberAfter(tags[n]) = before + Len(inputs) + 1
  BY <1>1 DEF Accounted, n
<1>13. n = 1 => Len(rest) = 0
  BY <1>3, <1>6, <1>7, <1>12
<1>14. n > 1 =>
         /\ tags2[1].place = place_at("start") /\ tags2[1].number = before2 + 1
         /\ IsLast(tags2[n - 1]) /\ NumberAfter(tags2[n - 1]) = before2 + Len(rest) + 1
  <2> SUFFICES ASSUME n > 1
               PROVE  /\ tags2[1].place = place_at("start") /\ tags2[1].number = before2 + 1
                      /\ IsLast(tags2[n - 1])
                      /\ NumberAfter(tags2[n - 1]) = before2 + Len(rest) + 1
    OBVIOUS
  <2>1. Follows(tags[1], tags[2]) /\ tags2[1] = tags[2]
    BY <1>1, <1>4 DEF Accounted, n
  <2>2. tags2[1].place = 1 /\ tags2[1].number = before2 + 1
    BY <1>7, <2>1 DEF Follows
  <2>3. tags2[n - 1] = tags[n]
    BY <1>1, <1>4
  <2>4. before2 + Len(rest) = before + Len(inputs)
    BY <1>3, <1>6
  <2> QED
    BY <1>12, <2>2, <2>3, <2>4 DEF place_at
<1>15. Accounted(Tail(q), "start", rest, tags2, before2)
  <2> DEFINE bytes == Tail(q)
  <2>1. Len(bytes) = n - 1 /\ \A i \in 1 .. n - 1 : Explains(tags2[i], bytes[i], rest, before2)
    BY <1>2, <1>9
  <2> HIDE DEF bytes
  <2>2. Len(bytes) > 0 => n > 1
    BY <1>1, <2>1
  <2>3. Len(bytes) = 0 => n = 1
    BY <1>1, <2>1
  <2>4. Len(bytes) - 1 = n - 2
    BY <1>1, <2>1
  <2>5. Accounted(bytes, "start", rest, tags2, before2)
    BY <1>4, <1>6, <1>10, <1>11, <1>13, <1>14, <2>1, <2>2, <2>3, <2>4 DEF Accounted
  <2> QED
    BY <2>5 DEF bytes
<1>16. input # "NONE" => inputs # << >> /\ input = Head(inputs)
  BY <1>5
<1> QED
  BY <1>15, <1>16 DEF input, rest

\* The bytes of a pressed key come after those that are there, and so does its input.
LEMMA KeyIsAdded ==
  ASSUME KeysFit, NEW q \in Seq(Bytes), NEW where, NEW inputs \in Seq(Inputs), NEW tags, NEW before,
         Accounted(q, where, inputs, tags, before), NEW key \in PressedKeys
  PROVE  LET more == IF Input!meaning(key) = "NONE" THEN inputs
                     ELSE Append(inputs, Input!meaning(key))
         IN  \E tags2, before2 : Accounted(q \o Input!bytes(key), where, more, tags2, before2)
<1> DEFINE n == Len(q)
           m == size(key)
           b == Input!bytes(key)
           all == q \o b
           input == Input!meaning(key)
           more == IF input = "NONE" THEN inputs ELSE Append(inputs, input)
           r == before + Len(inputs) + 1
           added(i) == [key |-> key, place |-> i - n, number |-> r]
           tags2 == [i \in 1 .. n + m |-> IF i <= n THEN tags[i] ELSE added(i)]
<1>1. n \in Nat /\ m \in {1, 3} /\ m \in 1 .. 3
  BY DEF size
<1>2. KeyReads(key)
  BY KeyIsRead
<1>3. b \in Seq(Bytes) /\ Len(b) = m /\ input \in Inputs \cup {"NONE"}
  BY <1>2 DEF KeyReads
<1> HIDE DEF b, m
<1>4. /\ all \in Seq(Bytes) /\ Len(all) = n + m
      /\ \A i \in 1 .. n + m : all[i] = IF i <= n THEN q[i] ELSE b[i - n]
  BY <1>3, ConcatProperties
<1> HIDE DEF all, n
<1>5. tags \in [1 .. n -> Tag] /\ before \in Int /\ r \in Int /\ Len(inputs) \in Nat
  BY DEF Accounted, n
<1> HIDE DEF input
<1>6. /\ more \in Seq(Inputs)
      /\ Len(more) = IF input = "NONE" THEN Len(inputs) ELSE Len(inputs) + 1
      /\ \A i \in 1 .. Len(inputs) : more[i] = inputs[i]
      /\ input # "NONE" => more[Len(inputs) + 1] = input
  <2>1. CASE input = "NONE"
    BY <2>1
  <2>2. CASE input # "NONE"
    BY <1>3, <2>2, AppendProperties
  <2> QED
    BY <2>1, <2>2
<1> HIDE DEF more
<1>7. /\ \A i \in 1 .. n + m : i > n => added(i) \in Tag
      /\ \A i \in 1 .. n + m : i > n => added(i).key = key /\ added(i).place = i - n
                                         /\ added(i).number = r
  BY <1>1, <1>5 DEF Tag
<1> HIDE DEF r, added
<1>8. /\ tags2 \in [1 .. n + m -> Tag]
      /\ \A i \in 1 .. n : tags2[i] = tags[i]
      /\ \A i \in 1 .. n + m : i > n => tags2[i] = added(i)
  BY <1>1, <1>5, <1>7
<1> HIDE DEF tags2
<1>9. \A i \in 1 .. n + m : Explains(tags2[i], all[i], more, before)
  <2> TAKE i \in 1 .. n + m
  <2>1. CASE i <= n
    <3> DEFINE t == tags[i]
    <3>1. i \in 1 .. n /\ tags2[i] = t /\ all[i] = q[i]
      BY <1>1, <1>4, <1>8, <2>1
    <3>2. Explains(t, q[i], inputs, before)
      BY <3>1 DEF Accounted, n
    <3> HIDE DEF t
    <3>3. t.number - before \in 1 .. Len(more) + 1
      BY <1>5, <1>6, <3>2 DEF Explains
    <3>4. ASSUME Input!meaning(t.key) # "NONE"
          PROVE  t.number - before \in 1 .. Len(more)
                 /\ more[t.number - before] = Input!meaning(t.key)
      <4> DEFINE k == t.number - before
      <4>1. k \in 1 .. Len(inputs) /\ inputs[k] = Input!meaning(t.key)
        BY <3>2, <3>4 DEF Explains
      <4> HIDE DEF k
      <4>2. k \in 1 .. Len(more) /\ more[k] = Input!meaning(t.key)
        BY <1>5, <1>6, <4>1
      <4> QED
        BY <4>2 DEF k
    <3> QED
      BY <3>1, <3>2, <3>3, <3>4 DEF Explains
  <2>2. CASE i > n
    <3> DEFINE t == added(i)
    <3>1. tags2[i] = t /\ t.key = key /\ t.place = i - n /\ t.number = r /\ all[i] = b[i - n]
      BY <1>1, <1>4, <1>7, <1>8, <2>2
    <3> HIDE DEF t
    <3>2. t.place <= size(t.key) /\ all[i] = Input!bytes(t.key)[t.place]
      BY <1>1, <3>1 DEF m, b
    <3>3. t.number - before = Len(inputs) + 1
      BY <1>5, <3>1 DEF r
    <3> QED
      BY <1>5, <1>6, <3>1, <3>2, <3>3 DEF Explains, input
  <2> QED
    BY <1>1, <2>1, <2>2
<1>10. ASSUME NEW i \in 1 .. n
       PROVE  NumberAfter(tags[i]) <= r /\ tags[i].number <= r
  <2> DEFINE t == tags[i]
  <2>1. Explains(t, q[i], inputs, before)
    BY DEF Accounted, n
  <2>2. t.number \in Int
    BY <1>5 DEF Tag
  <2> HIDE DEF t
  <2>3. NumberAfter(t) <= r /\ t.number <= r
    BY <1>5, <2>1, <2>2, SMTT(40) DEF Explains, NumberAfter, r
  <2> QED
    BY <2>3 DEF t
<1>11. \A i \in 1 .. n + m - 1 : Follows(tags2[i], tags2[i + 1])
  <2> TAKE i \in 1 .. n + m - 1
  <2>1. CASE i < n
    BY <1>1, <1>8, <2>1 DEF Accounted, n
  <2>2. CASE i = n
    <3>1. IsLast(tags[n]) /\ NumberAfter(tags[n]) = r
      BY <1>1, <2>2 DEF Accounted, n, r
    <3>2. tags2[i] = tags[n] /\ tags2[i + 1] = added(i + 1)
      BY <1>1, <1>8, <2>2
    <3>3. added(i + 1).place = 1 /\ added(i + 1).number = r
      BY <1>1, <1>7, <2>2
    <3> QED
      BY <3>1, <3>2, <3>3 DEF Follows
  <2>3. CASE i > n
    <3>1. tags2[i] = added(i) /\ tags2[i + 1] = added(i + 1)
      BY <1>1, <1>8, <2>3
    <3>2. /\ added(i).key = key /\ added(i).place = i - n /\ added(i).number = r
          /\ added(i + 1).key = key /\ added(i + 1).place = i + 1 - n /\ added(i + 1).number = r
      BY <1>1, <1>7, <2>3
    <3>3. ~IsLast(added(i))
      BY <1>1, <3>2 DEF IsLast, m
    <3> QED
      BY <1>1, <3>1, <3>2, <3>3 DEF Follows
  <2> QED
    BY <1>1, <2>1, <2>2, <2>3
<1>12. \A i, j \in 1 .. n + m :
         i < j /\ IsLast(tags2[i]) => tags2[j].number >= NumberAfter(tags2[i])
  <2> SUFFICES ASSUME NEW i \in 1 .. n + m, NEW j \in 1 .. n + m, i < j, IsLast(tags2[i])
               PROVE  tags2[j].number >= NumberAfter(tags2[i])
    OBVIOUS
  <2>1. CASE j <= n
    BY <1>1, <1>8, <2>1 DEF Accounted, n
  <2>2. CASE i <= n /\ j > n
    <3>1. tags2[i] = tags[i] /\ tags2[j].number = r /\ i \in 1 .. n
      BY <1>1, <1>7, <1>8, <2>2
    <3>2. NumberAfter(tags[i]) <= r /\ NumberAfter(tags[i]) \in Int
      BY <1>5, <1>10, <3>1 DEF NumberAfter, Tag
    <3> QED
      BY <1>5, <3>1, <3>2
  <2>3. CASE i > n
    <3>1. tags2[i].key = key /\ tags2[i].place = i - n
      BY <1>1, <1>7, <1>8, <2>3
    <3> QED
      BY <1>1, <3>1 DEF IsLast, m
  <2> QED
    BY <1>1, <2>1, <2>2, <2>3
<1>13. tags2[1].place = place_at(where) /\ tags2[1].number = before + 1
  <2>1. CASE n = 0
    <3>1. tags2[1].place = 1 /\ tags2[1].number = r
      BY <1>1, <1>7, <1>8, <2>1
    <3>2. where = "start" /\ Len(inputs) = 0
      BY <2>1 DEF Accounted, n
    <3> QED
      BY <1>5, <3>1, <3>2 DEF place_at, r
  <2>2. CASE n > 0
    BY <1>1, <1>8, <2>2 DEF Accounted, n
  <2> QED
    BY <1>1, <2>1, <2>2
<1>14. IsLast(tags2[n + m]) /\ NumberAfter(tags2[n + m]) = before + Len(more) + 1
  <2> DEFINE t == tags2[n + m]
  <2>1. t.key = key /\ t.place = m /\ t.number = r
    BY <1>1, <1>7, <1>8
  <2> HIDE DEF t
  <2>2. IsLast(t) /\ NumberAfter(t) = IF input = "NONE" THEN r ELSE r + 1
    BY <2>1 DEF IsLast, NumberAfter, m, input
  <2>3. NumberAfter(t) = before + Len(more) + 1
    BY <1>5, <1>6, <2>2 DEF r
  <2> QED
    BY <2>2, <2>3 DEF t
<1>15. n + m > 0
  BY <1>1
<1>16. Accounted(all, where, more, tags2, before)
  <2> DEFINE l == n + m
  <2>1. Len(all) = l /\ l > 0 /\ tags2 \in [1 .. l -> Tag]
    BY <1>4, <1>8, <1>15
  <2>2. \A i \in 1 .. l : Explains(tags2[i], all[i], more, before)
    BY <1>9
  <2>3. \A i \in 1 .. l - 1 : Follows(tags2[i], tags2[i + 1])
    BY <1>1, <1>11
  <2>4. \A i, j \in 1 .. l : i < j /\ IsLast(tags2[i]) => tags2[j].number >= NumberAfter(tags2[i])
    BY <1>12
  <2>5. IsLast(tags2[l]) /\ NumberAfter(tags2[l]) = before + Len(more) + 1
    BY <1>14
  <2> HIDE DEF l
  <2> QED
    BY <1>5, <1>13, <2>1, <2>2, <2>3, <2>4, <2>5 DEF Accounted
<1> QED
  BY <1>16 DEF all, b, more, input

\* A byte that arrives stays where it is in the queue of both parts.
LEMMA ByteCrosses ==
  ASSUME NEW S, NEW s1 \in Seq(S), NEW s2 \in Seq(S), s2 # << >>
  PROVE  Append(s1, Head(s2)) \o Tail(s2) = s1 \o s2
<1> DEFINE h == Head(s2)
           rest == Tail(s2)
           front == Append(s1, h)
           old == s1 \o s2
           new == front \o rest
<1>1. h = s2[1] /\ h \in S /\ rest \in Seq(S) /\ Len(rest) = Len(s2) - 1
      /\ \A i \in 1 .. Len(rest) : rest[i] = s2[i + 1]
  BY HeadTailProperties
<1> HIDE DEF h, rest
<1>2. /\ front \in Seq(S) /\ Len(front) = Len(s1) + 1 /\ front[Len(s1) + 1] = h
      /\ \A i \in 1 .. Len(s1) : front[i] = s1[i]
  BY <1>1, AppendProperties
<1> HIDE DEF front
<1>3. /\ old \in Seq(S) /\ Len(old) = Len(s1) + Len(s2)
      /\ \A i \in 1 .. Len(s1) + Len(s2) : old[i] = IF i <= Len(s1) THEN s1[i] ELSE s2[i - Len(s1)]
  BY ConcatProperties
<1>4. /\ new \in Seq(S) /\ Len(new) = Len(front) + Len(rest)
      /\ \A i \in 1 .. Len(front) + Len(rest) :
           new[i] = IF i <= Len(front) THEN front[i] ELSE rest[i - Len(front)]
  BY <1>1, <1>2, ConcatProperties
<1> HIDE DEF old, new
<1> DEFINE n1 == Len(s1)
           n2 == Len(s2)
           shifted == n1 + 1
<1>5. /\ n1 \in Nat /\ n2 \in Nat /\ n2 >= 1
      /\ Len(old) = n1 + n2 /\ Len(front) = shifted /\ Len(rest) = n2 - 1
      /\ shifted = n1 + 1
  BY <1>1, <1>2, <1>3
<1>6. ASSUME NEW i \in 1 .. n1 + n2
      PROVE  new[i] = old[i]
  <2>1. old[i] = IF i <= n1 THEN s1[i] ELSE s2[i - n1]
    BY <1>3
  <2>2. new[i] = IF i <= shifted THEN front[i] ELSE rest[i - shifted]
    BY <1>4, <1>5
  <2>3. \A j \in 1 .. n1 : front[j] = s1[j]
    BY <1>2
  <2>4. front[n1 + 1] = s2[1]
    BY <1>1, <1>2
  <2>5. \A j \in 1 .. n2 - 1 : rest[j] = s2[j + 1]
    BY <1>1, <1>5
  <2>6. n1 \in Nat /\ n2 \in Nat /\ shifted = n1 + 1
    BY <1>5
  <2> HIDE DEF n1, n2, shifted
  <2>7. CASE i <= n1
    BY <2>1, <2>2, <2>3, <2>6, <2>7
  <2>8. CASE i = n1 + 1
    <3>1. i - n1 = 1 /\ ~(i <= n1) /\ i <= shifted
      BY <2>6, <2>8
    <3> QED
      BY <2>1, <2>2, <2>4, <2>8, <3>1
  <2>9. CASE i > n1 + 1
    <3>1. i - shifted \in 1 .. n2 - 1 /\ i - shifted + 1 = i - n1
          /\ ~(i <= n1) /\ ~(i <= shifted)
      BY <2>6, <2>9
    <3> QED
      BY <2>1, <2>2, <2>5, <3>1
  <2> QED
    BY <2>6, <2>7, <2>8, <2>9
<1>7. Len(new) = Len(old)
  BY <1>4, <1>5
<1>8. new = old
  BY <1>3, <1>4, <1>6, <1>7, SeqEqual
<1> QED
  BY <1>8 DEF new, old, front, rest, h

\* The first byte that can be read is the first of the queue.
LEMMA ByteTaken ==
  ASSUME NEW S, NEW s1 \in Seq(S), NEW s2 \in Seq(S), s1 # << >>
  PROVE  /\ Tail(s1) \o s2 = Tail(s1 \o s2)
         /\ Len(s1 \o s2) > 0 /\ (s1 \o s2)[1] = Head(s1)
<1> DEFINE rest == Tail(s1)
           old == s1 \o s2
           new == rest \o s2
           cut == Tail(old)
<1>1. rest \in Seq(S) /\ Len(rest) = Len(s1) - 1 /\ \A i \in 1 .. Len(rest) : rest[i] = s1[i + 1]
  BY HeadTailProperties
<1> HIDE DEF rest
<1>2. /\ old \in Seq(S) /\ Len(old) = Len(s1) + Len(s2)
      /\ \A i \in 1 .. Len(s1) + Len(s2) : old[i] = IF i <= Len(s1) THEN s1[i] ELSE s2[i - Len(s1)]
  BY ConcatProperties
<1>3. /\ new \in Seq(S) /\ Len(new) = Len(rest) + Len(s2)
      /\ \A i \in 1 .. Len(rest) + Len(s2) :
           new[i] = IF i <= Len(rest) THEN rest[i] ELSE s2[i - Len(rest)]
  BY <1>1, ConcatProperties
<1>4. Len(s1) \in Nat /\ Len(s2) \in Nat /\ Len(s1) >= 1
  OBVIOUS
<1> HIDE DEF old, new
<1>5. old # << >> /\ Len(old) > 0
  BY <1>2, <1>4
<1>6. cut \in Seq(S) /\ Len(cut) = Len(old) - 1 /\ \A i \in 1 .. Len(cut) : cut[i] = old[i + 1]
  BY <1>2, <1>5, HeadTailProperties
<1> HIDE DEF cut
<1>7. ASSUME NEW i \in 1 .. Len(new)
      PROVE  new[i] = cut[i]
  <2>1. cut[i] = old[i + 1]
    BY <1>1, <1>2, <1>3, <1>4, <1>6
  <2>2. CASE i <= Len(rest)
    BY <1>1, <1>2, <1>3, <1>4, <2>1, <2>2
  <2>3. CASE i > Len(rest)
    <3>1. i - Len(rest) = i + 1 - Len(s1)
      BY <1>1, <1>4
    <3>2. new[i] = s2[i - Len(rest)] /\ old[i + 1] = s2[i + 1 - Len(s1)]
      BY <1>1, <1>2, <1>3, <1>4, <2>3
    <3> QED
      BY <2>1, <3>1, <3>2
  <2> QED
    BY <1>1, <1>3, <1>4, <2>2, <2>3
<1>8. Len(new) = Len(cut)
  BY <1>1, <1>2, <1>3, <1>4, <1>6
<1>9. new = cut
  BY <1>3, <1>6, <1>7, <1>8, SeqEqual
<1>10. old[1] = Head(s1)
  BY <1>2, <1>4
<1> QED
  BY <1>5, <1>9, <1>10 DEF new, cut, old, rest

\* The first tag explains the first byte.
LEMMA FirstByte ==
  ASSUME KeysFit, NEW q \in Seq(Bytes), NEW where, NEW inputs, NEW tags, NEW before,
         Accounted(q, where, inputs, tags, before), Len(q) > 0
  PROVE  /\ tags[1] \in Tag /\ tags[1].place <= size(tags[1].key)
         /\ q[1] = Input!bytes(tags[1].key)[tags[1].place]
         /\ tags[1].place = place_at(where)
         /\ KeyReads(tags[1].key)
<1> DEFINE t == tags[1]
<1>1. 1 \in 1 .. Len(q)
  OBVIOUS
<1>2. tags \in [1 .. Len(q) -> Tag] /\ Explains(t, q[1], inputs, before)
      /\ t.place = place_at(where)
  BY <1>1 DEF Accounted
<1>3. t \in Tag
  BY <1>1, <1>2
<1> HIDE DEF t
<1>4. t.key \in PressedKeys
  BY <1>3 DEF Tag
<1>5. KeyReads(t.key)
  BY <1>4, KeyIsRead
<1> QED
  BY <1>2, <1>3, <1>5 DEF Explains, t

\* What input_poll makes of a byte, depending on where it stands.
reading(where, byte) ==
  IF where = "start" THEN IF byte = "ESC" THEN "" ELSE Input!input_of(byte)
  ELSE IF where = "escape" THEN IF byte \in {"[", "O"} THEN "" ELSE "NONE"
  ELSE Input!arrow_of(byte)

\* Within a key input_poll goes on, after its last byte it has what the key means.
LEMMA ByteIsRead ==
  ASSUME NEW where \in {"start", "escape", "bracket"}, NEW key, KeyReads(key),
         place_at(where) <= size(key), NEW byte, byte = Input!bytes(key)[place_at(where)]
  PROVE  /\ place_at(where) # size(key) => reading(where, byte) = "" /\ where # "bracket"
         /\ place_at(where) = size(key) => reading(where, byte) = Input!meaning(key)
<1>1. CASE key \in Arrows
  BY <1>1 DEF KeyReads, place_at, size, reading
<1>2. CASE key \notin Arrows
  <2>1. size(key) = 1 /\ where = "start" /\ place_at(where) = 1
    BY <1>2 DEF place_at, size
  <2>2. byte # "ESC" /\ Input!input_of(byte) = Input!meaning(key)
    BY <1>2, <2>1 DEF KeyReads
  <2> QED
    BY <2>1, <2>2 DEF reading
<1> QED
  BY <1>1, <1>2

\* What is returned is what is made of the first byte that can be read.
LEMMA ReturnedIsRead ==
  ASSUME fifo # << >>, at \in {"start", "escape", "bracket"}
  PROVE  Input!returned = reading(at, Head(fifo))
<1> DEFINE byte == Head(fifo)
<1>1. Input!next_byte = byte
  BY DEF Input!next_byte
<1> HIDE DEF byte
<1>2. CASE at = "start"
  <2>1. Input!returned = IF byte = "ESC" THEN "" ELSE Input!input_of(byte)
    BY <1>1, <1>2, Zenon DEF Input!returned
  <2> QED
    BY <1>2, <2>1 DEF reading, byte
<1>3. CASE at = "escape"
  <2>1. at # "start"
    BY <1>3
  <2>2. Input!returned = IF byte \in {"[", "O"} THEN "" ELSE "NONE"
    BY <1>1, <1>3, <2>1, Zenon DEF Input!returned
  <2> QED
    BY <1>3, <2>2 DEF reading, byte
<1>4. CASE at = "bracket"
  <2>1. at # "start" /\ at # "escape"
    BY <1>4
  <2>2. Input!returned = Input!arrow_of(byte)
    BY <1>1, <1>4, <2>1, Zenon DEF Input!returned
  <2> QED
    BY <1>4, <2>2 DEF reading, byte
<1> QED
  BY <1>2, <1>3, <1>4

\* Where input_poll goes on within a key.
place_after(where) == IF where = "start" THEN "escape" ELSE "bracket"

\* It is one byte further then.
LEMMA PlaceGoesOn ==
  ASSUME NEW where \in {"start", "escape", "bracket"}, where # "bracket"
  PROVE  place_at(place_after(where)) = place_at(where) + 1
BY DEF place_at, place_after

\* When a byte is taken out there is still room for the others.
LEMMA RoomStays ==
  ASSUME KeysFit, NEW s1 \in Seq(Bytes), NEW s2 \in Seq(Bytes), Len(s1) + Len(s2) <= Capacity,
         NEW rest, Len(rest) = Len(s2) - 1
  PROVE  Len(s1) + Len(rest) <= Capacity
<1>1. Len(s1) \in Nat /\ Len(s2) \in Nat /\ Capacity \in Nat
  BY DEF KeysFit
<1> QED
  BY <1>1

\* A byte is read: within a key input_poll goes on, after its last byte it returns the
\* input that the key stands for, the oldest that was pressed (tetris.c:99-169).
LEMMA ReadKeeps ==
  ASSUME KeysFit, InputInv, fifo # << >>, at # "over", Input!take_byte, line' = line,
         Input!returned = "" /\ at # "bracket" => at' = place_after(at) /\ pressed' = pressed,
         Input!returned # "" => Input!Return(Input!returned)
  PROVE  /\ InputInv'
         /\ Input!returned \notin {"", "NONE"} =>
              pressed # << >> /\ Input!returned = Head(pressed)
<1> DEFINE q == queue
           byte == Head(fifo)
<1>1. /\ fifo \in Seq(Bytes) /\ line \in Seq(Bytes) /\ pressed \in Seq(Inputs)
      /\ at \in {"start", "escape", "bracket"} /\ Len(line) + Len(fifo) <= Capacity
  BY DEF InputInv
<1>2. PICK tags, before : Accounted(q, at, pressed, tags, before)
  <2>1. stands = at
    BY DEF stands
  <2> QED
    BY <2>1 DEF InputInv
<1>3. fifo' = Tail(fifo) /\ fifo' \in Seq(Bytes) /\ Len(fifo') = Len(fifo) - 1
  BY <1>1, HeadTailProperties DEF Input!take_byte
<1>4. q \in Seq(Bytes)
  BY <1>1, ConcatProperties DEF queue
<1>5. q[1] = byte /\ Len(q) > 0 /\ queue' = Tail(q)
  BY <1>1, <1>3, ByteTaken DEF queue
<1> DEFINE r == Input!returned
<1>6. r = reading(at, byte)
  BY <1>1, ReturnedIsRead
<1> HIDE DEF q, byte
<1> DEFINE t == tags[1]
<1>7. /\ t \in Tag /\ t.place <= size(t.key) /\ q[1] = Input!bytes(t.key)[t.place]
      /\ t.place = place_at(at) /\ KeyReads(t.key)
  BY <1>2, <1>4, <1>5, FirstByte
<1> DEFINE input == Input!meaning(t.key)
           rest == IF input = "NONE" THEN pressed ELSE Tail(pressed)
<1>8. input \in Inputs \cup {"NONE"} /\ input # ""
  BY <1>7 DEF KeyReads, Inputs
<1>9. /\ ~IsLast(t) => r = "" /\ at # "bracket"
      /\ IsLast(t) => r = input
  <2> HIDE DEF t
  <2>1. /\ KeyReads(t.key) /\ place_at(at) <= size(t.key)
        /\ byte = Input!bytes(t.key)[place_at(at)]
    BY <1>5, <1>7
  <2>2. /\ place_at(at) # size(t.key) => reading(at, byte) = "" /\ at # "bracket"
        /\ place_at(at) = size(t.key) => reading(at, byte) = Input!meaning(t.key)
    BY <1>1, <2>1, ByteIsRead
  <2>3. IsLast(t) <=> place_at(at) = size(t.key)
    BY <1>7 DEF IsLast
  <2> HIDE DEF r
  <2> QED
    BY <1>6, <2>2, <2>3
<1>10. ~IsLast(t) =>
         \E tags2, before2 : Accounted(Tail(q), place_after(at), pressed, tags2, before2)
  <2> SUFFICES ASSUME ~IsLast(t)
               PROVE  \E tags2, before2 :
                        Accounted(Tail(q), place_after(at), pressed, tags2, before2)
    OBVIOUS
  <2>1. place_at(place_after(at)) = place_at(at) + 1
    BY <1>1, <1>9, PlaceGoesOn
  <2> QED
    BY <1>1, <1>2, <1>4, <1>5, <2>1, PartIsRead
<1>11. IsLast(t) =>
         /\ input # "NONE" => pressed # << >> /\ input = Head(pressed)
         /\ \E tags2, before2 : Accounted(Tail(q), "start", rest, tags2, before2)
  BY <1>1, <1>2, <1>4, <1>5, KeyIsDone
<1>12. ~IsLast(t) => at' = place_after(at) /\ pressed' = pressed
  BY <1>9
<1>13. IsLast(t) => at' \in {"start", "over"} /\ pressed' = rest
  <2> SUFFICES ASSUME IsLast(t)
               PROVE  at' \in {"start", "over"} /\ pressed' = rest
    OBVIOUS
  <2>1. Input!Return(input)
    BY <1>8, <1>9
  <2> HIDE DEF input
  <2> QED
    BY <1>11, <2>1 DEF Input!Return
<1> HIDE DEF input, t
<1>14. rest \in Seq(Inputs) \/ ~IsLast(t)
  BY <1>1, <1>11, HeadTailProperties
<1> HIDE DEF rest, r
<1>15. pressed' \in Seq(Inputs) /\ at' \in {"start", "escape", "bracket", "over"}
  BY <1>1, <1>12, <1>13, <1>14 DEF place_after
<1>16. \E tags2, before2 : Accounted(queue', stands', pressed', tags2, before2)
  <2>1. CASE IsLast(t)
    <3>1. stands' = "start"
      BY <1>13, <2>1 DEF stands
    <3> QED
      BY <1>5, <1>11, <1>13, <2>1, <3>1
  <2>2. CASE ~IsLast(t)
    <3>1. stands' = place_after(at)
      BY <1>12, <2>2 DEF stands, place_after
    <3> QED
      BY <1>5, <1>10, <1>12, <2>2, <3>1
  <2> QED
    BY <2>1, <2>2
<1>17. r \notin {"", "NONE"} => pressed # << >> /\ r = Head(pressed)
  BY <1>9, <1>11
<1>18. Len(line') + Len(fifo') <= Capacity
  <2>1. Len(line) + Len(fifo') <= Capacity
    BY <1>1, <1>3, RoomStays
  <2> QED
    BY <2>1, Zenon
<1>19. InputInv'
  BY <1>1, <1>3, <1>15, <1>16, <1>18 DEF InputInv
<1> QED
  BY <1>17, <1>19 DEF r

\* At the start nothing is pressed.
LEMMA InputStart ==
  ASSUME KeysFit, Input!Init
  PROVE  InputInv
<1> DEFINE none == [i \in 1 .. 0 |-> i]
<1>1. fifo = << >> /\ line = << >> /\ pressed = << >> /\ at = "start"
  BY DEF Input!Init
<1>2. queue = << >>
  BY <1>1 DEF queue
<1>3. Len(queue) = 0 /\ Len(pressed) = 0 /\ none \in [1 .. 0 -> Tag]
  BY <1>1, <1>2
<1> HIDE DEF none
<1>4. Accounted(queue, stands, pressed, none, 0)
  BY <1>1, <1>3 DEF Accounted, stands
<1> QED
  BY <1>1, <1>4 DEF InputInv, KeysFit

\* Every step keeps the account of the bytes and the inputs, and returns the right input.
LEMMA InputGoesOn ==
  ASSUME KeysFit, InputInv, Input!Next
  PROVE  InputInv' /\ Input!InputsFollowKeysStep
<1>1. /\ fifo \in Seq(Bytes) /\ line \in Seq(Bytes) /\ pressed \in Seq(Inputs)
      /\ at \in {"start", "escape", "bracket", "over"} /\ Len(line) + Len(fifo) <= Capacity
  BY DEF InputInv
<1>2. PICK tags, before : Accounted(queue, stands, pressed, tags, before)
  BY DEF InputInv
<1>3. CASE Input!Press
  <2>1. PICK key \in PressedKeys :
          /\ Len(line) + Len(fifo) + Len(Input!bytes(key)) <= Capacity
          /\ line' = line \o Input!bytes(key)
          /\ pressed' = IF Input!meaning(key) = "NONE" THEN pressed
                        ELSE Append(pressed, Input!meaning(key))
          /\ UNCHANGED <<fifo, at>>
    BY <1>3 DEF Input!Press
  <2>2. Input!bytes(key) \in Seq(Bytes) /\ Input!meaning(key) \in Inputs \cup {"NONE"}
    BY KeyIsRead DEF KeyReads
  <2>3. line' \in Seq(Bytes) /\ Len(line') = Len(line) + Len(Input!bytes(key))
    BY <1>1, <2>1, <2>2, ConcatProperties
  <2>4. pressed' \in Seq(Inputs)
    BY <1>1, <2>1, <2>2, AppendProperties
  <2>5. queue' = queue \o Input!bytes(key)
    <3> DEFINE b == Input!bytes(key)
    <3>1. b \in Seq(Bytes) /\ queue' = fifo \o (line \o b)
      BY <2>1, <2>2 DEF queue
    <3> HIDE DEF b
    <3>2. (fifo \o line) \o b = fifo \o (line \o b)
      BY <1>1, <3>1, ConcatAssociative, SMTT(40)
    <3> QED
      BY <3>1, <3>2 DEF queue, b
  <2>6. queue \in Seq(Bytes)
    BY <1>1, ConcatProperties DEF queue
  <2>7. \E tags2, before2 : Accounted(queue', stands', pressed', tags2, before2)
    <3>1. stands' = stands
      BY <2>1 DEF stands
    <3> QED
      BY <1>1, <1>2, <2>1, <2>5, <2>6, <3>1, KeyIsAdded
  <2>8. Len(line') + Len(fifo') <= Capacity
    BY <1>1, <2>1, <2>2, <2>3 DEF KeysFit
  <2>9. InputInv'
    BY <1>1, <2>1, <2>3, <2>4, <2>7, <2>8 DEF InputInv
  <2> QED
    BY <2>1, <2>9 DEF Input!InputsFollowKeysStep
<1>4. CASE Input!Arrive
  <2>1. line # << >> /\ fifo' = Append(fifo, Head(line)) /\ line' = Tail(line)
        /\ at' = at /\ pressed' = pressed
    BY <1>4 DEF Input!Arrive
  <2>2. Head(line) \in Bytes /\ line' \in Seq(Bytes) /\ Len(line') = Len(line) - 1
    BY <1>1, <2>1, HeadTailProperties
  <2>3. fifo' \in Seq(Bytes) /\ Len(fifo') = Len(fifo) + 1
    BY <1>1, <2>1, <2>2, AppendProperties
  <2>4. queue' = queue
    BY <1>1, <2>1, ByteCrosses DEF queue
  <2>5. Len(line') + Len(fifo') <= Capacity /\ line' # line
    BY <1>1, <2>2, <2>3 DEF KeysFit
  <2>6. \E tags2, before2 : Accounted(queue', stands', pressed', tags2, before2)
    <3>1. stands' = stands
      BY <2>1 DEF stands
    <3> QED
      BY <1>2, <2>1, <2>4, <3>1, SMTT(60)
  <2>7. InputInv'
    BY <1>1, <2>1, <2>2, <2>3, <2>5, <2>6 DEF InputInv
  <2> QED
    BY <2>5, <2>7 DEF Input!InputsFollowKeysStep
<1>5. CASE Input!Poll \/ Input!AfterEscape \/ Input!AfterBracket
  <2>1. fifo # << >>
    <3>1. CASE Input!Poll
      BY <3>1 DEF Input!Poll
    <3>2. CASE Input!AfterEscape \/ Input!AfterBracket
      <4>1. stands # "start"
        BY <3>2 DEF Input!AfterEscape, Input!AfterBracket, stands
      <4>2. Len(queue) # 0
        BY <1>2, <4>1 DEF Accounted
      <4>3. fifo # << >> \/ line # << >>
        BY <4>2 DEF queue
      <4> QED
        BY <3>2, <4>3 DEF Input!AfterEscape, Input!AfterBracket, Input!waited
    <3> QED
      BY <1>5, <3>1, <3>2
  <2>2. /\ Input!take_byte /\ line' = line
        /\ Input!returned = "" /\ at # "bracket" =>
             at' = place_after(at) /\ pressed' = pressed
        /\ Input!returned # "" => Input!Return(Input!returned)
    BY <1>5 DEF Input!Poll, Input!AfterEscape, Input!AfterBracket, place_after
  <2>3. /\ InputInv'
        /\ Input!returned \notin {"", "NONE"} =>
             pressed # << >> /\ Input!returned = Head(pressed)
    <3>1. at # "over"
      BY <1>5 DEF Input!Poll, Input!AfterEscape, Input!AfterBracket
    <3> QED
      BY <2>1, <2>2, <3>1, ReadKeeps
  <2> QED
    BY <2>3 DEF Input!InputsFollowKeysStep
<1>6. CASE Input!Halt
  <2>1. UNCHANGED <<line, fifo, at, pressed>>
    BY <1>6 DEF Input!Halt, Input!vars
  <2>2. queue' = queue /\ stands' = stands
    BY <2>1 DEF queue, stands
  <2>3. \E tags2, before2 : Accounted(queue', stands', pressed', tags2, before2)
    BY <1>2, <2>1, <2>2, SMTT(60)
  <2>4. InputInv'
    BY <1>1, <2>1, <2>3 DEF InputInv
  <2> QED
    BY <2>1, <2>4 DEF Input!InputsFollowKeysStep
<1> QED
  BY <1>3, <1>4, <1>5, <1>6 DEF Input!Next

\* While the board runs the decoder, the bytes and the inputs are accounted for.
KeysInv == program = "input" => InputInv

\* They are in every state of the board.
LEMMA KeysInvariant ==
  ASSUME KeysFit
  PROVE  Spec => []KeysInv
<1>1. Init => KeysInv
  BY InputStart DEF Init, KeysInv
<1>2. ASSUME KeysInv, [Next]_vars
      PROVE  KeysInv'
  <2> SUFFICES ASSUME program = "input", InputInv
               PROVE  InputInv'
    BY <1>2, ProgramStays DEF KeysInv
  <2>1. CASE Input!Next
    BY <2>1, InputGoesOn
  <2>2. CASE UNCHANGED vars
    BY <2>2, SMTT(60) DEF vars, input_vars, InputInv, queue, stands
  <2> QED
    BY <1>2, <2>1, <2>2 DEF Next, RunTetris, RunInput, RunTRex, RunNyancat
<1> QED
  BY <1>1, <1>2, PTL DEF Spec

\* The game sees the inputs of the pressed keys, each once and in order, however the bytes
\* of an arrow come in and wherever input_poll stands (tetris.c:99-169).
THEOREM InputsAlwaysFollowKeys ==
  ASSUME KeysFit
  PROVE  Spec => InputsFollowKeys
<1>1. ASSUME KeysInv, [Next]_vars
      PROVE  program = "input" => Input!InputsFollowKeysStep
  <2> SUFFICES ASSUME program = "input"
               PROVE  Input!InputsFollowKeysStep
    OBVIOUS
  <2>1. InputInv
    BY <1>1 DEF KeysInv
  <2>2. CASE Input!Next
    BY <2>1, <2>2, InputGoesOn
  <2>3. CASE UNCHANGED vars
    BY <2>3 DEF vars, input_vars, Input!InputsFollowKeysStep
  <2> QED
    BY <1>1, <2>2, <2>3 DEF Next, RunTetris, RunInput, RunTRex, RunNyancat
<1> QED
  BY <1>1, KeysInvariant, PTL DEF Spec, InputsFollowKeys

-----------------------------------------------------------------------------
(***************************************************************************)
(* The types.                                                              *)
(***************************************************************************)
\* What the grid and a block can be is the same in both instances of tetris.
LEMMA SameTypes ==
  ASSUME TP!TypeOK
  PROVE  Tetris!TypeOK
<1>1. TP!Grid = Tetris!Grid /\ TP!Block = Tetris!Block
  BY SameGrid, SameColors DEF TP!Grid, Tetris!Grid, TP!Block, Tetris!Block
<1>2. TP!drop_interval = Tetris!drop_interval
  BY DEF TP!drop_interval, Tetris!drop_interval
<1> QED
  BY <1>1, <1>2, SameLibrary, SameDrawing, SameColors DEF TP!TypeOK, Tetris!TypeOK

\* The variables of every program keep their types: blocks stay within four cells of the
\* grid, bags within the shapes, bytes within the UART, the velocity of the dino small, the
\* decoder of the film at a pixel.
THEOREM GraphicsTypes ==
  ASSUME TP!GameFits, KeysFit, CACTUS_START \in Nat, MovieFits
  PROVE  Spec => []TypeOK
<1>1. TetrisInv => (program = "tetris" => Tetris!TypeOK)
  BY TP!Typed, SameTypes DEF TetrisInv
<1>2. KeysInv => (program = "input" => Input!TypeOK)
  BY DEF KeysInv, InputInv, Input!TypeOK, Inputs
<1>3. TRexFlies => (program = "trex" => TRex!TypeOK)
  BY DEF TRexFlies, FlightInv
<1>4. NyancatInv => (program = "nyancat" => Nyancat!TypeOK)
  BY DEF NyancatInv, DecoderTyped
<1>5. TetrisInv /\ KeysInv /\ TRexFlies /\ NyancatInv => TypeOK
  BY <1>1, <1>2, <1>3, <1>4 DEF TypeOK
<1> QED
  BY <1>5, TetrisInvariant, KeysInvariant, TRexFlightInvariant, NyancatInvariant, PTL
=============================================================================
