----------------------------- MODULE TetrisGrid -----------------------------
(***************************************************************************)
(* The grid and the falling block of csrc/tetris/tetris_grid.c, as         *)
(* operators on the two structures grid_t and block_t.  Row 0 is the       *)
(* bottom.  A row is the set of its occupied columns (bits of row_t).      *)
(***************************************************************************)
EXTENDS TetrisShapes, FiniteSetsExt

CONSTANTS GRID_WIDTH, GRID_HEIGHT   \* 10 and 18 in the source

Cols == 0 .. GRID_WIDTH - 1
Rows == 0 .. GRID_HEIGHT - 1

Grid ==
  [ rows: [Rows -> SUBSET Cols], colors: [Rows -> [Cols -> BLACK .. GRAY]],
    relief: [Cols -> -1 .. GRID_HEIGHT - 1], lines_cleared: Nat ]

\* A block is always within four cells of the grid: it is placed at the top
\* and moved one cell at a time, each move tested.
Block ==
  [ x: -4 .. GRID_WIDTH, y: -4 .. GRID_HEIGHT, shape: Shapes, rot: 0 .. 3,
    color: BLACK .. GRAY ]

grid_init ==
  [ rows |-> [y \in Rows |-> {}], colors |-> [y \in Rows |-> [x \in Cols |-> BLACK]],
    relief |-> [x \in Cols |-> -1], lines_cleared |-> 0 ]

-----------------------------------------------------------------------------
(***************************************************************************)
(* The block.                                                              *)
(***************************************************************************)
cells(b) == { <<b.x + d[1], b.y + d[2]>> : d \in shape_get_cells(b.shape, b.rot) }
on_grid(c) == c[1] \in Cols /\ c[2] \in Rows

\* Above the top of the grid nothing is in the way.
check_cell_collision(g, c) ==
  \/ c[1] \notin Cols
  \/ c[2] < 0
  \/ c[2] \in Rows /\ c[1] \in g.rows[c[2]]

grid_block_collides(g, b) == \E c \in cells(b) : check_cell_collision(g, c)

shifted(b, dx, dy) == [b EXCEPT !.x = @ + dx, !.y = @ + dy]

\* The block after grid_block_move, which undoes a move that collides.
grid_block_move(g, b, dx, dy) ==
  IF grid_block_collides(g, shifted(b, dx, dy)) THEN b ELSE shifted(b, dx, dy)

can_move_down(g, b) == ~grid_block_collides(g, shifted(b, 0, -1))

is_free(g, b) == ~grid_block_collides(g, b)
rotated(b) == [b EXCEPT !.rot = (@ + 1) % shape_num_rotations(b.shape)]

\* Variant: when both kicks fail the rotation is taken back and the column is not.
grid_block_rotate_keeps_kick(g, b) ==
  LET r == rotated(b)
      left == shifted(r, -1, 0)
      right == shifted(r, 1, 0) IN
  CASE is_free(g, r) -> r
    [] ~is_free(g, r) /\ is_free(g, left) -> left
    [] ~is_free(g, r) /\ ~is_free(g, left) /\ is_free(g, right) -> right
    [] OTHER -> shifted(b, 1, 0)

\* A rotation that collides is tried one column to the left, then to the right.
grid_block_rotate(g, b) ==
  LET r == rotated(b)
      left == shifted(r, -1, 0)
      right == shifted(r, 1, 0) IN
  CASE is_free(g, r) -> r
    [] ~is_free(g, r) /\ is_free(g, left) -> left
    [] ~is_free(g, r) /\ ~is_free(g, left) /\ is_free(g, right) -> right
    [] OTHER -> b

\* Variant: the fall stops one cell early.
grid_block_drop_early(g, b) ==
  Max({0} \cup { n \in 1 .. GRID_HEIGHT + 4 :
                   \A k \in 1 .. n + 1 : ~grid_block_collides(g, shifted(b, 0, -k)) })

\* How far the block falls until the next cell down collides.
grid_block_drop(g, b) ==
  Max({ n \in 0 .. GRID_HEIGHT + 4 :
          \A k \in 1 .. n : ~grid_block_collides(g, shifted(b, 0, -k)) })

grid_block_spawn(shape) ==
  [ x |-> (GRID_WIDTH - shape_get_width(shape, 0)) \div 2,
    y |-> GRID_HEIGHT - shape_get_height(shape, 0),
    shape |-> shape, rot |-> 0, color |-> COLOR(shape) ]

\* grid_set_cell for every cell of the block on the grid; a cell above the top
\* is dropped without notice.
grid_block_add(g, b) ==
  LET new == { c \in cells(b) : on_grid(c) }
      column(x) == { c[2] : c \in { d \in new : d[1] = x } } IN
  [g EXCEPT
    !.rows   = [y \in Rows |-> @[y] \cup { x \in Cols : <<x, y>> \in new }],
    !.colors = [y \in Rows |-> [x \in Cols |->
                  IF <<x, y>> \in new THEN b.color ELSE @[y][x]]],
    !.relief = [x \in Cols |-> Max(column(x) \cup {@[x]})]]

-----------------------------------------------------------------------------
(***************************************************************************)
(* Clearing lines.                                                         *)
(***************************************************************************)
grid_row_full(g, y) == g.rows[y] = Cols

recalc_relief(g) ==
  [x \in Cols |-> Max({-1} \cup { y \in Rows : x \in g.rows[y] })]

\* What remove_row does to a field of the grid: everything above the row moves down by
\* one, and the top row is empty.
shifted_down(field, row, empty) ==
  [y \in Rows |-> IF y < row THEN field[y]
                  ELSE IF y = GRID_HEIGHT - 1 THEN empty ELSE field[y + 1]]

remove_row(g, row) ==
  [g EXCEPT !.rows = shifted_down(@, row, {}),
            !.colors = shifted_down(@, row, [x \in Cols |-> BLACK])]

\* Variant: the loop goes on to the next row after a removal, although another row has
\* come down to this one.
clear_round_advancing(s) ==
  IF s.y = GRID_HEIGHT THEN s
  ELSE IF grid_row_full(s.grid, s.y)
       THEN [grid |-> remove_row(s.grid, s.y), y |-> s.y + 1, cleared |-> s.cleared + 1]
       ELSE [s EXCEPT !.y = @ + 1]

\* One round of the loop of grid_clear_lines, which ends at the top.
clear_round(s) ==
  IF s.y = GRID_HEIGHT THEN s
  ELSE IF grid_row_full(s.grid, s.y)
       THEN [s EXCEPT !.grid = remove_row(@, s.y), !.cleared = @ + 1]
       ELSE [s EXCEPT !.y = @ + 1]

\* The loop from the bottom row on.  A round removes a row or goes up by one, so
\* 2 * GRID_HEIGHT rounds are enough.
clear_loop(g) ==
  LET after[n \in 0 .. 2 * GRID_HEIGHT] ==
        IF n = 0 THEN [grid |-> g, y |-> 0, cleared |-> 0] ELSE clear_round(after[n - 1])
  IN after[2 * GRID_HEIGHT]

\* Variant: the relief is left as it was.
grid_clear_lines_old_relief(g) ==
  LET end == clear_loop(g) IN
  IF end.cleared = 0 THEN g ELSE [end.grid EXCEPT !.lines_cleared = @ + end.cleared]

\* The score and the level, which only follow the count of lines, are left out.
grid_clear_lines(g) ==
  LET end == clear_loop(g) IN
  IF end.cleared = 0 THEN g
  ELSE [end.grid EXCEPT !.lines_cleared = @ + end.cleared,
                        !.relief = recalc_relief(end.grid)]
=============================================================================
