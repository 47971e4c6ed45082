----------------------------- MODULE TetrisDraw -----------------------------
(***************************************************************************)
(* The picture of the game, csrc/tetris/tetris_draw.c.  The framebuffer is *)
(* a function on the pixels that are not black.  y grows downwards on the  *)
(* screen and upwards in the grid.  The ghost, the score and the game-over *)
(* cross are left out: main never draws them.                              *)
(***************************************************************************)
EXTENDS TetrisGrid

CONSTANTS
  SCREEN_WIDTH, SCREEN_HEIGHT,   \* 64 and 64 in the source
  BLOCK_SIZE,                    \* 3 in the source
  GRID_OFFSET_X, GRID_OFFSET_Y,
  PREVIEW_X, PREVIEW_Y

on_screen(p) == p[1] \in 0 .. SCREEN_WIDTH - 1 /\ p[2] \in 0 .. SCREEN_HEIGHT - 1

black == << >>
fb_pixel(fb, p) == IF p \in DOMAIN fb THEN fb[p] ELSE BLACK

\* fb_pixel of the source on every pixel that the function picture gives a colour:
\* what is off the screen is clipped.
paint(fb, picture) ==
  LET drawn == DOMAIN picture
      lit == (DOMAIN fb \ drawn) \cup { p \in drawn : on_screen(p) /\ picture[p] # BLACK } IN
  [p \in lit |-> IF p \in drawn THEN picture[p] ELSE fb[p]]

in_color(P, color) == [p \in P |-> color]
rect(x, y, w, h) == (x .. x + w - 1) \X (y .. y + h - 1)

fb_rect(fb, x, y, w, h, color) == paint(fb, in_color(rect(x, y, w, h), color))

outline(x, y, w, h) ==
  { p \in rect(x, y, w, h) : p[1] \in {x, x + w - 1} \/ p[2] \in {y, y + h - 1} }
fb_rect_outline(fb, x, y, w, h, color) == paint(fb, in_color(outline(x, y, w, h), color))

\* Variant: the outline is as large as the grid, without the frame's two pixels.
draw_border_tight(fb) ==
  fb_rect_outline(fb, GRID_OFFSET_X - 1, GRID_OFFSET_Y - 1,
                  GRID_WIDTH * BLOCK_SIZE, GRID_HEIGHT * BLOCK_SIZE + 2, RED)

draw_border(fb) ==
  fb_rect_outline(fb, GRID_OFFSET_X - 1, GRID_OFFSET_Y - 1,
                  GRID_WIDTH * BLOCK_SIZE + 2, GRID_HEIGHT * BLOCK_SIZE + 2, RED)

\* The pixels of a cell of the grid.
square(c) ==
  rect(GRID_OFFSET_X + c[1] * BLOCK_SIZE,
       GRID_OFFSET_Y + (GRID_HEIGHT - 1 - c[2]) * BLOCK_SIZE, BLOCK_SIZE, BLOCK_SIZE)
squares(C) == UNION { square(c) : c \in C }

occupied(g) == { c \in Cols \X Rows : c[1] \in g.rows[c[2]] }

\* Each occupied cell in its colour; a pixel belongs to one cell.
draw_grid(fb, g) ==
  LET cell_of(p) == CHOOSE c \in occupied(g) : p \in square(c) IN
  paint(fb, [p \in squares(occupied(g)) |-> g.colors[cell_of(p)[2]][cell_of(p)[1]]])

draw_block(fb, b) == paint(fb, in_color(squares({ c \in cells(b) : on_grid(c) }), b.color))

\* A box of 12 x 12 pixels is cleared in nine parts; a cell of the shape is two
\* pixels wide and three from the next.
preview_square(d) == rect(PREVIEW_X + 3 * d[1], PREVIEW_Y + 3 * (3 - d[2]), 2, 2)
draw_preview(fb, shape) ==
  paint(fb_rect(fb, PREVIEW_X, PREVIEW_Y, 12, 12, BLACK),
        in_color(UNION { preview_square(d) : d \in shape_get_cells(shape, 0) }, COLOR(shape)))
=============================================================================
