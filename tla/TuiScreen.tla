------------------------------ MODULE TuiScreen ------------------------------
(***************************************************************************)
(* The screen of the text interface ("csrc/tui copy.c"): what the program  *)
(* prints goes to a buffer; tui_refresh compares it with what was last     *)
(* drawn, looks only where something may have changed, and writes moves of *)
(* the cursor, attributes and runs of characters to the terminal.          *)
(*                                                                         *)
(* The buffers are as large as the terminal.  Attributes that look alike   *)
(* are one value; "normal" is what an erased cell shows.  Negative         *)
(* columns, UTF-8 and windows that are refreshed on their own are left     *)
(* out.                                                                    *)
(***************************************************************************)
EXTENDS Integers, Sequences, SequencesExt

CONSTANTS
  Rows, Cols,
  Texts, Attrs,   \* what is printed at a time
  MaxPrints,      \* bound: texts printed in all
  MAX_GAP,        \* 3 in the source
  NEAR,           \* the longest relative move: 5
  TILE_L1_SIZE,   \* 8
  TILE_L2_SIZE,   \* 32
  DIRTY_TILE_POOL_SIZE,  \* 512
  Windows         \* [y, x, rows, cols]: what is cleared at a time

VARIABLES
  use_hierarchical_tiles,
  screen,   \* screen_buf and attr_buf: [Cells -> [char, attr]]
  prev,     \* prev_screen_buf and prev_attr_buf: what was drawn, or Invalid
  dirty,    \* [has, rows, cols]: the box that holds all changes, as ranges [first, last]
  tiles,    \* [l1, l2]: the dirty tiles and blocks, the newest first
  cache,    \* [row, col, attr]: cursor_cache and attr_state
  terminal, \* [cells, row, col, pen]; col = Cols when the last column was written
  strayed,  \* history: a relative move has started behind the last column
  prints    \* counts the texts printed

vars == <<use_hierarchical_tiles, screen, prev, dirty, tiles, cache, terminal, strayed, prints>>

Cells == (0 .. Rows - 1) \X (0 .. Cols - 1)
Cell(c, a) == [char |-> c, attr |-> a]
Blank == Cell(" ", "normal")
Invalid == Cell("NUL", "invalid")
Least(a, b) == IF a < b THEN a ELSE b
Greatest(a, b) == IF a < b THEN b ELSE a

reset_cursor_tracking(c) == [c EXCEPT !.row = -1, !.col = -1]
reset_attr_state(c) == [c EXCEPT !.attr = "none"]

CleanTiles == [l1 |-> << >>, l2 |-> << >>]
Clean == [has |-> FALSE, rows |-> [first |-> Rows, last |-> -1], cols |-> [first |-> Cols, last |-> -1]]

Init ==
  /\ use_hierarchical_tiles \in BOOLEAN
  /\ screen = [c \in Cells |-> Blank]
  /\ prev = [c \in Cells |-> Invalid]
  /\ dirty = Clean
  /\ tiles = CleanTiles
  /\ cache = [row |-> -1, col |-> -1, attr |-> "none"]
  /\ terminal = [cells |-> [c \in Cells |-> Blank], row |-> 0, col |-> 0, pen |-> "reset"]
  /\ strayed = FALSE
  /\ prints = 0

-----------------------------------------------------------------------------
(***************************************************************************)
(* What has to be looked at in the next refresh.                           *)
(***************************************************************************)
hull(range, first, last) == [first |-> Least(range.first, first), last |-> Greatest(range.last, last)]

\* A tile is listed once, and not at all when the pool has no place for it.
add_sparse(list, tile, in_use) ==
  IF tile \in Range(list) \/ in_use >= DIRTY_TILE_POOL_SIZE THEN list ELSE <<tile>> \o list

\* A rectangle, and its places row by row.
Area(row1, col1, row2, col2) ==
  [rows |-> [first |-> row1, last |-> row2], cols |-> [first |-> col1, last |-> col2]]
extent(range) == Greatest(0, range.last - range.first + 1)
places(area) ==
  LET width == extent(area.cols)
  IN [k \in 1 .. extent(area.rows) * width |->
        <<area.rows.first + ((k - 1) \div width), area.cols.first + ((k - 1) % width)>>]

\* The tiles of a size that a rectangle touches.
tiles_of(row1, col1, row2, col2, size) ==
  places(Area(row1 \div size, col1 \div size, row2 \div size, col2 \div size))

\* Tiles are listed while others, those of the other size, lie in the pool.
listed(list, new, others) == FoldLeft(LAMBDA l, t : add_sparse(l, t, Len(l) + others), list, new)

marked(row1, col1, row2, col2) ==
  LET l1 == listed(tiles.l1, tiles_of(row1, col1, row2, col2, TILE_L1_SIZE), Len(tiles.l2))
      l2 == listed(tiles.l2, tiles_of(row1, col1, row2, col2, TILE_L2_SIZE), Len(l1))
  IN [l1 |-> l1, l2 |-> l2]

\* Variant: the last column is left out when the tiles are found.
mark_dirty_region_exclusive(row1, col1, row2, col2) ==
  /\ dirty' = [has |-> TRUE, rows |-> hull(dirty.rows, row1, row2), cols |-> hull(dirty.cols, col1, col2)]
  /\ tiles' = IF use_hierarchical_tiles THEN marked(row1, col1, row2, Greatest(col1, col2 - 1)) ELSE tiles

mark_dirty_region(row1, col1, row2, col2) ==
  /\ dirty' = [has |-> TRUE, rows |-> hull(dirty.rows, row1, row2), cols |-> hull(dirty.cols, col1, col2)]
  /\ tiles' = IF use_hierarchical_tiles THEN marked(row1, col1, row2, col2) ELSE tiles

-----------------------------------------------------------------------------
(***************************************************************************)
(* The operations that change the buffer.                                  *)
(***************************************************************************)
\* A text is cut off at the end of the row.  What was drawn is forgotten, so that
\* each of its cells is drawn again.
tui_print_at(y, x, text, attr) ==
  LET last == Least(x + Len(text), Cols) - 1
      within(c) == c[1] = y /\ c[2] \in x .. last
  IN /\ prints < MaxPrints
     /\ screen' = [c \in Cells |-> IF within(c) THEN Cell(text[c[2] - x + 1], attr) ELSE screen[c]]
     /\ prev' = [c \in Cells |-> IF within(c) THEN Invalid ELSE prev[c]]
     /\ mark_dirty_region(y, x, y, last)
     /\ prints' = prints + 1
     /\ UNCHANGED <<use_hierarchical_tiles, cache, terminal, strayed>>

\* The cells of a window on the screen.  They are marked one by one, row by row,
\* which lists the tiles of their rectangle in the same order.
tui_clear_window(w) ==
  LET within(c) == c[1] \in w.y .. w.y + w.rows - 1 /\ c[2] \in w.x .. w.x + w.cols - 1
  IN /\ screen' = [c \in Cells |-> IF within(c) THEN Blank ELSE screen[c]]
     /\ prev' = [c \in Cells |-> IF within(c) THEN Invalid ELSE prev[c]]
     /\ mark_dirty_region(w.y, w.x, w.y + w.rows - 1, w.x + w.cols - 1)
     /\ UNCHANGED <<use_hierarchical_tiles, cache, terminal, strayed, prints>>

\* Everything will be drawn again, from a cursor and an attribute that are unknown.
tui_clear_screen ==
  /\ screen' = [c \in Cells |-> Blank]
  /\ prev' = [c \in Cells |-> Invalid]
  /\ mark_dirty_region(0, 0, Rows - 1, Cols - 1)
  /\ cache' = reset_attr_state(reset_cursor_tracking(cache))
  /\ strayed' = FALSE
  /\ UNCHANGED <<use_hierarchical_tiles, terminal, prints>>

-----------------------------------------------------------------------------
(***************************************************************************)
(* Drawing.  d is what a refresh works on: [prev, cache, terminal,         *)
(* strayed].                                                               *)
(***************************************************************************)
\* The terminal moves its cursor by rows and columns; behind the last column it
\* stands on the last column.
moved_by(t, rows, cols) ==
  [t EXCEPT !.row = @ + rows, !.col = Greatest(0, Least(@, Cols - 1) + cols)]

\* To the start of the next or of this row, a short way, or to coordinates.
tui_move_cached(d, row, col) ==
  LET c == d.cache
      known == c.row >= 0 /\ c.col >= 0
      rows == row - c.row
      cols == col - c.col
      near == known /\ rows \in -NEAR .. NEAR /\ cols \in -NEAR .. NEAR
      line_start == near /\ col = 0 /\ (rows = 1 \/ (rows = 0 /\ c.col > 0))
      at(t) == IF line_start THEN [t EXCEPT !.row = @ + rows, !.col = 0]
               ELSE IF near THEN moved_by(t, rows, cols)
               ELSE [t EXCEPT !.row = row, !.col = col]
  IN IF rows = 0 /\ cols = 0 THEN d
     ELSE [d EXCEPT !.cache.row = row, !.cache.col = col,
                    !.terminal = at(@),
                    !.strayed = @ \/ (near /\ ~line_start /\ d.terminal.col = Cols)]

apply_attributes(d, attr) == [d EXCEPT !.cache.attr = attr, !.terminal.pen = attr]

\* Variant: the cursor is taken to stand on the last character, not behind it.
output_buffered_run_on_last(d, y, first, last) ==
  LET t == d.terminal
      drawn(c) == c[1] = t.row /\ c[2] \in t.col .. t.col + last - first
  IN [d EXCEPT
        !.prev = [c \in Cells |-> IF c[1] = y /\ c[2] \in first .. last THEN screen[c] ELSE @[c]],
        !.terminal.cells = [c \in Cells |-> IF drawn(c)
                              THEN Cell(screen[<<y, first + c[2] - t.col>>].char, t.pen) ELSE @[c]],
        !.terminal.col = @ + last - first + 1,
        !.cache.col = last]

\* A run of characters from the cursor on.
output_buffered_run(d, y, first, last) ==
  LET t == d.terminal
      drawn(c) == c[1] = t.row /\ c[2] \in t.col .. t.col + last - first
  IN [d EXCEPT
        !.prev = [c \in Cells |-> IF c[1] = y /\ c[2] \in first .. last THEN screen[c] ELSE @[c]],
        !.terminal.cells = [c \in Cells |-> IF drawn(c)
                              THEN Cell(screen[<<y, first + c[2] - t.col>>].char, t.pen) ELSE @[c]],
        !.terminal.col = @ + last - first + 1,
        !.cache.col = last + 1]

draw_run(d, y, run) ==
  output_buffered_run(apply_attributes(tui_move_cached(d, y, run[1]), screen[<<y, run[1]>>].attr),
                      y, run[1], run[2])

changed(y, x) == screen[<<y, x>>] # prev[<<y, x>>]

\* A stretch of one attribute from a changed cell to a changed cell, with no more
\* than gap unchanged cells in a row.
joined(y, a, b, gap) ==
  /\ changed(y, a) /\ changed(y, b)
  /\ \A x \in a .. b : screen[<<y, x>>].attr = screen[<<y, a>>].attr
  /\ \A x \in a .. b - gap : \E z \in x .. x + gap : changed(y, z)

\* What is drawn of a row: the longest such stretches that begin in some columns and
\* end before the column end.
stretches(y, cols, end, gap) ==
  {r \in (cols.first .. cols.last) \X (cols.first .. end - 1) :
     r[1] <= r[2] /\ joined(y, r[1], r[2], gap)}
runs(y, cols, end, gap) ==
  LET all == stretches(y, cols, end, gap)
  IN {r \in all : \A s \in all : (s[1] <= r[1] /\ r[2] <= s[2]) => s = r}

\* An area, row by row and from left to right: the run that begins at each place, if
\* one does.
draw_from(d, y, x, cols, end, gap) ==
  IF ~changed(y, x) THEN d
  ELSE LET starting == {r \in runs(y, cols, end, gap) : r[1] = x}
       IN IF starting = {} THEN d ELSE draw_run(d, y, CHOOSE r \in starting : TRUE)

draw_area(d, area, end, gap) ==
  FoldLeft(LAMBDA e, c : draw_from(e, c[1], c[2], area.cols, end, gap), d, places(area))

-----------------------------------------------------------------------------
(***************************************************************************)
(* Where a refresh looks.                                                  *)
(***************************************************************************)
row_has_changes(y, cols) == \E x \in cols.first .. cols.last : changed(y, x)
col_has_changes(x, rows) == \E y \in rows.first .. rows.last : changed(y, x)

\* The first and the last member of a set.
span(S) == [first |-> CHOOSE i \in S : \A j \in S : i <= j, last |-> CHOOSE i \in S : \A j \in S : j <= i]

\* The box, drawn tight around the changes that are in it.
optimize_dirty_region ==
  LET rows == {y \in dirty.rows.first .. dirty.rows.last : row_has_changes(y, dirty.cols)}
      cols == {x \in dirty.cols.first .. dirty.cols.last : col_has_changes(x, span(rows))}
  IN [rows |-> span(rows), cols |-> span(cols)]

scan_rows(d, box) == draw_area(d, box, Cols, MAX_GAP)

\* What a tile of a size has in common with the box.
part_of(tile, size, box) ==
  Area(Greatest(tile[1] * size, box.rows.first),
       Greatest(tile[2] * size, box.cols.first),
       Least((tile[1] + 1) * size - 1, box.rows.last),
       Least((tile[2] + 1) * size - 1, box.cols.last))

scan_l1_tile(d, tile, box) ==
  LET area == part_of(tile, TILE_L1_SIZE, box) IN draw_area(d, area, area.cols.last + 1, 0)

\* The listed tiles that are wanted.
scan_tiles(d, wanted, box) ==
  FoldLeft(LAMBDA e, t : IF t \in wanted THEN scan_l1_tile(e, t, box) ELSE e, d, tiles.l1)

in_block(block) ==
  LET ratio == TILE_L2_SIZE \div TILE_L1_SIZE
  IN {t \in Range(tiles.l1) : t[1] \div ratio = block[1] /\ t[2] \div ratio = block[2]}

\* The tiles block by block.
scan_blocks(d, box) == FoldLeft(LAMBDA e, b : scan_tiles(e, in_block(b), box), d, tiles.l2)

\* After anything was drawn the attributes are reset.
finished(d) ==
  IF d.terminal = terminal THEN d
  ELSE [d EXCEPT !.terminal.pen = "reset", !.cache = reset_attr_state(@)]

\* What a refresh may make of d: which order is taken depends on how many tiles were
\* dirty in former frames; here it is either.
refreshed(d) ==
  LET box == optimize_dirty_region
  IN IF ~use_hierarchical_tiles THEN {finished(scan_rows(d, box))}
     ELSE {finished(scan_tiles(d, Range(tiles.l1), box)), finished(scan_blocks(d, box))}

tui_refresh ==
  /\ dirty.has
  /\ \E d \in refreshed([prev |-> prev, cache |-> cache, terminal |-> terminal, strayed |-> strayed]) :
       prev' = d.prev /\ cache' = d.cache /\ terminal' = d.terminal /\ strayed' = d.strayed
  /\ dirty' = Clean /\ tiles' = CleanTiles
  /\ UNCHANGED <<use_hierarchical_tiles, screen, prints>>

Next ==
  \/ \E c \in Cells, text \in Texts, attr \in Attrs : tui_print_at(c[1], c[2], text, attr)
  \/ \E w \in Windows : tui_clear_window(w)
  \/ tui_clear_screen
  \/ tui_refresh

Spec == Init /\ [][Next]_vars

-----------------------------------------------------------------------------
TypeOK ==
  /\ screen \in [Cells -> [char : {" "} \cup UNION {Range(text) : text \in Texts}, attr : Attrs \cup {"normal"}]]
  /\ terminal.row \in 0 .. Rows - 1 /\ terminal.col \in 0 .. Cols
  /\ cache.row \in -1 .. Rows - 1 /\ cache.col \in -1 .. Cols
  /\ Len(tiles.l1) + Len(tiles.l2) <= DIRTY_TILE_POOL_SIZE

\* ScreenShowsWindow: after a refresh the terminal shows what the program printed,
\* in whatever order, with whatever attributes and between whatever clearings,
\* though only changed cells of dirty tiles were written; unless a relative move
\* started behind the last column (tui copy.c:1550-1710, 2859-2951, 3188-3537).
ScreenShowsWindow == ~dirty.has /\ ~strayed => terminal.cells = screen

\* CachesTellTerminal: what the program believes of cursor and attributes is so at
\* the terminal, so that a move or an attribute it saves itself is not missed;
\* with the same exception (tui copy.c:1053-1178, 3068-3172).
CachesTellTerminal ==
  ~strayed => /\ cache.col >= 0 => cache.row = terminal.row /\ cache.col = terminal.col
              /\ cache.attr # "none" => cache.attr = terminal.pen
=============================================================================
