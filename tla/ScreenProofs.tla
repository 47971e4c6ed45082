----------------------------- MODULE ScreenProofs -----------------------------
(***************************************************************************)
(* Theorems about the screen of the text interface, for every size of the  *)
(* screen, of its tiles and blocks, and for every set of glyphs, styles,   *)
(* texts and windows; and, at the end, what takes all the programs of      *)
(* MCText together.                                                        *)
(***************************************************************************)
EXTENDS TextProofs, FiniteSetTheorems

-----------------------------------------------------------------------------
(***************************************************************************)
(* The screen of the text interface.                                       *)
(***************************************************************************)
\* The types of a drawing: what was drawn, what the program believes, the terminal.
Pens == Styles \cup {"reset"}
Drawn == [char : Glyphs, attr : Styles]
Shown == [char : Glyphs, attr : Pens]
Caches == [row : -1 .. Rows - 1, col : -1 .. Cols, attr : Pens \cup {"none"}]
Terminals ==
  [cells : [Screen!Cells -> Shown], row : 0 .. Rows - 1, col : 0 .. Cols, pen : Pens]
Drawings == [prev : [Screen!Cells -> Drawn \cup {Screen!Invalid}], cache : Caches,
             terminal : Terminals, strayed : BOOLEAN]

\* The program knows where the cursor is, or that it does not know, and with which
\* attribute the terminal draws; after a move that strayed the cursor is not behind.
Tracks(d) ==
  /\ d.cache.row = -1 <=> d.cache.col = -1
  /\ d.cache.row # -1 => d.terminal.row = d.cache.row /\ d.terminal.col <= d.cache.col
  /\ d.cache.row # -1 /\ ~d.strayed => d.terminal.col = d.cache.col
  /\ d.cache.attr # "none" => d.cache.attr = d.terminal.pen

\* What was drawn and is not forgotten stands on the terminal.
Shows(d) == ~d.strayed => \A c \in Screen!Cells : d.prev[c] # Screen!Invalid
                            => d.terminal.cells[c] = d.prev[c]

\* A block is as wide as some tiles.
LEMMA TileRatio ==
  ASSUME ScreenFits
  PROVE  \E k \in Nat \ {0} : TILE_L2_SIZE = k * TILE_L1_SIZE
<1> DEFINE k == TILE_L2_SIZE \div TILE_L1_SIZE
<1>1. TILE_L1_SIZE \in Nat \ {0} /\ TILE_L2_SIZE \in Nat \ {0} /\ TILE_L2_SIZE % TILE_L1_SIZE = 0
  BY DEF ScreenFits
<1>2. k \in Nat /\ TILE_L2_SIZE = k * TILE_L1_SIZE
  BY <1>1
<1> HIDE DEF k
<1>3. k # 0
  BY <1>1, <1>2
<1> QED
  BY <1>2, <1>3

\* A move leads where it should, or strays.
LEMMA MoveLeads ==
  ASSUME ScreenFits, NEW d \in Drawings, Tracks(d),
         NEW row \in 0 .. Rows - 1, NEW col \in 0 .. Cols - 1,
         NEW e, e = Screen!tui_move_cached(d, row, col)
  PROVE  /\ e = [prev |-> d.prev, cache |-> e.cache, terminal |-> e.terminal, strayed |-> e.strayed]
         /\ e.cache = [row |-> row, col |-> col, attr |-> d.cache.attr]
         /\ e.terminal = [cells |-> d.terminal.cells, row |-> row, col |-> e.terminal.col,
                          pen |-> d.terminal.pen]
         /\ e.terminal.col \in 0 .. col
         /\ e.strayed \in BOOLEAN /\ (d.strayed => e.strayed)
         /\ ~e.strayed => e.terminal.col = col
<1> DEFINE c == d.cache
           t == d.terminal
           rows == row - c.row
           cols == col - c.col
           known == c.row >= 0 /\ c.col >= 0
           near == known /\ rows \in -NEAR .. NEAR /\ cols \in -NEAR .. NEAR
           line_start == near /\ col = 0 /\ (rows = 1 \/ (rows = 0 /\ c.col > 0))
           there == IF line_start THEN [t EXCEPT !.row = @ + rows, !.col = 0]
                    ELSE IF near THEN Screen!moved_by(t, rows, cols)
                    ELSE [t EXCEPT !.row = row, !.col = col]
           beyond == near /\ ~line_start /\ t.col = Cols
<1>1. e = IF rows = 0 /\ cols = 0 THEN d
          ELSE [d EXCEPT !.cache.row = row, !.cache.col = col, !.terminal = there,
                         !.strayed = @ \/ beyond]
  BY DEF Screen!tui_move_cached
<1>2. /\ d = [prev |-> d.prev, cache |-> c, terminal |-> t, strayed |-> d.strayed]
      /\ d.strayed \in BOOLEAN
      /\ c = [row |-> c.row, col |-> c.col, attr |-> c.attr]
      /\ t = [cells |-> t.cells, row |-> t.row, col |-> t.col, pen |-> t.pen]
      /\ c.row \in -1 .. Rows - 1 /\ c.col \in -1 .. Cols
      /\ t.row \in 0 .. Rows - 1 /\ t.col \in 0 .. Cols
  BY DEF Drawings, Caches, Terminals
<1>3. Rows \in Nat /\ Cols \in Nat /\ row \in Nat /\ col \in Nat
  BY DEF ScreenFits
<1>4. known <=> c.row # -1
  BY <1>2 DEF Tracks
<1>5. known => t.row = c.row /\ t.col <= c.col /\ (~d.strayed => t.col = c.col)
  BY <1>4 DEF Tracks
<1>6. CASE rows = 0 /\ cols = 0
  <2>1. e = d /\ c.row = row /\ c.col = col /\ known
    BY <1>1, <1>2, <1>3, <1>6
  <2> QED
    BY <1>2, <1>5, <2>1
<1>7. CASE ~(rows = 0 /\ cols = 0)
  <2>1. e = [d EXCEPT !.cache.row = row, !.cache.col = col, !.terminal = there,
                      !.strayed = @ \/ beyond]
    BY <1>1, <1>7
  <2> HIDE DEF there, beyond
  <2>2. /\ e = [prev |-> d.prev, cache |-> e.cache, terminal |-> e.terminal, strayed |-> e.strayed]
        /\ e.terminal = there /\ e.strayed = (d.strayed \/ beyond)
    BY <2>1 DEF Drawings
  <2>3. e.cache = [row |-> row, col |-> col, attr |-> c.attr]
    BY <2>1, ZenonT(60) DEF Drawings, Caches
  <2>4. there = [cells |-> t.cells, row |-> row, col |-> there.col, pen |-> t.pen]
    <3> DEFINE u == there
    <3>1. CASE line_start
      <4>1. u = [t EXCEPT !.row = t.row + rows, !.col = 0]
        BY <3>1 DEF there
      <4>2. t.row + rows = row
        BY <1>2, <1>3, <1>5, <3>1
      <4> HIDE DEF u
      <4>3. u.row = row
        BY <4>1, <4>2 DEF Drawings, Terminals
      <4>4. u = [cells |-> t.cells, row |-> row, col |-> u.col, pen |-> t.pen]
        BY <4>1, <4>2 DEF Drawings, Terminals
      <4> QED
        BY <4>4 DEF u
    <3>2. CASE near /\ ~line_start
      <4> DEFINE column == Screen!Greatest(0, Screen!Least(t.col, Cols - 1) + cols)
      <4>1. u = [t EXCEPT !.row = t.row + rows, !.col = column]
        BY <3>2 DEF there, Screen!moved_by
      <4>2. t.row + rows = row
        BY <1>2, <1>3, <1>5, <3>2
      <4> HIDE DEF u, column
      <4>4. u = [cells |-> t.cells, row |-> row, col |-> u.col, pen |-> t.pen]
        BY <4>1, <4>2 DEF Drawings, Terminals
      <4> QED
        BY <4>4 DEF u
    <3>3. CASE ~near
      <4>1. u = [t EXCEPT !.row = row, !.col = col]
        BY <3>3 DEF there
      <4> HIDE DEF u
      <4>4. u = [cells |-> t.cells, row |-> row, col |-> u.col, pen |-> t.pen]
        BY <4>1 DEF Drawings, Terminals
      <4> QED
        BY <4>4 DEF u
    <3> QED
      BY <3>1, <3>2, <3>3
  <2>5. there.col \in 0 .. col /\ (~beyond /\ ~d.strayed => there.col = col)
    <3>1. CASE line_start
      <4>1. there.col = 0 /\ col = 0
        BY <3>1 DEF there, Drawings, Terminals
      <4> QED
        BY <4>1
    <3>2. CASE near /\ ~line_start
      <4> DEFINE column == Screen!Greatest(0, Screen!Least(t.col, Cols - 1) + cols)
      <4>1. there = [t EXCEPT !.row = t.row + rows, !.col = column]
        BY <3>2 DEF there, Screen!moved_by
      <4> HIDE DEF column
      <4>2. there.col = column
        BY <4>1 DEF Drawings, Terminals
      <4> DEFINE left == Screen!Least(t.col, Cols - 1)
      <4>3. left \in Int /\ left <= t.col /\ (t.col # Cols => left = t.col)
        BY <1>2, <1>3 DEF Screen!Least
      <4>4. column = IF 0 < left + cols THEN left + cols ELSE 0
        BY DEF column, Screen!Greatest
      <4> HIDE DEF left
      <4>5. c.col \in Int /\ cols = col - c.col /\ t.col <= c.col /\ t.col \in Int /\ col \in Nat
        BY <1>2, <1>3, <1>5, <3>2
      <4> HIDE DEF cols, c, t
      <4>6. left + cols <= col
        BY <4>3, <4>5
      <4>7. column \in 0 .. col
        BY <4>3, <4>4, <4>5, <4>6
      <4>8. ASSUME ~beyond, ~d.strayed
            PROVE  column = col
        <5>1. t.col # Cols /\ t.col = c.col
          BY <1>5, <3>2, <4>8 DEF beyond
        <5>2. left + cols = col
          BY <4>3, <4>5, <5>1
        <5> QED
          BY <4>4, <4>5, <5>2
      <4> QED
        BY <4>2, <4>7, <4>8
    <3>3. CASE ~near
      <4>1. there.col = col
        BY <3>3 DEF there, Drawings, Terminals
      <4> QED
        BY <1>3, <4>1
    <3> QED
      BY <3>1, <3>2, <3>3
  <2> HIDE DEF c, t
  <2> QED
    BY <1>2, <2>2, <2>3, <2>4, <2>5 DEF beyond, c, t
<1> QED
  BY <1>6, <1>7

\* What a refresh works on is one of the states of drawing.
Drawing(d) == d \in Drawings /\ Tracks(d) /\ Shows(d)

\* From d to e the cells of a row from column a to column b are shown as they should be.
RunShown(d, e, y, a, b) ==
  /\ Drawing(e)
  /\ d.strayed => e.strayed
  /\ ~e.strayed => \A c \in Screen!Cells : e.terminal.cells[c] =
       IF c[1] = y /\ c[2] \in a .. b THEN screen[c] ELSE d.terminal.cells[c]

\* A run of one attribute is drawn: its cells show the screen and the others what they
\* showed, unless the cursor has strayed.
LEMMA RunDrawn ==
  ASSUME ScreenFits, screen \in [Screen!Cells -> Drawn], NEW d, Drawing(d),
         NEW y \in 0 .. Rows - 1, NEW a \in 0 .. Cols - 1, NEW b \in a .. Cols - 1,
         \A x \in a .. b : screen[<<y, x>>].attr = screen[<<y, a>>].attr,
         NEW e, e = Screen!draw_run(d, y, <<a, b>>)
  PROVE  RunShown(d, e, y, a, b)
<1> DEFINE attr == screen[<<y, a>>].attr
           m == Screen!tui_move_cached(d, y, a)
           p == Screen!apply_attributes(m, attr)
           t == p.terminal
           drawn(c) == c[1] = t.row /\ c[2] \in t.col .. t.col + b - a
           inrun(c) == c[1] = y /\ c[2] \in a .. b
           prev1 == [c \in Screen!Cells |-> IF inrun(c) THEN screen[c] ELSE p.prev[c]]
           text(c) == Screen!Cell(screen[<<y, a + c[2] - t.col>>].char, t.pen)
           cells1 == [c \in Screen!Cells |-> IF drawn(c) THEN text(c) ELSE t.cells[c]]
<1>0. Rows \in Nat /\ Cols \in Nat /\ y \in Nat /\ a \in Nat /\ b \in Nat /\ a <= b /\ b <= Cols - 1
  BY DEF ScreenFits
<1>1. e = [p EXCEPT !.prev = prev1, !.terminal.cells = cells1,
                    !.terminal.col = @ + b - a + 1, !.cache.col = b + 1]
  BY ZenonT(60) DEF Screen!draw_run, Screen!output_buffered_run
<1>2. d \in Drawings /\ Tracks(d) /\ Shows(d)
  BY DEF Drawing
<1>3. /\ m = [prev |-> d.prev, cache |-> m.cache, terminal |-> m.terminal, strayed |-> m.strayed]
      /\ m.cache = [row |-> y, col |-> a, attr |-> d.cache.attr]
      /\ m.terminal = [cells |-> d.terminal.cells, row |-> y, col |-> m.terminal.col,
                       pen |-> d.terminal.pen]
      /\ m.terminal.col \in 0 .. a
      /\ m.strayed \in BOOLEAN /\ (d.strayed => m.strayed)
      /\ ~m.strayed => m.terminal.col = a
  BY <1>2, MoveLeads
<1>4. \A c \in Screen!Cells : screen[c] = [char |-> screen[c].char, attr |-> screen[c].attr]
                              /\ screen[c].char \in Glyphs /\ screen[c].attr \in Styles
  BY DEF Drawn
<1>5. \A x \in 0 .. Cols - 1 : <<y, x>> \in Screen!Cells
  BY DEF Screen!Cells
<1>6. attr \in Styles
  BY <1>4, <1>5
<1> HIDE DEF m, attr
<1>19. m \in Drawings
  <2>1. m.cache \in Caches
    BY <1>0, <1>2, <1>3 DEF Drawings, Caches
  <2>2. m.terminal \in Terminals
    <3>1. d.terminal.cells \in [Screen!Cells -> Shown] /\ d.terminal.pen \in Pens
      BY <1>2 DEF Drawings, Terminals
    <3>2. m.terminal.col \in 0 .. Cols
      BY <1>0, <1>3
    <3> QED
      BY <1>3, <3>1, <3>2 DEF Terminals
  <2>3. d.prev \in [Screen!Cells -> Drawn \cup {Screen!Invalid}] /\ m.strayed \in BOOLEAN
    BY <1>2, <1>3 DEF Drawings
  <2> QED
    BY <1>3, <2>1, <2>2, <2>3 DEF Drawings
<1>7. /\ p = [prev |-> d.prev, cache |-> p.cache, terminal |-> p.terminal, strayed |-> m.strayed]
      /\ p.cache = [row |-> y, col |-> a, attr |-> attr]
      /\ p.terminal = [cells |-> d.terminal.cells, row |-> y, col |-> m.terminal.col, pen |-> attr]
  <2>1. PICK q : q = p
    OBVIOUS
  <2>2. q = [m EXCEPT !.cache.attr = attr, !.terminal.pen = attr]
    BY <2>1 DEF Screen!apply_attributes
  <2> HIDE DEF p
  <2>3. q = [prev |-> d.prev, cache |-> q.cache, terminal |-> q.terminal, strayed |-> m.strayed]
    <3>1. q = [prev |-> q.prev, cache |-> q.cache, terminal |-> q.terminal, strayed |-> q.strayed]
      BY <1>19, <2>2 DEF Drawings
    <3>2. q.prev = m.prev /\ q.strayed = m.strayed
      BY <1>19, <2>2 DEF Drawings
    <3>3. m.prev = d.prev
      BY <1>3
    <3> QED
      BY <3>1, <3>2, <3>3
  <2>4. q.cache = [row |-> y, col |-> a, attr |-> attr]
    BY <1>3, <2>2
  <2>5. q.terminal = [cells |-> d.terminal.cells, row |-> y, col |-> m.terminal.col, pen |-> attr]
    BY <1>3, <2>2
  <2> QED
    BY <2>1, <2>3, <2>4, <2>5
<1> HIDE DEF p
<1>8. t.row = y /\ t.pen = attr /\ t.cells = d.terminal.cells /\ t.col = m.terminal.col
  BY <1>7
<1>9. p.prev = d.prev
  BY <1>7
<1> DEFINE col1 == t.col + b - a + 1
<1>10. col1 \in 0 .. b + 1 /\ t.col \in Nat /\ (~m.strayed => col1 = b + 1)
  BY <1>0, <1>3, <1>8
<1> HIDE DEF cells1, prev1
<1>20. p \in Drawings
  <2>1. p.cache \in Caches
    BY <1>0, <1>6, <1>7 DEF Caches, Pens
  <2>2. p.terminal \in Terminals
    <3>1. d.terminal.cells \in [Screen!Cells -> Shown]
      BY <1>2 DEF Drawings, Terminals
    <3>2. m.terminal.col \in 0 .. Cols
      BY <1>0, <1>3
    <3> QED
      BY <1>6, <1>7, <3>1, <3>2 DEF Terminals, Pens
  <2>3. d.prev \in [Screen!Cells -> Drawn \cup {Screen!Invalid}] /\ m.strayed \in BOOLEAN
    BY <1>2, <1>3 DEF Drawings
  <2> QED
    BY <1>7, <2>1, <2>2, <2>3 DEF Drawings
<1>11. /\ e = [prev |-> prev1, cache |-> e.cache, terminal |-> e.terminal, strayed |-> m.strayed]
       /\ e.cache = [row |-> y, col |-> b + 1, attr |-> attr]
       /\ e.terminal = [cells |-> cells1, row |-> y, col |-> col1, pen |-> attr]
  <2>1. /\ e = [prev |-> e.prev, cache |-> e.cache, terminal |-> e.terminal, strayed |-> e.strayed]
        /\ e.prev = prev1 /\ e.strayed = p.strayed
    BY <1>1, <1>20 DEF Drawings
  <2>2. p.strayed = m.strayed
    BY <1>7
  <2> HIDE DEF col1
  <2>5. /\ p.cache \in Caches /\ p.cache.row = y /\ p.cache.attr = attr
        /\ p.terminal \in Terminals /\ p.terminal.row = y /\ p.terminal.pen = attr
    BY <1>7, <1>20 DEF Drawings
  <2>3. e.cache = [row |-> y, col |-> b + 1, attr |-> attr]
    <3>1. e.cache = [p.cache EXCEPT !.col = b + 1]
      BY <1>1, <1>20 DEF Drawings
    <3> QED
      BY <2>5, <3>1 DEF Caches
  <2>4. e.terminal = [cells |-> cells1, row |-> y, col |-> col1, pen |-> attr]
    <3>1. e.terminal = [p.terminal EXCEPT !.cells = cells1, !.col = col1]
      BY <1>1, <1>20 DEF Drawings, col1
    <3> QED
      BY <2>5, <3>1 DEF Terminals
  <2> HIDE DEF col1
  <2> QED
    BY <2>1, <2>2, <2>3, <2>4
<1>12. ASSUME NEW c \in Screen!Cells, drawn(c)
       PROVE  /\ a + c[2] - t.col \in a .. b /\ a + c[2] - t.col \in 0 .. Cols - 1
              /\ <<y, a + c[2] - t.col>> \in Screen!Cells
  <2>1. c[2] \in Int
    BY DEF Screen!Cells
  <2> DEFINE x == c[2]
             k == t.col
  <2>2. x \in Int /\ k \in Nat /\ x \in k .. k + b - a
    BY <1>10, <1>12, <2>1
  <2> HIDE DEF x, k
  <2>3. a + x - k \in a .. b /\ a + x - k \in 0 .. Cols - 1
    BY <1>0, <2>2
  <2> QED
    BY <1>5, <2>3 DEF x, k
<1>13. cells1 \in [Screen!Cells -> Shown]
  <2> SUFFICES ASSUME NEW c \in Screen!Cells
               PROVE  (IF drawn(c) THEN text(c) ELSE t.cells[c]) \in Shown
    BY DEF cells1
  <2>1. CASE drawn(c)
    <3>1. screen[<<y, a + c[2] - t.col>>].char \in Glyphs
      BY <1>4, <1>12, <2>1
    <3>2. t.pen \in Pens
      BY <1>6, <1>8 DEF Pens
    <3>3. text(c) = [char |-> screen[<<y, a + c[2] - t.col>>].char, attr |-> t.pen]
      BY DEF Screen!Cell
    <3> QED
      BY <2>1, <3>1, <3>2, <3>3 DEF Shown
  <2>2. CASE ~drawn(c)
    <3>1. t.cells[c] \in Shown
      BY <1>2, <1>8 DEF Drawings, Terminals
    <3> QED
      BY <2>2, <3>1
  <2> QED
    BY <2>1, <2>2
<1>14. prev1 \in [Screen!Cells -> Drawn \cup {Screen!Invalid}]
  <2>1. d.prev \in [Screen!Cells -> Drawn \cup {Screen!Invalid}]
    BY <1>2 DEF Drawings
  <2> QED
    BY <1>9, <2>1 DEF prev1
<1>15. e \in Drawings
  <2>1. e.cache \in Caches
    BY <1>0, <1>6, <1>11 DEF Caches, Pens
  <2>2. e.terminal \in Terminals
    BY <1>0, <1>6, <1>10, <1>11, <1>13 DEF Terminals, Pens
  <2>3. m.strayed \in BOOLEAN
    BY <1>3
  <2> QED
    BY <1>11, <1>14, <2>1, <2>2, <2>3 DEF Drawings
<1>16. Tracks(e)
  <2>1. /\ e.cache.row = y /\ e.cache.col = b + 1 /\ e.cache.attr = attr
        /\ e.terminal.row = y /\ e.terminal.col = col1 /\ e.terminal.pen = attr
        /\ e.strayed = m.strayed
    BY <1>11
  <2>2. y # -1 /\ b + 1 # -1
    BY <1>0
  <2> QED
    BY <1>10, <2>1, <2>2 DEF Tracks
<1>17. ASSUME ~e.strayed, NEW c \in Screen!Cells
       PROVE  e.terminal.cells[c] = IF inrun(c) THEN screen[c] ELSE d.terminal.cells[c]
  <2>1. ~m.strayed /\ t.col = a
    BY <1>3, <1>8, <1>11, <1>17
  <2>2. e.terminal.cells[c] = IF drawn(c) THEN text(c) ELSE d.terminal.cells[c]
    BY <1>8, <1>11 DEF cells1
  <2>3. c[2] \in Int
    BY DEF Screen!Cells
  <2>4. drawn(c) <=> inrun(c)
    <3>1. t.col + b - a = b
      BY <1>0, <2>1
    <3> QED
      BY <1>8, <2>1, <3>1
  <2>5. ASSUME inrun(c)
        PROVE  text(c) = screen[c]
    <3>1. a + c[2] - t.col = c[2]
      BY <1>0, <2>1, <2>3
    <3>2. <<y, c[2]>> = c
      BY <2>5 DEF Screen!Cells
    <3>3. text(c) = [char |-> screen[c].char, attr |-> attr]
      BY <1>8, <3>1, <3>2 DEF Screen!Cell
    <3>4. screen[c].attr = attr
      BY <2>5, <3>2 DEF attr
    <3> QED
      BY <1>4, <3>3, <3>4
  <2> QED
    BY <2>2, <2>4, <2>5
<1>18. Shows(e)
  <2> SUFFICES ASSUME ~e.strayed, NEW c \in Screen!Cells, e.prev[c] # Screen!Invalid
               PROVE  e.terminal.cells[c] = e.prev[c]
    BY DEF Shows
  <2>1. ~d.strayed
    BY <1>3, <1>11
  <2>2. e.prev[c] = IF inrun(c) THEN screen[c] ELSE d.prev[c]
    BY <1>9, <1>11 DEF prev1
  <2>3. d.prev[c] # Screen!Invalid => d.terminal.cells[c] = d.prev[c]
    BY <1>2, <2>1 DEF Shows
  <2> QED
    BY <1>17, <2>2, <2>3
<1> QED
  BY <1>3, <1>11, <1>15, <1>16, <1>17, <1>18 DEF Drawing, RunShown

\* A list of n elements names the places of a rectangle and no others.
Names(list, n, r1, c1, r2, c2) ==
  /\ Len(list) = n /\ DOMAIN list = 1 .. n
  /\ \A k \in 1 .. n : list[k] \in (r1 .. r2) \X (c1 .. c2)
  /\ \A y \in r1 .. r2 : \A x \in c1 .. c2 : \E k \in 1 .. n : list[k] = <<y, x>>

\* The places of a rectangle are listed, each in it.
LEMMA PlacesListed ==
  ASSUME NEW r1 \in Int, NEW c1 \in Int, NEW r2 \in Int, NEW c2 \in Int,
         NEW list, list = Screen!places(Screen!Area(r1, c1, r2, c2))
  PROVE  \E n \in Nat : Names(list, n, r1, c1, r2, c2)
<1> DEFINE w == Screen!Greatest(0, c2 - c1 + 1)
           h == Screen!Greatest(0, r2 - r1 + 1)
           n == h * w
           at(k) == <<r1 + ((k - 1) \div w), c1 + ((k - 1) % w)>>
<1>1. list = [k \in 1 .. n |-> at(k)]
  BY DEF Screen!places, Screen!Area, Screen!extent
<1>2. w \in Nat /\ h \in Nat /\ (w # 0 => w = c2 - c1 + 1) /\ (h # 0 => h = r2 - r1 + 1)
      /\ (c1 <= c2 => w # 0) /\ (r1 <= r2 => h # 0)
  BY DEF Screen!Greatest
<1> HIDE DEF w, h
<1>3. n \in Nat
  BY <1>2
<1>4. Len(list) = n /\ DOMAIN list = 1 .. n
  BY <1>1, <1>3
<1>5. ASSUME NEW k \in 1 .. n
      PROVE  list[k] \in (r1 .. r2) \X (c1 .. c2)
  <2> DEFINE j == k - 1
             q == j \div w
             r == j % w
  <2>1. w # 0 /\ h # 0
    <3>1. n # 0
      BY <1>3
    <3> QED
      BY <1>2, <3>1
  <2>2. w \in Nat \ {0} /\ h \in Nat \ {0} /\ j \in Nat
    BY <1>2, <1>3, <2>1
  <2>3. j < h * w
    BY <1>3
  <2> HIDE DEF j
  <2>4. q \in Nat /\ r \in 0 .. w - 1 /\ j = q * w + r
    BY <2>2
  <2> HIDE DEF q, r
  <2>5. q * w < h * w
    <3>1. q * w \in Int /\ h * w \in Int
      BY <2>2, <2>4
    <3> QED
      BY <2>3, <2>4, <3>1
  <2>6. q < h
    BY <2>2, <2>4, <2>5
  <2>7. r1 + q \in r1 .. r2 /\ c1 + r \in c1 .. c2
    BY <1>2, <2>2, <2>4, <2>6
  <2>8. list[k] = <<r1 + q, c1 + r>>
    BY <1>1 DEF q, r, j
  <2> QED
    BY <2>7, <2>8
<1>6. ASSUME NEW y \in r1 .. r2, NEW x \in c1 .. c2
      PROVE  \E k \in 1 .. n : list[k] = <<y, x>>
  <2> DEFINE q == y - r1
             r == x - c1
             j == q * w + r
  <2>1. w \in Nat \ {0} /\ h \in Nat \ {0} /\ w = c2 - c1 + 1 /\ h = r2 - r1 + 1
    BY <1>2
  <2>2. q \in 0 .. h - 1 /\ r \in 0 .. w - 1 /\ r1 + q = y /\ c1 + r = x
    BY <2>1
  <2> HIDE DEF q, r
  <2>3. j \div w = q /\ j % w = r /\ j \in Nat
    BY <2>1, <2>2
  <2>4. j < h * w
    <3>1. q * w <= (h - 1) * w /\ (h - 1) * w = h * w - w
      BY <2>1, <2>2
    <3>2. q * w \in Int /\ h * w \in Int
      BY <2>1, <2>2
    <3> QED
      BY <2>1, <2>2, <3>1, <3>2
  <2> HIDE DEF j
  <2>5. j + 1 \in 1 .. n /\ j + 1 - 1 = j
    BY <1>3, <2>3, <2>4
  <2>6. list[j + 1] = at(j + 1)
    BY <1>1, <2>5
  <2>7. at(j + 1) = <<y, x>>
    BY <2>2, <2>3, <2>5
  <2> QED
    BY <2>5, <2>6, <2>7
<1> HIDE DEF n
<1> QED
  BY <1>3, <1>4, <1>5, <1>6 DEF Names

\* A changed cell is in a run that begins in the same columns, left of it or at it, and
\* no other run begins where this one begins.
LEMMA RunsCover ==
  ASSUME NEW y, NEW area, NEW end \in Int, NEW gap \in Nat,
         area.first \in Int, area.last \in Int,
         NEW x \in area.first .. area.last, x < end, Screen!changed(y, x)
  PROVE  \E r \in Screen!runs(y, area, end, gap) : r[1] <= x /\ x <= r[2]
<1> DEFINE all == Screen!stretches(y, area, end, gap)
           S == {r \in all : r[1] <= x /\ x <= r[2]}
           lack(r) == end - area.first - (r[2] - r[1])
           T == {lack(r) : r \in S}
<1>1. all = {r \in (area.first .. area.last) \X (area.first .. end - 1) :
               r[1] <= r[2] /\ Screen!joined(y, r[1], r[2], gap)}
  BY DEF Screen!stretches
<1>2. Screen!joined(y, x, x, gap)
  <2>1. \A z \in x .. x : z = x
    OBVIOUS
  <2>2. ASSUME NEW z \in x .. x - gap
        PROVE  \E u \in z .. z + gap : Screen!changed(y, u)
    <3>1. z = x /\ x \in z .. z + gap
      OBVIOUS
    <3> QED
      BY <3>1
  <2> QED
    BY <2>1, <2>2 DEF Screen!joined
<1>3. <<x, x>> \in S
  BY <1>1, <1>2
<1>4. \A r \in all : /\ r = <<r[1], r[2]>> /\ r[1] \in Int /\ r[2] \in Int /\ r[1] <= r[2]
                     /\ area.first <= r[1] /\ r[2] <= end - 1
  BY <1>1
<1> HIDE DEF all
<1>5. T \subseteq Nat /\ lack(<<x, x>>) \in T
  <2>1. ASSUME NEW r \in S
        PROVE  lack(r) \in Nat
    BY <1>4
  <2> QED
    BY <1>3, <2>1
<1> HIDE DEF T
<1>6. PICK t \in T : \A u \in T : t <= u
  BY <1>5, LeastElement
<1>7. PICK r \in S : t = lack(r)
  BY DEF T
<1>8. ASSUME NEW s \in all, s[1] <= r[1], r[2] <= s[2]
      PROVE  s = r
  <2>1. /\ s = <<s[1], s[2]>> /\ s[1] \in Int /\ s[2] \in Int
        /\ r = <<r[1], r[2]>> /\ r[1] \in Int /\ r[2] \in Int
    BY <1>4
  <2>2. s \in S
    BY <1>8, <2>1
  <2>3. lack(r) <= lack(s)
    BY <1>6, <1>7, <2>2 DEF T
  <2>4. s[1] = r[1] /\ s[2] = r[2]
    BY <1>8, <2>1, <2>3
  <2> QED
    BY <2>1, <2>4
<1>9. r \in Screen!runs(y, area, end, gap)
  BY <1>8 DEF Screen!runs, all
<1> QED
  BY <1>9

\* No two runs begin at one column.
LEMMA RunsDiffer ==
  ASSUME NEW y, NEW area, NEW end \in Int, NEW gap, area.first \in Int, area.last \in Int,
         NEW r \in Screen!runs(y, area, end, gap), NEW s \in Screen!runs(y, area, end, gap),
         r[1] = s[1]
  PROVE  r = s
<1> DEFINE all == Screen!stretches(y, area, end, gap)
<1>1. /\ \A q \in all : q[1] \in Int /\ q[2] \in Int
      /\ r \in all /\ s \in all
  BY DEF Screen!stretches, Screen!runs
<1>2. /\ s[1] <= r[1] /\ r[2] <= s[2] => s = r
      /\ r[1] <= s[1] /\ s[2] <= r[2] => r = s
  BY DEF Screen!runs
<1> HIDE DEF all
<1> QED
  BY <1>1, <1>2

\* An area is drawn place by place.
AreaSteps(h, n, base, area, end, gap, list) ==
  /\ h[0] = base /\ Screen!draw_area(base, area, end, gap) = h[n]
  /\ \A i \in 1 .. n : h[i] =
      Screen!draw_from(h[i - 1], list[i][1], list[i][2], area.cols, end, gap)

\* The fold takes such steps.
LEMMA AreaUnrolled ==
  ASSUME NEW X, NEW area, NEW end, NEW gap, NEW list, list = Screen!places(area),
         NEW n \in Nat, DOMAIN list = 1 .. n, NEW base \in X,
         \A a \in X : \A i \in 1 .. n :
           Screen!draw_from(a, list[i][1], list[i][2], area.cols, end, gap) \in X
  PROVE  \E h \in [0 .. n -> X] : AreaSteps(h, n, base, area, end, gap, list)
<1> DEFINE step(a, i) == Screen!draw_from(a, list[i][1], list[i][2], area.cols, end, gap)
           F == [p \in X \X (1 .. n) |-> step(p[1], p[2])]
           Solves(g) == g = [s \in SUBSET (1 .. n) |->
                               IF s = {} THEN base
                               ELSE step(g[s \ {Largest(s)}], Largest(s))]
           iter == CHOOSE g : Solves(g)
<1>1. Screen!draw_area(base, area, end, gap) = iter[1 .. n]
  BY DEF Screen!draw_area, Screen!FoldLeft, Screen!MapThenFoldSet, Screen!Max, Largest
<1>2. \A a \in X : \A i \in 1 .. n : step(a, i) \in X
  OBVIOUS
<1> HIDE DEF step
<1>3. \A a \in X : \A i \in 1 .. n : F[<<a, i>>] = step(a, i)
  OBVIOUS
<1> HIDE DEF F
<1>4. Closed(F, n, X)
  BY <1>2, <1>3 DEF Closed
<1>5. PICK g \in [SUBSET (1 .. n) -> X] : Folds(g, F, n, base, X)
  BY <1>4, FoldExists
<1>6. ASSUME NEW s \in SUBSET (1 .. n), s # {}
      PROVE  Largest(s) \in 1 .. n /\ s \ {Largest(s)} \in SUBSET (1 .. n)
  BY <1>6, LargestExists
<1>7. Solves(g)
  <2> DEFINE all(s) == IF s = {} THEN base ELSE step(g[s \ {Largest(s)}], Largest(s))
  <2>1. ASSUME NEW s \in SUBSET (1 .. n)
        PROVE  g[s] = all(s)
    <3>1. CASE s = {}
      BY <1>5, <3>1 DEF Folds
    <3>2. CASE s # {}
      <4>1. Largest(s) \in 1 .. n /\ g[s \ {Largest(s)}] \in X
        BY <1>6, <3>2
      <4>2. g[s] = F[<<g[s \ {Largest(s)}], Largest(s)>>]
        BY <1>5, <3>2, <4>1 DEF Folds
      <4> QED
        BY <1>3, <3>2, <4>1, <4>2
    <3> QED
      BY <3>1, <3>2
  <2> HIDE DEF all
  <2>2. g = [s \in SUBSET (1 .. n) |-> all(s)]
    BY <2>1
  <2> QED
    BY <2>2 DEF all
<1>8. Solves(iter)
  BY <1>7
<1> HIDE DEF iter
<1>9. Folds(iter, F, n, base, X)
  <2>1. iter[{}] = base
    BY <1>8
  <2>2. ASSUME NEW s \in SUBSET (1 .. n), s # {}, iter[s \ {Largest(s)}] \in X
        PROVE  iter[s] = F[<<iter[s \ {Largest(s)}], Largest(s)>>]
    <3>1. Largest(s) \in 1 .. n
      BY <1>6, <2>2
    <3>2. iter[s] = step(iter[s \ {Largest(s)}], Largest(s))
      BY <1>8, <2>2
    <3> QED
      BY <1>3, <2>2, <3>1, <3>2
  <2> QED
    BY <2>1, <2>2 DEF Folds
<1>10. PICK h \in [0 .. n -> X] : Unfolds(h, iter, F, n, base)
  <2>1. PICK it : it = iter
    OBVIOUS
  <2>2. Folds(it, F, n, base, X)
    BY <1>9, <2>1
  <2>3. \E h \in [0 .. n -> X] : Unfolds(h, it, F, n, base)
    BY <1>4, <2>2, FoldSteps
  <2> QED
    BY <2>1, <2>3
<1>11. h[0] = base
  BY <1>10 DEF Unfolds
<1>12. \A i \in 1 .. n : h[i] = step(h[i - 1], i)
  <2> TAKE i \in 1 .. n
  <2>1. i - 1 \in 0 .. n
    OBVIOUS
  <2>2. h[i] = F[<<h[i - 1], i>>] /\ h[i - 1] \in X
    BY <1>10, <2>1 DEF Unfolds
  <2> QED
    BY <1>3, <2>2
<1>13. Screen!draw_area(base, area, end, gap) = h[n]
  BY <1>1, <1>10 DEF Unfolds
<1> QED
  BY <1>10, <1>11, <1>12, <1>13 DEF step, AreaSteps

\* Tiles are listed one after the other.
ListSteps(h, n, base, others, list) ==
  /\ h[0] = base /\ Screen!listed(base, list, others) = h[n]
  /\ \A i \in 1 .. n : h[i] = Screen!add_sparse(h[i - 1], list[i], Len(h[i - 1]) + others)

\* The fold takes such steps.
LEMMA ListUnrolled ==
  ASSUME NEW X, NEW others, NEW list,
         NEW n \in Nat, DOMAIN list = 1 .. n, NEW base \in X,
         \A a \in X : \A i \in 1 .. n : Screen!add_sparse(a, list[i], Len(a) + others) \in X
  PROVE  \E h \in [0 .. n -> X] : ListSteps(h, n, base, others, list)
<1> DEFINE step(a, i) == Screen!add_sparse(a, list[i], Len(a) + others)
           F == [p \in X \X (1 .. n) |-> step(p[1], p[2])]
           Solves(g) == g = [s \in SUBSET (1 .. n) |->
                               IF s = {} THEN base
                               ELSE step(g[s \ {Largest(s)}], Largest(s))]
           iter == CHOOSE g : Solves(g)
<1>1. Screen!listed(base, list, others) = iter[1 .. n]
  BY DEF Screen!listed, Screen!FoldLeft, Screen!MapThenFoldSet, Screen!Max, Largest
<1>2. \A a \in X : \A i \in 1 .. n : step(a, i) \in X
  OBVIOUS
<1> HIDE DEF step
<1>3. \A a \in X : \A i \in 1 .. n : F[<<a, i>>] = step(a, i)
  OBVIOUS
<1> HIDE DEF F
<1>4. Closed(F, n, X)
  BY <1>2, <1>3 DEF Closed
<1>5. PICK g \in [SUBSET (1 .. n) -> X] : Folds(g, F, n, base, X)
  BY <1>4, FoldExists
<1>6. ASSUME NEW s \in SUBSET (1 .. n), s # {}
      PROVE  Largest(s) \in 1 .. n /\ s \ {Largest(s)} \in SUBSET (1 .. n)
  BY <1>6, LargestExists
<1>7. Solves(g)
  <2> DEFINE all(s) == IF s = {} THEN base ELSE step(g[s \ {Largest(s)}], Largest(s))
  <2>1. ASSUME NEW s \in SUBSET (1 .. n)
        PROVE  g[s] = all(s)
    <3>1. CASE s = {}
      BY <1>5, <3>1 DEF Folds
    <3>2. CASE s # {}
      <4>1. Largest(s) \in 1 .. n /\ g[s \ {Largest(s)}] \in X
        BY <1>6, <3>2
      <4>2. g[s] = F[<<g[s \ {Largest(s)}], Largest(s)>>]
        BY <1>5, <3>2, <4>1 DEF Folds
      <4> QED
        BY <1>3, <3>2, <4>1, <4>2
    <3> QED
      BY <3>1, <3>2
  <2> HIDE DEF all
  <2>2. g = [s \in SUBSET (1 .. n) |-> all(s)]
    BY <2>1
  <2> QED
    BY <2>2 DEF all
<1>8. Solves(iter)
  BY <1>7
<1> HIDE DEF iter
<1>9. Folds(iter, F, n, base, X)
  <2>1. iter[{}] = base
    BY <1>8
  <2>2. ASSUME NEW s \in SUBSET (1 .. n), s # {}, iter[s \ {Largest(s)}] \in X
        PROVE  iter[s] = F[<<iter[s \ {Largest(s)}], Largest(s)>>]
    <3>1. Largest(s) \in 1 .. n
      BY <1>6, <2>2
    <3>2. iter[s] = step(iter[s \ {Largest(s)}], Largest(s))
      BY <1>8, <2>2
    <3> QED
      BY <1>3, <2>2, <3>1, <3>2
  <2> QED
    BY <2>1, <2>2 DEF Folds
<1>10. PICK h \in [0 .. n -> X] : Unfolds(h, iter, F, n, base)
  <2>1. PICK it : it = iter
    OBVIOUS
  <2>2. Folds(it, F, n, base, X)
    BY <1>9, <2>1
  <2>3. \E h \in [0 .. n -> X] : Unfolds(h, it, F, n, base)
    BY <1>4, <2>2, FoldSteps
  <2> QED
    BY <2>1, <2>3
<1>11. h[0] = base
  BY <1>10 DEF Unfolds
<1>12. \A i \in 1 .. n : h[i] = step(h[i - 1], i)
  <2> TAKE i \in 1 .. n
  <2>1. i - 1 \in 0 .. n
    OBVIOUS
  <2>2. h[i] = F[<<h[i - 1], i>>] /\ h[i - 1] \in X
    BY <1>10, <2>1 DEF Unfolds
  <2> QED
    BY <1>3, <2>2
<1>13. Screen!listed(base, list, others) = h[n]
  BY <1>1, <1>10 DEF Unfolds
<1> QED
  BY <1>10, <1>11, <1>12, <1>13 DEF step, ListSteps

\* The wanted tiles are scanned in the order of the list.
TileSteps(h, n, base, wanted, box, list) ==
  /\ h[0] = base /\ Screen!scan_tiles(base, wanted, box) = h[n]
  /\ \A i \in 1 .. n : h[i] = IF list[i] \in wanted
                         THEN Screen!scan_l1_tile(h[i - 1], list[i], box)
                         ELSE h[i - 1]

\* The fold takes such steps.
LEMMA TilesUnrolled ==
  ASSUME NEW X, NEW wanted, NEW box, NEW list, list = tiles.l1,
         NEW n \in Nat, DOMAIN list = 1 .. n, NEW base \in X,
         \A a \in X : \A i \in 1 .. n :
           (IF list[i] \in wanted THEN Screen!scan_l1_tile(a, list[i], box) ELSE a) \in X
  PROVE  \E h \in [0 .. n -> X] : TileSteps(h, n, base, wanted, box, list)
<1> DEFINE step(a, i) == IF list[i] \in wanted THEN Screen!scan_l1_tile(a, list[i], box) ELSE a
           F == [p \in X \X (1 .. n) |-> step(p[1], p[2])]
           Solves(g) == g = [s \in SUBSET (1 .. n) |->
                               IF s = {} THEN base
                               ELSE step(g[s \ {Largest(s)}], Largest(s))]
           iter == CHOOSE g : Solves(g)
<1>1. Screen!scan_tiles(base, wanted, box) = iter[1 .. n]
  BY DEF Screen!scan_tiles, Screen!FoldLeft, Screen!MapThenFoldSet, Screen!Max, Largest
<1>2. \A a \in X : \A i \in 1 .. n : step(a, i) \in X
  OBVIOUS
<1> HIDE DEF step
<1>3. \A a \in X : \A i \in 1 .. n : F[<<a, i>>] = step(a, i)
  OBVIOUS
<1> HIDE DEF F
<1>4. Closed(F, n, X)
  BY <1>2, <1>3 DEF Closed
<1>5. PICK g \in [SUBSET (1 .. n) -> X] : Folds(g, F, n, base, X)
  BY <1>4, FoldExists
<1>6. ASSUME NEW s \in SUBSET (1 .. n), s # {}
      PROVE  Largest(s) \in 1 .. n /\ s \ {Largest(s)} \in SUBSET (1 .. n)
  BY <1>6, LargestExists
<1>7. Solves(g)
  <2> DEFINE all(s) == IF s = {} THEN base ELSE step(g[s \ {Largest(s)}], Largest(s))
  <2>1. ASSUME NEW s \in SUBSET (1 .. n)
        PROVE  g[s] = all(s)
    <3>1. CASE s = {}
      BY <1>5, <3>1 DEF Folds
    <3>2. CASE s # {}
      <4>1. Largest(s) \in 1 .. n /\ g[s \ {Largest(s)}] \in X
        BY <1>6, <3>2
      <4>2. g[s] = F[<<g[s \ {Largest(s)}], Largest(s)>>]
        BY <1>5, <3>2, <4>1 DEF Folds
      <4> QED
        BY <1>3, <3>2, <4>1, <4>2
    <3> QED
      BY <3>1, <3>2
  <2> HIDE DEF all
  <2>2. g = [s \in SUBSET (1 .. n) |-> all(s)]
    BY <2>1
  <2> QED
    BY <2>2 DEF all
<1>8. Solves(iter)
  BY <1>7
<1> HIDE DEF iter
<1>9. Folds(iter, F, n, base, X)
  <2>1. iter[{}] = base
    BY <1>8
  <2>2. ASSUME NEW s \in SUBSET (1 .. n), s # {}, iter[s \ {Largest(s)}] \in X
        PROVE  iter[s] = F[<<iter[s \ {Largest(s)}], Largest(s)>>]
    <3>1. Largest(s) \in 1 .. n
      BY <1>6, <2>2
    <3>2. iter[s] = step(iter[s \ {Largest(s)}], Largest(s))
      BY <1>8, <2>2
    <3> QED
      BY <1>3, <2>2, <3>1, <3>2
  <2> QED
    BY <2>1, <2>2 DEF Folds
<1>10. PICK h \in [0 .. n -> X] : Unfolds(h, iter, F, n, base)
  <2>1. PICK it : it = iter
    OBVIOUS
  <2>2. Folds(it, F, n, base, X)
    BY <1>9, <2>1
  <2>3. \E h \in [0 .. n -> X] : Unfolds(h, it, F, n, base)
    BY <1>4, <2>2, FoldSteps
  <2> QED
    BY <2>1, <2>3
<1>11. h[0] = base
  BY <1>10 DEF Unfolds
<1>12. \A i \in 1 .. n : h[i] = step(h[i - 1], i)
  <2> TAKE i \in 1 .. n
  <2>1. i - 1 \in 0 .. n
    OBVIOUS
  <2>2. h[i] = F[<<h[i - 1], i>>] /\ h[i - 1] \in X
    BY <1>10, <2>1 DEF Unfolds
  <2> QED
    BY <1>3, <2>2
<1>13. Screen!scan_tiles(base, wanted, box) = h[n]
  BY <1>1, <1>10 DEF Unfolds
<1> QED
  BY <1>10, <1>11, <1>12, <1>13 DEF step, TileSteps

\* The blocks are scanned in the order of the list.
BlockSteps(h, n, base, box, list) ==
  /\ h[0] = base /\ Screen!scan_blocks(base, box) = h[n]
  /\ \A i \in 1 .. n : h[i] = Screen!scan_tiles(h[i - 1], Screen!in_block(list[i]), box)

\* The fold takes such steps.
LEMMA BlocksUnrolled ==
  ASSUME NEW X, NEW box, NEW list, list = tiles.l2,
         NEW n \in Nat, DOMAIN list = 1 .. n, NEW base \in X,
         \A a \in X : \A i \in 1 .. n : Screen!scan_tiles(a, Screen!in_block(list[i]), box) \in X
  PROVE  \E h \in [0 .. n -> X] : BlockSteps(h, n, base, box, list)
<1> DEFINE step(a, i) == Screen!scan_tiles(a, Screen!in_block(list[i]), box)
           F == [p \in X \X (1 .. n) |-> step(p[1], p[2])]
           Solves(g) == g = [s \in SUBSET (1 .. n) |->
                               IF s = {} THEN base
                               ELSE step(g[s \ {Largest(s)}], Largest(s))]
           iter == CHOOSE g : Solves(g)
<1>1. Screen!scan_blocks(base, box) = iter[1 .. n]
  BY DEF Screen!scan_blocks, Screen!FoldLeft, Screen!MapThenFoldSet, Screen!Max, Largest
<1>2. \A a \in X : \A i \in 1 .. n : step(a, i) \in X
  OBVIOUS
<1> HIDE DEF step
<1>3. \A a \in X : \A i \in 1 .. n : F[<<a, i>>] = step(a, i)
  OBVIOUS
<1> HIDE DEF F
<1>4. Closed(F, n, X)
  BY <1>2, <1>3 DEF Closed
<1>5. PICK g \in [SUBSET (1 .. n) -> X] : Folds(g, F, n, base, X)
  BY <1>4, FoldExists
<1>6. ASSUME NEW s \in SUBSET (1 .. n), s # {}
      PROVE  Largest(s) \in 1 .. n /\ s \ {Largest(s)} \in SUBSET (1 .. n)
  BY <1>6, LargestExists
<1>7. Solves(g)
  <2> DEFINE all(s) == IF s = {} THEN base ELSE step(g[s \ {Largest(s)}], Largest(s))
  <2>1. ASSUME NEW s \in SUBSET (1 .. n)
        PROVE  g[s] = all(s)
    <3>1. CASE s = {}
      BY <1>5, <3>1 DEF Folds
    <3>2. CASE s # {}
      <4>1. Largest(s) \in 1 .. n /\ g[s \ {Largest(s)}] \in X
        BY <1>6, <3>2
      <4>2. g[s] = F[<<g[s \ {Largest(s)}], Largest(s)>>]
        BY <1>5, <3>2, <4>1 DEF Folds
      <4> QED
        BY <1>3, <3>2, <4>1, <4>2
    <3> QED
      BY <3>1, <3>2
  <2> HIDE DEF all
  <2>2. g = [s \in SUBSET (1 .. n) |-> all(s)]
    BY <2>1
  <2> QED
    BY <2>2 DEF all
<1>8. Solves(iter)
  BY <1>7
<1> HIDE DEF iter
<1>9. Folds(iter, F, n, base, X)
  <2>1. iter[{}] = base
    BY <1>8
  <2>2. ASSUME NEW s \in SUBSET (1 .. n), s # {}, iter[s \ {Largest(s)}] \in X
        PROVE  iter[s] = F[<<iter[s \ {Largest(s)}], Largest(s)>>]
    <3>1. Largest(s) \in 1 .. n
      BY <1>6, <2>2
    <3>2. iter[s] = step(iter[s \ {Largest(s)}], Largest(s))
      BY <1>8, <2>2
    <3> QED
      BY <1>3, <2>2, <3>1, <3>2
  <2> QED
    BY <2>1, <2>2 DEF Folds
<1>10. PICK h \in [0 .. n -> X] : Unfolds(h, iter, F, n, base)
  <2>1. PICK it : it = iter
    OBVIOUS
  <2>2. Folds(it, F, n, base, X)
    BY <1>9, <2>1
  <2>3. \E h \in [0 .. n -> X] : Unfolds(h, it, F, n, base)
    BY <1>4, <2>2, FoldSteps
  <2> QED
    BY <2>1, <2>3
<1>11. h[0] = base
  BY <1>10 DEF Unfolds
<1>12. \A i \in 1 .. n : h[i] = step(h[i - 1], i)
  <2> TAKE i \in 1 .. n
  <2>1. i - 1 \in 0 .. n
    OBVIOUS
  <2>2. h[i] = F[<<h[i - 1], i>>] /\ h[i - 1] \in X
    BY <1>10, <2>1 DEF Unfolds
  <2> QED
    BY <1>3, <2>2
<1>13. Screen!scan_blocks(base, box) = h[n]
  BY <1>1, <1>10 DEF Unfolds
<1> QED
  BY <1>10, <1>11, <1>12, <1>13 DEF step, BlockSteps

\* A drawing that shows more of the screen, or has strayed.
Improves(d, e) ==
  /\ Drawing(e)
  /\ d.strayed => e.strayed
  /\ ~e.strayed => \A c \in Screen!Cells :
       e.terminal.cells[c] = d.terminal.cells[c] \/ e.terminal.cells[c] = screen[c]

\* A cell that shows the screen.
Done(d, c) == ~d.strayed => d.terminal.cells[c] = screen[c]

\* What is done stays done.
LEMMA StaysDone ==
  ASSUME NEW d, NEW e, Improves(d, e), NEW c \in Screen!Cells, Done(d, c)
  PROVE  Done(e, c)
BY DEF Improves, Done

\* Improvements add up.
LEMMA ImprovesOn ==
  ASSUME NEW d, NEW e, NEW f, Improves(d, e), Improves(e, f)
  PROVE  Improves(d, f)
<1>1. Drawing(f) /\ (d.strayed => f.strayed)
  BY DEF Improves
<1>2. ASSUME ~f.strayed, NEW c \in Screen!Cells
      PROVE  f.terminal.cells[c] = d.terminal.cells[c] \/ f.terminal.cells[c] = screen[c]
  <2>1. ~e.strayed
    BY <1>2 DEF Improves
  <2>2. f.terminal.cells[c] = e.terminal.cells[c] \/ f.terminal.cells[c] = screen[c]
    BY <1>2 DEF Improves
  <2>3. e.terminal.cells[c] = d.terminal.cells[c] \/ e.terminal.cells[c] = screen[c]
    BY <2>1 DEF Improves
  <2> QED
    BY <2>2, <2>3
<1> QED
  BY <1>1, <1>2 DEF Improves

\* A chain of improvements.
LEMMA ChainImproves ==
  ASSUME NEW n \in Nat, NEW h, \A k \in 0 .. n : Drawing(h[k]),
         \A k \in 1 .. n : Improves(h[k - 1], h[k]),
         NEW i \in 0 .. n
  PROVE  Improves(h[i], h[n])
<1> DEFINE S == {m \in Nat : i + m \in 0 .. n => Improves(h[i], h[i + m])}
<1>1. 0 \in S
  <2>1. Drawing(h[i]) /\ i + 0 = i
    OBVIOUS
  <2>2. Improves(h[i], h[i])
    BY <2>1 DEF Improves
  <2> QED
    BY <2>1, <2>2
<1>2. ASSUME NEW m \in Nat, m \in S
      PROVE  m + 1 \in S
  <2> SUFFICES ASSUME i + (m + 1) \in 0 .. n PROVE Improves(h[i], h[i + (m + 1)])
    OBVIOUS
  <2>1. PICK k \in 1 .. n : k = i + (m + 1) /\ k - 1 = i + m
    OBVIOUS
  <2>2. i + m \in 0 .. n
    OBVIOUS
  <2>3. Improves(h[i], h[i + m])
    BY <1>2, <2>2
  <2>4. Improves(h[k - 1], h[k])
    OBVIOUS
  <2> QED
    BY <2>1, <2>3, <2>4, ImprovesOn
<1> HIDE DEF S
<1>3. Nat \subseteq S
  BY <1>1, <1>2, Induction
<1>4. n - i \in Nat /\ i + (n - i) = n
  OBVIOUS
<1>5. n - i \in S
  BY <1>3, <1>4
<1> QED
  BY <1>4, <1>5 DEF S

\* What a run is.
LEMMA RunIs ==
  ASSUME NEW y, NEW cols, NEW end, NEW gap, NEW r \in Screen!runs(y, cols, end, gap)
  PROVE  /\ r = <<r[1], r[2]>>
         /\ r[1] \in cols.first .. cols.last /\ r[2] \in cols.first .. end - 1 /\ r[1] <= r[2]
         /\ Screen!changed(y, r[1])
         /\ \A x \in r[1] .. r[2] : screen[<<y, x>>].attr = screen[<<y, r[1]>>].attr
BY DEF Screen!runs, Screen!stretches, Screen!joined

\* At a place the run that begins there is drawn.
LEMMA PlaceDrawn ==
  ASSUME ScreenFits, screen \in [Screen!Cells -> Drawn], NEW d, Drawing(d),
         NEW y \in 0 .. Rows - 1, NEW cols, cols.first \in Nat, cols.last \in Int,
         cols.last <= Cols - 1, NEW end \in Int, end <= Cols, NEW gap, NEW x,
         NEW e, e = Screen!draw_from(d, y, x, cols, end, gap)
  PROVE  /\ Improves(d, e)
         /\ \A r \in Screen!runs(y, cols, end, gap) :
              r[1] = x => \A z \in r[1] .. r[2] : Done(e, <<y, z>>)
<1> DEFINE all == Screen!runs(y, cols, end, gap)
           starting == {r \in all : r[1] = x}
<1>1. e = IF ~Screen!changed(y, x) THEN d
          ELSE IF starting = {} THEN d ELSE Screen!draw_run(d, y, CHOOSE r \in starting : TRUE)
  BY DEF Screen!draw_from
<1>2. CASE starting = {} \/ ~Screen!changed(y, x)
  <2>1. e = d
    BY <1>1, <1>2
  <2>2. \A r \in all : r[1] # x
    <3>1. ASSUME NEW r \in all, r[1] = x
          PROVE  FALSE
      <4>1. Screen!changed(y, r[1])
        BY RunIs
      <4>2. r \in starting
        BY <3>1
      <4> QED
        BY <1>2, <3>1, <4>1, <4>2
    <3> QED
      BY <3>1
  <2>3. Improves(d, d)
    BY DEF Improves
  <2> QED
    BY <2>1, <2>2, <2>3
<1>3. CASE starting # {} /\ Screen!changed(y, x)
  <2>1. PICK r \in starting : e = Screen!draw_run(d, y, r)
    BY <1>1, <1>3
  <2>2. r \in all /\ r[1] = x
    OBVIOUS
  <2> DEFINE a == r[1]
             b == r[2]
  <2>3. /\ r = <<a, b>> /\ a \in cols.first .. cols.last /\ b \in cols.first .. end - 1 /\ a <= b
        /\ \A z \in a .. b : screen[<<y, z>>].attr = screen[<<y, a>>].attr
    BY <2>2, RunIs
  <2> HIDE DEF a, b
  <2>4. Cols \in Nat
    BY DEF ScreenFits
  <2>5. a \in 0 .. Cols - 1 /\ b \in a .. Cols - 1
    BY <2>3, <2>4
  <2>6. e = Screen!draw_run(d, y, <<a, b>>)
    BY <2>1, <2>3
  <2>11. \A z \in a .. b : screen[<<y, z>>].attr = screen[<<y, a>>].attr
    BY <2>3
  <2>12. a \in 0 .. Cols - 1 /\ b \in a .. Cols - 1
    BY <2>5
  <2>13. RunShown(d, e, y, a, b)
    BY <2>6, <2>11, <2>12, RunDrawn
  <2>7. /\ Drawing(e)
        /\ d.strayed => e.strayed
        /\ ~e.strayed => \A c \in Screen!Cells : e.terminal.cells[c] =
             IF c[1] = y /\ c[2] \in a .. b THEN screen[c] ELSE d.terminal.cells[c]
    BY <2>13 DEF RunShown
  <2>8. Improves(d, e)
    BY <2>7 DEF Improves
  <2>9. ASSUME NEW z \in a .. b
        PROVE  Done(e, <<y, z>>)
    <3>1. z \in 0 .. Cols - 1
      BY <2>4, <2>5
    <3>2. <<y, z>> \in Screen!Cells
      BY <3>1 DEF Screen!Cells
    <3> QED
      BY <2>7, <3>2 DEF Done
  <2>10. ASSUME NEW s \in all, s[1] = x
         PROVE  s = r
    <3>1. cols.first \in Int
      OBVIOUS
    <3> HIDE DEF all
    <3> QED
      BY <2>2, <2>10, <3>1, RunsDiffer DEF all
  <2> QED
    BY <2>8, <2>9, <2>10 DEF a, b
<1> QED
  BY <1>2, <1>3

\* From d to e the changed cells of a rectangle are drawn.
AreaShown(d, e, r1, c1, r2, c2) ==
  /\ Improves(d, e)
  /\ \A y \in r1 .. r2 : \A x \in c1 .. c2 : Screen!changed(y, x) => Done(e, <<y, x>>)

\* An area is drawn: each changed cell in it is done.
LEMMA AreaDrawn ==
  ASSUME ScreenFits, screen \in [Screen!Cells -> Drawn], NEW d, Drawing(d),
         NEW r1 \in Nat, NEW c1 \in Nat, NEW r2 \in Int, NEW c2 \in Int,
         r2 <= Rows - 1, c2 <= Cols - 1,
         NEW end \in Int, c2 < end, end <= Cols, NEW gap \in Nat,
         NEW e, e = Screen!draw_area(d, Screen!Area(r1, c1, r2, c2), end, gap)
  PROVE  AreaShown(d, e, r1, c1, r2, c2)
<1> DEFINE X == {f \in Drawings : Drawing(f)}
           area == Screen!Area(r1, c1, r2, c2)
           cols == area.cols
           list == Screen!places(area)
<1>15. PICK n \in Nat : Names(list, n, r1, c1, r2, c2)
  <2>1. PICK it : it = list
    OBVIOUS
  <2>2. r1 \in Int /\ c1 \in Int /\ it = Screen!places(Screen!Area(r1, c1, r2, c2))
    BY <2>1
  <2>3. \E n \in Nat : Names(it, n, r1, c1, r2, c2)
    BY <2>2, PlacesListed
  <2> QED
    BY <2>1, <2>3
<1>1. /\ DOMAIN list = 1 .. n
      /\ \A k \in 1 .. n : list[k] \in (r1 .. r2) \X (c1 .. c2)
      /\ \A y \in r1 .. r2 : \A x \in c1 .. c2 : \E k \in 1 .. n : list[k] = <<y, x>>
  BY <1>15 DEF Names
<1>2. cols.first = c1 /\ cols.last = c2
  BY DEF Screen!Area
<1>3. Rows \in Nat /\ Cols \in Nat
  BY DEF ScreenFits
<1> HIDE DEF area, list, cols
<1>4. \A f : f \in X <=> Drawing(f)
  BY DEF Drawing
<1> HIDE DEF X
<1>5. ASSUME NEW f, Drawing(f), NEW k \in 1 .. n, NEW g,
             g = Screen!draw_from(f, list[k][1], list[k][2], cols, end, gap)
      PROVE  /\ Improves(f, g)
             /\ \A r \in Screen!runs(list[k][1], cols, end, gap) :
                  r[1] = list[k][2] => \A z \in r[1] .. r[2] : Done(g, <<list[k][1], z>>)
  <2>2. list[k] \in (r1 .. r2) \X (c1 .. c2)
    BY <1>1
  <2>1. list[k][1] \in 0 .. Rows - 1
    BY <1>3, <2>2
  <2> QED
    BY <1>2, <1>5, <2>1, PlaceDrawn
<1>6. \A f \in X : \A k \in 1 .. n :
        Screen!draw_from(f, list[k][1], list[k][2], cols, end, gap) \in X
  BY <1>4, <1>5 DEF Improves
<1>7. d \in X
  BY <1>4
<1>16. PICK h \in [0 .. n -> X] : AreaSteps(h, n, d, area, end, gap, list)
  BY <1>1, <1>6, <1>7, AreaUnrolled DEF list, cols
<1>8. /\ h[0] = d
      /\ \A i \in 1 .. n : h[i] =
           Screen!draw_from(h[i - 1], list[i][1], list[i][2], cols, end, gap)
      /\ Screen!draw_area(d, area, end, gap) = h[n]
  BY <1>16 DEF AreaSteps, cols
<1>9. h[n] = e
  BY <1>8 DEF area
<1>10. \A k \in 0 .. n : Drawing(h[k])
  BY <1>4
<1>11. ASSUME NEW k \in 1 .. n
       PROVE  /\ Improves(h[k - 1], h[k])
              /\ \A r \in Screen!runs(list[k][1], cols, end, gap) :
                   r[1] = list[k][2] => \A z \in r[1] .. r[2] : Done(h[k], <<list[k][1], z>>)
  <2>1. k - 1 \in 0 .. n
    OBVIOUS
  <2>2. Drawing(h[k - 1])
    BY <1>10, <2>1
  <2> QED
    BY <1>5, <1>8, <2>2
<1>12. \A k \in 0 .. n : Improves(h[k], e)
  BY <1>9, <1>10, <1>11, ChainImproves
<1>13. ASSUME NEW y \in r1 .. r2, NEW x \in c1 .. c2, Screen!changed(y, x)
       PROVE  Done(e, <<y, x>>)
  <2>1. PICK r \in Screen!runs(y, cols, end, gap) : r[1] <= x /\ x <= r[2]
    <3>1. x < end /\ x \in cols.first .. cols.last /\ cols.first \in Int /\ cols.last \in Int
      BY <1>2
    <3> QED
      BY <1>13, <3>1, RunsCover
  <2>2. r[1] \in c1 .. c2 /\ r[2] \in Int
    <3>1. r[1] \in cols.first .. cols.last /\ r[2] \in cols.first .. end - 1
      BY RunIs
    <3> QED
      BY <1>2, <3>1
  <2>3. PICK k \in 1 .. n : list[k] = <<y, r[1]>>
    BY <1>1, <2>2
  <2>4. x \in r[1] .. r[2]
    BY <2>1, <2>2
  <2>5. list[k][1] = y /\ list[k][2] = r[1]
    BY <2>3
  <2>6. Done(h[k], <<y, x>>)
    BY <1>11, <2>4, <2>5
  <2>7. <<y, x>> \in Screen!Cells
    BY <1>3 DEF Screen!Cells
  <2>8. Improves(h[k], e)
    BY <1>12
  <2> QED
    BY <2>6, <2>7, <2>8, StaysDone
<1>14. Improves(d, e)
  BY <1>8, <1>12
<1> QED
  BY <1>13, <1>14 DEF AreaShown

\* The cells of a box, and those of some tiles.
TileOf(c, side) == <<c[1] \div side, c[2] \div side>>
Within(box) == {c \in Screen!Cells : /\ c[1] \in box.rows.first .. box.rows.last
                                     /\ c[2] \in box.cols.first .. box.cols.last}
OfTiles(S, side) == {c \in Screen!Cells : TileOf(c, side) \in S}

\* A box on the screen.
OnScreen(box) ==
  /\ box = Screen!Area(box.rows.first, box.cols.first, box.rows.last, box.cols.last)
  /\ box.rows.first \in 0 .. Rows - 1 /\ box.rows.last \in 0 .. Rows - 1
  /\ box.cols.first \in 0 .. Cols - 1 /\ box.cols.last \in 0 .. Cols - 1

\* From d to e the changed ones of some cells are drawn.
Scanned(d, e, C) ==
  Improves(d, e) /\ \A c \in C : screen[c] # prev[c] => Done(e, c)

\* A chain of scans.
LEMMA ChainScans ==
  ASSUME NEW n \in Nat, NEW h, \A k \in 0 .. n : Drawing(h[k]),
         NEW C, \A k \in 1 .. n : C[k] \subseteq Screen!Cells,
         \A k \in 1 .. n : Scanned(h[k - 1], h[k], C[k]),
         NEW D, \A c \in D : \E k \in 1 .. n : c \in C[k]
  PROVE  Scanned(h[0], h[n], D)
<1>1. \A k \in 1 .. n : Improves(h[k - 1], h[k])
  BY DEF Scanned
<1>2. \A k \in 0 .. n : Improves(h[k], h[n])
  BY <1>1, ChainImproves
<1>3. ASSUME NEW k \in 1 .. n, NEW c \in C[k], screen[c] # prev[c]
      PROVE  Done(h[n], c)
  <2>1. c \in Screen!Cells
    OBVIOUS
  <2>2. Done(h[k], c)
    BY <1>3 DEF Scanned
  <2>3. Improves(h[k], h[n])
    BY <1>2
  <2> QED
    BY <2>1, <2>2, <2>3, StaysDone
<1>4. Improves(h[0], h[n])
  BY <1>2
<1> QED
  BY <1>3, <1>4 DEF Scanned

\* The rows of a box are scanned.
LEMMA RowsScanned ==
  ASSUME ScreenFits, screen \in [Screen!Cells -> Drawn], NEW d, Drawing(d),
         NEW box, OnScreen(box), NEW e, e = Screen!scan_rows(d, box)
  PROVE  Scanned(d, e, Within(box))
<1> DEFINE r1 == box.rows.first
           c1 == box.cols.first
           r2 == box.rows.last
           c2 == box.cols.last
<1>1. /\ r1 \in 0 .. Rows - 1 /\ r2 \in 0 .. Rows - 1
      /\ c1 \in 0 .. Cols - 1 /\ c2 \in 0 .. Cols - 1
      /\ Rows \in Nat /\ Cols \in Nat /\ MAX_GAP \in Nat
  BY DEF OnScreen, ScreenFits
<1>2. e = Screen!draw_area(d, Screen!Area(r1, c1, r2, c2), Cols, MAX_GAP)
  BY DEF OnScreen, Screen!scan_rows
<1> HIDE DEF r1, c1, r2, c2
<1>3. r1 \in Nat /\ c1 \in Nat /\ r2 \in Int /\ c2 \in Int /\ r2 <= Rows - 1 /\ c2 <= Cols - 1
      /\ c2 < Cols /\ Cols <= Cols /\ Cols \in Int
  BY <1>1
<1>4. AreaShown(d, e, r1, c1, r2, c2)
  BY <1>1, <1>2, <1>3, AreaDrawn
<1>5. ASSUME NEW c \in Within(box), screen[c] # prev[c]
      PROVE  Done(e, c)
  <2>1. c = <<c[1], c[2]>> /\ c[1] \in r1 .. r2 /\ c[2] \in c1 .. c2
    BY DEF Within, Screen!Cells, r1, r2, c1, c2
  <2>2. Screen!changed(c[1], c[2])
    BY <1>5, <2>1 DEF Screen!changed
  <2> QED
    BY <1>4, <2>1, <2>2 DEF AreaShown
<1> QED
  BY <1>4, <1>5 DEF Scanned, AreaShown

\* A tile is scanned.
LEMMA TileScanned ==
  ASSUME ScreenFits, screen \in [Screen!Cells -> Drawn], NEW d, Drawing(d),
         NEW box, OnScreen(box), NEW tile \in L1Tiles,
         NEW e, e = Screen!scan_l1_tile(d, tile, box)
  PROVE  Scanned(d, e, Within(box) \cap OfTiles({tile}, TILE_L1_SIZE))
<1> DEFINE s == TILE_L1_SIZE
           r1 == Screen!Greatest(tile[1] * s, box.rows.first)
           c1 == Screen!Greatest(tile[2] * s, box.cols.first)
           r2 == Screen!Least((tile[1] + 1) * s - 1, box.rows.last)
           c2 == Screen!Least((tile[2] + 1) * s - 1, box.cols.last)
<1>1. /\ box.rows.first \in 0 .. Rows - 1 /\ box.rows.last \in 0 .. Rows - 1
      /\ box.cols.first \in 0 .. Cols - 1 /\ box.cols.last \in 0 .. Cols - 1
      /\ Rows \in Nat /\ Cols \in Nat /\ s \in Nat \ {0}
  BY DEF OnScreen, ScreenFits
<1>2. tile[1] \in Nat /\ tile[2] \in Nat
  <2>1. tile[1] \in 0 .. (Rows - 1) \div s /\ tile[2] \in 0 .. (Cols - 1) \div s
    BY DEF L1Tiles
  <2>2. (Rows - 1) \div s \in Int /\ (Cols - 1) \div s \in Int
    BY <1>1
  <2> QED
    BY <2>1, <2>2
<1>3. /\ tile[1] * s \in Nat /\ tile[2] * s \in Nat
      /\ (tile[1] + 1) * s - 1 \in Int /\ (tile[2] + 1) * s - 1 \in Int
  BY <1>1, <1>2
<1>4. e = Screen!draw_area(d, Screen!Area(r1, c1, r2, c2), c2 + 1, 0)
  BY DEF Screen!scan_l1_tile, Screen!part_of, Screen!Area
<1>5. r1 \in Nat /\ c1 \in Nat /\ r2 \in Int /\ c2 \in Int /\ r2 <= Rows - 1 /\ c2 <= Cols - 1
  BY <1>1, <1>3 DEF Screen!Greatest, Screen!Least
<1>6. ASSUME NEW c \in Within(box) \cap OfTiles({tile}, s)
      PROVE  c = <<c[1], c[2]>> /\ c[1] \in r1 .. r2 /\ c[2] \in c1 .. c2
  <2>1. /\ c = <<c[1], c[2]>> /\ c[1] \in Nat /\ c[2] \in Nat
        /\ c[1] \in box.rows.first .. box.rows.last /\ c[2] \in box.cols.first .. box.cols.last
        /\ c[1] \div s = tile[1] /\ c[2] \div s = tile[2]
    BY <1>1 DEF Within, OfTiles, TileOf, Screen!Cells
  <2>2. \A x \in Nat : (x \div s) * s <= x /\ x <= ((x \div s) + 1) * s - 1
    BY <1>1
  <2>3. /\ tile[1] * s <= c[1] /\ c[1] <= (tile[1] + 1) * s - 1
        /\ tile[2] * s <= c[2] /\ c[2] <= (tile[2] + 1) * s - 1
    BY <2>1, <2>2
  <2> QED
    BY <1>1, <1>3, <2>1, <2>3 DEF Screen!Greatest, Screen!Least
<1> HIDE DEF r1, c1, r2, c2, s
<1>7. c2 < c2 + 1 /\ c2 + 1 <= Cols /\ c2 + 1 \in Int /\ 0 \in Nat
  BY <1>1, <1>5
<1>8. AreaShown(d, e, r1, c1, r2, c2)
  BY <1>4, <1>5, <1>7, AreaDrawn
<1>9. ASSUME NEW c \in Within(box) \cap OfTiles({tile}, s), screen[c] # prev[c]
      PROVE  Done(e, c)
  <2>1. c = <<c[1], c[2]>> /\ c[1] \in r1 .. r2 /\ c[2] \in c1 .. c2
    BY <1>6
  <2>2. Screen!changed(c[1], c[2])
    BY <1>9, <2>1 DEF Screen!changed
  <2> QED
    BY <1>8, <2>1, <2>2 DEF AreaShown
<1> QED
  BY <1>8, <1>9 DEF Scanned, AreaShown, s

\* A place in a block is in a tile of the block.
LEMMA RatioDivides ==
  ASSUME ScreenFits, NEW x \in Nat
  PROVE  (x \div TILE_L1_SIZE) \div (TILE_L2_SIZE \div TILE_L1_SIZE) = x \div TILE_L2_SIZE
<1> DEFINE s == TILE_L1_SIZE
<1>1. PICK k \in Nat \ {0} : TILE_L2_SIZE = k * s
  BY TileRatio
<1>2. s \in Nat \ {0}
  BY DEF ScreenFits
<1> HIDE DEF s
<1>3. (k * s) \div s = k
  BY <1>2
<1> DEFINE q == x \div s
           r == x % s
           u == q \div k
           v == q % k
<1>4. q \in Nat /\ r \in 0 .. s - 1 /\ x = q * s + r
  BY <1>2
<1> HIDE DEF q, r
<1>5. u \in Nat /\ v \in 0 .. k - 1 /\ q = u * k + v
  BY <1>4
<1> HIDE DEF u, v
<1> DEFINE b == k * s
           w == v * s + r
<1>6. b \in Nat \ {0} /\ w \in Nat
  BY <1>2, <1>4, <1>5
<1>7. w < b
  <2>1. v * s <= (k - 1) * s /\ (k - 1) * s = k * s - s
    BY <1>2, <1>5
  <2>2. v * s \in Int /\ k * s \in Int
    BY <1>2, <1>5
  <2> QED
    BY <1>2, <1>4, <2>1, <2>2
<1>8. x = u * b + w
  <2>1. (u * k + v) * s = u * (k * s) + v * s
    BY <1>2, <1>5
  <2>2. u * (k * s) \in Int /\ v * s \in Int
    BY <1>2, <1>5
  <2> QED
    BY <1>4, <1>5, <2>1, <2>2
<1>9. x \div b = u
  <2> HIDE DEF b, w
  <2> QED
    BY <1>5, <1>6, <1>7, <1>8
<1>10. x \div TILE_L2_SIZE = u
  BY <1>1, <1>9
<1> QED
  BY <1>1, <1>3, <1>10 DEF s, q, u

\* The wanted ones of the listed tiles are scanned.
LEMMA TilesScanned ==
  ASSUME ScreenFits, screen \in [Screen!Cells -> Drawn], tiles.l1 \in Seq(L1Tiles),
         NEW d, Drawing(d), NEW box, OnScreen(box), NEW wanted,
         NEW e, e = Screen!scan_tiles(d, wanted, box)
  PROVE  Scanned(d, e, Within(box) \cap OfTiles(wanted \cap Screen!Range(tiles.l1), TILE_L1_SIZE))
<1> DEFINE X == {f \in Drawings : Drawing(f)}
           step(f, t) == IF t \in wanted THEN Screen!scan_l1_tile(f, t, box) ELSE f
           part(t) == IF t \in wanted THEN Within(box) \cap OfTiles({t}, TILE_L1_SIZE) ELSE {}
<1>1. PICK list : list = tiles.l1
  OBVIOUS
<1>2. PICK n \in Nat : n = Len(list) /\ DOMAIN list = 1 .. n
                      /\ \A i \in 1 .. n : list[i] \in L1Tiles
  BY <1>1, LenProperties, ElementOfSeq
<1>3. \A f : f \in X <=> Drawing(f)
  BY DEF Drawing
<1> HIDE DEF X
<1>4. ASSUME NEW f, Drawing(f), NEW t \in L1Tiles
      PROVE  Scanned(f, step(f, t), part(t))
  <2>1. CASE t \in wanted
    <3>1. PICK g : g = Screen!scan_l1_tile(f, t, box)
      OBVIOUS
    <3>2. Scanned(f, g, Within(box) \cap OfTiles({t}, TILE_L1_SIZE))
      BY <1>4, <3>1, TileScanned
    <3> QED
      BY <2>1, <3>1, <3>2
  <2>2. CASE t \notin wanted
    BY <1>4, <2>2 DEF Scanned, Improves
  <2> QED
    BY <2>1, <2>2
<1>5. \A f \in X : \A i \in 1 .. n : step(f, list[i]) \in X
  BY <1>2, <1>3, <1>4 DEF Scanned, Improves
<1>6. d \in X
  BY <1>3
<1>7. PICK h \in [0 .. n -> X] : TileSteps(h, n, d, wanted, box, list)
  BY <1>1, <1>2, <1>5, <1>6, TilesUnrolled DEF step
<1>8. h[0] = d /\ h[n] = e /\ \A i \in 1 .. n : h[i] = step(h[i - 1], list[i])
  BY <1>7 DEF TileSteps, step
<1>9. \A k \in 0 .. n : Drawing(h[k])
  BY <1>3
<1>15. PICK C : C = [k \in 1 .. n |-> part(list[k])]
  OBVIOUS
<1> HIDE DEF step
<1>10. \A k \in 1 .. n : C[k] = part(list[k])
  BY <1>15
<1>11. \A k \in 1 .. n : C[k] \subseteq Screen!Cells
  BY <1>10 DEF Within
<1> HIDE DEF part
<1>12. \A k \in 1 .. n : Scanned(h[k - 1], h[k], C[k])
  <2> TAKE k \in 1 .. n
  <2>1. k - 1 \in 0 .. n
    OBVIOUS
  <2>2. Drawing(h[k - 1]) /\ list[k] \in L1Tiles
    BY <1>2, <1>9, <2>1
  <2> QED
    BY <1>4, <1>8, <1>10, <2>2
<1> DEFINE all == Within(box) \cap OfTiles(wanted \cap Screen!Range(tiles.l1), TILE_L1_SIZE)
<1>14. ASSUME NEW c \in all
       PROVE  \E k \in 1 .. n : c \in C[k]
  <2>1. PICK k \in 1 .. n : list[k] = TileOf(c, TILE_L1_SIZE)
    BY <1>1, <1>2 DEF OfTiles, Screen!Range
  <2>2. c \in part(list[k])
    BY <2>1 DEF part, OfTiles
  <2> QED
    BY <1>10, <2>2
<1>13. Scanned(d, e, all)
  <2>1. PICK D : D = all
    OBVIOUS
  <2> HIDE DEF all
  <2>2. \A c \in D : \E k \in 1 .. n : c \in C[k]
    BY <1>14, <2>1
  <2>3. Scanned(h[0], h[n], D)
    BY <1>9, <1>11, <1>12, <2>2, ChainScans
  <2> QED
    BY <1>8, <2>1, <2>3
<1> QED
  BY <1>13

\* The tiles of the listed blocks are scanned.
LEMMA BlocksScanned ==
  ASSUME ScreenFits, screen \in [Screen!Cells -> Drawn],
         tiles.l1 \in Seq(L1Tiles), tiles.l2 \in Seq(L2Tiles),
         NEW d, Drawing(d), NEW box, OnScreen(box),
         NEW e, e = Screen!scan_blocks(d, box)
  PROVE  Scanned(d, e, Within(box) \cap OfTiles(Screen!Range(tiles.l1), TILE_L1_SIZE)
                                   \cap OfTiles(Screen!Range(tiles.l2), TILE_L2_SIZE))
<1> DEFINE X == {f \in Drawings : Drawing(f)}
           step(f, b) == Screen!scan_tiles(f, Screen!in_block(b), box)
           part(b) == Within(box) \cap OfTiles(Screen!in_block(b) \cap Screen!Range(tiles.l1),
                                               TILE_L1_SIZE)
<1>1. PICK list : list = tiles.l2
  OBVIOUS
<1>2. PICK n \in Nat : n = Len(list) /\ DOMAIN list = 1 .. n
  BY <1>1, LenProperties
<1>3. \A f : f \in X <=> Drawing(f)
  BY DEF Drawing
<1> HIDE DEF X
<1>4. ASSUME NEW f, Drawing(f), NEW b
      PROVE  Scanned(f, step(f, b), part(b))
  <2>1. PICK g : g = step(f, b)
    OBVIOUS
  <2>2. PICK w : w = Screen!in_block(b)
    OBVIOUS
  <2>3. Scanned(f, g, Within(box) \cap OfTiles(w \cap Screen!Range(tiles.l1), TILE_L1_SIZE))
    BY <1>4, <2>1, <2>2, TilesScanned
  <2> QED
    BY <2>1, <2>2, <2>3
<1>5. \A f \in X : \A i \in 1 .. n : step(f, list[i]) \in X
  BY <1>2, <1>3, <1>4 DEF Scanned, Improves
<1>6. d \in X
  BY <1>3
<1>7. PICK h \in [0 .. n -> X] : BlockSteps(h, n, d, box, list)
  BY <1>1, <1>2, <1>5, <1>6, BlocksUnrolled DEF step
<1>8. h[0] = d /\ h[n] = e /\ \A i \in 1 .. n : h[i] = step(h[i - 1], list[i])
  BY <1>7 DEF BlockSteps, step
<1>9. \A k \in 0 .. n : Drawing(h[k])
  BY <1>3
<1>15. PICK C : C = [k \in 1 .. n |-> part(list[k])]
  OBVIOUS
<1> HIDE DEF step
<1>10. \A k \in 1 .. n : C[k] = part(list[k])
  BY <1>15
<1>11. \A k \in 1 .. n : C[k] \subseteq Screen!Cells
  BY <1>10 DEF Within
<1> HIDE DEF part
<1>12. \A k \in 1 .. n : Scanned(h[k - 1], h[k], C[k])
  <2> TAKE k \in 1 .. n
  <2>1. k - 1 \in 0 .. n
    OBVIOUS
  <2>2. Drawing(h[k - 1])
    BY <1>9, <2>1
  <2> QED
    BY <1>4, <1>8, <1>10, <2>2
<1> DEFINE all == Within(box) \cap OfTiles(Screen!Range(tiles.l1), TILE_L1_SIZE)
                              \cap OfTiles(Screen!Range(tiles.l2), TILE_L2_SIZE)
<1>14. ASSUME NEW c \in all
       PROVE  \E k \in 1 .. n : c \in C[k]
  <2> DEFINE t == TileOf(c, TILE_L1_SIZE)
             ratio == TILE_L2_SIZE \div TILE_L1_SIZE
  <2>1. PICK k \in 1 .. n : list[k] = TileOf(c, TILE_L2_SIZE)
    BY <1>1, <1>2 DEF OfTiles, Screen!Range
  <2>2. t \in Screen!Range(tiles.l1)
    BY DEF OfTiles
  <2>3. c[1] \in Nat /\ c[2] \in Nat
    BY DEF Within, Screen!Cells
  <2>4. \A x \in Nat : (x \div TILE_L1_SIZE) \div ratio = x \div TILE_L2_SIZE
    BY RatioDivides
  <2>5. t[1] \div ratio = list[k][1] /\ t[2] \div ratio = list[k][2]
    BY <2>1, <2>3, <2>4 DEF TileOf
  <2>6. t \in Screen!in_block(list[k])
    BY <2>2, <2>5 DEF Screen!in_block
  <2>7. c \in part(list[k])
    BY <2>2, <2>6 DEF part, OfTiles
  <2> QED
    BY <1>10, <2>7
<1>13. Scanned(d, e, all)
  <2>1. PICK D : D = all
    OBVIOUS
  <2> HIDE DEF all
  <2>2. \A c \in D : \E k \in 1 .. n : c \in C[k]
    BY <1>14, <2>1
  <2>3. Scanned(h[0], h[n], D)
    BY <1>9, <1>11, <1>12, <2>2, ChainScans
  <2> QED
    BY <1>8, <2>1, <2>3
<1> QED
  BY <1>13

\* A list names tiles, none of them twice.
Listing(list, all) ==
  /\ list \in Seq(all)
  /\ \A i, j \in 1 .. Len(list) : list[i] = list[j] => i = j

\* The tiles of the screen are finitely many.
LEMMA TilesFinite ==
  ASSUME ScreenFits
  PROVE  /\ IsFiniteSet(L1Tiles) /\ Cardinality(L1Tiles) \in Nat
         /\ IsFiniteSet(L2Tiles) /\ Cardinality(L2Tiles) \in Nat
<1>1. /\ TILE_L1_SIZE \in Nat \ {0} /\ TILE_L2_SIZE \in Nat \ {0}
      /\ Rows - 1 \in Int /\ Cols - 1 \in Int
  <2>1. PICK k \in Nat \ {0} : TILE_L2_SIZE = k * TILE_L1_SIZE
    BY TileRatio
  <2>2. TILE_L1_SIZE \in Nat \ {0}
    BY DEF ScreenFits
  <2>3. k * TILE_L1_SIZE \in Nat \ {0}
    BY <2>2
  <2> QED
    BY <2>1, <2>2, <2>3 DEF ScreenFits
<1>2. ASSUME NEW s \in Nat \ {0}
      PROVE  IsFiniteSet((0 .. (Rows - 1) \div s) \X (0 .. (Cols - 1) \div s))
  <2>1. (Rows - 1) \div s \in Int /\ (Cols - 1) \div s \in Int
    BY <1>1
  <2>2. IsFiniteSet(0 .. (Rows - 1) \div s) /\ IsFiniteSet(0 .. (Cols - 1) \div s)
    BY <2>1, FS_Interval
  <2> QED
    BY <2>2, FS_Product
<1>3. IsFiniteSet(L1Tiles) /\ IsFiniteSet(L2Tiles)
  BY <1>1, <1>2 DEF L1Tiles, L2Tiles
<1> QED
  BY <1>3, FS_CardinalityType

\* A list is no longer than there are tiles.
LEMMA ListingShort ==
  ASSUME NEW all, IsFiniteSet(all), NEW list, Listing(list, all)
  PROVE  Len(list) <= Cardinality(all)
<1> DEFINE n == Len(list)
<1>1. n \in Nat /\ list \in [1 .. n -> all] /\ Cardinality(all) \in Nat
  BY LenProperties, FS_CardinalityType DEF Listing
<1>2. IsFiniteSet(1 .. n) /\ Cardinality(1 .. n) = n
  <2> HIDE DEF n
  <2>1. 1 \in Int /\ n \in Int
    BY <1>1
  <2>2. IsFiniteSet(1 .. n) /\ Cardinality(1 .. n) = IF 1 > n THEN 0 ELSE n - 1 + 1
    BY <2>1, FS_Interval
  <2> QED
    BY <1>1, <2>2
<1>3. ASSUME n > Cardinality(all)
      PROVE  FALSE
  <2>1. \E x, y \in 1 .. n : x # y /\ list[x] = list[y]
    BY <1>1, <1>2, <1>3, FS_PigeonHole
  <2> QED
    BY <2>1 DEF Listing
<1> QED
  BY <1>1, <1>3

\* One more tile fits a list that does not name it.
LEMMA OneMore ==
  ASSUME NEW all, NEW list, Listing(list, all), NEW tile \in all,
         tile \notin Screen!Range(list)
  PROVE  /\ Listing(<<tile>> \o list, all) /\ Len(<<tile>> \o list) = Len(list) + 1
         /\ Screen!Range(list) \subseteq Screen!Range(<<tile>> \o list)
         /\ tile \in Screen!Range(<<tile>> \o list)
<1> DEFINE n == Len(list)
           one == <<tile>>
           more == one \o list
<1>1. n \in Nat /\ list \in Seq(all) /\ DOMAIN list = 1 .. n
  BY LenProperties DEF Listing
<1>2. one \in Seq(all) /\ Len(one) = 1 /\ one[1] = tile
  OBVIOUS
<1>3. /\ more \in Seq(all) /\ Len(more) = n + 1
      /\ \A i \in 1 .. n + 1 : more[i] = IF i <= 1 THEN one[i] ELSE list[i - 1]
  <2> HIDE DEF one
  <2>1. more \in Seq(all) /\ Len(more) = Len(one) + n
    BY <1>1, <1>2, ConcatProperties
  <2>2. \A i \in 1 .. Len(one) + n : more[i] = IF i <= Len(one) THEN one[i] ELSE list[i - Len(one)]
    BY <1>1, <1>2, ConcatProperties
  <2> HIDE DEF more, n
  <2> QED
    BY <1>1, <1>2, <2>1, <2>2
<1>4. more[1] = tile /\ \A i \in 2 .. n + 1 : more[i] = list[i - 1] /\ i - 1 \in 1 .. n
  BY <1>1, <1>2, <1>3
<1>5. \A i \in 1 .. n : list[i] # tile
  BY <1>1 DEF Screen!Range
<1> HIDE DEF more, n
<1>6. ASSUME NEW i \in 1 .. n + 1, NEW j \in 1 .. n + 1, more[i] = more[j]
      PROVE  i = j
  <2>1. CASE i = 1 /\ j = 1
    BY <2>1
  <2>2. CASE i = 1 /\ j # 1
    <3>1. j \in 2 .. n + 1
      BY <1>1, <2>2
    <3> QED
      BY <1>4, <1>5, <1>6, <2>2, <3>1
  <2>3. CASE i # 1 /\ j = 1
    <3>1. i \in 2 .. n + 1
      BY <1>1, <2>3
    <3> QED
      BY <1>4, <1>5, <1>6, <2>3, <3>1
  <2>4. CASE i # 1 /\ j # 1
    <3>1. i \in 2 .. n + 1 /\ j \in 2 .. n + 1
      BY <1>1, <2>4
    <3>2. list[i - 1] = list[j - 1] /\ i - 1 \in 1 .. n /\ j - 1 \in 1 .. n
      BY <1>4, <1>6, <3>1
    <3>3. i - 1 = j - 1
      BY <3>2 DEF Listing, n
    <3> QED
      BY <1>1, <3>3
  <2> QED
    BY <2>1, <2>2, <2>3, <2>4
<1>7. Listing(more, all)
  BY <1>3, <1>6 DEF Listing
<1>8. DOMAIN more = 1 .. n + 1 /\ n + 1 \in Nat
  BY <1>1, <1>3, LenProperties
<1>9. tile \in Screen!Range(more)
  <2>1. 1 \in 1 .. n + 1
    BY <1>1
  <2> QED
    BY <1>4, <1>8, <2>1 DEF Screen!Range
<1>10. ASSUME NEW t \in Screen!Range(list)
       PROVE  t \in Screen!Range(more)
  <2>1. PICK k \in 1 .. n : list[k] = t
    BY <1>1 DEF Screen!Range
  <2>2. k + 1 \in 2 .. n + 1 /\ k + 1 - 1 = k /\ k + 1 \in 1 .. n + 1
    BY <1>1
  <2>3. more[k + 1] = t
    BY <1>4, <2>1, <2>2
  <2> QED
    BY <1>8, <2>2, <2>3 DEF Screen!Range
<1> QED
  BY <1>3, <1>7, <1>9, <1>10 DEF more, n

\* A list that has grown by some tiles.
Grown(list, e, all, new) ==
  Listing(e, all) /\ Screen!Range(list) \subseteq Screen!Range(e) /\ new \subseteq Screen!Range(e)

\* A tile is listed when the pool has room for all.
LEMMA TileListed ==
  ASSUME NEW all, IsFiniteSet(all), NEW others \in Nat, DIRTY_TILE_POOL_SIZE \in Nat,
         Cardinality(all) + others <= DIRTY_TILE_POOL_SIZE,
         NEW list, Listing(list, all), NEW tile \in all,
         NEW e, e = Screen!add_sparse(list, tile, Len(list) + others)
  PROVE  Grown(list, e, all, {tile})
<1>1. CASE tile \in Screen!Range(list)
  <2>1. e = list
    BY <1>1 DEF Screen!add_sparse
  <2> QED
    BY <1>1, <2>1 DEF Grown
<1>2. CASE tile \notin Screen!Range(list)
  <2>1. Listing(<<tile>> \o list, all) /\ Len(<<tile>> \o list) = Len(list) + 1
    BY <1>2, OneMore
  <2>2. Len(<<tile>> \o list) <= Cardinality(all)
    BY <2>1, ListingShort
  <2>3. Len(list) \in Nat /\ Cardinality(all) \in Nat
    BY LenProperties, FS_CardinalityType DEF Listing
  <2>4. ~(Len(list) + others >= DIRTY_TILE_POOL_SIZE)
    BY <2>1, <2>2, <2>3
  <2>5. e = <<tile>> \o list
    BY <1>2, <2>4 DEF Screen!add_sparse
  <2> QED
    BY <1>2, <2>5, OneMore DEF Grown
<1> QED
  BY <1>1, <1>2

\* Division is monotonic.
LEMMA DivMonotonic ==
  ASSUME NEW s \in Nat \ {0}, NEW u \in Nat, NEW v \in Nat, u <= v
  PROVE  u \div s <= v \div s
<1> DEFINE p == u \div s
           q == v \div s
           r == v % s
<1>1. p \in Nat /\ p * s <= u
  OBVIOUS
<1>2. q \in Nat /\ r \in 0 .. s - 1 /\ v = q * s + r
  OBVIOUS
<1> HIDE DEF p, q, r
<1>3. ASSUME p > q
      PROVE  FALSE
  <2>1. p * s >= (q + 1) * s /\ (q + 1) * s = q * s + s
    BY <1>1, <1>2, <1>3
  <2>2. p * s \in Int /\ q * s \in Int
    BY <1>1, <1>2
  <2> QED
    BY <1>1, <1>2, <2>1, <2>2
<1> QED
  BY <1>1, <1>2, <1>3 DEF p, q

\* Tiles are listed one after the other, each of them.
LEMMA AllListed ==
  ASSUME NEW all, IsFiniteSet(all), NEW others \in Nat, DIRTY_TILE_POOL_SIZE \in Nat,
         Cardinality(all) + others <= DIRTY_TILE_POOL_SIZE,
         NEW base, Listing(base, all), NEW new, NEW n \in Nat, DOMAIN new = 1 .. n,
         \A k \in 1 .. n : new[k] \in all, NEW T, \A t \in T : \E k \in 1 .. n : new[k] = t,
         NEW e, e = Screen!listed(base, new, others)
  PROVE  Grown(base, e, all, T)
<1> DEFINE X == {l \in Seq(all) : Listing(l, all)}
<1>1. \A l : l \in X <=> Listing(l, all)
  BY DEF Listing
<1> HIDE DEF X
<1>2. ASSUME NEW l, Listing(l, all), NEW k \in 1 .. n
      PROVE  Grown(l, Screen!add_sparse(l, new[k], Len(l) + others), all, {new[k]})
  <2>1. PICK f : f = Screen!add_sparse(l, new[k], Len(l) + others)
    OBVIOUS
  <2>2. new[k] \in all
    OBVIOUS
  <2>3. Grown(l, f, all, {new[k]})
    BY <1>2, <2>1, <2>2, TileListed
  <2> QED
    BY <2>1, <2>3
<1>3. \A l \in X : \A k \in 1 .. n : Screen!add_sparse(l, new[k], Len(l) + others) \in X
  BY <1>1, <1>2 DEF Grown
<1>4. base \in X
  BY <1>1
<1>5. PICK h \in [0 .. n -> X] : ListSteps(h, n, base, others, new)
  BY <1>3, <1>4, ListUnrolled
<1>6. /\ h[0] = base /\ h[n] = e
      /\ \A i \in 1 .. n : h[i] = Screen!add_sparse(h[i - 1], new[i], Len(h[i - 1]) + others)
  BY <1>5 DEF ListSteps
<1>7. ASSUME NEW i \in 1 .. n
      PROVE  Grown(h[i - 1], h[i], all, {new[i]})
  <2>1. i - 1 \in 0 .. n
    OBVIOUS
  <2>2. Listing(h[i - 1], all)
    BY <1>1, <2>1
  <2> QED
    BY <1>2, <1>6, <2>2
<1> DEFINE named(i) == {new[k] : k \in 1 .. i}
           S == {i \in Nat : i <= n => Grown(base, h[i], all, named(i))}
<1>8. 0 \in S
  <2>1. named(0) = {}
    OBVIOUS
  <2> QED
    BY <1>6, <2>1 DEF Grown
<1>9. ASSUME NEW i \in Nat, i \in S
      PROVE  i + 1 \in S
  <2> SUFFICES ASSUME i + 1 <= n PROVE Grown(base, h[i + 1], all, named(i + 1))
    OBVIOUS
  <2>1. PICK j \in 1 .. n : j = i + 1 /\ j - 1 = i
    OBVIOUS
  <2>2. Grown(base, h[i], all, named(i))
    BY <1>9
  <2>3. Grown(h[i], h[j], all, {new[j]})
    BY <1>7, <2>1
  <2>4. named(j) = named(i) \cup {new[j]}
    <3>1. 1 .. j = (1 .. i) \cup {j}
      BY <2>1
    <3> QED
      BY <3>1
  <2>5. Grown(base, h[j], all, named(j))
    <3> HIDE DEF named
    <3> QED
      BY <2>2, <2>3, <2>4 DEF Grown
  <2> QED
    BY <2>1, <2>5
<1> HIDE DEF S, named
<1>10. Nat \subseteq S
  BY <1>8, <1>9, Induction
<1>11. Grown(base, e, all, named(n))
  <2>1. n \in S
    BY <1>10
  <2> QED
    BY <1>6, <2>1 DEF S
<1>12. T \subseteq named(n)
  BY DEF named
<1> QED
  BY <1>11, <1>12 DEF Grown

\* A list has grown by the tiles of a rectangle.
GrownBy(list, e, all, side, r1, c1, r2, c2) ==
  /\ Listing(e, all) /\ Screen!Range(list) \subseteq Screen!Range(e)
  /\ \A y \in r1 .. r2 : \A x \in c1 .. c2 : <<y \div side, x \div side>> \in Screen!Range(e)

\* The tiles of a rectangle are listed.
LEMMA RectangleListed ==
  ASSUME NEW side \in Nat \ {0}, NEW rows \in Nat, NEW cols \in Nat,
         NEW all, all = (0 .. rows \div side) \X (0 .. cols \div side), IsFiniteSet(all),
         NEW others \in Nat, DIRTY_TILE_POOL_SIZE \in Nat,
         Cardinality(all) + others <= DIRTY_TILE_POOL_SIZE,
         NEW r1 \in Nat, NEW c1 \in Nat, NEW r2 \in 0 .. rows, NEW c2 \in 0 .. cols,
         NEW base, Listing(base, all),
         NEW e, e = Screen!listed(base, Screen!tiles_of(r1, c1, r2, c2, side), others)
  PROVE  GrownBy(base, e, all, side, r1, c1, r2, c2)
<1> DEFINE a1 == r1 \div side
           b1 == c1 \div side
           a2 == r2 \div side
           b2 == c2 \div side
           T == (a1 .. a2) \X (b1 .. b2)
<1>1. \A u, v \in Nat : u <= v => u \div side <= v \div side
  BY DivMonotonic
<1>2. /\ a1 \in Nat /\ b1 \in Nat /\ a2 \in 0 .. rows \div side /\ b2 \in 0 .. cols \div side
      /\ rows \div side \in Nat /\ cols \div side \in Nat
  <2>1. \A u \in Nat : u \div side \in Nat
    OBVIOUS
  <2>2. a1 \in Nat /\ b1 \in Nat
    BY <2>1
  <2>3. a2 \in Nat /\ b2 \in Nat /\ rows \div side \in Nat /\ cols \div side \in Nat
    BY <2>1
  <2>4. a2 <= rows \div side /\ b2 <= cols \div side
    BY <1>1
  <2> HIDE DEF a1, b1, a2, b2
  <2> QED
    BY <2>2, <2>3, <2>4
<1>3. PICK new : new = Screen!places(Screen!Area(a1, b1, a2, b2))
  OBVIOUS
<1>4. e = Screen!listed(base, new, others)
  BY <1>3 DEF Screen!tiles_of
<1> HIDE DEF a1, b1, a2, b2
<1>5. a1 \in Int /\ b1 \in Int /\ a2 \in Int /\ b2 \in Int
  BY <1>2
<1>6. PICK n \in Nat : Names(new, n, a1, b1, a2, b2)
  BY <1>3, <1>5, PlacesListed
<1>7. /\ DOMAIN new = 1 .. n
      /\ \A k \in 1 .. n : new[k] \in T
      /\ \A t \in T : \E k \in 1 .. n : new[k] = t
  <2>1. /\ DOMAIN new = 1 .. n /\ \A k \in 1 .. n : new[k] \in (a1 .. a2) \X (b1 .. b2)
        /\ \A y \in a1 .. a2 : \A x \in b1 .. b2 : \E k \in 1 .. n : new[k] = <<y, x>>
    BY <1>6 DEF Names
  <2>2. ASSUME NEW t \in T
        PROVE  \E k \in 1 .. n : new[k] = t
    <3>1. PICK y \in a1 .. a2, x \in b1 .. b2 : t = <<y, x>>
      OBVIOUS
    <3> QED
      BY <2>1, <3>1
  <2>3. \A k \in 1 .. n : new[k] \in T
    BY <2>1
  <2> QED
    BY <2>1, <2>2, <2>3
<1>8. T \subseteq all
  BY <1>2
<1> HIDE DEF T
<1>9. \A k \in 1 .. n : new[k] \in all
  BY <1>7, <1>8
<1>10. Grown(base, e, all, T)
  BY <1>4, <1>7, <1>9, AllListed
<1>11. ASSUME NEW y \in r1 .. r2, NEW x \in c1 .. c2
       PROVE  <<y \div side, x \div side>> \in Screen!Range(e)
  <2>1. y \in Nat /\ x \in Nat
    OBVIOUS
  <2>2. a1 <= y \div side /\ y \div side <= a2 /\ b1 <= x \div side /\ x \div side <= b2
    BY <1>1, <2>1 DEF a1, a2, b1, b2
  <2>3. y \div side \in Int /\ x \div side \in Int
    BY <2>1
  <2>4. <<y \div side, x \div side>> \in T
    BY <1>5, <2>2, <2>3 DEF T
  <2> QED
    BY <1>10, <2>4 DEF Grown
<1> QED
  BY <1>10, <1>11 DEF Grown, GrownBy

\* A rectangle on the screen is marked: its tiles are listed.
LEMMA RectangleMarked ==
  ASSUME ScreenFits, Listing(tiles.l1, L1Tiles), Listing(tiles.l2, L2Tiles),
         NEW r1 \in Nat, NEW c1 \in Nat, NEW r2 \in 0 .. Rows - 1, NEW c2 \in 0 .. Cols - 1,
         NEW e, e = Screen!marked(r1, c1, r2, c2)
  PROVE  /\ e = [l1 |-> e.l1, l2 |-> e.l2]
         /\ GrownBy(tiles.l1, e.l1, L1Tiles, TILE_L1_SIZE, r1, c1, r2, c2)
         /\ GrownBy(tiles.l2, e.l2, L2Tiles, TILE_L2_SIZE, r1, c1, r2, c2)
<1>1. PICK k \in Nat \ {0} : TILE_L2_SIZE = k * TILE_L1_SIZE
  BY TileRatio
<1>2. TILE_L1_SIZE \in Nat \ {0} /\ DIRTY_TILE_POOL_SIZE \in Nat
  BY DEF ScreenFits
<1>3. TILE_L2_SIZE \in Nat \ {0}
  <2>1. k * TILE_L1_SIZE \in Nat \ {0}
    BY <1>2
  <2> QED
    BY <1>1, <2>1
<1>4. PICK rows, cols \in Nat : rows = Rows - 1 /\ cols = Cols - 1
  BY DEF ScreenFits
<1>5. /\ L1Tiles = (0 .. rows \div TILE_L1_SIZE) \X (0 .. cols \div TILE_L1_SIZE)
      /\ L2Tiles = (0 .. rows \div TILE_L2_SIZE) \X (0 .. cols \div TILE_L2_SIZE)
  BY <1>4 DEF L1Tiles, L2Tiles
<1>6. /\ IsFiniteSet(L1Tiles) /\ Cardinality(L1Tiles) \in Nat
      /\ IsFiniteSet(L2Tiles) /\ Cardinality(L2Tiles) \in Nat
      /\ Cardinality(L1Tiles) + Cardinality(L2Tiles) <= DIRTY_TILE_POOL_SIZE
  BY TilesFinite DEF ScreenFits
<1>7. PICK all1, all2 : all1 = L1Tiles /\ all2 = L2Tiles
  OBVIOUS
<1>8. r2 \in 0 .. rows /\ c2 \in 0 .. cols
  BY <1>4
<1>9. PICK l1, l2, n2 : l1 = tiles.l1 /\ l2 = tiles.l2 /\ n2 = Len(l2)
  OBVIOUS
<1>10. n2 \in Nat /\ n2 <= Cardinality(all2)
  BY <1>6, <1>7, <1>9, ListingShort, LenProperties DEF Listing
<1>11. PICK m1 : m1 = Screen!listed(l1, Screen!tiles_of(r1, c1, r2, c2, TILE_L1_SIZE), n2)
  OBVIOUS
<1>12. GrownBy(l1, m1, all1, TILE_L1_SIZE, r1, c1, r2, c2)
  <2>1. Cardinality(all1) + n2 <= DIRTY_TILE_POOL_SIZE
    BY <1>2, <1>6, <1>7, <1>10
  <2>2. /\ all1 = (0 .. rows \div TILE_L1_SIZE) \X (0 .. cols \div TILE_L1_SIZE)
        /\ IsFiniteSet(all1) /\ Listing(l1, all1)
    BY <1>5, <1>6, <1>7, <1>9
  <2> QED
    BY <1>2, <1>8, <1>10, <1>11, <2>1, <2>2, RectangleListed
<1>13. PICK n1 : n1 = Len(m1)
  OBVIOUS
<1>14. n1 \in Nat /\ n1 <= Cardinality(all1)
  BY <1>6, <1>7, <1>12, <1>13, ListingShort, LenProperties DEF Listing, GrownBy
<1>15. PICK m2 : m2 = Screen!listed(l2, Screen!tiles_of(r1, c1, r2, c2, TILE_L2_SIZE), n1)
  OBVIOUS
<1>16. GrownBy(l2, m2, all2, TILE_L2_SIZE, r1, c1, r2, c2)
  <2>1. Cardinality(all2) + n1 <= DIRTY_TILE_POOL_SIZE
    BY <1>2, <1>6, <1>7, <1>14
  <2>2. /\ all2 = (0 .. rows \div TILE_L2_SIZE) \X (0 .. cols \div TILE_L2_SIZE)
        /\ IsFiniteSet(all2) /\ Listing(l2, all2)
    BY <1>5, <1>6, <1>7, <1>9
  <2> QED
    BY <1>2, <1>3, <1>8, <1>14, <1>15, <2>1, <2>2, RectangleListed
<1>17. e = [l1 |-> m1, l2 |-> m2]
  BY <1>9, <1>11, <1>13, <1>15 DEF Screen!marked
<1> QED
  BY <1>7, <1>9, <1>12, <1>16, <1>17

\* What the program and the terminal hold.
Held == [prev |-> prev, cache |-> cache, terminal |-> terminal, strayed |-> strayed]

\* A cell that the next refresh looks at.
Marked(c) ==
  /\ dirty.has /\ c \in Within(dirty)
  /\ use_hierarchical_tiles => /\ TileOf(c, TILE_L1_SIZE) \in Screen!Range(tiles.l1)
                               /\ TileOf(c, TILE_L2_SIZE) \in Screen!Range(tiles.l2)

\* The box of what may have changed, which holds a cell that was forgotten.
Boxed ==
  /\ dirty = [has |-> dirty.has,
              rows |-> [first |-> dirty.rows.first, last |-> dirty.rows.last],
              cols |-> [first |-> dirty.cols.first, last |-> dirty.cols.last]]
  /\ dirty.has \in BOOLEAN
  /\ ~dirty.has => dirty = Screen!Clean
  /\ dirty.has => /\ dirty.rows.first \in 0 .. Rows - 1 /\ dirty.rows.last \in 0 .. Rows - 1
                  /\ dirty.cols.first \in 0 .. Cols - 1 /\ dirty.cols.last \in 0 .. Cols - 1
                  /\ \E c \in Within(dirty) : prev[c] = Screen!Invalid

\* The tiles that are listed.
Tiled == Listing(tiles.l1, L1Tiles) /\ Listing(tiles.l2, L2Tiles)

\* Unless a move has strayed, a cell that the terminal does not show as the program has
\* it will be looked at.
Missed == ~strayed => \A c \in Screen!Cells : terminal.cells[c] # screen[c] => Marked(c)

\* The invariant of the screen.
ScreenInv ==
  /\ use_hierarchical_tiles \in BOOLEAN /\ screen \in [Screen!Cells -> Drawn]
  /\ Drawing(Held) /\ Boxed /\ Tiled /\ Missed

\* What the box and the tiles hold after a rectangle was marked.
LEMMA RegionMarked ==
  ASSUME ScreenFits, ScreenInv,
         NEW r1 \in 0 .. Rows - 1, NEW c1 \in 0 .. Cols - 1,
         NEW r2 \in r1 .. Rows - 1, NEW c2 \in c1 .. Cols - 1,
         Screen!mark_dirty_region(r1, c1, r2, c2),
         use_hierarchical_tiles' = use_hierarchical_tiles,
         \E c \in Within(Screen!Area(r1, c1, r2, c2)) : prev'[c] = Screen!Invalid
  PROVE  /\ Boxed' /\ Tiled'
         /\ \A c \in Screen!Cells :
              Marked(c) \/ c \in Within(Screen!Area(r1, c1, r2, c2)) => Marked(c)'
<1> DEFINE R == Within(Screen!Area(r1, c1, r2, c2))
           rows == Screen!hull(dirty.rows, r1, r2)
           cols == Screen!hull(dirty.cols, c1, c2)
<1>1. Rows \in Nat /\ Cols \in Nat
  BY DEF ScreenFits
<1>2. dirty' = [has |-> TRUE, rows |-> rows, cols |-> cols]
  BY DEF Screen!mark_dirty_region
<1>3. /\ dirty.has => /\ dirty.rows.first \in 0 .. Rows - 1 /\ dirty.rows.last \in 0 .. Rows - 1
                      /\ dirty.cols.first \in 0 .. Cols - 1 /\ dirty.cols.last \in 0 .. Cols - 1
      /\ ~dirty.has => /\ dirty.rows.first = Rows /\ dirty.rows.last = -1
                       /\ dirty.cols.first = Cols /\ dirty.cols.last = -1
      /\ dirty.has \in BOOLEAN
  BY DEF ScreenInv, Boxed, Screen!Clean
<1>4. /\ rows = [first |-> rows.first, last |-> rows.last]
      /\ cols = [first |-> cols.first, last |-> cols.last]
      /\ rows.first = Screen!Least(dirty.rows.first, r1)
      /\ rows.last = Screen!Greatest(dirty.rows.last, r2)
      /\ cols.first = Screen!Least(dirty.cols.first, c1)
      /\ cols.last = Screen!Greatest(dirty.cols.last, c2)
  BY DEF Screen!hull
<1>5. /\ rows.first \in 0 .. r1 /\ rows.last \in r2 .. Rows - 1
      /\ cols.first \in 0 .. c1 /\ cols.last \in c2 .. Cols - 1
  BY <1>1, <1>3, <1>4 DEF Screen!Least, Screen!Greatest
<1>6. dirty.has => /\ rows.first <= dirty.rows.first /\ dirty.rows.last <= rows.last
                   /\ cols.first <= dirty.cols.first /\ dirty.cols.last <= cols.last
  BY <1>1, <1>3, <1>4 DEF Screen!Least, Screen!Greatest
<1> HIDE DEF rows, cols
<1>7. ASSUME NEW c \in R
      PROVE  c \in Screen!Cells /\ c[1] \in r1 .. r2 /\ c[2] \in c1 .. c2
  BY DEF Within, Screen!Area
<1>8. ASSUME NEW c \in Screen!Cells, (dirty.has /\ c \in Within(dirty)) \/ c \in R
      PROVE  c \in Within(dirty)'
  <2>1. c[1] \in Int /\ c[2] \in Int
    BY DEF Screen!Cells
  <2>2. c[1] \in rows.first .. rows.last /\ c[2] \in cols.first .. cols.last
    <3>1. CASE c \in R
      BY <1>1, <1>5, <1>7, <2>1, <3>1
    <3>2. CASE dirty.has /\ c \in Within(dirty)
      <4>1. /\ c[1] \in dirty.rows.first .. dirty.rows.last
            /\ c[2] \in dirty.cols.first .. dirty.cols.last
        BY <3>2 DEF Within
      <4> QED
        BY <1>1, <1>3, <1>5, <1>6, <2>1, <3>2, <4>1
    <3> QED
      BY <1>8, <3>1, <3>2
  <2> QED
    BY <1>2, <2>2 DEF Within, Screen!Cells
<1>9. Boxed'
  <2>1. /\ dirty'.rows.first \in 0 .. Rows - 1 /\ dirty'.rows.last \in 0 .. Rows - 1
        /\ dirty'.cols.first \in 0 .. Cols - 1 /\ dirty'.cols.last \in 0 .. Cols - 1
    BY <1>1, <1>2, <1>5
  <2>2. /\ dirty' = [has |-> TRUE, rows |-> [first |-> rows.first, last |-> rows.last],
                     cols |-> [first |-> cols.first, last |-> cols.last]]
        /\ dirty'.has = TRUE /\ dirty'.rows = rows /\ dirty'.cols = cols
    BY <1>2, <1>4
  <2>3. \E c \in Within(dirty)' : prev'[c] = Screen!Invalid
    BY <1>7, <1>8
  <2> QED
    BY <2>1, <2>2, <2>3 DEF Boxed
<1>10. CASE use_hierarchical_tiles
  <2>1. PICK m : m = Screen!marked(r1, c1, r2, c2)
    OBVIOUS
  <2>2. /\ m = [l1 |-> m.l1, l2 |-> m.l2]
        /\ GrownBy(tiles.l1, m.l1, L1Tiles, TILE_L1_SIZE, r1, c1, r2, c2)
        /\ GrownBy(tiles.l2, m.l2, L2Tiles, TILE_L2_SIZE, r1, c1, r2, c2)
    <3>1. /\ r1 \in Nat /\ c1 \in Nat /\ r2 \in 0 .. Rows - 1 /\ c2 \in 0 .. Cols - 1
          /\ Listing(tiles.l1, L1Tiles) /\ Listing(tiles.l2, L2Tiles)
      BY <1>1 DEF ScreenInv, Tiled
    <3> QED
      BY <2>1, <3>1, RectangleMarked
  <2>3. tiles' = m
    BY <1>10, <2>1 DEF Screen!mark_dirty_region
  <2>4. Tiled'
    BY <2>2, <2>3 DEF Tiled, GrownBy
  <2>5. ASSUME NEW c \in Screen!Cells, Marked(c) \/ c \in R
        PROVE  Marked(c)'
    <3>1. /\ TileOf(c, TILE_L1_SIZE) \in Screen!Range(m.l1)
          /\ TileOf(c, TILE_L2_SIZE) \in Screen!Range(m.l2)
      <4>1. CASE Marked(c)
        BY <1>10, <2>2, <4>1 DEF Marked, GrownBy
      <4>2. CASE c \in R
        BY <1>7, <2>2, <4>2 DEF GrownBy, TileOf
      <4> QED
        BY <2>5, <4>1, <4>2
    <3>2. c \in Within(dirty)'
      BY <1>8, <2>5 DEF Marked
    <3> QED
      BY <1>2, <2>3, <3>1, <3>2 DEF Marked
  <2> QED
    BY <1>9, <2>4, <2>5
<1>11. CASE ~use_hierarchical_tiles
  <2>1. tiles' = tiles
    BY <1>11 DEF Screen!mark_dirty_region
  <2>2. Tiled'
    BY <2>1 DEF Tiled, ScreenInv
  <2>3. ASSUME NEW c \in Screen!Cells, Marked(c) \/ c \in R
        PROVE  Marked(c)'
    <3>1. c \in Within(dirty)'
      BY <1>8, <2>3 DEF Marked
    <3> QED
      BY <1>2, <1>11, <3>1 DEF Marked
  <2> QED
    BY <1>9, <2>2, <2>3
<1> QED
  BY <1>10, <1>11 DEF ScreenInv

\* The cells of a rectangle are changed and what was drawn of them is forgotten.
LEMMA RectangleChanged ==
  ASSUME ScreenFits, ScreenInv,
         NEW r1 \in 0 .. Rows - 1, NEW c1 \in 0 .. Cols - 1,
         NEW r2 \in r1 .. Rows - 1, NEW c2 \in c1 .. Cols - 1,
         Screen!mark_dirty_region(r1, c1, r2, c2),
         use_hierarchical_tiles' = use_hierarchical_tiles, terminal' = terminal,
         screen' \in [Screen!Cells -> Drawn], Drawing(Held)',
         \A c \in Screen!Cells :
           IF c \in Within(Screen!Area(r1, c1, r2, c2)) THEN prev'[c] = Screen!Invalid
           ELSE screen'[c] = screen[c] /\ strayed' = strayed
  PROVE  ScreenInv'
<1> DEFINE R == Within(Screen!Area(r1, c1, r2, c2))
<1>1. <<r1, c1>> \in R
  <2>1. <<r1, c1>> \in Screen!Cells /\ r1 \in r1 .. r2 /\ c1 \in c1 .. c2
    BY DEF Screen!Cells, ScreenFits
  <2> QED
    BY <2>1 DEF Within, Screen!Area
<1>2. \E c \in R : prev'[c] = Screen!Invalid
  <2>1. <<r1, c1>> \in Screen!Cells
    BY <1>1 DEF Within
  <2> QED
    BY <1>1, <2>1
<1>3. /\ Boxed' /\ Tiled'
      /\ \A c \in Screen!Cells : Marked(c) \/ c \in R => Marked(c)'
  BY <1>2, RegionMarked
<1>4. Missed'
  <2> SUFFICES ASSUME ~strayed', NEW c \in Screen!Cells, terminal'.cells[c] # screen'[c]
               PROVE  Marked(c)'
    BY DEF Missed
  <2>1. CASE c \in R
    BY <1>3, <2>1
  <2>2. CASE c \notin R
    <3>1. ~strayed /\ terminal.cells[c] # screen[c]
      BY <2>2
    <3>2. Marked(c)
      BY <3>1 DEF ScreenInv, Missed
    <3> QED
      BY <1>3, <3>2
  <2> QED
    BY <2>1, <2>2
<1>5. use_hierarchical_tiles' \in BOOLEAN
  BY DEF ScreenInv
<1> QED
  BY <1>3, <1>4, <1>5 DEF ScreenInv

\* What was drawn of some cells is forgotten, and perhaps where the cursor is and how it
\* draws.
LEMMA Forgotten ==
  ASSUME ScreenInv, NEW R, terminal' = terminal,
         prev' = [c \in Screen!Cells |-> IF c \in R THEN Screen!Invalid ELSE prev[c]],
         \/ cache' = cache /\ strayed' = strayed
         \/ /\ cache' = [row |-> -1, col |-> -1, attr |-> "none"]
            /\ strayed' = FALSE /\ \A c \in Screen!Cells : c \in R,
         ScreenFits
  PROVE  Drawing(Held)'
<1> DEFINE d == Held
           e == Held'
<1>1. d \in Drawings /\ Tracks(d) /\ Shows(d)
  BY DEF ScreenInv, Drawing
<1>2. /\ prev \in [Screen!Cells -> Drawn \cup {Screen!Invalid}] /\ cache \in Caches
      /\ terminal \in Terminals /\ strayed \in BOOLEAN
  BY <1>1 DEF Drawings, Held
<1>3. prev' \in [Screen!Cells -> Drawn \cup {Screen!Invalid}]
  BY <1>2
<1>4. [row |-> -1, col |-> -1, attr |-> "none"] \in Caches
  BY DEF Caches, ScreenFits
<1>5. e = [prev |-> prev', cache |-> cache', terminal |-> terminal, strayed |-> strayed']
  BY DEF Held
<1>6. e \in Drawings
  BY <1>2, <1>3, <1>4, <1>5 DEF Drawings
<1>7. Tracks(e)
  BY <1>1, <1>5 DEF Tracks, Held
<1>8. Shows(e)
  <2> SUFFICES ASSUME ~strayed', NEW c \in Screen!Cells, prev'[c] # Screen!Invalid
               PROVE  terminal.cells[c] = prev'[c]
    BY <1>5 DEF Shows
  <2>1. c \notin R /\ prev'[c] = prev[c]
    OBVIOUS
  <2>2. ~strayed
    BY <2>1
  <2> QED
    BY <1>1, <2>1, <2>2 DEF Shows, Held
<1> QED
  BY <1>6, <1>7, <1>8 DEF Drawing

-----------------------------------------------------------------------------
(***************************************************************************)
(* The steps that change the buffer.                                       *)
(***************************************************************************)
\* A text is printed.
LEMMA PrintStep ==
  ASSUME ScreenFits, ScreenInv, NEW y \in 0 .. Rows - 1, NEW x \in 0 .. Cols - 1,
         NEW text \in Texts, NEW attr \in Attrs, Screen!tui_print_at(y, x, text, attr)
  PROVE  ScreenInv'
<1> DEFINE last == Screen!Least(x + Len(text), Cols) - 1
           R == Within(Screen!Area(y, x, y, last))
           within(c) == c[1] = y /\ c[2] \in x .. last
<1>1. text \in Seq(Glyphs) /\ Len(text) \in Nat \ {0} /\ Rows \in Nat /\ Cols \in Nat
  BY EmptySeq, LenProperties DEF ScreenFits
<1>2. last \in x .. Cols - 1 /\ last <= x + Len(text) - 1
  BY <1>1 DEF Screen!Least
<1>3. /\ screen' = [c \in Screen!Cells |->
                      IF within(c) THEN Screen!Cell(text[c[2] - x + 1], attr) ELSE screen[c]]
      /\ prev' = [c \in Screen!Cells |-> IF within(c) THEN Screen!Invalid ELSE prev[c]]
      /\ Screen!mark_dirty_region(y, x, y, last)
      /\ UNCHANGED <<use_hierarchical_tiles, cache, terminal, strayed>>
  BY DEF Screen!tui_print_at
<1> HIDE DEF last
<1>4. \A c \in Screen!Cells : c \in R <=> within(c)
  BY DEF Within, Screen!Area, Screen!Cells
<1>5. screen' \in [Screen!Cells -> Drawn]
  <2> SUFFICES ASSUME NEW c \in Screen!Cells
               PROVE  (IF within(c) THEN Screen!Cell(text[c[2] - x + 1], attr) ELSE screen[c])
                        \in Drawn
    BY <1>3
  <2>1. screen[c] \in Drawn
    BY DEF ScreenInv
  <2>2. ASSUME within(c)
        PROVE  Screen!Cell(text[c[2] - x + 1], attr) \in Drawn
    <3>1. c[2] - x + 1 \in 1 .. Len(text)
      BY <1>1, <1>2, <2>2
    <3>2. text[c[2] - x + 1] \in Glyphs
      BY <1>1, <3>1, ElementOfSeq
    <3> QED
      BY <3>2 DEF Screen!Cell, Drawn, Styles
  <2> QED
    BY <2>1, <2>2
<1>6. PICK Q : Q = R
  OBVIOUS
<1>7. prev' = [c \in Screen!Cells |-> IF c \in Q THEN Screen!Invalid ELSE prev[c]]
  BY <1>3, <1>4, <1>6
<1>8. Drawing(Held)'
  BY <1>3, <1>7, Forgotten
<1>9. \A c \in Screen!Cells :
        IF c \in R THEN prev'[c] = Screen!Invalid
        ELSE screen'[c] = screen[c] /\ strayed' = strayed
  BY <1>3, <1>4
<1>10. y \in y .. Rows - 1
  OBVIOUS
<1> QED
  BY <1>2, <1>3, <1>5, <1>8, <1>9, <1>10, RectangleChanged

\* A window is cleared.
LEMMA WindowStep ==
  ASSUME ScreenFits, ScreenInv, NEW w \in Windows, Screen!tui_clear_window(w)
  PROVE  ScreenInv'
<1> DEFINE within(c) == /\ c[1] \in w.y .. w.y + w.rows - 1
                        /\ c[2] \in w.x .. w.x + w.cols - 1
<1>1. /\ screen' = [c \in Screen!Cells |-> IF within(c) THEN Screen!Blank ELSE screen[c]]
      /\ prev' = [c \in Screen!Cells |-> IF within(c) THEN Screen!Invalid ELSE prev[c]]
      /\ Screen!mark_dirty_region(w.y, w.x, w.y + w.rows - 1, w.x + w.cols - 1)
      /\ UNCHANGED <<use_hierarchical_tiles, cache, terminal, strayed>>
  BY DEF Screen!tui_clear_window
<1>2. /\ w.y \in 0 .. Rows - 1 /\ w.x \in 0 .. Cols - 1
      /\ w.rows \in 1 .. Rows - w.y /\ w.cols \in 1 .. Cols - w.x
      /\ Rows \in Nat /\ Cols \in Nat
  BY DEF ScreenFits
<1>3. PICK r1, c1, r2, c2 : /\ r1 = w.y /\ c1 = w.x
                            /\ r2 = w.y + w.rows - 1 /\ c2 = w.x + w.cols - 1
  OBVIOUS
<1>4. /\ r1 \in 0 .. Rows - 1 /\ c1 \in 0 .. Cols - 1
      /\ r2 \in r1 .. Rows - 1 /\ c2 \in c1 .. Cols - 1
  BY <1>2, <1>3
<1>5. PICK R : R = Within(Screen!Area(r1, c1, r2, c2))
  OBVIOUS
<1>6. \A c \in Screen!Cells : c \in R <=> within(c)
  BY <1>3, <1>5 DEF Within, Screen!Area
<1> HIDE DEF within
<1>7. screen' \in [Screen!Cells -> Drawn]
  <2>1. Screen!Blank \in Drawn
    BY DEF Screen!Blank, Screen!Cell, Drawn, Glyphs, Styles
  <2>2. screen \in [Screen!Cells -> Drawn]
    BY DEF ScreenInv
  <2> QED
    BY <1>1, <2>1, <2>2
<1>8. prev' = [c \in Screen!Cells |-> IF c \in R THEN Screen!Invalid ELSE prev[c]]
  BY <1>1, <1>6
<1>9. Drawing(Held)'
  BY <1>1, <1>8, Forgotten
<1>10. \A c \in Screen!Cells :
         IF c \in Within(Screen!Area(r1, c1, r2, c2)) THEN prev'[c] = Screen!Invalid
         ELSE screen'[c] = screen[c] /\ strayed' = strayed
  BY <1>1, <1>5, <1>6
<1>11. Screen!mark_dirty_region(r1, c1, r2, c2)
  BY <1>1, <1>3
<1> QED
  BY <1>1, <1>4, <1>7, <1>9, <1>10, <1>11, RectangleChanged

\* The screen is cleared.
LEMMA ClearStep ==
  ASSUME ScreenFits, ScreenInv, Screen!tui_clear_screen
  PROVE  ScreenInv'
<1>1. /\ screen' = [c \in Screen!Cells |-> Screen!Blank]
      /\ prev' = [c \in Screen!Cells |-> Screen!Invalid]
      /\ Screen!mark_dirty_region(0, 0, Rows - 1, Cols - 1)
      /\ cache' = Screen!reset_attr_state(Screen!reset_cursor_tracking(cache))
      /\ strayed' = FALSE /\ terminal' = terminal
      /\ use_hierarchical_tiles' = use_hierarchical_tiles
  BY DEF Screen!tui_clear_screen
<1>2. /\ Rows \in Nat /\ Cols \in Nat /\ 0 \in 0 .. Rows - 1 /\ 0 \in 0 .. Cols - 1
      /\ Rows - 1 \in 0 .. Rows - 1 /\ Cols - 1 \in 0 .. Cols - 1
  BY DEF ScreenFits
<1>3. PICK R : R = Within(Screen!Area(0, 0, Rows - 1, Cols - 1))
  OBVIOUS
<1>4. \A c \in Screen!Cells : c \in R
  BY <1>3 DEF Within, Screen!Area, Screen!Cells
<1>5. screen' \in [Screen!Cells -> Drawn]
  <2>1. Screen!Blank \in Drawn
    BY DEF Screen!Blank, Screen!Cell, Drawn, Glyphs, Styles
  <2> QED
    BY <1>1, <2>1
<1>6. prev' = [c \in Screen!Cells |-> IF c \in R THEN Screen!Invalid ELSE prev[c]]
  BY <1>1, <1>4
<1>7. cache' = [row |-> -1, col |-> -1, attr |-> "none"]
  <2>1. cache \in Caches
    BY DEF ScreenInv, Drawing, Drawings, Held
  <2>2. cache = [row |-> cache.row, col |-> cache.col, attr |-> cache.attr]
    BY <2>1 DEF Caches
  <2>3. PICK c : c = Screen!reset_cursor_tracking(cache)
    OBVIOUS
  <2>4. c = [cache EXCEPT !.row = -1, !.col = -1]
    BY <2>3 DEF Screen!reset_cursor_tracking
  <2>5. c = [row |-> -1, col |-> -1, attr |-> cache.attr]
    BY <2>1, <2>4 DEF Caches
  <2> QED
    BY <1>1, <2>3, <2>5 DEF Screen!reset_attr_state
<1>8. Drawing(Held)'
  BY <1>1, <1>4, <1>6, <1>7, Forgotten
<1>9. \A c \in Screen!Cells :
        IF c \in Within(Screen!Area(0, 0, Rows - 1, Cols - 1)) THEN prev'[c] = Screen!Invalid
        ELSE screen'[c] = screen[c] /\ strayed' = strayed
  BY <1>1, <1>3, <1>4
<1> QED
  BY <1>1, <1>2, <1>5, <1>8, <1>9, RectangleChanged

-----------------------------------------------------------------------------
(***************************************************************************)
(* A refresh.                                                              *)
(***************************************************************************)
\* A set of small numbers has a greatest.
LEMMA GreatestExists ==
  ASSUME NEW m \in Nat, NEW S \in SUBSET (0 .. m), S # {}
  PROVE  \E x \in S : \A y \in S : y <= x
<1> DEFINE T == {m - x : x \in S}
<1>1. PICK a \in S : TRUE
  OBVIOUS
<1>2. T \subseteq Nat /\ m - a \in T
  OBVIOUS
<1> HIDE DEF T
<1>3. PICK t \in T : \A u \in T : t <= u
  BY <1>2, LeastElement
<1>4. PICK x \in S : t = m - x
  BY DEF T
<1>5. ASSUME NEW y \in S
      PROVE  y <= x
  <2>1. t <= m - y
    BY <1>3 DEF T
  <2>2. x \in Int /\ y \in Int
    OBVIOUS
  <2> QED
    BY <1>4, <2>1, <2>2
<1> QED
  BY <1>5

\* The span of some numbers runs from one of them to one of them and holds all.
LEMMA SpanHolds ==
  ASSUME NEW m \in Nat, NEW S \in SUBSET (0 .. m), S # {}, NEW s, s = Screen!span(S)
  PROVE  /\ s = [first |-> s.first, last |-> s.last]
         /\ s.first \in 0 .. m /\ s.last \in 0 .. m
         /\ \A j \in S : j \in s.first .. s.last
<1>1. \E i \in S : \A j \in S : i <= j
  <2>1. S \subseteq Nat
    OBVIOUS
  <2> QED
    BY <2>1, LeastElement
<1>2. \E i \in S : \A j \in S : j <= i
  BY GreatestExists
<1>3. PICK a, b : /\ a = CHOOSE i \in S : \A j \in S : i <= j
                  /\ b = CHOOSE i \in S : \A j \in S : j <= i
  OBVIOUS
<1>4. a \in S /\ \A j \in S : a <= j
  BY <1>1, <1>3
<1>5. b \in S /\ \A j \in S : j <= b
  BY <1>2, <1>3
<1>6. s = [first |-> a, last |-> b]
  BY <1>3 DEF Screen!span
<1>7. ASSUME NEW j \in S
      PROVE  j \in a .. b
  <2>1. a \in Int /\ b \in Int /\ j \in Int
    BY <1>4, <1>5
  <2> QED
    BY <1>4, <1>5, <2>1
<1> QED
  BY <1>4, <1>5, <1>6, <1>7

\* The tight box lies on the screen and holds all changes of the dirty one.
LEMMA TightBox ==
  ASSUME ScreenFits, ScreenInv, dirty.has, NEW box, box = Screen!optimize_dirty_region
  PROVE  /\ OnScreen(box)
         /\ \A c \in Within(dirty) : screen[c] # prev[c] => c \in Within(box)
<1> DEFINE rows == {y \in dirty.rows.first .. dirty.rows.last :
                      Screen!row_has_changes(y, dirty.cols)}
           cols == {x \in dirty.cols.first .. dirty.cols.last :
                      Screen!col_has_changes(x, Screen!span(rows))}
<1>1. PICK m, k \in Nat : m = Rows - 1 /\ k = Cols - 1
  BY DEF ScreenFits
<1>2. /\ dirty.rows.first \in 0 .. m /\ dirty.rows.last \in 0 .. m
      /\ dirty.cols.first \in 0 .. k /\ dirty.cols.last \in 0 .. k
      /\ \E c \in Within(dirty) : prev[c] = Screen!Invalid
  BY <1>1 DEF ScreenInv, Boxed
<1>3. box = [rows |-> Screen!span(rows), cols |-> Screen!span(cols)]
  BY DEF Screen!optimize_dirty_region
<1>4. rows \in SUBSET (0 .. m) /\ cols \in SUBSET (0 .. k)
  BY <1>2
<1>5. ASSUME NEW c \in Within(dirty)
      PROVE  /\ c \in Screen!Cells /\ c = <<c[1], c[2]>>
             /\ c[1] \in dirty.rows.first .. dirty.rows.last
             /\ c[2] \in dirty.cols.first .. dirty.cols.last
  BY DEF Within, Screen!Cells
<1>6. ASSUME NEW c \in Within(dirty), screen[c] # prev[c]
      PROVE  c[1] \in rows /\ Screen!changed(c[1], c[2])
  <2>1. Screen!changed(c[1], c[2])
    BY <1>5, <1>6 DEF Screen!changed
  <2> QED
    BY <1>5, <2>1 DEF Screen!row_has_changes
<1>7. PICK c0 \in Within(dirty) : screen[c0] # prev[c0]
  <2>1. PICK c \in Within(dirty) : prev[c] = Screen!Invalid
    BY <1>2
  <2>2. screen[c] \in Drawn
    BY <1>5 DEF ScreenInv
  <2>3. Screen!Invalid \notin Drawn
    BY DEF Screen!Invalid, Screen!Cell, Drawn, Styles, ScreenFits
  <2> QED
    BY <2>1, <2>2, <2>3
<1> HIDE DEF rows
<1>8. PICK s : s = Screen!span(rows)
  OBVIOUS
<1>9. rows # {}
  BY <1>6, <1>7
<1>10. PICK S : S = rows
  OBVIOUS
<1>11. /\ s = [first |-> s.first, last |-> s.last]
       /\ s.first \in 0 .. m /\ s.last \in 0 .. m
       /\ \A j \in S : j \in s.first .. s.last
  BY <1>4, <1>8, <1>9, <1>10, SpanHolds
<1>12. ASSUME NEW c \in Within(dirty), screen[c] # prev[c]
       PROVE  c[2] \in cols
  <2>1. Screen!changed(c[1], c[2]) /\ c[1] \in s.first .. s.last
    BY <1>6, <1>10, <1>11, <1>12
  <2>2. Screen!col_has_changes(c[2], s)
    BY <2>1 DEF Screen!col_has_changes
  <2> QED
    BY <1>5, <1>8, <2>2
<1> HIDE DEF cols
<1>13. cols # {}
  BY <1>7, <1>12
<1>14. PICK t, T : t = Screen!span(cols) /\ T = cols
  OBVIOUS
<1>15. /\ t = [first |-> t.first, last |-> t.last]
       /\ t.first \in 0 .. k /\ t.last \in 0 .. k
       /\ \A j \in T : j \in t.first .. t.last
  BY <1>4, <1>13, <1>14, SpanHolds
<1>16. box.rows = s /\ box.cols = t /\ box = [rows |-> s, cols |-> t]
  BY <1>3, <1>8, <1>14
<1>17. OnScreen(box)
  BY <1>1, <1>11, <1>15, <1>16 DEF OnScreen, Screen!Area
<1>18. ASSUME NEW c \in Within(dirty), screen[c] # prev[c]
       PROVE  c \in Within(box)
  <2>1. c[1] \in s.first .. s.last
    BY <1>6, <1>10, <1>11, <1>18
  <2>2. c[2] \in t.first .. t.last
    BY <1>12, <1>14, <1>15, <1>18
  <2> QED
    BY <1>5, <1>16, <2>1, <2>2 DEF Within
<1> QED
  BY <1>17, <1>18

\* After anything was drawn the attributes are reset, and nothing else.
LEMMA FinishedKeeps ==
  ASSUME NEW d, Drawing(d), NEW e, e = Screen!finished(d)
  PROVE  /\ Drawing(e) /\ e.strayed = d.strayed /\ e.terminal.cells = d.terminal.cells
         /\ e.prev = d.prev
<1>1. CASE d.terminal = terminal
  <2>1. e = d
    BY <1>1 DEF Screen!finished
  <2> QED
    BY <2>1
<1>2. CASE d.terminal # terminal
  <2>1. e = [d EXCEPT !.terminal.pen = "reset", !.cache = Screen!reset_attr_state(@)]
    BY <1>2 DEF Screen!finished
  <2>2. d \in Drawings /\ Tracks(d) /\ Shows(d)
    BY DEF Drawing
  <2>3. /\ e = [prev |-> d.prev, cache |-> e.cache, terminal |-> e.terminal, strayed |-> d.strayed]
        /\ e.terminal = [d.terminal EXCEPT !.pen = "reset"]
        /\ e.cache = [d.cache EXCEPT !.attr = "none"]
    BY <2>1, <2>2 DEF Drawings, Screen!reset_attr_state
  <2>4. /\ d.terminal \in Terminals /\ d.cache \in Caches
        /\ d.prev \in [Screen!Cells -> Drawn \cup {Screen!Invalid}] /\ d.strayed \in BOOLEAN
    BY <2>2 DEF Drawings
  <2>5. /\ e.terminal \in Terminals /\ e.terminal.cells = d.terminal.cells
        /\ e.terminal.row = d.terminal.row /\ e.terminal.col = d.terminal.col
    BY <2>3, <2>4 DEF Terminals, Pens
  <2>6. /\ e.cache \in Caches /\ e.cache.attr = "none"
        /\ e.cache.row = d.cache.row /\ e.cache.col = d.cache.col
    BY <2>3, <2>4 DEF Caches
  <2>7. e \in Drawings
    BY <2>3, <2>4, <2>5, <2>6 DEF Drawings
  <2>8. e.strayed = d.strayed /\ e.prev = d.prev
    BY <2>3
  <2>9. Tracks(e)
    BY <2>2, <2>5, <2>6, <2>8 DEF Tracks
  <2>10. Shows(e)
    BY <2>2, <2>5, <2>8 DEF Shows
  <2> QED
    BY <2>5, <2>7, <2>8, <2>9, <2>10 DEF Drawing
<1> QED
  BY <1>1, <1>2

\* A refresh looks at every marked cell that has changed.
LEMMA RefreshScans ==
  ASSUME ScreenFits, ScreenInv, dirty.has, NEW base, base = Held,
         NEW d \in Screen!refreshed(base)
  PROVE  /\ Drawing(d) /\ (base.strayed => d.strayed)
         /\ ~d.strayed => \A c \in Screen!Cells : d.terminal.cells[c] = screen[c]
<1> DEFINE C == {c \in Screen!Cells : Marked(c)}
<1>1. PICK box : box = Screen!optimize_dirty_region
  OBVIOUS
<1>2. OnScreen(box) /\ \A c \in Within(dirty) : screen[c] # prev[c] => c \in Within(box)
  BY <1>1, TightBox
<1>3. /\ Drawing(base) /\ screen \in [Screen!Cells -> Drawn]
      /\ Listing(tiles.l1, L1Tiles) /\ Listing(tiles.l2, L2Tiles)
      /\ use_hierarchical_tiles \in BOOLEAN
  BY DEF ScreenInv, Tiled
<1>4. tiles.l1 \in Seq(L1Tiles) /\ tiles.l2 \in Seq(L2Tiles)
  BY <1>3 DEF Listing
<1>5. PICK R : R = Screen!Range(tiles.l1)
  OBVIOUS
<1>6. PICK e : d = Screen!finished(e) /\ Scanned(base, e, C)
  <2>1. CASE ~use_hierarchical_tiles
    <3>1. PICK e : e = Screen!scan_rows(base, box) /\ d = Screen!finished(e)
      BY <1>1, <2>1 DEF Screen!refreshed
    <3>2. Scanned(base, e, Within(box))
      BY <1>2, <1>3, <3>1, RowsScanned
    <3>3. Scanned(base, e, C)
      BY <1>2, <3>2 DEF Scanned, Marked
    <3> QED
      BY <3>1, <3>3
  <2>2. CASE use_hierarchical_tiles
    <3>1. \/ d = Screen!finished(Screen!scan_tiles(base, R, box))
          \/ d = Screen!finished(Screen!scan_blocks(base, box))
      BY <1>1, <1>5, <2>2 DEF Screen!refreshed
    <3>2. CASE d = Screen!finished(Screen!scan_tiles(base, R, box))
      <4>1. PICK e : e = Screen!scan_tiles(base, R, box) /\ d = Screen!finished(e)
        BY <3>2
      <4>2. Scanned(base, e, Within(box) \cap OfTiles(R \cap Screen!Range(tiles.l1), TILE_L1_SIZE))
        BY <1>2, <1>3, <1>4, <4>1, TilesScanned
      <4>3. Scanned(base, e, C)
        BY <1>2, <1>5, <2>2, <4>2 DEF Scanned, Marked, OfTiles
      <4> QED
        BY <4>1, <4>3
    <3>3. CASE d = Screen!finished(Screen!scan_blocks(base, box))
      <4>1. PICK e : e = Screen!scan_blocks(base, box) /\ d = Screen!finished(e)
        BY <3>3
      <4>2. Scanned(base, e, Within(box) \cap OfTiles(Screen!Range(tiles.l1), TILE_L1_SIZE)
                                         \cap OfTiles(Screen!Range(tiles.l2), TILE_L2_SIZE))
        BY <1>2, <1>3, <1>4, <4>1, BlocksScanned
      <4>3. Scanned(base, e, C)
        BY <1>2, <2>2, <4>2 DEF Scanned, Marked, OfTiles
      <4> QED
        BY <4>1, <4>3
    <3> QED
      BY <3>1, <3>2, <3>3
  <2> QED
    BY <1>3, <2>1, <2>2
<1>7. Drawing(e) /\ (base.strayed => e.strayed)
  BY <1>6 DEF Scanned, Improves
<1>8. Drawing(d) /\ d.strayed = e.strayed /\ d.terminal.cells = e.terminal.cells
  BY <1>6, <1>7, FinishedKeeps
<1>9. ASSUME ~d.strayed, NEW c \in Screen!Cells
      PROVE  d.terminal.cells[c] = screen[c]
  <2>1. ~e.strayed /\ ~base.strayed
    BY <1>7, <1>8, <1>9
  <2>2. base.terminal = terminal /\ base.prev = prev /\ base.strayed = strayed
    BY DEF Held
  <2>3. e.terminal.cells[c] = terminal.cells[c] \/ e.terminal.cells[c] = screen[c]
    BY <1>6, <2>1, <2>2 DEF Scanned, Improves
  <2>4. ASSUME terminal.cells[c] # screen[c]
        PROVE  e.terminal.cells[c] = screen[c]
    <3>1. Marked(c)
      BY <2>1, <2>2, <2>4 DEF ScreenInv, Missed
    <3>2. screen[c] # prev[c]
      <4>1. screen[c] \in Drawn /\ Screen!Invalid \notin Drawn
        BY <1>3 DEF Screen!Invalid, Screen!Cell, Drawn, Styles, ScreenFits
      <4>2. prev[c] # Screen!Invalid => terminal.cells[c] = prev[c]
        BY <1>3, <2>1, <2>2 DEF Drawing, Shows
      <4> QED
        BY <2>4, <4>1, <4>2
    <3>3. Done(e, c)
      BY <1>6, <3>1, <3>2 DEF Scanned
    <3> QED
      BY <2>1, <3>3 DEF Done
  <2> QED
    BY <1>8, <2>3, <2>4
<1> QED
  BY <1>7, <1>8, <1>9

\* The screen is refreshed.
LEMMA RefreshStep ==
  ASSUME ScreenFits, ScreenInv, Screen!tui_refresh
  PROVE  ScreenInv'
<1>1. PICK base : base = Held
  OBVIOUS
<1>2. PICK d \in Screen!refreshed(base) :
        prev' = d.prev /\ cache' = d.cache /\ terminal' = d.terminal /\ strayed' = d.strayed
  BY <1>1 DEF Screen!tui_refresh, Held
<1>3. /\ dirty.has /\ dirty' = Screen!Clean /\ tiles' = Screen!CleanTiles
      /\ UNCHANGED <<use_hierarchical_tiles, screen>>
  BY DEF Screen!tui_refresh
<1>4. /\ Drawing(d)
      /\ ~d.strayed => \A c \in Screen!Cells : d.terminal.cells[c] = screen[c]
  BY <1>1, <1>3, RefreshScans
<1>5. Held' = d
  BY <1>2, <1>4 DEF Held, Drawing, Drawings
<1>6. Boxed'
  BY <1>3 DEF Boxed, Screen!Clean
<1>7. Tiled'
  <2>1. Listing(<< >>, L1Tiles) /\ Listing(<< >>, L2Tiles)
    BY EmptySeq DEF Listing
  <2> QED
    BY <1>3, <2>1 DEF Tiled, Screen!CleanTiles
<1>8. Missed'
  BY <1>2, <1>3, <1>4 DEF Missed
<1> QED
  BY <1>3, <1>4, <1>5, <1>6, <1>7, <1>8 DEF ScreenInv

-----------------------------------------------------------------------------
(***************************************************************************)
(* The terminal shows what the program printed.                            *)
(***************************************************************************)
\* The invariant holds while the screen runs.
ScreenRuns == running_program = "screen" => ScreenInv

\* It holds at the start: nothing is printed, nothing is drawn, the terminal is blank.
LEMMA ScreenInitially ==
  ASSUME ScreenFits, Screen!Init
  PROVE  ScreenInv
<1>1. /\ use_hierarchical_tiles \in BOOLEAN
      /\ screen = [c \in Screen!Cells |-> Screen!Blank]
      /\ prev = [c \in Screen!Cells |-> Screen!Invalid]
      /\ dirty = Screen!Clean /\ tiles = [l1 |-> << >>, l2 |-> << >>]
      /\ cache = [row |-> -1, col |-> -1, attr |-> "none"]
      /\ terminal = [cells |-> [c \in Screen!Cells |-> Screen!Blank], row |-> 0, col |-> 0,
                     pen |-> "reset"]
      /\ strayed = FALSE
  BY DEF Screen!Init, Screen!CleanTiles
<1>2. Rows \in Nat \ {0} /\ Cols \in Nat \ {0}
  BY DEF ScreenFits
<1>3. Screen!Blank \in Drawn /\ Screen!Blank \in Shown
  BY DEF Screen!Blank, Screen!Cell, Drawn, Shown, Glyphs, Styles, Pens
<1>4. screen \in [Screen!Cells -> Drawn]
  BY <1>1, <1>3
<1>5. Held \in Drawings
  <2>1. cache \in Caches
    BY <1>1, <1>2 DEF Caches
  <2>2. terminal \in Terminals
    <3>1. [c \in Screen!Cells |-> Screen!Blank] \in [Screen!Cells -> Shown]
      BY <1>3
    <3> QED
      BY <1>1, <1>2, <3>1 DEF Terminals, Pens
  <2>3. prev \in [Screen!Cells -> Drawn \cup {Screen!Invalid}]
    BY <1>1
  <2> QED
    BY <1>1, <2>1, <2>2, <2>3 DEF Held, Drawings
<1>6. Tracks(Held)
  BY <1>1 DEF Tracks, Held
<1>7. Shows(Held)
  BY <1>1 DEF Shows, Held
<1>8. Boxed
  BY <1>1 DEF Boxed, Screen!Clean
<1>9. Tiled
  <2>1. Listing(<< >>, L1Tiles) /\ Listing(<< >>, L2Tiles)
    BY EmptySeq DEF Listing
  <2> QED
    BY <1>1, <2>1 DEF Tiled
<1>10. Missed
  BY <1>1 DEF Missed
<1> QED
  BY <1>1, <1>4, <1>5, <1>6, <1>7, <1>8, <1>9, <1>10 DEF ScreenInv, Drawing

\* Each step of the screen keeps it.
LEMMA ScreenStep ==
  ASSUME ScreenFits, ScreenInv, Screen!Next
  PROVE  ScreenInv'
<1>1. ASSUME NEW c \in Screen!Cells, NEW text \in Texts, NEW attr \in Attrs,
             Screen!tui_print_at(c[1], c[2], text, attr)
      PROVE  ScreenInv'
  <2>1. c[1] \in 0 .. Rows - 1 /\ c[2] \in 0 .. Cols - 1
    BY DEF Screen!Cells
  <2> QED
    BY <1>1, <2>1, PrintStep
<1>2. ASSUME NEW w \in Windows, Screen!tui_clear_window(w)
      PROVE  ScreenInv'
  BY <1>2, WindowStep
<1>3. CASE Screen!tui_clear_screen
  BY <1>3, ClearStep
<1>4. CASE Screen!tui_refresh
  BY <1>4, RefreshStep
<1> QED
  BY <1>1, <1>2, <1>3, <1>4 DEF Screen!Next

\* What nothing changes stays as it is.
LEMMA ScreenRests ==
  ASSUME ScreenInv, UNCHANGED screen_vars
  PROVE  ScreenInv'
<1>1. UNCHANGED <<use_hierarchical_tiles, screen, prev, dirty, tiles, cache, terminal, strayed>>
  BY DEF screen_vars
<1>2. Held' = Held /\ Within(dirty)' = Within(dirty)
  BY <1>1 DEF Held, Within
<1>3. \A c : Marked(c)' <=> Marked(c)
  BY <1>1, <1>2 DEF Marked
<1>4. Boxed' /\ Tiled'
  BY <1>1, <1>2 DEF ScreenInv, Boxed, Tiled
<1>5. Missed'
  BY <1>1, <1>3 DEF ScreenInv, Missed
<1>6. Drawing(Held)'
  BY <1>1, <1>2 DEF ScreenInv, Drawing, Tracks, Shows
<1> QED
  BY <1>1, <1>4, <1>5, <1>6 DEF ScreenInv

\* The invariant of the screen holds in every state.
LEMMA ScreenInvariance == TextSpec => []ScreenRuns
<1>1. TextInit => ScreenRuns
  BY ScreenAssumption, ScreenInitially DEF TextInit, ScreenRuns
<1>2. ScreenRuns /\ [TextNext]_all_vars => ScreenRuns'
  <2> SUFFICES ASSUME ScreenRuns, [TextNext]_all_vars PROVE ScreenRuns'
    OBVIOUS
  <2>1. CASE RunScreen
    <3>1. running_program = "screen" /\ Screen!Next
      BY <2>1 DEF RunScreen
    <3>2. ScreenInv'
      BY <3>1, ScreenAssumption, ScreenStep DEF ScreenRuns
    <3> QED
      BY <3>2 DEF ScreenRuns
  <2>2. CASE UNCHANGED <<running_program, screen_vars>>
    BY <2>2, ScreenRests DEF ScreenRuns
  <2>3. RunEcho \/ RunShell \/ RunOutput \/ UNCHANGED all_vars
          => UNCHANGED <<running_program, screen_vars>>
    BY DEF RunEcho, RunShell, RunOutput, all_vars
  <2> QED
    BY <2>1, <2>2, <2>3 DEF TextNext
<1> QED
  BY <1>1, <1>2, PTL DEF TextSpec

\* ScreenShowsWindow: after a refresh the terminal shows what the program printed, on a
\* screen of any size, with any texts and attributes, for any sizes of tiles and gaps and
\* any reach of relative moves, unless such a move started behind the last column
\* (tui copy.c:1550-1710, 2859-2951, 3188-3537).
THEOREM ScreenIsShown == TextSpec => []ScreenShowsWindow
<1>1. ScreenRuns => ScreenShowsWindow
  <2> SUFFICES ASSUME ScreenInv, ~dirty.has, ~strayed PROVE terminal.cells = screen
    BY DEF ScreenRuns, ScreenShowsWindow, Screen!ScreenShowsWindow
  <2>1. screen \in [Screen!Cells -> Drawn] /\ terminal.cells \in [Screen!Cells -> Shown]
    BY DEF ScreenInv, Drawing, Drawings, Held, Terminals
  <2>2. \A c \in Screen!Cells : terminal.cells[c] = screen[c]
    BY DEF ScreenInv, Missed, Marked
  <2> QED
    BY <2>1, <2>2
<1> QED
  BY <1>1, ScreenInvariance, PTL

\* CachesTellTerminal: what the program believes of the cursor and the attributes is so
\* at the terminal, unless a move has strayed (tui copy.c:1053-1178, 3068-3172).
THEOREM CachesAreTrue == TextSpec => []CachesTellTerminal
<1>1. ScreenRuns => CachesTellTerminal
  <2> SUFFICES ASSUME ScreenInv PROVE Screen!CachesTellTerminal
    BY DEF ScreenRuns, CachesTellTerminal
  <2>1. Tracks(Held) /\ cache \in Caches
    BY DEF ScreenInv, Drawing, Drawings, Held
  <2>2. cache.row \in -1 .. Rows - 1 /\ cache.col \in -1 .. Cols
    BY <2>1 DEF Caches
  <2>3. cache.col >= 0 => cache.row # -1
    BY <2>1, <2>2 DEF Tracks, Held
  <2> QED
    BY <2>1, <2>3 DEF Tracks, Held, Screen!CachesTellTerminal
<1> QED
  BY <1>1, ScreenInvariance, PTL

-----------------------------------------------------------------------------
(***************************************************************************)
(* All programs together: their types, and the terminal of the harness.    *)
(***************************************************************************)
\* The screen and its lists of tiles.
LEMMA ScreenTyped ==
  ASSUME ScreenInv
  PROVE  Screen!TypeOK
<1>1. screen \in [Screen!Cells -> [char : {" "} \cup UNION {Screen!Range(text) : text \in Texts},
                                  attr : Attrs \cup {"normal"}]]
  BY DEF ScreenInv, Drawn, Glyphs, Styles
<1>2. /\ terminal.row \in 0 .. Rows - 1 /\ terminal.col \in 0 .. Cols
      /\ cache.row \in -1 .. Rows - 1 /\ cache.col \in -1 .. Cols
  <2>1. cache \in Caches /\ terminal \in Terminals
    BY DEF ScreenInv, Drawing, Drawings, Held
  <2> QED
    BY <2>1 DEF Caches, Terminals
<1>3. Len(tiles.l1) + Len(tiles.l2) <= DIRTY_TILE_POOL_SIZE
  <2>1. /\ IsFiniteSet(L1Tiles) /\ Cardinality(L1Tiles) \in Nat
        /\ IsFiniteSet(L2Tiles) /\ Cardinality(L2Tiles) \in Nat
    BY ScreenAssumption, TilesFinite
  <2>2. Listing(tiles.l1, L1Tiles) /\ Listing(tiles.l2, L2Tiles)
    BY DEF ScreenInv, Tiled
  <2>3. Len(tiles.l1) <= Cardinality(L1Tiles) /\ Len(tiles.l2) <= Cardinality(L2Tiles)
    BY <2>1, <2>2, ListingShort
  <2>4. Len(tiles.l1) \in Nat /\ Len(tiles.l2) \in Nat
    BY <2>2, LenProperties DEF Listing
  <2>5. /\ Cardinality(L1Tiles) + Cardinality(L2Tiles) <= DIRTY_TILE_POOL_SIZE
        /\ DIRTY_TILE_POOL_SIZE \in Nat
    BY ScreenAssumption DEF ScreenFits
  <2> DEFINE n1 == Len(tiles.l1)
             n2 == Len(tiles.l2)
             c1 == Cardinality(L1Tiles)
             c2 == Cardinality(L2Tiles)
  <2>6. /\ n1 \in Nat /\ n2 \in Nat /\ c1 \in Nat /\ c2 \in Nat /\ n1 <= c1 /\ n2 <= c2
        /\ c1 + c2 <= DIRTY_TILE_POOL_SIZE /\ DIRTY_TILE_POOL_SIZE \in Nat
    BY <2>1, <2>3, <2>4, <2>5
  <2> HIDE DEF n1, n2, c1, c2
  <2>7. n1 + n2 <= DIRTY_TILE_POOL_SIZE
    BY <2>6
  <2> QED
    BY <2>7 DEF n1, n2
<1> QED
  BY <1>1, <1>2, <1>3 DEF Screen!TypeOK

\* The buffer and the cursor of the shell.
LEMMA ShellTyped ==
  ASSUME ShellInv
  PROVE  Shell!TypeOK
<1>1. line_buf \in Shell!Line /\ len \in 0 .. LINE_BUF_SIZE - 1
  BY DEF ShellInv, Ended
<1>2. term.cursor = len
  BY DEF ShellInv
<1> QED
  BY <1>1, <1>2 DEF Shell!TypeOK

\* The terminal of the harness, of which TerminalProofs speaks by itself.
TermP == INSTANCE TerminalProofs

\* The instance speaks of the same constants.
LEMMA SameBits ==
  /\ TermP!Bit = Bit /\ TermP!Byte = Byte /\ TermP!Zero = Zero
  /\ TermP!BIT_CNT = BIT_CNT /\ TermP!START_CNT = START_CNT
  /\ TermP!TX_FRAME_BITS = TX_FRAME_BITS /\ TermP!TX_IDLE = TX_IDLE
  /\ TermP!HALF_BIT = HALF_BIT
BY DEF TermP!Bit, Bit, TermP!Byte, Byte, TermP!Zero, Zero, TermP!BIT_CNT, BIT_CNT,
       TermP!START_CNT, START_CNT, TermP!TX_FRAME_BITS, TX_FRAME_BITS, TermP!TX_IDLE, TX_IDLE,
       TermP!STOP_BITS, STOP_BITS, TermP!HALF_BIT, HALF_BIT

\* Of which it assumes the same.
LEMMA SameTerminalAssumptions ==
  TermP!UartAssumption /\ TermP!CounterAssumption /\ TermP!TerminalAssumption
BY UartAssumption, CounterAssumption, TerminalAssumption, SameBits
   DEF TermP!UartAssumption, TermP!CounterAssumption, TermP!TerminalAssumption

\* Of the same UART.
LEMMA SameUart ==
  ASSUME NEW bundle, NEW rxd, UartStep(bundle, rxd)
  PROVE  TermP!UartStep(bundle, rxd)
<1>1. /\ TermP!accepted(bundle) <=> accepted(bundle)
      /\ TermP!deq_fire(bundle) <=> deq_fire(bundle)
      /\ TermP!enq_fire(bundle) <=> enq_fire(bundle)
      /\ TermP!channel_ready <=> channel_ready
  BY SameBits
     DEF TermP!accepted, accepted, TermP!Writes, Writes, TermP!tx_ready, tx_ready,
         TermP!deq_fire, deq_fire, TermP!deq_ready, deq_ready, TermP!Reads, Reads,
         TermP!rx_valid, rx_valid, TermP!enq_fire, enq_fire, TermP!enq_ready, enq_ready,
         TermP!channel_ready, channel_ready
<1>2. TermP!TxStep /\ TermP!BufferStep(bundle)
  BY <1>1, SameBits DEF UartStep, TermP!TxStep, TxStep, TermP!BufferStep, BufferStep
<1>3. TermP!RxStep(bundle, rxd) /\ TermP!FifoStep(bundle)
  BY <1>1, SameBits
     DEF UartStep, TermP!RxStep, RxStep, TermP!RxSamples, RxSamples, TermP!FifoStep, FifoStep
<1>4. TermP!InterruptStep(bundle)
  BY <1>1, SameBits DEF UartStep, TermP!InterruptStep, InterruptStep, TermP!Writes, Writes
<1> QED
  BY <1>2, <1>3, <1>4 DEF TermP!UartStep

\* Of the same machines of the terminal.
LEMMA SameMachines ==
  ASSUME NEW line, NEW keys, NEW queue
  PROVE  /\ process_tx(line) => TermP!process_tx(line)
         /\ poll_input(keys) => TermP!poll_input(keys)
         /\ get_rx_line(queue) => TermP!get_rx_line(queue)
         /\ ctrl_c_flags(keys) => TermP!ctrl_c_flags(keys)
         /\ count_idle => TermP!count_idle
<1>1. process_tx(line) => TermP!process_tx(line)
  BY SameBits
     DEF process_tx, TermP!process_tx, decoded, TermP!decoded, over, TermP!over,
         enters, TermP!enters, counted, TermP!counted
<1>2. get_rx_line(queue) => TermP!get_rx_line(queue)
  BY DEF get_rx_line, TermP!get_rx_line, over, TermP!over, enters, TermP!enters,
         counted, TermP!counted
<1>3. ctrl_c_flags(keys) => TermP!ctrl_c_flags(keys)
  BY DEF ctrl_c_flags, TermP!ctrl_c_flags, over, TermP!over, Range, TermP!Range
<1> QED
  BY <1>1, <1>2, <1>3 DEF poll_input, TermP!poll_input, count_idle, TermP!count_idle

\* Of the same steps.
LEMMA SameSteps ==
  ASSUME Next
  PROVE  TermP!Next
<1>1. ASSUME NEW bundle, NEW keys, Tick(bundle, keys)
      PROVE  TermP!Tick(bundle, keys)
  <2>1. TermP!txd' = txd'
    BY DEF TermP!txd, txd
  <2> QED
    BY <1>1, <2>1, SameUart, SameMachines DEF Tick, TermP!Tick
<1>2. /\ TermP!Polled = Polled /\ TermP!Zero = Zero
      /\ (uart_getc => TermP!uart_getc) /\ (uart_putc => TermP!uart_putc)
      /\ (busy => TermP!busy)
      /\ \A op, reg, data : TermP!Access(op, reg, data) = Access(op, reg, data)
  BY SameBits
     DEF TermP!Polled, Polled, TermP!uart_getc, uart_getc, TermP!uart_putc, uart_putc,
         TermP!busy, busy, TermP!CanRead, CanRead, TermP!CanWrite, CanWrite,
         TermP!rx_valid, rx_valid, TermP!tx_ready, tx_ready, TermP!Access, Access
<1>3. Getc => TermP!Getc
  BY <1>1, <1>2 DEF Getc, TermP!Getc
<1>4. Putc => TermP!Putc
  BY <1>1, <1>2 DEF Putc, TermP!Putc
<1>5. Busy => TermP!Busy
  BY <1>1, <1>2 DEF Busy, TermP!Busy
<1> QED
  BY <1>3, <1>4, <1>5 DEF Next, TermP!Next

\* And of the same behaviours.
LEMMA SameTerminal == Spec => TermP!Spec
<1>1. Init => TermP!Init
  BY SameBits DEF Init, TermP!Init, UartInit, TermP!UartInit
<1>2. [Next]_vars => [TermP!Next]_(TermP!vars)
  BY SameSteps
     DEF vars, TermP!vars, uart_vars, TermP!uart_vars, terminal_vars, TermP!terminal_vars
<1> QED
  BY <1>1, <1>2, PTL DEF Spec, TermP!Spec

\* The variables of the program that runs have their types, whichever it is: the shell stays
\* in its line and the output buffer in its memory and table, the pool of tiles suffices, and
\* the terminal of the harness counts no further than it has to (shell.c:268-295,
\* tui copy.c:777-1018, tui copy.c:1550-1710, sim.cpp:139-278).
THEOREM TextTypeCorrect == TextSpec => []TextTypeOK
<1>1. TermP!TypeOK => TypeOK
  BY SameBits DEF TermP!TypeOK, TypeOK, TermP!UartTypeOK, UartTypeOK
<1>2. TermP!Spec => []TermP!TypeOK
  BY SameTerminalAssumptions, TermP!TerminalTypeCorrect
<1>3. ShellRuns => (running_program = "shell" => Shell!TypeOK)
  BY ShellTyped DEF ShellRuns
<1>4. ScreenRuns => (running_program = "screen" => Screen!TypeOK)
  BY ScreenTyped DEF ScreenRuns
<1>5. /\ TypeOK
      /\ running_program = "shell" => Shell!TypeOK
      /\ running_program = "output" => Out!TypeOK
      /\ running_program = "screen" => Screen!TypeOK
      => TextTypeOK
  BY DEF TextTypeOK
<1> QED
  BY <1>1, <1>2, <1>3, <1>4, <1>5, TextRunsTerminal, SameTerminal, ShellInvariance,
     OutputTyped, ScreenInvariance, PTL

\* In the composed programs too, a session of no more keys than the UART has room for is
\* answered in order, and nothing of it is lost when the harness leaves (sim.cpp:139-278,
\* sim.cpp:572-596).
THEOREM TextSessionIsFaithful ==
  ASSUME BIT_CNT >= 2, MaxKeys <= FifoEntries + 1
  PROVE  TextSpec => [](TerminalIsFaithful /\ NothingLostAtExit)
<1>1. TermP!RateFits
  BY SameBits DEF TermP!RateFits
<1>2. TermP!Spec => [](TermP!TerminalIsFaithful /\ TermP!NothingLostAtExit)
  BY <1>1, SameTerminalAssumptions, TermP!ShortSessionIsFaithful
<1>3. TermP!TerminalIsFaithful /\ TermP!NothingLostAtExit
      => TerminalIsFaithful /\ NothingLostAtExit
  BY DEF TermP!TerminalIsFaithful, TerminalIsFaithful, TermP!NothingLostAtExit,
         NothingLostAtExit, TermP!IsPrefix, IsPrefix
<1> QED
  BY <1>2, <1>3, TextRunsTerminal, SameTerminal, PTL
=============================================================================
