---------------------------- MODULE TetrisProofs ----------------------------
(***************************************************************************)
(* The theorems of Tetris: for a well of any size that takes the pieces    *)
(* and any choice of two or more of the seven shapes, the falling block    *)
(* never overlaps while the game goes on, the deal is fair, the records    *)
(* of the grid agree, pieces lock whole and full rows go; and for cells    *)
(* and a screen of any size that fit, the display shows the game.          *)
(***************************************************************************)
EXTENDS Tetris, FiniteSetTheorems, FunctionTheorems, SequenceTheorems, TLAPS

\* The shapes are some of the seven, and a block of four cells fits the well.
GameFits ==
  /\ Shapes \subseteq 0 .. 6
  /\ IsFiniteSet(Shapes) /\ Cardinality(Shapes) >= 2
  /\ GRID_WIDTH \in Nat /\ GRID_WIDTH >= 4
  /\ GRID_HEIGHT \in Nat /\ GRID_HEIGHT >= 2
  /\ MaxPieces \in Nat

\* The bag as tetris_shape.c keeps it: no shape twice.
Distinct(b) == b \in Seq(Shapes) /\ \A i, j \in 1 .. Len(b) : b[i] = b[j] => i = j
\* The bag holds a shape.
holds(b, s) == \E i \in 1 .. Len(b) : b[i] = s

\* The shapes of the bag have been dealt once less than the others.
Fair(b, d) ==
  /\ Distinct(b)
  /\ d \in [Shapes -> Nat]
  /\ \E k \in Nat : \A s \in Shapes : d[s] = IF holds(b, s) THEN k ELSE k + 1

-----------------------------------------------------------------------------
(***************************************************************************)
(* The deal.                                                               *)
(***************************************************************************)
\* A shuffle holds every shape once: an injection of the places of the bag to the
\* shapes reaches all of them (tetris_shape.c:102-118).
LEMMA ShuffleHoldsAll ==
  ASSUME GameFits, NEW b \in shuffled_bags
  PROVE  /\ Distinct(b)
         /\ Len(b) = Cardinality(Shapes)
         /\ \A s \in Shapes : holds(b, s)
<1> DEFINE n == Cardinality(Shapes)
<1>1. n \in Nat
  BY FS_CardinalityType DEF GameFits
<1>2. b \in [1 .. n -> Shapes] /\ \A i, j \in 1 .. n : b[i] = b[j] => i = j
  BY DEF shuffled_bags
<1>3. b \in Seq(Shapes) /\ Len(b) = n
  BY <1>1, <1>2
<1>4. b \in Injection(1 .. n, Shapes)
  BY <1>2, Fun_IsInj
<1>5. Cardinality(1 .. n) = n
  BY <1>1, FS_Interval
<1>6. b \in Surjection(1 .. n, Shapes)
  BY <1>4, <1>5, FS_Injection DEF GameFits
<1>7. \A s \in Shapes : \E i \in 1 .. n : b[i] = s
  BY <1>6 DEF Surjection
<1> QED
  BY <1>2, <1>3, <1>7 DEF Distinct, holds

\* What is left of a bag after its first shape: the others.
LEMMA TailHolds ==
  ASSUME NEW b, Distinct(b), b # << >>
  PROVE  /\ Distinct(Tail(b)) /\ Head(b) \in Shapes
         /\ \A s \in Shapes : holds(Tail(b), s) <=> holds(b, s) /\ s # Head(b)
<1>0. b \in Seq(Shapes) /\ Len(b) \in Nat /\ Len(b) >= 1 /\ Head(b) = b[1]
  BY EmptySeq DEF Distinct
<1>1. /\ Tail(b) \in Seq(Shapes) /\ Len(Tail(b)) = Len(b) - 1 /\ Head(b) \in Shapes
      /\ \A i \in 1 .. Len(Tail(b)) : Tail(b)[i] = b[i + 1]
  BY <1>0, HeadTailProperties
<1>2. Distinct(Tail(b))
  BY <1>0, <1>1 DEF Distinct
<1>3. ASSUME NEW s \in Shapes, holds(Tail(b), s)
      PROVE  holds(b, s) /\ s # Head(b)
  <2>1. PICK i \in 1 .. Len(Tail(b)) : Tail(b)[i] = s
    BY <1>3 DEF holds
  <2>2. i + 1 \in 1 .. Len(b) /\ b[i + 1] = s /\ i + 1 # 1
    BY <1>0, <1>1, <2>1
  <2> QED
    BY <1>0, <2>2 DEF holds, Distinct
<1>4. ASSUME NEW s \in Shapes, holds(b, s), s # Head(b)
      PROVE  holds(Tail(b), s)
  <2>1. PICK i \in 1 .. Len(b) : b[i] = s
    BY <1>4 DEF holds
  <2>2. i # 1
    BY <1>0, <1>4, <2>1
  <2>3. i - 1 \in 1 .. Len(Tail(b)) /\ Tail(b)[i - 1] = s
    BY <1>0, <1>1, <2>1, <2>2
  <2> QED
    BY <2>3 DEF holds
<1> QED
  BY <1>1, <1>2, <1>3, <1>4

\* A sequence that has a first element is not empty.
LEMMA NotEmpty ==
  ASSUME NEW t, Len(t) >= 1
  PROVE  t # << >>
<1>1. Len(<< >>) = 0
  OBVIOUS
<1> QED
  BY <1>1

\* Dealing the first shape of a fair bag leaves a fair bag.
LEMMA DealKeepsFair ==
  ASSUME NEW b, NEW d, Fair(b, d), b # << >>
  PROVE  Fair(Tail(b), [d EXCEPT ![Head(b)] = @ + 1])
<1> DEFINE e == [d EXCEPT ![Head(b)] = @ + 1]
<1>1. /\ Distinct(Tail(b)) /\ Head(b) \in Shapes
      /\ \A s \in Shapes : holds(Tail(b), s) <=> holds(b, s) /\ s # Head(b)
  BY TailHolds DEF Fair
<1>2. holds(b, Head(b))
  BY EmptySeq DEF Fair, Distinct, holds
<1>3. PICK k \in Nat : \A s \in Shapes : d[s] = IF holds(b, s) THEN k ELSE k + 1
  BY DEF Fair
<1>4. e \in [Shapes -> Nat]
  BY <1>1 DEF Fair
<1>5. \A s \in Shapes : e[s] = IF holds(Tail(b), s) THEN k ELSE k + 1
  BY <1>1, <1>2, <1>3 DEF Fair
<1> HIDE DEF e
<1>6. \E j \in Nat : \A s \in Shapes : e[s] = IF holds(Tail(b), s) THEN j ELSE j + 1
  BY <1>5
<1>7. Fair(Tail(b), e)
  BY <1>1, <1>4, <1>6 DEF Fair
<1> QED
  BY <1>7 DEF e

\* A shuffle of an empty bag keeps the deal fair: everything has been dealt equally often.
LEMMA RefillKeepsFair ==
  ASSUME GameFits, NEW b, NEW d, Fair(b, d), NEW full \in bags_to_deal(b)
  PROVE  Fair(full, d) /\ full # << >>
<1>1. CASE b = << >>
  <2>1. full \in shuffled_bags
    BY <1>1 DEF bags_to_deal
  <2>2. Distinct(full) /\ Len(full) >= 2 /\ \A s \in Shapes : holds(full, s)
    BY <2>1, ShuffleHoldsAll DEF GameFits
  <2>3. \A s \in Shapes : ~holds(b, s)
    BY <1>1 DEF holds
  <2>4. PICK k \in Nat : \A s \in Shapes : d[s] = k + 1
    BY <2>3 DEF Fair
  <2>5. k + 1 \in Nat /\ \A s \in Shapes : d[s] = IF holds(full, s) THEN k + 1 ELSE k + 2
    BY <2>2, <2>4
  <2>6. full # << >>
    BY <2>2
  <2>7. \E j \in Nat : \A s \in Shapes : d[s] = IF holds(full, s) THEN j ELSE j + 1
    BY <2>2, <2>5
  <2> QED
    BY <2>2, <2>6, <2>7 DEF Fair
<1>2. CASE b # << >>
  BY <1>2 DEF bags_to_deal
<1> QED
  BY <1>1, <1>2

\* The first two pieces come from one shuffle.
LEMMA FirstDealIsFair ==
  ASSUME GameFits, NEW b \in shuffled_bags
  PROVE  Fair(Tail(Tail(b)), [s \in Shapes |-> IF s \in {b[1], b[2]} THEN 1 ELSE 0])
<1> DEFINE d == [s \in Shapes |-> 0]
           d1 == [d EXCEPT ![Head(b)] = @ + 1]
           d2 == [d1 EXCEPT ![Head(Tail(b))] = @ + 1]
<1>1. Distinct(b) /\ Len(b) >= 2 /\ \A s \in Shapes : holds(b, s)
  BY ShuffleHoldsAll DEF GameFits
<1>2. /\ b # << >> /\ Tail(b) # << >>
      /\ Head(b) = b[1] /\ Head(Tail(b)) = b[2]
      /\ b[1] # b[2] /\ b[1] \in Shapes /\ b[2] \in Shapes
  <2>1. b \in Seq(Shapes) /\ Len(b) \in Nat /\ b # << >>
    BY <1>1 DEF Distinct
  <2>2. /\ Tail(b) \in Seq(Shapes) /\ Len(Tail(b)) = Len(b) - 1
        /\ \A i \in 1 .. Len(Tail(b)) : Tail(b)[i] = b[i + 1]
    BY <2>1, HeadTailProperties
  <2> HIDE DEF d, d1, d2
  <2>3. Tail(b) # << >> /\ Tail(b)[1] = b[2]
    <3>1. Len(Tail(b)) >= 1 /\ 1 \in 1 .. Len(Tail(b))
      BY <1>1, <2>1, <2>2
    <3>2. Tail(b) # << >>
      BY <3>1, NotEmpty, Zenon
    <3> QED
      BY <2>2, <3>1, <3>2
  <2>4. b[1] # b[2]
    BY <1>1, <2>1 DEF Distinct
  <2> QED
    BY <1>1, <2>1, <2>2, <2>3, <2>4
<1>3. Fair(b, d)
  <2>1. d \in [Shapes -> Nat] /\ \A s \in Shapes : d[s] = IF holds(b, s) THEN 0 ELSE 0 + 1
    BY <1>1
  <2> HIDE DEF d
  <2> QED
    BY <1>1, <2>1 DEF Fair
<1>4. Fair(Tail(b), d1)
  BY <1>2, <1>3, DealKeepsFair
<1>5. Fair(Tail(Tail(b)), d2)
  BY <1>2, <1>4, DealKeepsFair
<1>6. d2 = [s \in Shapes |-> IF s \in {b[1], b[2]} THEN 1 ELSE 0]
  BY <1>2
<1> QED
  BY <1>5, <1>6

-----------------------------------------------------------------------------
(***************************************************************************)
(* The grid.                                                               *)
(***************************************************************************)
\* The sets a height is the largest element of.
Heights(n) == SUBSET (-1 .. n)

\* A set of numbers with a bound has a largest one.
LEMMA MaxIs ==
  ASSUME NEW n \in Nat, NEW S \in Heights(n), S # {}
  PROVE  Max(S) \in S /\ \A y \in S : y <= Max(S)
<1> DEFINE T == { n - y : y \in S }
<1>1. T \in SUBSET Nat /\ T # {}
  <2>1. \A y \in S : y \in Int /\ y <= n
    BY DEF Heights
  <2>2. \A y \in S : n - y \in Nat
    BY <2>1
  <2> QED
    BY <2>2
<1> DEFINE less == OpToRel(<, Nat)
<1>2. IsWellFoundedOn(less, Nat)
  BY NatLessThanWellFounded
<1>3. \A k, m \in Nat : <<k, m>> \notin less => m <= k
  BY DEF OpToRel
<1> HIDE DEF less, T
<1>4. PICK m \in T : \A k \in T : <<k, m>> \notin less
  BY <1>1, <1>2, WFMin, Zenon
<1>5. \A k \in T : m <= k
  BY <1>1, <1>3, <1>4
<1>6. \A y \in S : y \in Int /\ y <= n
  BY DEF Heights
<1>7. \E x \in S : \A y \in S : x >= y
  BY <1>5, <1>6 DEF T
<1> QED
  BY <1>7 DEF Max

\* The largest element of a union with a set given by its own largest element.
LEMMA MaxOfUnion ==
  ASSUME NEW n \in Nat, NEW S \in Heights(n), NEW T \in Heights(n), T # {},
         NEW m, m = Max(T)
  PROVE  Max(S \cup {m}) = Max(S \cup T)
<1>1. m \in T /\ \A y \in T : y <= m
  BY MaxIs
<1>2. /\ Max(S \cup {m}) \in S \cup {m}
      /\ \A y \in S \cup {m} : y <= Max(S \cup {m})
  <2>1. S \cup {m} \in Heights(n) /\ S \cup {m} # {}
    BY <1>1 DEF Heights
  <2> QED
    BY <2>1, MaxIs
<1>3. Max(S \cup T) \in S \cup T /\ \A y \in S \cup T : y <= Max(S \cup T)
  <2>1. S \cup T \in Heights(n) /\ S \cup T # {}
    BY DEF Heights
  <2> QED
    BY <2>1, MaxIs
<1> DEFINE a == Max(S \cup {m})
           b == Max(S \cup T)
<1>4. a \in -1 .. n /\ b \in -1 .. n /\ m \in -1 .. n
  BY <1>1, <1>2, <1>3 DEF Heights
<1>5. a <= b
  BY <1>1, <1>2, <1>3, <1>4
<1>6. b <= a
  BY <1>1, <1>2, <1>3, <1>4
<1> QED
  BY <1>4, <1>5, <1>6

\* The three records of the grid agree: relief, rows and colours.
Agree(g) ==
  /\ g.relief = recalc_relief(g)
  /\ \A y \in Rows, x \in Cols : (x \in g.rows[y]) <=> g.colors[y][x] # BLACK

\* The relief that is read off the rows is in its range.
LEMMA ReliefTyped ==
  ASSUME GameFits, NEW g, g.rows \in [Rows -> SUBSET Cols]
  PROVE  recalc_relief(g) \in [Cols -> -1 .. GRID_HEIGHT - 1]
<1>1. ASSUME NEW x \in Cols
      PROVE  Max({-1} \cup { y \in Rows : x \in g.rows[y] }) \in -1 .. GRID_HEIGHT - 1
  <2> DEFINE S == {-1} \cup { y \in Rows : x \in g.rows[y] }
  <2>1. S \in Heights(GRID_HEIGHT - 1) /\ S # {} /\ GRID_HEIGHT - 1 \in Nat
    BY DEF Rows, GameFits, Heights
  <2> HIDE DEF S
  <2>2. Max(S) \in S
    BY <2>1, MaxIs
  <2> QED
    BY <2>1, <2>2 DEF S, Heights
<1> QED
  BY <1>1 DEF recalc_relief

\* An empty grid.
LEMMA EmptyGrid ==
  ASSUME GameFits
  PROVE  grid_init \in Grid /\ Agree(grid_init) /\ \A y \in Rows : ~grid_row_full(grid_init, y)
<1>1. grid_init \in Grid
  BY DEF GameFits, grid_init, Grid, BLACK, GRAY
<1>2. 0 \in Cols
  BY DEF Cols, GameFits
<1>3. \A y \in Rows : ~grid_row_full(grid_init, y)
  BY <1>2 DEF grid_row_full, grid_init
<1>4. recalc_relief(grid_init) = [x \in Cols |-> -1]
  <2>1. ASSUME NEW x \in Cols
        PROVE  Max({-1} \cup { y \in Rows : x \in grid_init.rows[y] }) = -1
    <3>1. {-1} \cup { y \in Rows : x \in grid_init.rows[y] } = {-1}
      BY DEF grid_init
    <3>2. {-1} \in Heights(0) /\ {-1} # {}
      BY DEF Heights
    <3>3. Max({-1}) \in {-1}
      BY <3>2, MaxIs
    <3> QED
      BY <3>1, <3>3
  <2> QED
    BY <2>1 DEF recalc_relief
<1> QED
  BY <1>1, <1>3, <1>4 DEF Agree, grid_init

\* Every rotation of the seven shapes lies in a square of four cells and touches its
\* bottom (tetris_shape.c:4-53).
LEMMA ShapeTable ==
  ASSUME NEW s \in 0 .. 6, NEW r \in 0 .. 3
  PROVE  /\ \A d \in shape_get_cells(s, r) : d[1] \in 0 .. 3 /\ d[2] \in 0 .. 3
                                              /\ d = <<d[1], d[2]>>
         /\ \E d \in shape_get_cells(s, r) : d[2] = 0
<1> DEFINE C == SHAPES[s + 1][r + 1]
<1>1. shape_get_cells(s, r) = C
  BY DEF shape_get_cells
<1>2. s + 1 \in {1, 2, 3, 4, 5, 6, 7} /\ r + 1 \in {1, 2, 3, 4}
  OBVIOUS
<1>3. ASSUME NEW t \in {1, 2, 3, 4, 5, 6, 7}, NEW q \in {1, 2, 3, 4}
      PROVE  /\ \A d \in SHAPES[t][q] : d[1] \in 0 .. 3 /\ d[2] \in 0 .. 3
                                         /\ d = <<d[1], d[2]>>
             /\ <<0, 0>> \in SHAPES[t][q] \/ <<1, 0>> \in SHAPES[t][q]
                \/ <<2, 0>> \in SHAPES[t][q]
  <2>1. CASE t = 1
    BY <2>1 DEF SHAPES
  <2>2. CASE t = 2
    BY <2>2 DEF SHAPES
  <2>3. CASE t = 3
    BY <2>3 DEF SHAPES
  <2>4. CASE t = 4
    BY <2>4 DEF SHAPES
  <2>5. CASE t = 5
    BY <2>5 DEF SHAPES
  <2>6. CASE t = 6
    BY <2>6 DEF SHAPES
  <2>7. CASE t = 7
    BY <2>7 DEF SHAPES
  <2> QED
    BY <2>1, <2>2, <2>3, <2>4, <2>5, <2>6, <2>7
<1> HIDE DEF C
<1>4. <<0, 0>>[2] = 0 /\ <<1, 0>>[2] = 0 /\ <<2, 0>>[2] = 0
  OBVIOUS
<1> QED
  BY <1>1, <1>2, <1>3, <1>4 DEF C

\* The cells of a block, one by one.
LEMMA CellsOf ==
  ASSUME GameFits, NEW b, b.shape \in Shapes, b.rot \in 0 .. 3, b.x \in Int, b.y \in Int
  PROVE  /\ \A c \in cells(b) : c[1] \in b.x .. b.x + 3 /\ c[2] \in b.y .. b.y + 3
                                /\ c = <<c[1], c[2]>>
         /\ \E c \in cells(b) : c[2] = b.y
<1> DEFINE C == shape_get_cells(b.shape, b.rot)
<1>1. b.shape \in 0 .. 6 /\ b.rot \in 0 .. 3
  BY DEF GameFits
<1>2. /\ \A d \in C : d[1] \in 0 .. 3 /\ d[2] \in 0 .. 3
      /\ \E d \in C : d[2] = 0
  BY <1>1, ShapeTable
<1> HIDE DEF C
<1>3. \A d \in C : d[1] \in Int /\ d[2] \in Int
  BY <1>2
<1>4. cells(b) = { <<b.x + d[1], b.y + d[2]>> : d \in C }
  BY DEF cells, C
<1>5. PICK d \in C : d[2] = 0
  BY <1>2
<1>6. <<b.x + d[1], b.y + d[2]>> \in cells(b)
  BY <1>4
<1>7. \A c \in cells(b) : c[1] \in b.x .. b.x + 3 /\ c[2] \in b.y .. b.y + 3
                                /\ c = <<c[1], c[2]>>
  BY <1>2, <1>3, <1>4
<1> QED
  BY <1>5, <1>6, <1>7

\* A block as grid_block_spawn makes it and the moves leave it: it has the colour of
\* its shape, and it is not above the grid.
Placed(b) == b \in Block /\ b.color = COLOR(b.shape) /\ b.y < GRID_HEIGHT

\* No shape is black (tetris_shape.c:68-70).
LEMMA ShapeColor ==
  ASSUME GameFits, NEW s \in Shapes
  PROVE  COLOR(s) \in CYAN .. GRAY /\ COLOR(s) # BLACK
BY DEF GameFits, COLOR, SHAPE_COLORS, CYAN, GRAY, BLACK, YELLOW, PURPLE, BLUE, ORANGE, GREEN, RED

\* Adding a block keeps the records in agreement, also when a part of it sticks out of
\* the top: grid_set_cell writes all three or none (tetris_grid.c:64-76, 248-275).
LEMMA AddKeepsRecords ==
  ASSUME GameFits, NEW g \in Grid, Agree(g), NEW b, Placed(b)
  PROVE  grid_block_add(g, b) \in Grid /\ Agree(grid_block_add(g, b))
<1> DEFINE new == { c \in cells(b) : on_grid(c) }
           column(x) == { c[2] : c \in { d \in new : d[1] = x } }
           rows == [y \in Rows |-> g.rows[y] \cup { x \in Cols : <<x, y>> \in new }]
           colors == [y \in Rows |-> [x \in Cols |->
                        IF <<x, y>> \in new THEN b.color ELSE g.colors[y][x]]]
           relief == [x \in Cols |-> Max(column(x) \cup {g.relief[x]})]
           h == grid_block_add(g, b)
<1>1. h = [g EXCEPT !.rows = rows, !.colors = colors, !.relief = relief]
  BY DEF grid_block_add
<1>2. b.color \in BLACK .. GRAY /\ b.color # BLACK
  BY ShapeColor DEF Placed, Block, CYAN, BLACK, GRAY
<1>3. \A c \in new : c[1] \in Cols /\ c[2] \in Rows /\ c = <<c[1], c[2]>>
  <2>1. \A c \in cells(b) : c = <<c[1], c[2]>>
    BY CellsOf DEF Placed, Block
  <2> QED
    BY <2>1 DEF on_grid
<1> HIDE DEF new, h
<1>4. rows \in [Rows -> SUBSET Cols]
  BY DEF Grid
<1>5. colors \in [Rows -> [Cols -> BLACK .. GRAY]]
  BY <1>2 DEF Grid
<1>6. \A y \in Rows, x \in Cols : (x \in rows[y]) <=> colors[y][x] # BLACK
  BY <1>2, <1>4, <1>5 DEF Agree, Grid
<1>7. ASSUME NEW x \in Cols
      PROVE  relief[x] = Max({-1} \cup { y \in Rows : x \in rows[y] })
  <2> DEFINE T == {-1} \cup { y \in Rows : x \in g.rows[y] }
  <2>1. g.relief[x] = Max(T)
    <3>1. g.relief = recalc_relief(g)
      BY DEF Agree
    <3>2. recalc_relief(g)[x] = Max(T)
      BY DEF recalc_relief
    <3> QED
      BY <3>1, <3>2, Zenon
  <2>2. column(x) = { y \in Rows : <<x, y>> \in new }
    <3>1. \A c \in new : c[1] = x => c[2] \in Rows /\ <<x, c[2]>> \in new
      BY <1>3
    <3>2. \A y : <<x, y>> \in new => y \in column(x)
      <4> TAKE y
      <4> HAVE <<x, y>> \in new
      <4>1. <<x, y>> \in { d \in new : d[1] = x } /\ <<x, y>>[2] = y
        OBVIOUS
      <4> QED
        BY <4>1
    <3> QED
      BY <3>1, <3>2
  <2> DEFINE S == { y \in Rows : <<x, y>> \in new }
  <2>3. /\ T \in Heights(GRID_HEIGHT - 1) /\ T # {} /\ GRID_HEIGHT - 1 \in Nat
        /\ S \in Heights(GRID_HEIGHT - 1)
    <3>1. Rows \subseteq -1 .. GRID_HEIGHT - 1 /\ -1 \in -1 .. GRID_HEIGHT - 1
          /\ GRID_HEIGHT - 1 \in Nat
      BY DEF Rows, GameFits
    <3> QED
      BY <3>1 DEF Heights
  <2>4. S \cup T = {-1} \cup { y \in Rows : x \in rows[y] }
    OBVIOUS
  <2>5. relief[x] = Max(S \cup {g.relief[x]})
    <3>1. relief[x] = Max(column(x) \cup {g.relief[x]})
      OBVIOUS
    <3> HIDE DEF T, relief, column
    <3> QED
      BY <2>2, <3>1
  <2> HIDE DEF S, T, relief, column, rows
  <2>6. Max(S \cup {g.relief[x]}) = Max(S \cup T)
    <3> DEFINE n == GRID_HEIGHT - 1
               m == g.relief[x]
    <3>1. n \in Nat /\ S \in Heights(n) /\ T \in Heights(n) /\ T # {} /\ m = Max(T)
      BY <2>1, <2>3
    <3> HIDE DEF n, m
    <3>2. Max(S \cup {m}) = Max(S \cup T)
      BY <3>1, MaxOfUnion
    <3> QED
      BY <3>2 DEF m
  <2> QED
    BY <2>4, <2>5, <2>6
<1> HIDE DEF rows, colors, relief
<1>8. h = [rows |-> rows, colors |-> colors, relief |-> relief, lines_cleared |-> g.lines_cleared]
  BY <1>1 DEF Grid
<1>9. relief = recalc_relief(h)
  <2>1. relief = [x \in Cols |-> relief[x]]
    BY DEF relief
  <2> QED
    BY <1>7, <1>8, <2>1 DEF recalc_relief
<1>10. relief \in [Cols -> -1 .. GRID_HEIGHT - 1]
  BY <1>4, <1>8, <1>9, ReliefTyped
<1>11. h \in Grid
  BY <1>4, <1>5, <1>8, <1>10 DEF Grid
<1>12. Agree(h)
  BY <1>6, <1>8, <1>9 DEF Agree
<1> QED
  BY <1>11, <1>12 DEF h

-----------------------------------------------------------------------------
(***************************************************************************)
(* Clearing lines.                                                         *)
(***************************************************************************)
\* The rows that are kept come down to the lowest places, one to each.
LEMMA CameDown ==
  ASSUME GameFits, NEW kept \in SUBSET Rows
  PROVE  /\ IsFiniteSet(kept) /\ Cardinality(kept) \in 0 .. GRID_HEIGHT
         /\ \A y \in Nat : \A r, q \in came_down_to(y, kept) : r = q
         /\ \A y \in Nat : came_down_to(y, kept) # {} <=> y < Cardinality(kept)
         /\ \A r \in kept : Cardinality({ q \in kept : q < r }) \in Rows
<1> DEFINE n == Cardinality(kept)
           below(r) == { q \in kept : q < r }
           rank == [r \in kept |-> Cardinality(below(r))]
<1>1. IsFiniteSet(Rows) /\ Cardinality(Rows) = GRID_HEIGHT /\ GRID_HEIGHT \in Nat
  BY FS_Interval DEF Rows, GameFits
<1>2. IsFiniteSet(kept) /\ n \in 0 .. GRID_HEIGHT
  BY <1>1, FS_Subset, FS_CardinalityType
<1>3. \A r \in kept : r \in Int
  BY DEF Rows, GameFits
<1>4. ASSUME NEW r \in kept
      PROVE  IsFiniteSet(below(r)) /\ Cardinality(below(r)) \in 0 .. n - 1
  <2>1. below(r) \in SUBSET (kept \ {r})
    BY <1>3
  <2>2. IsFiniteSet(kept \ {r}) /\ Cardinality(kept \ {r}) = n - 1
    BY <1>2, FS_RemoveElement
  <2> HIDE DEF below
  <2>3. IsFiniteSet(below(r)) /\ Cardinality(below(r)) <= n - 1
    BY <2>1, <2>2, FS_Subset
  <2>4. Cardinality(below(r)) \in Nat
    BY <2>3, FS_CardinalityType
  <2> QED
    BY <1>2, <2>3, <2>4
<1>5. ASSUME NEW r \in kept, NEW q \in kept, r < q
      PROVE  Cardinality(below(r)) < Cardinality(below(q))
  <2>1. below(r) \cup {r} \in SUBSET below(q) /\ r \notin below(r)
    BY <1>3, <1>5
  <2> HIDE DEF below
  <2>2. Cardinality(below(r) \cup {r}) = Cardinality(below(r)) + 1
    BY <1>4, <2>1, FS_AddElement
  <2>3. Cardinality(below(r) \cup {r}) <= Cardinality(below(q))
    BY <1>4, <2>1, FS_Subset
  <2> QED
    BY <1>4, <2>2, <2>3
<1> HIDE DEF below
<1>6. \A r, q \in kept : Cardinality(below(r)) = Cardinality(below(q)) => r = q
  BY <1>3, <1>4, <1>5
<1>7. rank \in Injection(kept, 0 .. n - 1)
  <2>1. rank \in [kept -> 0 .. n - 1]
    BY <1>4
  <2>2. \A r, q \in kept : rank[r] = rank[q] => r = q
    BY <1>6
  <2> HIDE DEF rank
  <2> QED
    BY <2>1, <2>2, Fun_IsInj
<1>8. \A y \in 0 .. n - 1 : \E r \in kept : Cardinality(below(r)) = y
  <2>1. IsFiniteSet(0 .. n - 1) /\ Cardinality(0 .. n - 1) = n
    BY <1>2, FS_Interval, SMTT(30)
  <2> HIDE DEF rank
  <2>2. rank \in Surjection(kept, 0 .. n - 1)
    BY <1>7, <2>1, FS_Injection
  <2>3. \A y \in 0 .. n - 1 : \E r \in kept : rank[r] = y
    BY <2>2 DEF Surjection
  <2> QED
    BY <2>3 DEF rank
<1>9. \A y : came_down_to(y, kept) = { r \in kept : Cardinality(below(r)) = y }
  BY DEF came_down_to, below
<1>10. \A y \in Nat : came_down_to(y, kept) # {} <=> y < n
  <2> TAKE y \in Nat
  <2>1. ASSUME y < n
        PROVE  came_down_to(y, kept) # {}
    <3>1. y \in 0 .. n - 1
      BY <1>2, <2>1
    <3> QED
      BY <1>8, <1>9, <3>1
  <2>2. ASSUME came_down_to(y, kept) # {}
        PROVE  y < n
    BY <1>2, <1>4, <1>9, <2>2
  <2> QED
    BY <2>1, <2>2
<1>11. \A r \in kept : Cardinality(below(r)) \in Rows
  BY <1>1, <1>2, <1>4 DEF Rows
<1>12. \A y \in Nat : \A r, q \in came_down_to(y, kept) : r = q
  BY <1>6, <1>9
<1>13. \A r \in kept : Cardinality({ q \in kept : q < r }) \in Rows
  BY <1>11 DEF below
<1> QED
  BY <1>2, <1>10, <1>12, <1>13

\* The row that comes down to y.
row_from(y, kept) == CHOOSE r \in came_down_to(y, kept) : TRUE

\* What clearing leaves of the rows and of the colours.
LEMMA RowsMovedDown ==
  ASSUME GameFits, NEW kept \in SUBSET Rows, NEW field, NEW empty, NEW y \in Rows
  PROVE  \/ /\ y >= Cardinality(kept)
            /\ moved_down(field, kept, empty)[y] = empty
         \/ /\ y < Cardinality(kept)
            /\ row_from(y, kept) \in kept
            /\ moved_down(field, kept, empty)[y] = field[row_from(y, kept)]
<1>1. y \in Nat /\ Cardinality(kept) \in Nat
  BY CameDown DEF Rows, GameFits
<1>2. came_down_to(y, kept) # {} <=> y < Cardinality(kept)
  BY <1>1, CameDown
<1>3. CASE came_down_to(y, kept) = {}
  BY <1>1, <1>2, <1>3 DEF moved_down
<1>4. CASE came_down_to(y, kept) # {}
  <2>1. row_from(y, kept) \in came_down_to(y, kept)
    BY <1>4 DEF row_from
  <2>2. row_from(y, kept) \in kept
    BY <2>1 DEF came_down_to
  <2>3. moved_down(field, kept, empty)[y] = field[row_from(y, kept)]
    BY <1>4 DEF moved_down, row_from
  <2> QED
    BY <1>2, <1>4, <2>2, <2>3
<1> QED
  BY <1>3, <1>4

\* A set of numbers that has 0, and with each number the next one, has all up to m.
LEMMA UpTo ==
  ASSUME NEW m \in Nat, NEW S, 0 \in S, \A n \in 1 .. m : n - 1 \in S => n \in S
  PROVE  \A n \in 0 .. m : n \in S
<1> DEFINE T == (0 .. m) \ S
           less == OpToRel(<, Nat)
<1> SUFFICES ASSUME T # {}
             PROVE  FALSE
  OBVIOUS
<1>1. IsWellFoundedOn(less, Nat)
  BY NatLessThanWellFounded
<1>2. \A k, n \in Nat : <<k, n>> \notin less => n <= k
  BY DEF OpToRel
<1>3. T \in SUBSET Nat
  OBVIOUS
<1> HIDE DEF less, T
<1>4. PICK n \in T : \A k \in T : <<k, n>> \notin less
  BY <1>1, <1>3, WFMin, Zenon
<1>5. \A k \in T : n <= k
  BY <1>2, <1>3, <1>4
<1>6. n \in 0 .. m /\ n \notin S /\ n # 0
  BY <1>4 DEF T
<1>7. n - 1 \in 0 .. m /\ n - 1 \notin T
  BY <1>5, <1>6
<1> QED
  BY <1>6, <1>7 DEF T

\* The states f of the loop of grid_clear_lines after each of k rounds.
Rounds(f, start, k) ==
  f = [n \in 0 .. k |-> IF n = 0 THEN start ELSE clear_round(f[n - 1])]

\* The loop has a state after each of its rounds.
LEMMA RoundsExist ==
  ASSUME NEW a, NEW m \in Nat
  PROVE  \E f : Rounds(f, a, m)
<1> DEFINE S == { k \in 0 .. m : \E f : Rounds(f, a, k) }
<1>1. 0 \in S
  <2> DEFINE h == [n \in 0 .. 0 |-> a]
  <2>1. \A n \in 0 .. 0 : n = 0
    OBVIOUS
  <2>2. Rounds(h, a, 0)
    BY <2>1 DEF Rounds
  <2> HIDE DEF h
  <2> QED
    BY <2>2
<1>2. ASSUME NEW k \in 1 .. m, k - 1 \in S
      PROVE  k \in S
  <2>1. PICK f : Rounds(f, a, k - 1)
    BY <1>2
  <2> DEFINE h == [n \in 0 .. k |-> IF n = k THEN clear_round(f[k - 1]) ELSE f[n]]
  <2>2. ASSUME NEW n \in 0 .. k
        PROVE  h[n] = IF n = 0 THEN a ELSE clear_round(h[n - 1])
    <3>1. CASE n = k
      <4>1. h[n - 1] = f[k - 1] /\ n # 0
        BY <3>1
      <4> QED
        BY <3>1, <4>1
    <3>2. CASE n # k
      <4>1. n \in 0 .. k - 1 /\ h[n] = f[n]
        BY <3>2
      <4>2. f[n] = IF n = 0 THEN a ELSE clear_round(f[n - 1])
        BY <2>1, <4>1 DEF Rounds
      <4>3. n # 0 => h[n - 1] = f[n - 1]
        BY <4>1
      <4> HIDE DEF h
      <4> QED
        BY <4>1, <4>2, <4>3
    <3> QED
      BY <3>1, <3>2
  <2>3. h = [n \in 0 .. k |-> h[n]]
    OBVIOUS
  <2> HIDE DEF h
  <2>4. Rounds(h, a, k)
    BY <2>2, <2>3 DEF Rounds
  <2> QED
    BY <2>4
<1> HIDE DEF S
<1>3. m \in S
  BY <1>1, <1>2, UpTo
<1> QED
  BY <1>3 DEF S

\* The loop of grid_clear_lines, round by round.
LEMMA LoopRounds ==
  ASSUME NEW g, GRID_HEIGHT \in Nat
  PROVE  \E f : /\ clear_loop(g) = f[2 * GRID_HEIGHT]
                /\ f[0] = [grid |-> g, y |-> 0, cleared |-> 0]
                /\ \A n \in 1 .. 2 * GRID_HEIGHT : f[n] = clear_round(f[n - 1])
<1> DEFINE a == [grid |-> g, y |-> 0, cleared |-> 0]
           m == 2 * GRID_HEIGHT
           f == CHOOSE h : Rounds(h, a, m)
<1>1. clear_loop(g) = f[m]
  BY DEF clear_loop, Rounds
<1> HIDE DEF a
<1>2. m \in Nat
  OBVIOUS
<1> HIDE DEF m
<1>3. Rounds(f, a, m)
  <2>1. \E h : Rounds(h, a, m)
    BY <1>2, RoundsExist
  <2> QED
    BY <2>1, Zenon
<1> HIDE DEF f
<1>4. f[0] = a /\ \A n \in 1 .. m : f[n] = clear_round(f[n - 1])
  BY <1>2, <1>3 DEF Rounds
<1> QED
  BY <1>1, <1>4 DEF a, m

\* A field of the grid when the loop is at row y and has removed c rows: below y the kept
\* rows have come down to their places, from y on everything is c rows lower.
Fallen(field, of, y, c, kept, empty) ==
  /\ field = [r \in Rows |-> field[r]]
  /\ \A r \in Rows :
       /\ r < y => field[r] = moved_down(of, kept, empty)[r]
       /\ r >= y /\ r + c < GRID_HEIGHT => field[r] = of[r + c]
       /\ r >= y /\ r + c >= GRID_HEIGHT => field[r] = empty

\* Removing the row at which the loop is.
LEMMA RemoveFallen ==
  ASSUME GameFits, NEW field, NEW of, NEW kept, NEW empty, NEW y \in Rows, NEW c \in Nat,
         Fallen(field, of, y, c, kept, empty)
  PROVE  Fallen(shifted_down(field, y, empty), of, y, c + 1, kept, empty)
<1> DEFINE new == shifted_down(field, y, empty)
<1>1. new = [r \in Rows |-> new[r]]
  BY DEF shifted_down
<1>2. ASSUME NEW r \in Rows
      PROVE  /\ r < y => new[r] = moved_down(of, kept, empty)[r]
             /\ r >= y /\ r + (c + 1) < GRID_HEIGHT => new[r] = of[r + (c + 1)]
             /\ r >= y /\ r + (c + 1) >= GRID_HEIGHT => new[r] = empty
  <2>1. r \in Int /\ y \in Int /\ r < GRID_HEIGHT /\ GRID_HEIGHT \in Nat
    BY DEF Rows, GameFits
  <2>2. CASE r < y
    <3>1. new[r] = field[r]
      BY <2>2 DEF shifted_down
    <3> HIDE DEF new
    <3> QED
      BY <2>1, <2>2, <3>1 DEF Fallen
  <2>3. CASE r >= y /\ r = GRID_HEIGHT - 1
    <3>1. new[r] = empty
      BY <2>1, <2>3 DEF shifted_down
    <3> HIDE DEF new
    <3> QED
      BY <2>1, <2>3, <3>1
  <2>4. CASE r >= y /\ r # GRID_HEIGHT - 1
    <3>1. new[r] = field[r + 1]
      BY <2>1, <2>4 DEF shifted_down
    <3>2. r + 1 \in Rows /\ (r + 1) + c = r + (c + 1) /\ r + 1 >= y
      BY <2>1, <2>4 DEF Rows
    <3> HIDE DEF new
    <3> QED
      BY <2>1, <2>4, <3>1, <3>2 DEF Fallen
  <2> QED
    BY <2>1, <2>2, <2>3, <2>4
<1> HIDE DEF new
<1>3. Fallen(new, of, y, c + 1, kept, empty)
  BY <1>1, <1>2 DEF Fallen
<1> QED
  BY <1>3 DEF new

\* Going on past a row that is what it has to be.
LEMMA SkipFallen ==
  ASSUME GameFits, NEW field, NEW of, NEW kept, NEW empty, NEW y \in Rows, NEW c \in Nat,
         Fallen(field, of, y, c, kept, empty), field[y] = moved_down(of, kept, empty)[y]
  PROVE  Fallen(field, of, y + 1, c, kept, empty)
<1>1. \A r \in Rows : r \in Int /\ (r < y + 1 => r < y \/ r = y) /\ (r >= y + 1 => r >= y)
  BY DEF Rows, GameFits
<1> QED
  BY <1>1 DEF Fallen

\* The state of the loop, field by field.
stage(g, rows, colors, y, c) ==
  [ grid |-> [rows |-> rows, colors |-> colors, relief |-> g.relief,
              lines_cleared |-> g.lines_cleared],
    y |-> y, cleared |-> c ]

\* The loop is at row y and has removed c rows.  The row it looks at was row y + c, under
\* which y rows are kept; at the top of the grid, all rows have been looked at.
LoopAt(g, rows, colors, y, c) ==
  LET kept == rows_kept(g) IN
  /\ y \in 0 .. GRID_HEIGHT /\ c \in 0 .. GRID_HEIGHT
  /\ Fallen(rows, g.rows, y, c, kept, {})
  /\ Fallen(colors, g.colors, y, c, kept, [x \in Cols |-> BLACK])
  /\ y + c <= GRID_HEIGHT => Cardinality({ q \in kept : q < y + c }) = y
  /\ y + c >= GRID_HEIGHT => c = GRID_HEIGHT - Cardinality(kept)

\* A round removes the full row that has come to y, and stays there.
LEMMA RoundRemoves ==
  ASSUME GameFits, NEW g \in Grid, NEW rows, NEW colors, NEW y \in Rows, NEW c,
         LoopAt(g, rows, colors, y, c), rows[y] = Cols
  PROVE  LoopAt(g, shifted_down(rows, y, {}),
                shifted_down(colors, y, [x \in Cols |-> BLACK]), y, c + 1)
<1> DEFINE kept == rows_kept(g)
           none == {}
           dark == [x \in Cols |-> BLACK]
<1>1. /\ y \in 0 .. GRID_HEIGHT - 1 /\ c \in 0 .. GRID_HEIGHT /\ GRID_HEIGHT \in Nat
      /\ Fallen(rows, g.rows, y, c, kept, none) /\ Fallen(colors, g.colors, y, c, kept, dark)
      /\ y + c <= GRID_HEIGHT => Cardinality({ q \in kept : q < y + c }) = y
  BY DEF LoopAt, Rows, GameFits
<1>2. Cols # none
  BY DEF Cols, GameFits
<1> HIDE DEF none, dark, kept
<1>3. y + c < GRID_HEIGHT /\ g.rows[y + c] = Cols
  BY <1>1, <1>2 DEF Fallen
<1>4. y + c \in Rows /\ y + c \notin kept
  BY <1>1, <1>3 DEF Rows, kept, rows_kept, grid_row_full
<1>5. kept \in SUBSET (0 .. GRID_HEIGHT - 1)
  BY DEF kept, rows_kept, Rows
<1>6. { q \in kept : q < y + (c + 1) } = { q \in kept : q < y + c }
  <2>1. \A q \in kept : q \in Int /\ q # y + c
    BY <1>4, <1>5
  <2>2. \A q \in kept : q < y + (c + 1) <=> q < y + c
    BY <1>1, <2>1
  <2> QED
    BY <2>2
<1>7. Cardinality({ q \in kept : q < y + (c + 1) }) = y
  BY <1>1, <1>3, <1>6
<1>8. y + (c + 1) >= GRID_HEIGHT => c + 1 = GRID_HEIGHT - Cardinality(kept)
  <2>1. SUFFICES ASSUME y + (c + 1) = GRID_HEIGHT
                 PROVE  Cardinality(kept) = y
    BY <1>1, <1>3
  <2>2. \A q \in kept : q < y + (c + 1)
    BY <1>1, <1>5, <2>1
  <2>3. { q \in kept : q < y + (c + 1) } = kept
    BY <2>2
  <2> QED
    BY <1>7, <2>3
<1>9. /\ Fallen(shifted_down(rows, y, none), g.rows, y, c + 1, kept, none)
      /\ Fallen(shifted_down(colors, y, dark), g.colors, y, c + 1, kept, dark)
  BY <1>1, RemoveFallen
<1>10. y \in 0 .. GRID_HEIGHT /\ c + 1 \in 0 .. GRID_HEIGHT
  BY <1>1, <1>3
<1> QED
  BY <1>7, <1>8, <1>9, <1>10 DEF LoopAt, kept, none, dark

\* A round goes up past a row that is not full: it is the next one that is kept, or an
\* empty one when all have been looked at.
LEMMA RoundGoesUp ==
  ASSUME GameFits, NEW g \in Grid, NEW rows, NEW colors, NEW y \in Rows, NEW c,
         LoopAt(g, rows, colors, y, c), rows[y] # Cols
  PROVE  LoopAt(g, rows, colors, y + 1, c)
<1> DEFINE kept == rows_kept(g)
           none == {}
           dark == [x \in Cols |-> BLACK]
<1>1. /\ y \in 0 .. GRID_HEIGHT - 1 /\ c \in 0 .. GRID_HEIGHT /\ GRID_HEIGHT \in Nat
      /\ Fallen(rows, g.rows, y, c, kept, none) /\ Fallen(colors, g.colors, y, c, kept, dark)
      /\ y + c <= GRID_HEIGHT => Cardinality({ q \in kept : q < y + c }) = y
      /\ y + c >= GRID_HEIGHT => c = GRID_HEIGHT - Cardinality(kept)
  BY DEF LoopAt, Rows, GameFits
<1> HIDE DEF none, dark
<1>2. kept \in SUBSET Rows /\ kept \in SUBSET (0 .. GRID_HEIGHT - 1)
  BY DEF rows_kept, Rows
<1>3. IsFiniteSet(kept) /\ Cardinality(kept) \in 0 .. GRID_HEIGHT
  BY <1>2, CameDown
<1>4. CASE y + c < GRID_HEIGHT
  <2> DEFINE k == y + c
  <2>1. k \in kept /\ rows[y] = g.rows[k] /\ colors[y] = g.colors[k]
    <3>1. rows[y] = g.rows[k] /\ colors[y] = g.colors[k]
      BY <1>1, <1>4 DEF Fallen
    <3>2. k \in Rows
      BY <1>1, <1>4 DEF Rows
    <3> QED
      BY <3>1, <3>2 DEF rows_kept, grid_row_full
  <2> HIDE DEF kept
  <2>2. k \in came_down_to(y, kept)
    BY <1>1, <1>4, <2>1 DEF came_down_to
  <2>3. row_from(y, kept) = k
    <3>1. row_from(y, kept) \in came_down_to(y, kept)
      BY <2>2 DEF row_from
    <3>2. y \in Nat
      BY <1>1
    <3> QED
      BY <1>2, <2>2, <3>1, <3>2, CameDown
  <2>4. /\ moved_down(g.rows, kept, none)[y] = rows[y]
        /\ moved_down(g.colors, kept, dark)[y] = colors[y]
    BY <2>1, <2>2, <2>3 DEF moved_down, row_from
  <2>5. Cardinality({ q \in kept : q < (y + 1) + c }) = y + 1
    <3> DEFINE B == { q \in kept : q < k }
    <3>1. { q \in kept : q < (y + 1) + c } = B \cup {k}
      BY <1>1, <1>2, <2>1 DEF kept
    <3>2. B \in SUBSET kept /\ k \notin B
      BY <1>1
    <3>3. Cardinality(B) = y
      BY <1>1, <1>4
    <3> HIDE DEF B
    <3>4. IsFiniteSet(B)
      BY <1>3, <3>2, FS_Subset DEF kept
    <3>5. Cardinality(B \cup {k}) = Cardinality(B) + 1
      BY <3>2, <3>4, FS_AddElement
    <3> QED
      BY <3>1, <3>3, <3>5
  <2>6. (y + 1) + c >= GRID_HEIGHT => c = GRID_HEIGHT - Cardinality(kept)
    <3>1. SUFFICES ASSUME (y + 1) + c = GRID_HEIGHT
                   PROVE  Cardinality(kept) = y + 1
      BY <1>1, <1>4
    <3>2. \A q \in kept : q < (y + 1) + c
      BY <1>1, <1>2, <3>1 DEF kept
    <3>3. { q \in kept : q < (y + 1) + c } = kept
      BY <3>2
    <3> QED
      BY <2>5, <3>3
  <2>7. /\ Fallen(rows, g.rows, y + 1, c, kept, none)
        /\ Fallen(colors, g.colors, y + 1, c, kept, dark)
    <3>1. c \in Nat
      BY <1>1
    <3> QED
      BY <1>1, <2>4, <3>1, SkipFallen DEF kept
  <2> QED
    BY <1>1, <2>5, <2>6, <2>7 DEF LoopAt, kept, none, dark
<1>5. CASE y + c >= GRID_HEIGHT
  <2>1. rows[y] = none /\ colors[y] = dark
    BY <1>1, <1>5 DEF Fallen
  <2>2. y >= Cardinality(kept) /\ c = GRID_HEIGHT - Cardinality(kept)
    BY <1>1, <1>3, <1>5
  <2> HIDE DEF kept
  <2>3. ~(y < Cardinality(kept))
    BY <1>1, <1>3, <2>2 DEF kept
  <2>4. /\ moved_down(g.rows, kept, none)[y] = none
        /\ moved_down(g.colors, kept, dark)[y] = dark
    BY <1>2, <2>3, RowsMovedDown DEF kept
  <2>5. /\ Fallen(rows, g.rows, y + 1, c, kept, none)
        /\ Fallen(colors, g.colors, y + 1, c, kept, dark)
    <3>1. c \in Nat
      BY <1>1
    <3> QED
      BY <1>1, <2>1, <2>4, <3>1, SkipFallen DEF kept
  <2>6. /\ y + 1 \in 0 .. GRID_HEIGHT
        /\ (y + 1) + c <= GRID_HEIGHT => Cardinality({ q \in kept : q < (y + 1) + c }) = y + 1
    BY <1>1, <1>5
  <2> QED
    BY <1>1, <2>2, <2>5, <2>6 DEF LoopAt, kept, none, dark
<1> QED
  BY <1>1, <1>4, <1>5

\* What two assignments make of a grid.
with_field(g, rows, colors) == [g EXCEPT !.rows = rows, !.colors = colors]
with_count(g, lines, relief) == [g EXCEPT !.lines_cleared = lines, !.relief = relief]

LEMMA GridUpdated ==
  ASSUME NEW rows, NEW colors, NEW relief, NEW lines, NEW a, NEW b, NEW g,
         g = [rows |-> rows, colors |-> colors, relief |-> relief, lines_cleared |-> lines]
  PROVE  /\ with_field(g, a, b)
              = [rows |-> a, colors |-> b, relief |-> relief, lines_cleared |-> lines]
         /\ with_count(g, a, b)
              = [rows |-> rows, colors |-> colors, relief |-> b, lines_cleared |-> a]
<1> DEFINE c == [g EXCEPT !.rows = a]
           d == [g EXCEPT !.lines_cleared = a]
<1>1. /\ c = [rows |-> a, colors |-> colors, relief |-> relief, lines_cleared |-> lines]
      /\ d = [rows |-> rows, colors |-> colors, relief |-> relief, lines_cleared |-> a]
  OBVIOUS
<1>2. with_field(g, a, b) = [c EXCEPT !.colors = b] /\ with_count(g, a, b) = [d EXCEPT !.relief = b]
  BY DEF with_field, with_count
<1> HIDE DEF c, d
<1>3. /\ [c EXCEPT !.colors = b]
           = [rows |-> a, colors |-> b, relief |-> relief, lines_cleared |-> lines]
      /\ [d EXCEPT !.relief = b]
           = [rows |-> rows, colors |-> colors, relief |-> b, lines_cleared |-> a]
  BY <1>1
<1> QED
  BY <1>2, <1>3

\* The state s after n rounds.
LoopState(g, s, n) ==
  \E rows, colors, y, c :
    /\ s = stage(g, rows, colors, y, c)
    /\ LoopAt(g, rows, colors, y, c)
    /\ y = GRID_HEIGHT \/ y + c = n

LEMMA RoundKeepsLoop ==
  ASSUME GameFits, NEW g \in Grid, NEW s, NEW n \in Nat, LoopState(g, s, n)
  PROVE  LoopState(g, clear_round(s), n + 1)
<1>1. PICK rows, colors, y, c :
        /\ s = stage(g, rows, colors, y, c)
        /\ LoopAt(g, rows, colors, y, c)
        /\ y = GRID_HEIGHT \/ y + c = n
  BY DEF LoopState
<1>2. y \in 0 .. GRID_HEIGHT /\ c \in 0 .. GRID_HEIGHT /\ GRID_HEIGHT \in Nat
  BY <1>1 DEF LoopAt, GameFits
<1>3. s.y = y /\ (grid_row_full(s.grid, s.y) <=> rows[y] = Cols)
  BY <1>1 DEF stage, grid_row_full
<1>4. CASE y = GRID_HEIGHT
  BY <1>1, <1>3, <1>4 DEF clear_round, LoopState
<1>5. CASE y # GRID_HEIGHT /\ rows[y] = Cols
  <2> DEFINE r == shifted_down(rows, y, {})
             k == shifted_down(colors, y, [x \in Cols |-> BLACK])
  <2>1. clear_round(s) = [s EXCEPT !.grid = remove_row(@, s.y), !.cleared = @ + 1]
    BY <1>3, <1>5 DEF clear_round
  <2>2. remove_row(s.grid, s.y) = [rows |-> r, colors |-> k, relief |-> g.relief,
                                   lines_cleared |-> g.lines_cleared]
    <3> DEFINE grid0 == [rows |-> rows, colors |-> colors, relief |-> g.relief,
                         lines_cleared |-> g.lines_cleared]
    <3>1. s.grid = grid0 /\ s.y = y
      BY <1>1 DEF stage
    <3>2. remove_row(grid0, y) = with_field(grid0, r, k)
      BY DEF remove_row, with_field
    <3> HIDE DEF r, k, grid0
    <3>3. with_field(grid0, r, k)
            = [rows |-> r, colors |-> k, relief |-> g.relief, lines_cleared |-> g.lines_cleared]
      BY GridUpdated DEF grid0
    <3> QED
      BY <3>1, <3>2, <3>3
  <2>3. y \in Rows
    BY <1>2, <1>5 DEF Rows
  <2>4. LoopAt(g, r, k, y, c + 1)
    BY <1>1, <1>5, <2>3, RoundRemoves
  <2> HIDE DEF r, k
  <2>5. clear_round(s) = stage(g, r, k, y, c + 1)
    BY <1>1, <2>1, <2>2 DEF stage
  <2>6. y + (c + 1) = n + 1
    BY <1>1, <1>2, <1>5
  <2> QED
    BY <2>4, <2>5, <2>6 DEF LoopState
<1>6. CASE y # GRID_HEIGHT /\ rows[y] # Cols
  <2>1. clear_round(s) = [s EXCEPT !.y = @ + 1]
    BY <1>3, <1>6 DEF clear_round
  <2>2. clear_round(s) = stage(g, rows, colors, y + 1, c)
    BY <1>1, <2>1 DEF stage
  <2>3. y \in Rows
    BY <1>2, <1>6 DEF Rows
  <2>4. LoopAt(g, rows, colors, y + 1, c)
    BY <1>1, <1>6, <2>3, RoundGoesUp
  <2>5. (y + 1) + c = n + 1
    BY <1>1, <1>2, <1>6
  <2> QED
    BY <2>2, <2>4, <2>5 DEF LoopState
<1> QED
  BY <1>4, <1>5, <1>6

\* The loop ends at the top, and the field is what clearing has to leave
\* (tetris_grid.c:98-140).
LEMMA LoopEnds ==
  ASSUME GameFits, NEW g \in Grid
  PROVE  clear_loop(g) = stage(g, moved_down(g.rows, rows_kept(g), {}),
                               moved_down(g.colors, rows_kept(g), [x \in Cols |-> BLACK]),
                               GRID_HEIGHT, GRID_HEIGHT - Cardinality(rows_kept(g)))
<1> DEFINE kept == rows_kept(g)
           dark == [x \in Cols |-> BLACK]
           m == 2 * GRID_HEIGHT
<1>1. GRID_HEIGHT \in Nat /\ m \in Nat
  BY DEF GameFits
<1>2. PICK f : /\ clear_loop(g) = f[m]
               /\ f[0] = [grid |-> g, y |-> 0, cleared |-> 0]
               /\ \A n \in 1 .. m : f[n] = clear_round(f[n - 1])
  BY <1>1, LoopRounds
<1> DEFINE S == { n \in 0 .. m : LoopState(g, f[n], n) }
<1>3. kept \in SUBSET (0 .. GRID_HEIGHT - 1)
  BY DEF rows_kept, Rows
<1>4. 0 \in S
  <2>1. f[0] = stage(g, g.rows, g.colors, 0, 0)
    BY <1>2 DEF stage, Grid
  <2>2. \A r \in Rows : r \in Int /\ r + 0 = r /\ r >= 0 /\ r < GRID_HEIGHT
    BY DEF Rows, GameFits
  <2>3. g.rows = [r \in Rows |-> g.rows[r]] /\ g.colors = [r \in Rows |-> g.colors[r]]
    BY DEF Grid
  <2>4. Fallen(g.rows, g.rows, 0, 0, kept, {}) /\ Fallen(g.colors, g.colors, 0, 0, kept, dark)
    BY <1>1, <2>2, <2>3 DEF Fallen
  <2>5. { q \in kept : q < 0 + 0 } = {}
    BY <1>3
  <2>6. Cardinality({ q \in kept : q < 0 + 0 }) = 0
    BY <2>5, FS_EmptySet
  <2>7. ~(0 + 0 >= GRID_HEIGHT) /\ 0 \in 0 .. GRID_HEIGHT
    BY DEF GameFits
  <2>8. LoopAt(g, g.rows, g.colors, 0, 0)
    BY <2>4, <2>6, <2>7 DEF LoopAt
  <2>9. LoopState(g, f[0], 0)
    BY <2>1, <2>8 DEF LoopState
  <2> QED
    BY <1>1, <2>9
<1>5. ASSUME NEW n \in 1 .. m, n - 1 \in S
      PROVE  n \in S
  <2>1. n - 1 \in Nat /\ LoopState(g, f[n - 1], n - 1)
    BY <1>5
  <2>2. LoopState(g, clear_round(f[n - 1]), (n - 1) + 1)
    BY <2>1, RoundKeepsLoop
  <2>3. (n - 1) + 1 = n /\ f[n] = clear_round(f[n - 1]) /\ n \in 0 .. m
    BY <1>1, <1>2
  <2> QED
    BY <2>2, <2>3
<1> HIDE DEF S
<1>6. m \in S
  BY <1>1, <1>4, <1>5, UpTo
<1>7. PICK rows, colors, y, c :
        /\ f[m] = stage(g, rows, colors, y, c)
        /\ LoopAt(g, rows, colors, y, c)
        /\ y = GRID_HEIGHT \/ y + c = m
  BY <1>6 DEF S, LoopState
<1>8. y = GRID_HEIGHT /\ c = GRID_HEIGHT - Cardinality(kept)
  BY <1>1, <1>7 DEF LoopAt
<1>9. \A r \in Rows : r < GRID_HEIGHT
  BY DEF Rows, GameFits
<1>10. /\ rows = [r \in Rows |-> moved_down(g.rows, kept, {})[r]]
       /\ colors = [r \in Rows |-> moved_down(g.colors, kept, dark)[r]]
  <2>1. Fallen(rows, g.rows, GRID_HEIGHT, c, kept, {})
        /\ Fallen(colors, g.colors, GRID_HEIGHT, c, kept, dark)
    BY <1>7, <1>8 DEF LoopAt
  <2> QED
    BY <1>9, <2>1 DEF Fallen
<1>11. rows = moved_down(g.rows, kept, {}) /\ colors = moved_down(g.colors, kept, dark)
  BY <1>10 DEF moved_down
<1> QED
  BY <1>2, <1>7, <1>8, <1>11

\* What clearing lines has to leave, and how it is counted.
without_full_rows(g) ==
  LET kept == rows_kept(g) IN
  [g EXCEPT !.rows = moved_down(@, kept, {}),
            !.colors = moved_down(@, kept, [x \in Cols |-> BLACK]),
            !.lines_cleared = @ + GRID_HEIGHT - Cardinality(kept)]

\* What grid_clear_lines leaves: nothing is touched when no row is full
\* (tetris_grid.c:127-160).
LEMMA ClearLeaves ==
  ASSUME GameFits, NEW g \in Grid
  PROVE  grid_clear_lines(g) = IF rows_kept(g) = Rows THEN g
                               ELSE [without_full_rows(g) EXCEPT
                                       !.relief = recalc_relief(without_full_rows(g))]
<1> DEFINE kept == rows_kept(g)
           n == Cardinality(kept)
           rows == moved_down(g.rows, kept, {})
           colors == moved_down(g.colors, kept, [x \in Cols |-> BLACK])
           end == clear_loop(g)
           left == without_full_rows(g)
<1>1. kept \in SUBSET Rows
  BY DEF rows_kept
<1>2. n \in 0 .. GRID_HEIGHT /\ GRID_HEIGHT \in Nat /\ g.lines_cleared \in Nat
  BY <1>1, CameDown DEF GameFits, Grid
<1>3. n = GRID_HEIGHT <=> kept = Rows
  <2>1. IsFiniteSet(Rows) /\ Cardinality(Rows) = GRID_HEIGHT
    BY FS_Interval DEF Rows, GameFits
  <2> HIDE DEF kept
  <2> QED
    BY <1>1, <2>1, FS_Subset
<1>4. end = stage(g, rows, colors, GRID_HEIGHT, GRID_HEIGHT - n)
  BY LoopEnds
<1>5. left = [rows |-> rows, colors |-> colors, relief |-> g.relief,
              lines_cleared |-> g.lines_cleared + GRID_HEIGHT - n]
  <2> DEFINE lines == g.lines_cleared + GRID_HEIGHT - n
  <2>1. left = [g EXCEPT !.rows = rows, !.colors = colors, !.lines_cleared = lines]
    BY DEF without_full_rows
  <2> HIDE DEF rows, colors, lines, left
  <2>2. left = [rows |-> rows, colors |-> colors, relief |-> g.relief, lines_cleared |-> lines]
    BY <2>1 DEF Grid
  <2> QED
    BY <2>2 DEF lines
<1> HIDE DEF kept, n, rows, colors, end, left
<1>6. end.cleared = GRID_HEIGHT - n /\ end.grid.rows = rows /\ end.grid.colors = colors
      /\ end.grid = [rows |-> rows, colors |-> colors, relief |-> g.relief,
                     lines_cleared |-> g.lines_cleared]
  BY <1>4 DEF stage
<1>7. end.cleared = 0 <=> kept = Rows
  BY <1>2, <1>3, <1>6
<1>8. CASE kept = Rows
  BY <1>7, <1>8 DEF grid_clear_lines, end, kept
<1>9. CASE kept # Rows
  <2>1. grid_clear_lines(g) = [end.grid EXCEPT !.lines_cleared = @ + end.cleared,
                                               !.relief = recalc_relief(end.grid)]
    BY <1>7, <1>9 DEF grid_clear_lines, end
  <2>2. recalc_relief(end.grid) = recalc_relief(left)
    BY <1>5, <1>6 DEF recalc_relief
  <2> DEFINE lines == g.lines_cleared + GRID_HEIGHT - n
             relief == recalc_relief(left)
  <2>3. g.lines_cleared + (GRID_HEIGHT - n) = lines
    BY <1>2
  <2> HIDE DEF lines, relief
  <2>4. grid_clear_lines(g) = with_count(end.grid, end.grid.lines_cleared + end.cleared, relief)
    BY <2>1, <2>2 DEF relief, with_count
  <2>5. grid_clear_lines(g) = [rows |-> rows, colors |-> colors, relief |-> relief,
                               lines_cleared |-> lines]
    <3> DEFINE grid0 == [rows |-> rows, colors |-> colors, relief |-> g.relief,
                         lines_cleared |-> g.lines_cleared]
    <3>1. end.grid = grid0 /\ end.grid.lines_cleared + end.cleared = lines
      BY <1>6, <2>3
    <3> HIDE DEF grid0
    <3>2. with_count(grid0, lines, relief)
            = [rows |-> rows, colors |-> colors, relief |-> relief, lines_cleared |-> lines]
      BY GridUpdated DEF grid0
    <3> QED
      BY <2>4, <3>1, <3>2
  <2>6. left = [rows |-> rows, colors |-> colors, relief |-> g.relief, lines_cleared |-> lines]
    BY <1>5 DEF lines
  <2>7. grid_clear_lines(g) = [left EXCEPT !.relief = relief]
    BY <2>5, <2>6
  <2> QED
    BY <1>9, <2>7 DEF left, kept, relief
<1> QED
  BY <1>8, <1>9 DEF kept

\* Clearing lines keeps the records in agreement and leaves no full row
\* (tetris_grid.c:98-160).
LEMMA ClearKeepsRecords ==
  ASSUME GameFits, NEW g \in Grid, Agree(g)
  PROVE  /\ grid_clear_lines(g) \in Grid /\ Agree(grid_clear_lines(g))
         /\ \A y \in Rows : ~grid_row_full(grid_clear_lines(g), y)
<1> DEFINE kept == rows_kept(g)
           dark == [x \in Cols |-> BLACK]
           rows == moved_down(g.rows, kept, {})
           colors == moved_down(g.colors, kept, dark)
           lines == g.lines_cleared + GRID_HEIGHT - Cardinality(kept)
           left == without_full_rows(g)
           h == grid_clear_lines(g)
<1>1. kept \in SUBSET Rows /\ \A y \in kept : g.rows[y] # Cols
  BY DEF rows_kept, grid_row_full
<1>2. CASE kept = Rows
  <2>1. h = g
    BY <1>2, ClearLeaves
  <2> QED
    BY <1>1, <1>2, <2>1 DEF grid_row_full
<1>3. CASE kept # Rows
  <2>1. h = [left EXCEPT !.relief = recalc_relief(left)]
    BY <1>3, ClearLeaves
  <2>2. left = [g EXCEPT !.rows = rows, !.colors = colors, !.lines_cleared = lines]
    BY DEF without_full_rows
  <2>3. lines \in Nat
    <3>1. Cardinality(kept) \in 0 .. GRID_HEIGHT
      BY <1>1, CameDown
    <3> QED
      BY <3>1 DEF Grid, GameFits
  <2> HIDE DEF kept
  <2>4. /\ \A y \in Rows : \/ rows[y] = {} /\ colors[y] = dark
                           \/ \E r \in kept : rows[y] = g.rows[r] /\ colors[y] = g.colors[r]
        /\ DOMAIN rows = Rows /\ DOMAIN colors = Rows
        /\ rows = [y \in Rows |-> rows[y]] /\ colors = [y \in Rows |-> colors[y]]
    <3>1. /\ DOMAIN rows = Rows /\ DOMAIN colors = Rows
          /\ rows = [y \in Rows |-> rows[y]] /\ colors = [y \in Rows |-> colors[y]]
      BY DEF moved_down
    <3>2. ASSUME NEW y \in Rows
          PROVE  \/ rows[y] = {} /\ colors[y] = dark
                 \/ \E r \in kept : rows[y] = g.rows[r] /\ colors[y] = g.colors[r]
      <4>1. Cardinality(kept) \in Int /\ y \in Int
        <5>1. Cardinality(kept) \in 0 .. GRID_HEIGHT
          BY <1>1, CameDown
        <5> QED
          BY <5>1 DEF Rows, GameFits
      <4> DEFINE none == {}
      <4>2. /\ rows = moved_down(g.rows, kept, none) /\ none = {}
            /\ colors = moved_down(g.colors, kept, dark)
        OBVIOUS
      <4> HIDE DEF none, dark, rows, colors
      <4>3. CASE y >= Cardinality(kept)
        <5>1. moved_down(g.rows, kept, none)[y] = none
          BY <1>1, <4>1, <4>3, RowsMovedDown
        <5>2. moved_down(g.colors, kept, dark)[y] = dark
          BY <1>1, <4>1, <4>3, RowsMovedDown
        <5> QED
          BY <4>2, <5>1, <5>2
      <4>4. CASE y < Cardinality(kept)
        <5>1. row_from(y, kept) \in kept /\ rows[y] = g.rows[row_from(y, kept)]
              /\ colors[y] = g.colors[row_from(y, kept)]
          BY <1>1, <4>1, <4>2, <4>4, RowsMovedDown
        <5> QED
          BY <5>1
      <4> QED
        BY <4>1, <4>3, <4>4
    <3> QED
      BY <3>1, <3>2
  <2> HIDE DEF rows, colors, lines
  <2>5. left = [rows |-> rows, colors |-> colors, relief |-> g.relief, lines_cleared |-> lines]
    BY <2>2 DEF Grid
  <2> HIDE DEF left, h
  <2>6. h = [rows |-> rows, colors |-> colors, relief |-> recalc_relief(left),
             lines_cleared |-> lines]
    BY <2>1, <2>5
  <2>7. rows \in [Rows -> SUBSET Cols]
    <3>1. \A y \in Rows : rows[y] \subseteq Cols
      BY <1>1, <2>4 DEF Grid
    <3> QED
      BY <2>4, <3>1
  <2>8. colors \in [Rows -> [Cols -> BLACK .. GRAY]]
    <3>1. dark \in [Cols -> BLACK .. GRAY]
      BY DEF BLACK, GRAY
    <3> HIDE DEF dark
    <3>2. \A y \in Rows : colors[y] \in [Cols -> BLACK .. GRAY]
      BY <1>1, <2>4, <3>1 DEF Grid
    <3> QED
      BY <2>4, <3>2
  <2>9. \A y \in Rows, x \in Cols : (x \in rows[y]) <=> colors[y][x] # BLACK
    BY <1>1, <2>4 DEF Agree
  <2>10. recalc_relief(left) \in [Cols -> -1 .. GRID_HEIGHT - 1]
    BY <2>5, <2>7, ReliefTyped
  <2>11. recalc_relief(h) = recalc_relief(left)
    BY <2>5, <2>6 DEF recalc_relief
  <2>12. h \in Grid
    BY <2>3, <2>6, <2>7, <2>8, <2>10 DEF Grid
  <2>13. Agree(h)
    BY <2>6, <2>9, <2>11 DEF Agree
  <2>14. {} # Cols
    BY DEF Cols, GameFits
  <2>15. \A y \in Rows : h.rows[y] # Cols
    BY <1>1, <2>4, <2>6, <2>14
  <2> QED
    BY <2>12, <2>13, <2>15 DEF h, grid_row_full
<1> QED
  BY <1>2, <1>3

\* The occupied cells can be counted.
LEMMA OccupiedFinite ==
  ASSUME GameFits, NEW g
  PROVE  IsFiniteSet(occupied(g)) /\ Cardinality(occupied(g)) \in Nat
<1>1. IsFiniteSet(Cols) /\ IsFiniteSet(Rows)
  BY FS_Interval DEF Cols, Rows, GameFits
<1>2. IsFiniteSet(Cols \X Rows)
  BY <1>1, FS_Product
<1>3. occupied(g) \in SUBSET (Cols \X Rows)
  BY DEF occupied
<1> HIDE DEF occupied
<1>4. IsFiniteSet(occupied(g))
  BY <1>2, <1>3, FS_Subset
<1> QED
  BY <1>4, FS_CardinalityType

\* A block that is free adds each of its cells that are on the grid, and nothing else
\* (tetris_grid.c:248-275).
LEMMA AddCounts ==
  ASSUME GameFits, NEW g \in Grid, NEW b, Placed(b), is_free(g, b)
  PROVE  /\ Cardinality(occupied(grid_block_add(g, b)))
              = Cardinality(occupied(g)) + Cardinality({ c \in cells(b) : on_grid(c) })
         /\ grid_block_add(g, b).lines_cleared = g.lines_cleared
<1> DEFINE new == { c \in cells(b) : on_grid(c) }
           h == grid_block_add(g, b)
<1>1. h.rows = [y \in Rows |-> g.rows[y] \cup { x \in Cols : <<x, y>> \in new }]
      /\ h.lines_cleared = g.lines_cleared
  BY DEF grid_block_add, Grid
<1>2. \A c \in new : c \in Cols \X Rows /\ c[1] \notin g.rows[c[2]]
  <2>1. \A c \in cells(b) : c = <<c[1], c[2]>>
    BY CellsOf DEF Placed, Block
  <2>2. \A c \in cells(b) : ~check_cell_collision(g, c)
    BY DEF is_free, grid_block_collides
  <2> QED
    BY <2>1, <2>2 DEF on_grid, check_cell_collision
<1> HIDE DEF new, h
<1>3. \A c \in Cols \X Rows : c[1] \in Cols /\ c[2] \in Rows /\ c = <<c[1], c[2]>>
  OBVIOUS
<1>4. \A c \in Cols \X Rows : c[1] \in h.rows[c[2]] <=> c[1] \in g.rows[c[2]] \/ c \in new
  BY <1>1, <1>3
<1>5. occupied(h) = occupied(g) \cup new /\ occupied(g) \cap new = {}
  BY <1>2, <1>4 DEF occupied
<1>6. new \in SUBSET (Cols \X Rows)
  BY <1>2
<1>7. IsFiniteSet(new)
  <2>1. IsFiniteSet(Cols) /\ IsFiniteSet(Rows)
    BY FS_Interval DEF Cols, Rows, GameFits
  <2>2. IsFiniteSet(Cols \X Rows)
    BY <2>1, FS_Product
  <2> QED
    BY <1>6, <2>2, FS_Subset
<1>8. Cardinality(occupied(g) \cup new)
        = Cardinality(occupied(g)) + Cardinality(new) - Cardinality(occupied(g) \cap new)
  BY <1>7, OccupiedFinite, FS_Union
<1>9. Cardinality(occupied(g) \cap new) = 0
  BY <1>5, FS_EmptySet
<1>10. Cardinality(new) \in Nat /\ Cardinality(occupied(g)) \in Nat
  BY <1>7, OccupiedFinite, FS_CardinalityType
<1> QED
  BY <1>1, <1>5, <1>8, <1>9, <1>10 DEF h, new

\* A line that goes takes a row of cells with it and is counted; the others keep their
\* cells (tetris_grid.c:98-160).
LEMMA ClearCounts ==
  ASSUME GameFits, NEW g \in Grid
  PROVE  Cardinality(occupied(grid_clear_lines(g)))
           + GRID_WIDTH * (grid_clear_lines(g).lines_cleared - g.lines_cleared)
           = Cardinality(occupied(g))
<1> DEFINE kept == rows_kept(g)
           n == Cardinality(kept)
           rows == moved_down(g.rows, kept, {})
           h == grid_clear_lines(g)
           low == { c \in occupied(g) : c[2] \in kept }
           full == Cols \X (Rows \ kept)
<1>1. kept \in SUBSET Rows /\ \A y \in Rows \ kept : g.rows[y] = Cols
  BY DEF rows_kept, grid_row_full
<1>2. CASE kept = Rows
  <2>1. h = g
    BY <1>2, ClearLeaves
  <2>2. Cardinality(occupied(g)) \in Nat /\ g.lines_cleared \in Nat /\ GRID_WIDTH \in Nat
    BY OccupiedFinite DEF Grid, GameFits
  <2> QED
    BY <2>1, <2>2
<1>3. CASE kept # Rows
  <2>1. h.rows = rows /\ h.lines_cleared = g.lines_cleared + GRID_HEIGHT - n
    BY <1>3, ClearLeaves DEF without_full_rows, Grid
  <2>2. IsFiniteSet(kept) /\ n \in 0 .. GRID_HEIGHT
    BY <1>1, CameDown
  <2>3. /\ IsFiniteSet(Cols) /\ Cardinality(Cols) = GRID_WIDTH /\ GRID_WIDTH \in Nat
        /\ IsFiniteSet(Rows) /\ Cardinality(Rows) = GRID_HEIGHT /\ GRID_HEIGHT \in Nat
    BY FS_Interval, SMTT(30) DEF Cols, Rows, GameFits
  <2> HIDE DEF kept, h
  <2>4. IsFiniteSet(full) /\ Cardinality(full) = GRID_WIDTH * (GRID_HEIGHT - n)
    <3>1. Rows \cap kept = kept
      BY <1>1
    <3>2. IsFiniteSet(Rows \ kept) /\ Cardinality(Rows \ kept) = GRID_HEIGHT - n
      BY <2>3, <3>1, FS_Difference, ZenonT(40)
    <3> QED
      BY <2>3, <3>2, FS_Product
  <2>5. occupied(g) = low \cup full /\ low \cap full = {}
    <3>1. \A c \in Cols \X Rows : c[1] \in Cols /\ c[2] \in Rows /\ c = <<c[1], c[2]>>
      OBVIOUS
    <3>2. \A c \in full : c \in Cols \X Rows /\ c[2] \notin kept
      OBVIOUS
    <3>3. \A c \in full : c \in occupied(g)
      BY <1>1, <3>1, <3>2 DEF occupied
    <3>4. \A c \in occupied(g) : c[2] \notin kept => c \in full
      BY <3>1 DEF occupied
    <3> HIDE DEF full
    <3> QED
      BY <3>2, <3>3, <3>4
  <2>6. Cardinality(occupied(h)) = Cardinality(low)
    <3> DEFINE lift == [c \in occupied(h) |-> <<c[1], row_from(c[2], kept)>>]
    <3>1. ASSUME NEW y \in Rows, rows[y] # {}
          PROVE  /\ row_from(y, kept) \in came_down_to(y, kept) /\ row_from(y, kept) \in kept
                 /\ rows[y] = g.rows[row_from(y, kept)]
      <4>1. y \in Nat
        BY DEF Rows, GameFits
      <4>2. came_down_to(y, kept) # {} /\ rows[y] = g.rows[row_from(y, kept)]
        BY <3>1 DEF moved_down, row_from
      <4>3. row_from(y, kept) \in came_down_to(y, kept)
        BY <4>2 DEF row_from
      <4> QED
        BY <4>2, <4>3 DEF came_down_to
    <3>2. \A c \in Cols \X Rows : c[1] \in Cols /\ c[2] \in Rows /\ c = <<c[1], c[2]>>
      OBVIOUS
    <3>3. \A c \in occupied(h) : c \in Cols \X Rows /\ c[1] \in rows[c[2]]
      BY <2>1 DEF occupied
    <3> HIDE DEF rows
    <3>4. lift \in [occupied(h) -> low]
      <4>1. ASSUME NEW c \in occupied(h)
            PROVE  <<c[1], row_from(c[2], kept)>> \in low
        <5>1. /\ c[1] \in Cols /\ c[2] \in Rows /\ row_from(c[2], kept) \in kept
              /\ c[1] \in g.rows[row_from(c[2], kept)]
          BY <3>1, <3>2, <3>3
        <5> QED
          BY <1>1, <5>1 DEF occupied
      <4> HIDE DEF low
      <4> QED
        BY <4>1
    <3>5. ASSUME NEW c \in occupied(h), NEW d \in occupied(h), lift[c] = lift[d]
          PROVE  c = d
      <4>1. c[1] = d[1] /\ row_from(c[2], kept) = row_from(d[2], kept)
        BY <3>5
      <4>2. /\ row_from(c[2], kept) \in came_down_to(c[2], kept)
            /\ row_from(d[2], kept) \in came_down_to(d[2], kept)
        BY <3>1, <3>2, <3>3
      <4>3. c[2] = d[2]
        BY <4>1, <4>2 DEF came_down_to
      <4> QED
        BY <3>2, <3>3, <4>1, <4>3
    <3>6. ASSUME NEW d \in low
          PROVE  \E c \in occupied(h) : lift[c] = d
      <4> DEFINE y == Cardinality({ q \in kept : q < d[2] })
      <4>1. d \in Cols \X Rows /\ d[2] \in kept /\ d[1] \in g.rows[d[2]]
        BY DEF occupied
      <4>2. y \in Rows
        BY <1>1, <4>1, CameDown, ZenonT(60)
      <4>3. d[2] \in came_down_to(y, kept)
        BY <4>1 DEF came_down_to
      <4> HIDE DEF y
      <4>4. y \in Nat
        BY <4>2 DEF Rows, GameFits
      <4>5. row_from(y, kept) = d[2]
        <5>1. row_from(y, kept) \in came_down_to(y, kept)
          BY <4>3 DEF row_from
        <5> QED
          BY <1>1, <4>3, <4>4, <5>1, CameDown
      <4>6. rows[y] = g.rows[d[2]]
        BY <4>2, <4>3, <4>5 DEF rows, moved_down, row_from
      <4>7. <<d[1], y>> \in occupied(h) /\ <<d[1], y>>[1] = d[1] /\ <<d[1], y>>[2] = y
        BY <2>1, <3>2, <4>1, <4>2, <4>6 DEF occupied
      <4>8. lift[<<d[1], y>>] = d
        BY <3>2, <4>1, <4>5, <4>7
      <4> HIDE DEF lift
      <4> QED
        BY <4>7, <4>8
    <3> HIDE DEF lift, low
    <3>7. lift \in Bijection(occupied(h), low)
      <4>1. lift \in Injection(occupied(h), low)
        BY <3>4, <3>5, Fun_IsInj
      <4>2. lift \in Surjection(occupied(h), low)
        BY <3>4, <3>6, Fun_IsSurj
      <4> QED
        BY <4>1, <4>2 DEF Bijection
    <3>8. ExistsBijection(occupied(h), low)
      BY <3>7 DEF ExistsBijection
    <3> QED
      BY <3>8, OccupiedFinite, FS_Bijection
  <2>7. IsFiniteSet(low)
    <3>1. low \in SUBSET occupied(g)
      OBVIOUS
    <3> HIDE DEF low
    <3> QED
      BY <3>1, OccupiedFinite, FS_Subset
  <2>8. Cardinality(low \cap full) = 0
    BY <2>5, FS_EmptySet
  <2> HIDE DEF low, full
  <2>9. Cardinality(occupied(g)) = Cardinality(low) + Cardinality(full)
    <3>1. Cardinality(low \cup full)
            = Cardinality(low) + Cardinality(full) - Cardinality(low \cap full)
      BY <2>4, <2>7, FS_Union
    <3>2. Cardinality(low) \in Nat /\ Cardinality(full) \in Nat
      BY <2>4, <2>7, FS_CardinalityType
    <3> QED
      BY <2>5, <2>8, <3>1, <3>2
  <2>10. h.lines_cleared - g.lines_cleared = GRID_HEIGHT - n
    BY <2>1, <2>2, <2>3 DEF Grid
  <2> HIDE DEF n
  <2> QED
    BY <2>4, <2>6, <2>9, <2>10 DEF h
<1> QED
  BY <1>2, <1>3

-----------------------------------------------------------------------------
(***************************************************************************)
(* The falling block.                                                      *)
(***************************************************************************)
\* A shift moves the corner and nothing else.
LEMMA ShiftIs ==
  ASSUME GameFits, NEW b \in Block, NEW dx \in Int, NEW dy \in Int
  PROVE  /\ shifted(b, dx, dy) = [x |-> b.x + dx, y |-> b.y + dy, shape |-> b.shape,
                                   rot |-> b.rot, color |-> b.color]
         /\ b.x \in Int /\ b.y \in Int /\ b.x + dx \in Int /\ b.y + dy \in Int
<1>1. b.x \in Int /\ b.y \in Int
  BY DEF Block, GameFits
<1>2. PICK x, y, s, r, k :
         b = [x |-> x, y |-> y, shape |-> s, rot |-> r, color |-> k]
  <2>1. b = [x |-> b.x, y |-> b.y, shape |-> b.shape, rot |-> b.rot, color |-> b.color]
    BY DEF Block
  <2> QED
    BY <2>1, Zenon
<1> DEFINE u == x + dx
           v == y + dy
<1>3. b.x = x /\ b.y = y /\ b.shape = s /\ b.rot = r /\ b.color = k
  BY <1>2
<1>4. shifted(b, dx, dy) = [b EXCEPT !.x = u, !.y = v]
  BY <1>3 DEF shifted
<1> DEFINE c == [b EXCEPT !.x = u]
           d == [c EXCEPT !.y = v]
<1> HIDE DEF u, v
<1>5. c = [x |-> u, y |-> y, shape |-> s, rot |-> r, color |-> k]
  BY <1>2
<1>6. [b EXCEPT !.x = u, !.y = v] = d
  OBVIOUS
<1> HIDE DEF c
<1>7. d = [x |-> u, y |-> v, shape |-> s, rot |-> r, color |-> k]
  BY <1>5
<1> QED
  BY <1>1, <1>3, <1>4, <1>6, <1>7 DEF u, v

\* No fall at all.
LEMMA ShiftNone ==
  ASSUME GameFits, NEW b \in Block, NEW k \in Int, k = 0
  PROVE  shifted(b, 0, -k) = b
<1>1. -k \in Int /\ 0 \in Int
  OBVIOUS
<1>2. /\ shifted(b, 0, -k) = [x |-> b.x + 0, y |-> b.y + (-k), shape |-> b.shape,
                               rot |-> b.rot, color |-> b.color]
      /\ b.x \in Int /\ b.y \in Int
  BY <1>1, ShiftIs
<1>3. b = [x |-> b.x, y |-> b.y, shape |-> b.shape, rot |-> b.rot, color |-> b.color]
  BY DEF Block
<1>4. b.x + 0 = b.x /\ b.y + (-k) = b.y
  BY <1>2
<1> QED
  BY <1>2, <1>3, <1>4

\* Two falls are one.
LEMMA ShiftTwice ==
  ASSUME GameFits, NEW b \in Block, NEW m \in Int
  PROVE  shifted(shifted(b, 0, -m), 0, -1) = shifted(b, 0, -(m + 1))
<1> DEFINE c == shifted(b, 0, -m)
<1>1. c = [x |-> b.x + 0, y |-> b.y + (-m), shape |-> b.shape, rot |-> b.rot, color |-> b.color]
      /\ b.x \in Int /\ b.y \in Int
  BY ShiftIs
<1>2. shifted(b, 0, -(m + 1))
        = [x |-> b.x + 0, y |-> b.y + (-(m + 1)), shape |-> b.shape, rot |-> b.rot,
           color |-> b.color]
  BY ShiftIs
<1> DEFINE u == b.x + 0
           v == b.y + (-(m + 1))
<1> HIDE DEF c
<1>3. c.x + 0 = u /\ c.y + (-1) = v
  BY <1>1
<1>4. shifted(c, 0, -1) = [c EXCEPT !.x = u, !.y = v]
  BY <1>3 DEF shifted
<1> DEFINE d == [c EXCEPT !.x = u]
           e == [d EXCEPT !.y = v]
<1> HIDE DEF u, v
<1>5. \E y : d = [x |-> u, y |-> y, shape |-> b.shape, rot |-> b.rot, color |-> b.color]
  BY <1>1
<1>6. [c EXCEPT !.x = u, !.y = v] = e
  OBVIOUS
<1> HIDE DEF d
<1>7. e = [x |-> u, y |-> v, shape |-> b.shape, rot |-> b.rot, color |-> b.color]
  BY <1>5
<1> QED
  BY <1>2, <1>4, <1>6, <1>7 DEF c, u, v

\* A free block lies within the walls and above the floor.
LEMMA FreeIsInside ==
  ASSUME GameFits, NEW g, NEW b, is_free(g, b),
         b.shape \in Shapes, b.rot \in 0 .. 3, b.x \in Int, b.y \in Int
  PROVE  b.x \in -3 .. GRID_WIDTH - 1 /\ b.y >= 0
<1>1. PICK c \in cells(b) : c[2] = b.y
  BY CellsOf
<1>2. c[1] \in b.x .. b.x + 3
  BY CellsOf
<1>3. c[1] \in Cols /\ ~(c[2] < 0)
  BY DEF is_free, grid_block_collides, check_cell_collision
<1> QED
  BY <1>1, <1>2, <1>3 DEF Cols, GameFits

\* A block starts in the middle at the top (tetris_grid.c:348-358).
LEMMA SpawnPlaced ==
  ASSUME GameFits, NEW s \in Shapes
  PROVE  Placed(grid_block_spawn(s)) /\ grid_block_spawn(s).shape = s
<1> DEFINE w == shape_get_width(s, 0)
           h == shape_get_height(s, 0)
           b == grid_block_spawn(s)
<1>1. s \in 0 .. 6
  BY DEF GameFits
<1>2. w \in 1 .. 4 /\ h \in 1 .. 2
  BY <1>1 DEF shape_get_width, shape_get_height, SHAPE_DIMENSIONS
<1> HIDE DEF w, h
<1>3. b = [x |-> (GRID_WIDTH - w) \div 2, y |-> GRID_HEIGHT - h, shape |-> s, rot |-> 0,
           color |-> COLOR(s)]
  BY DEF grid_block_spawn, w, h
<1> HIDE DEF b
<1>4. (GRID_WIDTH - w) \div 2 \in -4 .. GRID_WIDTH /\ GRID_HEIGHT - h \in -4 .. GRID_HEIGHT - 1
  BY <1>2 DEF GameFits
<1>5. COLOR(s) \in BLACK .. GRAY
  BY ShapeColor DEF CYAN, BLACK, GRAY
<1>6. b \in Block
  BY <1>3, <1>4, <1>5 DEF Block, GameFits
<1> QED
  BY <1>3, <1>4, <1>6 DEF Placed, b, GameFits

\* A move that is tested leaves the block where it can be placed.
LEMMA ShiftPlaced ==
  ASSUME GameFits, NEW g, NEW b, Placed(b), NEW dx \in Int, NEW dy \in Int, dy <= 0,
         is_free(g, shifted(b, dx, dy))
  PROVE  Placed(shifted(b, dx, dy))
<1> DEFINE c == shifted(b, dx, dy)
<1>1. /\ c = [x |-> b.x + dx, y |-> b.y + dy, shape |-> b.shape, rot |-> b.rot,
              color |-> b.color]
      /\ b.x \in Int /\ b.y \in Int /\ b.x + dx \in Int /\ b.y + dy \in Int
  BY ShiftIs DEF Placed
<1> HIDE DEF c
<1>2. /\ c.x = b.x + dx /\ c.y = b.y + dy /\ c.shape = b.shape /\ c.rot = b.rot
      /\ c.color = b.color /\ c.shape \in Shapes /\ c.rot \in 0 .. 3
  BY <1>1 DEF Placed, Block
<1>3. c.x \in -3 .. GRID_WIDTH - 1 /\ c.y >= 0
  BY <1>1, <1>2, FreeIsInside DEF c
<1>4. c.y < GRID_HEIGHT
  BY <1>1, <1>2 DEF Placed, GameFits
<1>5. c \in Block
  BY <1>1, <1>2, <1>3, <1>4 DEF Block, Placed, GameFits
<1> QED
  BY <1>2, <1>4, <1>5 DEF Placed, c

\* A rotation turns the block within its four places.
LEMMA RotatedIs ==
  ASSUME GameFits, NEW b, Placed(b)
  PROVE  rotated(b) \in Block /\ rotated(b).color = COLOR(rotated(b).shape)
         /\ rotated(b).y = b.y /\ rotated(b).x = b.x
<1>1. b.shape \in 0 .. 6 /\ b.rot \in 0 .. 3
  BY DEF Placed, Block, GameFits
<1>2. shape_num_rotations(b.shape) \in {1, 2, 4}
  BY <1>1 DEF shape_num_rotations
<1> DEFINE q == (b.rot + 1) % shape_num_rotations(b.shape)
<1>3. q \in 0 .. 3
  BY <1>1, <1>2
<1> HIDE DEF q
<1>4. rotated(b) = [b EXCEPT !.rot = q]
  BY DEF rotated, q
<1> QED
  BY <1>3, <1>4 DEF Placed, Block

\* Whatever place a rotation ends in, the block is placed (tetris_grid.c:322-346).
LEMMA RotatePlaced ==
  ASSUME GameFits, NEW g, NEW b, Placed(b)
  PROVE  Placed(grid_block_rotate(g, b))
<1> DEFINE r == rotated(b)
           left == shifted(r, -1, 0)
           right == shifted(r, 1, 0)
<1>1. Placed(r)
  BY RotatedIs DEF Placed
<1>2. is_free(g, left) => Placed(left)
  BY <1>1, ShiftPlaced
<1>3. is_free(g, right) => Placed(right)
  BY <1>1, ShiftPlaced
<1>4. \/ grid_block_rotate(g, b) \in {r, b}
      \/ is_free(g, left) /\ grid_block_rotate(g, b) = left
      \/ is_free(g, right) /\ grid_block_rotate(g, b) = right
  <2> HIDE DEF r, left, right
  <2>1. grid_block_rotate(g, b) =
          CASE is_free(g, r) -> r
            [] ~is_free(g, r) /\ is_free(g, left) -> left
            [] ~is_free(g, r) /\ ~is_free(g, left) /\ is_free(g, right) -> right
            [] OTHER -> b
    BY DEF grid_block_rotate, r, left, right
  <2>2. CASE is_free(g, r)
    BY <2>1, <2>2
  <2>3. CASE ~is_free(g, r) /\ is_free(g, left)
    BY <2>1, <2>3
  <2>4. CASE ~is_free(g, r) /\ ~is_free(g, left) /\ is_free(g, right)
    BY <2>1, <2>4
  <2>5. CASE ~is_free(g, r) /\ ~is_free(g, left) /\ ~is_free(g, right)
    BY <2>1, <2>5
  <2> QED
    BY <2>2, <2>3, <2>4, <2>5
<1> QED
  BY <1>1, <1>2, <1>3, <1>4

\* The drop ends at the first place under which something lies, and never below the
\* floor (tetris_grid.c:277-291).
LEMMA DropEnds ==
  ASSUME GameFits, NEW g, NEW b, Placed(b), is_free(g, b)
  PROVE  /\ grid_block_drop(g, b) \in 0 .. GRID_HEIGHT
         /\ \A k \in 0 .. grid_block_drop(g, b) : is_free(g, shifted(b, 0, -k))
         /\ ~can_move_down(g, shifted(b, 0, -grid_block_drop(g, b)))
<1> DEFINE T == { n \in 0 .. GRID_HEIGHT + 4 :
                    \A k \in 1 .. n : ~grid_block_collides(g, shifted(b, 0, -k)) }
           m == grid_block_drop(g, b)
<1>1. m = Max(T)
  BY DEF grid_block_drop
<1>2. 0 \in T /\ T \in Heights(GRID_HEIGHT + 4) /\ GRID_HEIGHT + 4 \in Nat
  BY DEF GameFits, Heights
<1>3. m \in T /\ \A n \in T : n <= m
  <2> HIDE DEF T, m
  <2> QED
    BY <1>1, <1>2, MaxIs
<1> HIDE DEF m
<1>4. m \in 0 .. GRID_HEIGHT + 4 /\ \A k \in 1 .. m : is_free(g, shifted(b, 0, -k))
  BY <1>3 DEF is_free
<1>5. b \in Block /\ b.y \in Int /\ b.y < GRID_HEIGHT /\ GRID_HEIGHT \in Nat
  BY DEF Placed, Block, GameFits
<1>6. m <= GRID_HEIGHT
  <2>1. CASE m = 0
    BY <1>5, <2>1
  <2>2. CASE m >= 1
    <3> DEFINE c == shifted(b, 0, -m)
    <3>1. m \in 1 .. m /\ -m \in Int /\ 0 \in Int
      BY <1>4, <2>2
    <3>2. c = [x |-> b.x + 0, y |-> b.y + (-m), shape |-> b.shape, rot |-> b.rot,
               color |-> b.color] /\ b.x + 0 \in Int /\ b.y + (-m) \in Int
      BY <1>5, <3>1, ShiftIs
    <3> HIDE DEF c
    <3>3. c.y = b.y + (-m) /\ c.y \in Int /\ c.x \in Int /\ c.shape \in Shapes /\ c.rot \in 0 .. 3
      BY <1>5, <3>2 DEF Block
    <3>4. is_free(g, c)
      BY <1>4, <3>1 DEF c
    <3>5. c.y >= 0
      BY <3>3, <3>4, FreeIsInside
    <3> QED
      BY <1>4, <1>5, <3>3, <3>5
  <2> QED
    BY <1>4, <2>1, <2>2
<1>7. ASSUME NEW k \in Int, k = 0
      PROVE  shifted(b, 0, -k) = b
  BY <1>5, <1>7, ShiftNone
<1>8. \A k \in 0 .. m : is_free(g, shifted(b, 0, -k))
  <2> TAKE k \in 0 .. m
  <2>1. CASE k = 0
    <3>1. shifted(b, 0, -k) = b
      BY <1>7, <2>1
    <3> QED
      BY <3>1
  <2>2. CASE k # 0
    BY <1>4, <2>2
  <2> QED
    BY <2>1, <2>2
<1>9. shifted(shifted(b, 0, -m), 0, -1) = shifted(b, 0, -(m + 1))
  BY <1>4, <1>5, ShiftTwice
<1>10. grid_block_collides(g, shifted(b, 0, -(m + 1)))
  <2>1. m + 1 \in 0 .. GRID_HEIGHT + 4 /\ m + 1 \notin T
    BY <1>3, <1>4, <1>5, <1>6
  <2>2. PICK k \in 1 .. m + 1 : grid_block_collides(g, shifted(b, 0, -k))
    BY <2>1
  <2>3. k \notin 1 .. m
    BY <1>4, <2>2 DEF is_free
  <2>4. k = m + 1
    BY <1>4, <2>2, <2>3
  <2> QED
    BY <2>2, <2>4
<1>11. ~can_move_down(g, shifted(b, 0, -m))
  BY <1>9, <1>10 DEF can_move_down
<1>12. m \in 0 .. GRID_HEIGHT
  BY <1>4, <1>5, <1>6
<1> QED
  BY <1>8, <1>11, <1>12 DEF m

\* Where a hard drop leaves the block, it is placed.
LEMMA DropPlaced ==
  ASSUME GameFits, NEW g, NEW b, Placed(b), is_free(g, b)
  PROVE  Placed(shifted(b, 0, -grid_block_drop(g, b)))
<1> DEFINE m == grid_block_drop(g, b)
<1>1. m \in 0 .. GRID_HEIGHT /\ is_free(g, shifted(b, 0, -m))
  <2>1. m \in 0 .. GRID_HEIGHT /\ \A k \in 0 .. m : is_free(g, shifted(b, 0, -k))
    BY DropEnds
  <2> HIDE DEF m
  <2>2. m \in 0 .. m
    BY <2>1 DEF GameFits
  <2> QED
    BY <2>1, <2>2
<1> HIDE DEF m
<1>2. -m \in Int /\ -m <= 0 /\ 0 \in Int
  BY <1>1 DEF GameFits
<1>3. Placed(shifted(b, 0, -m))
  BY <1>1, <1>2, ShiftPlaced
<1> QED
  BY <1>3 DEF m

\* A block starts within the well, and in an empty one nothing is in its way
\* (tetris_grid.c:236-246).
LEMMA SpawnIsFree ==
  ASSUME GameFits, NEW s \in Shapes
  PROVE  ~grid_block_collides(grid_init, grid_block_spawn(s))
<1> DEFINE w == shape_get_width(s, 0)
           h == shape_get_height(s, 0)
           b == grid_block_spawn(s)
<1>1. s \in 0 .. 6
  BY DEF GameFits
<1>2. /\ w \in 1 .. 4 /\ h \in 1 .. 2
      /\ \A c \in shape_get_cells(s, 0) : c[1] \in 0 .. w - 1 /\ c[2] \in 0 .. 3
  BY <1>1 DEF shape_get_cells, SHAPES, shape_get_width, shape_get_height, SHAPE_DIMENSIONS
<1> HIDE DEF w, h
<1>3. /\ b.x = (GRID_WIDTH - w) \div 2 /\ b.y = GRID_HEIGHT - h
      /\ b.shape = s /\ b.rot = 0
  BY DEF grid_block_spawn, w, h
<1> HIDE DEF b
<1>4. b.x \in 0 .. GRID_WIDTH - w /\ b.y \in 0 .. GRID_HEIGHT
  BY <1>2, <1>3 DEF GameFits
<1>5. ASSUME NEW c \in cells(b)
      PROVE  ~check_cell_collision(grid_init, c)
  <2>1. PICK d \in shape_get_cells(s, 0) : c = <<b.x + d[1], b.y + d[2]>>
    BY <1>3 DEF cells
  <2>2. c[1] \in Cols /\ c[2] \in Nat
    BY <1>2, <1>4, <2>1 DEF Cols, GameFits
  <2>3. c[2] \in Rows => c[1] \notin grid_init.rows[c[2]]
    BY DEF grid_init
  <2> QED
    BY <2>2, <2>3 DEF check_cell_collision
<1> QED
  BY <1>5 DEF grid_block_collides, b

-----------------------------------------------------------------------------
(***************************************************************************)
(* The invariant.                                                          *)
(***************************************************************************)
\* The grid and the two blocks are what the functions of tetris_grid.c make of them.
BoardInv ==
  /\ grid \in Grid /\ Agree(grid) /\ NoFullRowRemains
  /\ Placed(current_block) /\ Placed(next_block)
  /\ game_state \in {"PLAYING", "OVER"}
  /\ locked \in 0 .. MaxPieces

\* The loop of main ends when the game is over, and only then.
LoopInv ==
  /\ pc \in {"draw", "input", "paused", "tick", "over"}
  /\ pc # "over" => playing
  /\ idle \in 0 .. drop_interval - 1

\* The invariant: the block is free while the game goes on, and the deal is fair.
IInv == BoardInv /\ LoopInv /\ BlockIsFree /\ Fair(bag, dealt)

\* A new game.
LEMMA InitInvariant ==
  ASSUME GameFits, Init
  PROVE  IInv
<1>1. PICK b \in shuffled_bags :
        /\ current_block = grid_block_spawn(b[1])
        /\ next_block = grid_block_spawn(b[2])
        /\ bag = Tail(Tail(b))
        /\ dealt = [s \in Shapes |-> IF s \in {b[1], b[2]} THEN 1 ELSE 0]
        /\ grid = grid_init
  BY DEF Init
<1>2. b[1] \in Shapes /\ b[2] \in Shapes
  BY <1>1, ShuffleHoldsAll DEF GameFits, Distinct
<1>3. BlockIsFree
  BY <1>1, <1>2, SpawnIsFree DEF BlockIsFree
<1>4. Fair(bag, dealt)
  BY <1>1, FirstDealIsFair
<1>5. BoardInv
  <2>1. Placed(current_block) /\ Placed(next_block)
    BY <1>1, <1>2, SpawnPlaced
  <2>2. game_state = "PLAYING" /\ locked = 0 /\ MaxPieces \in Nat
    BY DEF Init, GameFits
  <2> QED
    BY <1>1, <2>1, <2>2, EmptyGrid DEF BoardInv, NoFullRowRemains
<1>6. LoopInv
  BY DEF Init, LoopInv, playing, drop_interval
<1> QED
  BY <1>3, <1>4, <1>5, <1>6 DEF IInv

\* A lock keeps the board, ends the game when the next block has no room, and deals fairly.
LEMMA LockKeepsInvariant ==
  ASSUME GameFits, BoardInv, Fair(bag, dealt), NEW b, Placed(b), LockAndSpawn(b)
  PROVE  BoardInv' /\ BlockIsFree' /\ Fair(bag, dealt)'
<1>1. BlockIsFree'
  BY DEF LockAndSpawn, BlockIsFree, playing
<1>2. PICK full \in bags_to_deal(bag) :
        /\ next_block' = grid_block_spawn(Head(full))
        /\ bag' = Tail(full) /\ dealt' = [dealt EXCEPT ![Head(full)] = @ + 1]
  BY DEF LockAndSpawn
<1>3. Fair(full, dealt) /\ full # << >>
  BY <1>2, RefillKeepsFair
<1>4. Fair(bag', dealt')
  BY <1>2, <1>3, DealKeepsFair
<1>5. Placed(next_block')
  <2>1. Head(full) \in Shapes
    BY <1>3, TailHolds DEF Fair
  <2> QED
    BY <1>2, <2>1, SpawnPlaced
<1>6. Placed(current_block')
  <2>1. next_block.shape \in Shapes
    BY DEF BoardInv, Placed, Block
  <2>2. current_block' = grid_block_spawn(next_block.shape)
    BY DEF LockAndSpawn
  <2> QED
    BY <2>1, <2>2, SpawnPlaced
<1>7. grid' \in Grid /\ Agree(grid') /\ \A y \in Rows : ~grid_row_full(grid', y)
  <2>1. grid_block_add(grid, b) \in Grid /\ Agree(grid_block_add(grid, b))
    BY AddKeepsRecords DEF BoardInv
  <2>2. grid' = grid_clear_lines(grid_block_add(grid, b))
    BY DEF LockAndSpawn
  <2> QED
    BY <2>1, <2>2, ClearKeepsRecords
<1>8. game_state' \in {"PLAYING", "OVER"} /\ locked' \in 0 .. MaxPieces
  BY DEF LockAndSpawn, BoardInv, GameFits
<1> QED
  BY <1>1, <1>4, <1>5, <1>6, <1>7, <1>8 DEF BoardInv, NoFullRowRemains

\* A fall by one cell is tested before.
LEMMA FallKeepsInvariant ==
  ASSUME GameFits, BoardInv, Fair(bag, dealt), Fall
  PROVE  BoardInv' /\ BlockIsFree' /\ Fair(bag, dealt)'
<1>1. is_free(grid, shifted(current_block, 0, -1)) /\ current_block' = shifted(current_block, 0, -1)
  BY DEF Fall, can_move_down, is_free
<1>2. Placed(current_block')
  BY <1>1, ShiftPlaced DEF BoardInv
<1>3. UNCHANGED <<grid, next_block, bag, game_state, locked, dealt>>
  BY DEF Fall
<1> QED
  BY <1>1, <1>2, <1>3 DEF BoardInv, NoFullRowRemains, BlockIsFree, playing, is_free

\* What keeps the board and the bag keeps their part of the invariant.
LEMMA BoardUnchanged ==
  ASSUME BoardInv, Fair(bag, dealt), BlockIsFree,
         UNCHANGED <<grid, current_block, next_block, bag, game_state, locked, dealt>>
  PROVE  BoardInv' /\ BlockIsFree' /\ Fair(bag, dealt)'
BY DEF BoardInv, NoFullRowRemains, BlockIsFree, playing

\* What a player's move makes of the block, in one case for both moves.
LEMMA MoveKeepsInvariant ==
  ASSUME BoardInv, Fair(bag, dealt), Placed(current_block'),
         playing => is_free(grid, current_block'),
         UNCHANGED <<grid, next_block, bag, game_state, locked, dealt>>
  PROVE  BoardInv' /\ BlockIsFree' /\ Fair(bag, dealt)'
BY DEF BoardInv, NoFullRowRemains, BlockIsFree, playing, is_free

\* After an input or at the end of a round the loop goes on unless the game is over.
LEMMA LoopGoesOn ==
  ASSUME BoardInv', NEW next \in {"tick", "draw"},
         pc' = IF game_state' = "OVER" THEN "over" ELSE next,
         idle' \in 0 .. drop_interval - 1
  PROVE  LoopInv'
BY DEF BoardInv, LoopInv, playing

\* Each step of the game keeps the invariant.
LEMMA StepInvariant ==
  ASSUME GameFits, IInv, [Next]_vars
  PROVE  IInv'
<1> USE DEF IInv
<1>0. 0 \in 0 .. drop_interval - 1
  BY DEF drop_interval
<1>1. CASE Draw
  BY <1>1, BoardUnchanged DEF Draw, LoopInv, playing
<1>2. CASE NoInput \/ Pause \/ Resume
  BY <1>0, <1>2, BoardUnchanged DEF NoInput, Pause, Resume, LoopInv, playing
<1>3. CASE Move
  <2>1. PICK dx \in {-1, 1} : current_block' = grid_block_move(grid, current_block, dx, 0)
    BY <1>3 DEF Move
  <2>2. current_block' = current_block
        \/ /\ current_block' = shifted(current_block, dx, 0)
           /\ is_free(grid, shifted(current_block, dx, 0))
    BY <2>1 DEF grid_block_move, is_free
  <2>3. Placed(current_block')
    BY <2>2, ShiftPlaced DEF BoardInv
  <2>4. playing => is_free(grid, current_block')
    BY <2>2 DEF BlockIsFree, is_free
  <2>5. BoardInv' /\ BlockIsFree' /\ Fair(bag, dealt)'
    BY <1>3, <2>3, <2>4, MoveKeepsInvariant DEF Move
  <2> QED
    BY <1>3, <2>5 DEF Move, LoopInv, playing
<1>4. CASE Rotate
  <2>1. current_block' = grid_block_rotate(grid, current_block)
    BY <1>4 DEF Rotate
  <2>2. Placed(current_block')
    BY <2>1, RotatePlaced DEF BoardInv
  <2>3. playing => is_free(grid, current_block')
    BY <2>1 DEF BlockIsFree, is_free, grid_block_rotate
  <2>4. BoardInv' /\ BlockIsFree' /\ Fair(bag, dealt)'
    BY <1>4, <2>2, <2>3, MoveKeepsInvariant DEF Rotate
  <2> QED
    BY <1>4, <2>4 DEF Rotate, LoopInv, playing
<1>5. CASE SoftDrop
  <2>1. BoardInv' /\ BlockIsFree' /\ Fair(bag, dealt)'
    BY <1>5, FallKeepsInvariant, LockKeepsInvariant DEF SoftDrop, Land, BoardInv
  <2> QED
    BY <1>0, <1>5, <2>1, LoopGoesOn DEF SoftDrop, AfterInput
<1>6. CASE HardDrop
  <2> DEFINE b == shifted(current_block, 0, -grid_block_drop(grid, current_block))
  <2>1. Placed(b)
    BY <1>6, DropPlaced DEF HardDrop, LoopInv, BlockIsFree, is_free, BoardInv
  <2>2. BoardInv' /\ BlockIsFree' /\ Fair(bag, dealt)'
    BY <1>6, <2>1, LockKeepsInvariant DEF HardDrop
  <2> QED
    BY <1>0, <1>6, <2>2, LoopGoesOn DEF HardDrop, AfterInput
<1>7. CASE Quit
  <2>1. BoardInv' /\ BlockIsFree' /\ Fair(bag, dealt)'
    BY <1>7 DEF Quit, BoardInv, NoFullRowRemains, BlockIsFree, playing
  <2> QED
    BY <1>7, <2>1 DEF Quit, LoopInv
<1>8. CASE Tick
  <2>1. CASE (Fall \/ Land) /\ idle' = 0
    <3>1. BoardInv' /\ BlockIsFree' /\ Fair(bag, dealt)'
      BY <2>1, FallKeepsInvariant, LockKeepsInvariant DEF Land, BoardInv
    <3> QED
      BY <1>0, <1>8, <2>1, <3>1, LoopGoesOn DEF Tick
  <2>2. CASE /\ idle + 1 < drop_interval /\ idle' = idle + 1
             /\ UNCHANGED <<grid, current_block, next_block, bag, game_state, locked, dealt>>
    <3>1. BoardInv' /\ BlockIsFree' /\ Fair(bag, dealt)'
      BY <2>2, BoardUnchanged
    <3>2. idle' \in 0 .. drop_interval - 1
      BY <2>2 DEF LoopInv, drop_interval
    <3> QED
      BY <1>8, <3>1, <3>2, LoopGoesOn DEF Tick
  <2> QED
    BY <1>8, <2>1, <2>2 DEF Tick, LoopInv, drop_interval
<1>9. CASE UNCHANGED vars
  <2>1. BoardInv' /\ BlockIsFree' /\ Fair(bag, dealt)'
    BY <1>9, BoardUnchanged DEF vars
  <2> QED
    BY <1>9, <2>1 DEF vars, LoopInv, playing
<1> QED
  BY <1>1, <1>2, <1>3, <1>4, <1>5, <1>6, <1>7, <1>8, <1>9 DEF Next, Halt

\* The invariant holds in every state of the game.
LEMMA GameInvariant ==
  ASSUME GameFits
  PROVE  Spec => []IInv
<1>1. Init => IInv
  BY InitInvariant
<1>2. IInv /\ [Next]_vars => IInv'
  BY StepInvariant
<1> QED
  BY <1>1, <1>2, PTL DEF Spec

-----------------------------------------------------------------------------
\* While the game goes on the falling block lies within the walls and overlaps nothing,
\* after every kick, drop, removed line and spawn (tetris_grid.c:236-358).
THEOREM BlockStaysFree ==
  ASSUME GameFits
  PROVE  Spec => []BlockIsFree
<1>1. IInv => BlockIsFree
  BY DEF IInv
<1> QED
  BY <1>1, GameInvariant, PTL

\* The bag that is fair now makes the deal fair.
LEMMA FairDeal ==
  ASSUME Fair(bag, dealt)
  PROVE  BagIsFair
<1>1. PICK k \in Nat : \A s \in Shapes : dealt[s] = IF holds(bag, s) THEN k ELSE k + 1
  BY DEF Fair
<1>2. \A s \in Shapes : dealt[s] \in {k, k + 1}
  BY <1>1
<1> QED
  BY <1>2 DEF BagIsFair

\* Two shapes never differ by more than one in how often they were dealt, across any
\* number of bags (tetris_shape.c:102-137, 205-212).
THEOREM DealIsFair ==
  ASSUME GameFits
  PROVE  Spec => []BagIsFair
<1>1. IInv => BagIsFair
  BY FairDeal DEF IInv
<1> QED
  BY <1>1, GameInvariant, PTL

\* Relief, rows and colours of the grid tell the same in every state, over any number of
\* locks and removed lines (tetris_grid.c:64-160, 248-275).
THEOREM RecordsStayInStep ==
  ASSUME GameFits
  PROVE  Spec => []RecordsAgree
<1>1. IInv => RecordsAgree
  BY DEF IInv, BoardInv, Agree, RecordsAgree
<1> QED
  BY <1>1, GameInvariant, PTL

\* No full row is ever left, also when several go at once (tetris_grid.c:127-160).
THEOREM FullRowsGo ==
  ASSUME GameFits
  PROVE  Spec => []NoFullRowRemains
<1>1. IInv => NoFullRowRemains
  BY DEF IInv, BoardInv
<1> QED
  BY <1>1, GameInvariant, PTL

-----------------------------------------------------------------------------
(***************************************************************************)
(* Locking.                                                                *)
(***************************************************************************)
\* What a lock adds to the grid and what its full lines take away.
LEMMA LockCounts ==
  ASSUME GameFits, BoardInv, NEW b, Placed(b), is_free(grid, b), LockAndSpawn(b)
  PROVE  area' + GRID_WIDTH * (grid'.lines_cleared - grid.lines_cleared)
           = area + Cardinality({ c \in cells(b) : on_grid(c) })
<1> DEFINE h == grid_block_add(grid, b)
<1>1. h \in Grid
  BY AddKeepsRecords DEF BoardInv
<1>2. /\ Cardinality(occupied(h))
           = Cardinality(occupied(grid)) + Cardinality({ c \in cells(b) : on_grid(c) })
      /\ h.lines_cleared = grid.lines_cleared
  BY AddCounts DEF BoardInv
<1>3. grid' = grid_clear_lines(h)
  BY DEF LockAndSpawn
<1> HIDE DEF h
<1>4. Cardinality(occupied(grid')) + GRID_WIDTH * (grid'.lines_cleared - h.lines_cleared)
        = Cardinality(occupied(h))
  BY <1>1, <1>3, ClearCounts
<1> QED
  BY <1>2, <1>4 DEF area

\* If no row is full, nothing comes down.
LEMMA NothingFalls ==
  ASSUME GameFits, NEW field, field = [y \in Rows |-> field[y]], NEW empty
  PROVE  moved_down(field, Rows, empty) = field
<1>1. ASSUME NEW r \in Rows
      PROVE  Cardinality({ q \in Rows : q < r }) = r
  <2> DEFINE B == { q \in Rows : q < r }
  <2>1. B = 0 .. r - 1 /\ r \in Nat
    <3>1. r \in 0 .. GRID_HEIGHT - 1 /\ GRID_HEIGHT \in Nat
      BY DEF Rows, GameFits
    <3>2. \A q \in 0 .. GRID_HEIGHT - 1 : q < r => q \in 0 .. r - 1
      BY <3>1
    <3>3. \A q \in 0 .. r - 1 : q \in 0 .. GRID_HEIGHT - 1 /\ q < r
      BY <3>1
    <3>4. \A q \in B : q \in 0 .. r - 1
      BY <3>2 DEF Rows
    <3>5. \A q \in 0 .. r - 1 : q \in B
      BY <3>3 DEF Rows
    <3>6. r \in Nat
      BY <3>1
    <3> HIDE DEF B
    <3>7. B = 0 .. r - 1
      BY <3>4, <3>5, Zenon
    <3> QED
      BY <3>6, <3>7
  <2> HIDE DEF B
  <2>2. Cardinality(0 .. r - 1) = r
    <3> DEFINE k == r - 1
    <3>1. k \in Int /\ 0 \in Int /\ r = k - 0 + 1 /\ ~(0 > k /\ r # 0)
      BY <2>1
    <3>2. Cardinality(0 .. k) = IF 0 > k THEN 0 ELSE k - 0 + 1
      <4> HIDE DEF k
      <4> QED
        BY <3>1, FS_Interval
    <3> QED
      BY <3>1, <3>2
  <2>3. Cardinality(B) = r
    BY <2>1, <2>2
  <2> QED
    BY <2>3 DEF B
<1>2. \A y \in Rows : came_down_to(y, Rows) = {y}
  BY <1>1 DEF came_down_to
<1>3. \A y \in Rows : moved_down(field, Rows, empty)[y] = field[y]
  BY <1>2 DEF moved_down
<1>4. moved_down(field, Rows, empty) = [y \in Rows |-> moved_down(field, Rows, empty)[y]]
  BY DEF moved_down
<1> QED
  BY <1>3, <1>4

\* The rows and the colours after a lock.
LEMMA LockOrders ==
  ASSUME GameFits, BoardInv, NEW b, Placed(b), LockAndSpawn(b),
         NEW landed, landed = grid_block_add(grid, b), NEW kept, kept = rows_kept(landed)
  PROVE  /\ grid'.rows = moved_down(landed.rows, kept, {})
         /\ grid'.colors = moved_down(landed.colors, kept, [x \in Cols |-> BLACK])
<1>1. landed \in Grid
  BY AddKeepsRecords DEF BoardInv
<1>2. grid' = grid_clear_lines(landed)
  BY DEF LockAndSpawn
<1>3. CASE kept = Rows
  <2>1. grid' = landed
    BY <1>1, <1>2, <1>3, ClearLeaves
  <2>2. /\ landed.rows = [y \in Rows |-> landed.rows[y]]
        /\ landed.colors = [y \in Rows |-> landed.colors[y]]
    BY <1>1 DEF Grid
  <2> QED
    BY <1>3, <2>1, <2>2, NothingFalls
<1>4. CASE kept # Rows
  <2> DEFINE left == without_full_rows(landed)
  <2>1. grid' = [left EXCEPT !.relief = recalc_relief(left)]
    BY <1>1, <1>2, <1>4, ClearLeaves
  <2>2. /\ left.rows = moved_down(landed.rows, kept, {})
        /\ left.colors = moved_down(landed.colors, kept, [x \in Cols |-> BLACK])
    BY <1>1 DEF without_full_rows, Grid
  <2>3. grid'.rows = left.rows /\ grid'.colors = left.colors
    BY <2>1
  <2> HIDE DEF left
  <2> QED
    BY <2>2, <2>3
<1> QED
  BY <1>3, <1>4

\* A step that locks a piece locks the falling one, where it can fall no further.
LEMMA LockStepIsWhole ==
  ASSUME GameFits, IInv, pc # "over", NEW n \in 0 .. GRID_HEIGHT,
         \A k \in 0 .. n : is_free(grid, shifted(current_block, 0, -k)),
         ~can_move_down(grid, shifted(current_block, 0, -n)),
         Placed(shifted(current_block, 0, -n)),
         LockAndSpawn(shifted(current_block, 0, -n))
  PROVE  LocksWholeStep /\ RowsFallInOrderStep
<1> DEFINE b == shifted(current_block, 0, -n)
<1>1. n \in 0 .. n
  BY DEF GameFits
<1>2. is_free(grid, b)
  BY <1>1
<1>3. area' + GRID_WIDTH * (grid'.lines_cleared - grid.lines_cleared)
        = area + Cardinality({ c \in cells(b) : on_grid(c) })
  BY <1>2, LockCounts DEF IInv
<1>4. /\ grid.rows' = moved_down(grid_block_add(grid, b).rows,
                                  rows_kept(grid_block_add(grid, b)), {})
      /\ grid.colors' = moved_down(grid_block_add(grid, b).colors,
                                    rows_kept(grid_block_add(grid, b)), [x \in Cols |-> BLACK])
  BY LockOrders DEF IInv
<1>5. LocksWholeStep
  BY <1>3 DEF LocksWholeStep
<1>6. RowsFallInOrderStep
  BY <1>2, <1>4 DEF RowsFallInOrderStep
<1> QED
  BY <1>5, <1>6

\* A piece that lands was not dropped.
LEMMA LandIsWhole ==
  ASSUME GameFits, IInv, pc # "over", Land
  PROVE  LocksWholeStep /\ RowsFallInOrderStep
<1>1. Placed(current_block) /\ current_block \in Block /\ is_free(grid, current_block)
  BY DEF IInv, BoardInv, LoopInv, BlockIsFree, is_free, Placed
<1>2. \A k \in Int : k = 0 => shifted(current_block, 0, -k) = current_block
  BY <1>1, ShiftNone
<1>3. PICK n \in 0 .. GRID_HEIGHT : n = 0
  BY DEF GameFits
<1>4. shifted(current_block, 0, -n) = current_block
  BY <1>2, <1>3
<1>5. \A k \in 0 .. n : k = 0
  BY <1>3
<1>6. \A k \in 0 .. n : is_free(grid, shifted(current_block, 0, -k))
  BY <1>1, <1>2, <1>5
<1> QED
  BY <1>1, <1>4, <1>6, LockStepIsWhole DEF Land

\* A hard drop locks the piece where grid_block_drop ends.
LEMMA HardDropIsWhole ==
  ASSUME GameFits, IInv, HardDrop
  PROVE  LocksWholeStep /\ RowsFallInOrderStep
<1> DEFINE n == grid_block_drop(grid, current_block)
<1>1. Placed(current_block) /\ is_free(grid, current_block) /\ pc # "over"
  BY DEF IInv, BoardInv, LoopInv, BlockIsFree, is_free, HardDrop
<1>2. /\ n \in 0 .. GRID_HEIGHT
      /\ \A k \in 0 .. n : is_free(grid, shifted(current_block, 0, -k))
      /\ ~can_move_down(grid, shifted(current_block, 0, -n))
  BY <1>1, DropEnds
<1>3. Placed(shifted(current_block, 0, -n))
  BY <1>1, DropPlaced
<1>4. LockAndSpawn(shifted(current_block, 0, -n))
  BY DEF HardDrop
<1> HIDE DEF n
<1> QED
  BY <1>1, <1>2, <1>3, <1>4, LockStepIsWhole

\* Each step of the game accounts for every cell of a piece that it locks.
LEMMA StepLocksWhole ==
  ASSUME GameFits, IInv, [Next]_vars
  PROVE  LocksWholeStep /\ RowsFallInOrderStep
<1>1. CASE Draw \/ NoInput \/ Move \/ Rotate \/ Pause \/ Resume \/ Quit \/ UNCHANGED vars
  BY <1>1 DEF Draw, NoInput, Move, Rotate, Pause, Resume, Quit, vars, LocksWholeStep,
                 RowsFallInOrderStep
<1>2. CASE Fall
  BY <1>2 DEF Fall, LocksWholeStep, RowsFallInOrderStep
<1>3. CASE Land /\ pc # "over"
  BY <1>3, LandIsWhole
<1>4. CASE SoftDrop
  BY <1>2, <1>3, <1>4 DEF SoftDrop
<1>5. CASE HardDrop
  BY <1>5, HardDropIsWhole
<1>6. CASE Tick
  <2>1. CASE Fall \/ Land
    BY <1>2, <1>3, <1>6, <2>1 DEF Tick
  <2>2. CASE UNCHANGED locked
    BY <2>2 DEF LocksWholeStep, RowsFallInOrderStep
  <2> QED
    BY <1>6, <2>1, <2>2 DEF Tick
<1> QED
  BY <1>1, <1>4, <1>5, <1>6 DEF Next, Halt

\* A piece locks at the first place on its way down under which something lies; all its
\* cells on the grid are added, and every line that goes takes a row with it and is
\* counted (tetris_grid.c:127-160, 248-291).
THEOREM PiecesLockWhole ==
  ASSUME GameFits
  PROVE  Spec => LocksWhole
<1>1. IInv /\ [Next]_vars => LocksWholeStep
  BY StepLocksWhole
<1> QED
  BY <1>1, GameInvariant, PTL DEF Spec, LocksWhole

\* After every lock the rows that were not full have come down by as many rows as full
\* ones lay under them, whole and in their order (tetris_grid.c:98-140).
THEOREM RowsFall ==
  ASSUME GameFits
  PROVE  Spec => RowsFallInOrder
<1>1. IInv /\ [Next]_vars => RowsFallInOrderStep
  BY StepLocksWhole
<1> QED
  BY <1>1, GameInvariant, PTL DEF Spec, RowsFallInOrder
-----------------------------------------------------------------------------
(***************************************************************************)
(* The picture.                                                            *)
(***************************************************************************)
\* The well with its frame and the box of the next piece lie side by side on the screen,
\* as tetris.h places them: 2, 5 and 38, 8 on a screen of 64 x 64.
LayoutFits ==
  /\ BLOCK_SIZE \in Nat /\ BLOCK_SIZE >= 1
  /\ GRID_OFFSET_X \in Nat /\ GRID_OFFSET_X >= 1
  /\ GRID_OFFSET_Y \in Nat /\ GRID_OFFSET_Y >= 1
  /\ SCREEN_WIDTH \in Nat /\ GRID_OFFSET_X + GRID_WIDTH * BLOCK_SIZE < SCREEN_WIDTH
  /\ SCREEN_HEIGHT \in Nat /\ GRID_OFFSET_Y + GRID_HEIGHT * BLOCK_SIZE < SCREEN_HEIGHT
  /\ PREVIEW_X \in Nat /\ PREVIEW_X > GRID_OFFSET_X + GRID_WIDTH * BLOCK_SIZE
  /\ PREVIEW_X + 12 <= SCREEN_WIDTH
  /\ PREVIEW_Y \in Nat /\ PREVIEW_Y + 12 <= SCREEN_HEIGHT

\* Pixels on the screen, each with a colour that can be seen.
Lit(fb) == \A p \in DOMAIN fb : on_screen(p) /\ fb[p] \in CYAN .. GRAY

\* Painting clips at the edge of the screen, whatever the picture (tetris_draw.c:34-39).
LEMMA PaintTyped ==
  ASSUME NEW fb, Lit(fb), NEW picture,
         \A p \in DOMAIN picture : picture[p] \in BLACK .. GRAY
  PROVE  Lit(paint(fb, picture))
<1> DEFINE lit == (DOMAIN fb \ DOMAIN picture)
                    \cup { p \in DOMAIN picture : on_screen(p) /\ picture[p] # BLACK }
<1>1. paint(fb, picture) = [p \in lit |-> IF p \in DOMAIN picture THEN picture[p] ELSE fb[p]]
  BY DEF paint
<1>2. ASSUME NEW p \in lit
      PROVE  on_screen(p) /\ (IF p \in DOMAIN picture THEN picture[p] ELSE fb[p]) \in CYAN .. GRAY
  <2>1. CASE p \in DOMAIN picture
    BY <1>2, <2>1 DEF CYAN, BLACK, GRAY
  <2>2. CASE p \notin DOMAIN picture
    BY <1>2, <2>2 DEF Lit
  <2> QED
    BY <2>1, <2>2
<1> HIDE DEF lit
<1> QED
  BY <1>1, <1>2 DEF Lit

\* A pixel after painting.
LEMMA PaintedPixel ==
  ASSUME NEW fb, NEW picture, NEW p
  PROVE  /\ p \notin DOMAIN picture => fb_pixel(paint(fb, picture), p) = fb_pixel(fb, p)
         /\ p \in DOMAIN picture /\ on_screen(p) => fb_pixel(paint(fb, picture), p) = picture[p]
<1> DEFINE lit == (DOMAIN fb \ DOMAIN picture)
                    \cup { q \in DOMAIN picture : on_screen(q) /\ picture[q] # BLACK }
<1>1. paint(fb, picture) = [q \in lit |-> IF q \in DOMAIN picture THEN picture[q] ELSE fb[q]]
  BY DEF paint
<1>2. p \in lit <=> IF p \in DOMAIN picture THEN on_screen(p) /\ picture[p] # BLACK
                    ELSE p \in DOMAIN fb
  OBVIOUS
<1> HIDE DEF lit
<1> QED
  BY <1>1, <1>2 DEF fb_pixel

\* The frame holds pixels of the screen only.
LEMMA FrameTyped ==
  ASSUME GameFits, BoardInv
  PROVE  Lit(frame)
<1> DEFINE fb1 == draw_border(black)
           fb2 == draw_grid(fb1, grid)
           fb3 == draw_block(fb2, current_block)
           shape == next_block.shape
<1>1. Lit(fb1)
  <2>1. Lit(black)
    BY DEF Lit, black
  <2> QED
    BY <2>1, PaintTyped DEF draw_border, fb_rect_outline, in_color, RED, BLACK, GRAY
<1> HIDE DEF fb1
<1>2. Lit(fb2)
  <2> DEFINE cell_of(p) == CHOOSE c \in occupied(grid) : p \in square(c)
             picture == [p \in squares(occupied(grid)) |->
                           grid.colors[cell_of(p)[2]][cell_of(p)[1]]]
  <2>1. ASSUME NEW p \in squares(occupied(grid))
        PROVE  grid.colors[cell_of(p)[2]][cell_of(p)[1]] \in BLACK .. GRAY
    <3>1. \E c \in occupied(grid) : p \in square(c)
      BY DEF squares
    <3>2. cell_of(p) \in occupied(grid)
      BY <3>1
    <3> HIDE DEF cell_of
    <3>3. cell_of(p)[1] \in Cols /\ cell_of(p)[2] \in Rows
      BY <3>2 DEF occupied
    <3> QED
      BY <3>3 DEF BoardInv, Grid
  <2>2. fb2 = paint(fb1, picture)
    BY DEF draw_grid
  <2> HIDE DEF cell_of
  <2> QED
    BY <1>1, <2>1, <2>2, PaintTyped
<1> HIDE DEF fb2
<1>3. Lit(fb3)
  BY <1>2, PaintTyped DEF draw_block, in_color, BoardInv, Placed, Block
<1> HIDE DEF fb3
<1>4. shape \in Shapes
  BY DEF BoardInv, Placed, Block
<1> HIDE DEF shape
<1>5. Lit(draw_preview(fb3, shape))
  <2>1. COLOR(shape) \in BLACK .. GRAY
    BY <1>4, ShapeColor DEF CYAN, BLACK, GRAY
  <2>2. Lit(fb_rect(fb3, PREVIEW_X, PREVIEW_Y, 12, 12, BLACK))
    BY <1>3, PaintTyped DEF fb_rect, in_color, BLACK, GRAY
  <2> QED
    BY <2>1, <2>2, PaintTyped DEF draw_preview, in_color
<1> QED
  BY <1>5 DEF frame, fb1, fb2, fb3, shape

\* The display shows the frame that was drawn last.
ScreenInv ==
  /\ Lit(screen)
  /\ pc = "input" => screen = frame

\* Only Draw touches the screen, and nothing moves between it and the input.
LEMMA StepShows ==
  ASSUME GameFits, IInv, ScreenInv, [Next]_vars
  PROVE  ScreenInv'
<1>1. CASE Draw
  <2>1. screen' = frame /\ UNCHANGED <<grid, current_block, next_block>>
    BY <1>1 DEF Draw
  <2>2. Lit(frame)
    BY FrameTyped DEF IInv
  <2>3. frame' = frame
    BY <2>1 DEF frame
  <2> QED
    BY <2>1, <2>2, <2>3 DEF ScreenInv
<1>2. CASE NoInput \/ Move \/ Rotate \/ SoftDrop \/ HardDrop \/ Pause \/ Resume \/ Quit \/ Tick
  <2>1. screen' = screen /\ pc' # "input"
    BY <1>2 DEF NoInput, Move, Rotate, SoftDrop, HardDrop, Pause, Resume, Quit, Tick, AfterInput
  <2> QED
    BY <2>1 DEF ScreenInv
<1>3. CASE UNCHANGED vars
  <2>1. frame' = frame /\ screen' = screen /\ pc' = pc
    BY <1>3 DEF vars, frame
  <2> QED
    BY <2>1 DEF ScreenInv
<1> QED
  BY <1>1, <1>2, <1>3 DEF Next, Halt

\* A bag without a shape twice is no longer than there are shapes.
LEMMA BagTyped ==
  ASSUME GameFits, NEW b, Distinct(b)
  PROVE  b \in UNION { [1 .. n -> Shapes] : n \in 0 .. Cardinality(Shapes) }
<1> DEFINE n == Len(b)
<1>1. n \in Nat /\ b \in [1 .. n -> Shapes]
  BY DEF Distinct
<1>2. \A i, j \in 1 .. n : b[i] = b[j] => i = j
  BY DEF Distinct
<1> HIDE DEF n
<1>3. b \in Injection(1 .. n, Shapes)
  BY <1>1, <1>2, Fun_IsInj
<1>4. Cardinality(1 .. n) = n
  BY <1>1, FS_Interval
<1>5. n <= Cardinality(Shapes) /\ Cardinality(Shapes) \in Nat
  BY <1>3, <1>4, FS_Injection, FS_CardinalityType DEF GameFits
<1> QED
  BY <1>1, <1>5

\* The types follow from the invariant.
LEMMA Typed ==
  ASSUME GameFits, IInv, ScreenInv
  PROVE  TypeOK
<1>1. bag \in UNION { [1 .. n -> Shapes] : n \in 0 .. Cardinality(Shapes) }
  BY BagTyped DEF IInv, Fair
<1> QED
  BY <1>1 DEF TypeOK, IInv, BoardInv, LoopInv, ScreenInv, Lit, Placed

\* The variables of the game keep their types: grid, blocks and bag stay what the C
\* structures can hold, and nothing is drawn off the screen.
THEOREM TetrisTypes ==
  ASSUME GameFits
  PROVE  Spec => []TypeOK
<1>1. Init => IInv /\ ScreenInv
  BY InitInvariant DEF Init, ScreenInv, Lit, black
<1>2. IInv /\ ScreenInv /\ [Next]_vars => IInv' /\ ScreenInv'
  BY StepInvariant, StepShows
<1>3. IInv /\ ScreenInv => TypeOK
  BY Typed
<1> QED
  BY <1>1, <1>2, <1>3, PTL DEF Spec

-----------------------------------------------------------------------------
(***************************************************************************)
(* What the display shows.                                                 *)
(***************************************************************************)
\* The pixel by which a cell of the grid is looked at.
corner(c) == <<GRID_OFFSET_X + c[1] * BLOCK_SIZE,
               GRID_OFFSET_Y + (GRID_HEIGHT - c[2]) * BLOCK_SIZE - 1>>

\* Steps of the same size that are not the same do not overlap.
LEMMA StepsApart ==
  ASSUME NEW a \in Int, NEW b \in Int, NEW size \in Nat, size >= 1,
         NEW r \in 0 .. size - 1, NEW t \in 0 .. size - 1,
         a * size + r = b * size + t
  PROVE  a = b
<1>1. ASSUME NEW i \in Int, NEW j \in Int, i < j
      PROVE  i * size + size <= j * size
  <2>1. j - i - 1 \in Nat
    BY <1>1
  <2>2. (j - i - 1) * size >= 0
    BY <2>1
  <2> QED
    BY <2>2
<1>2. ~(a < b)
  BY <1>1
<1>3. ~(b < a)
  BY <1>1
<1> QED
  BY <1>2, <1>3

\* The cells of the grid lie within the frame.
LEMMA StepsWithin ==
  ASSUME NEW n \in Nat, NEW a \in 0 .. n - 1, NEW size \in Nat
  PROVE  0 <= a * size /\ a * size + size <= n * size
<1>1. (n - a - 1) * size >= 0 /\ a * size >= 0
  OBVIOUS
<1> QED
  BY <1>1

\* The pixel of a cell lies in the square of this cell and of no other.
LEMMA CornerOf ==
  ASSUME GameFits, LayoutFits, NEW c \in Cols \X Rows, NEW d \in Cols \X Rows
  PROVE  corner(c) \in square(d) <=> c = d
<1> DEFINE B == BLOCK_SIZE
           u == GRID_HEIGHT - 1 - c[2]
           v == GRID_HEIGHT - 1 - d[2]
           p == corner(c)
<1>1. c[1] \in Int /\ c[2] \in Int /\ d[1] \in Int /\ d[2] \in Int
      /\ c = <<c[1], c[2]>> /\ d = <<d[1], d[2]>> /\ u \in Int /\ v \in Int
      /\ GRID_HEIGHT \in Nat /\ B \in Nat /\ B >= 1 /\ GRID_OFFSET_X \in Nat
      /\ GRID_OFFSET_Y \in Nat
  BY DEF Cols, Rows, GameFits, LayoutFits
<1>2. (GRID_HEIGHT - c[2]) * B = u * B + B
  BY <1>1
<1>3. p = <<GRID_OFFSET_X + c[1] * B, GRID_OFFSET_Y + u * B + (B - 1)>>
  BY <1>1, <1>2 DEF corner
<1>4. square(d) = (GRID_OFFSET_X + d[1] * B .. GRID_OFFSET_X + d[1] * B + B - 1)
                    \X (GRID_OFFSET_Y + v * B .. GRID_OFFSET_Y + v * B + B - 1)
  BY DEF square, rect
<1>5. c[1] * B \in Int /\ d[1] * B \in Int /\ u * B \in Int /\ v * B \in Int
  BY <1>1
<1>6. p \in square(d) <=>
        /\ c[1] * B >= d[1] * B /\ c[1] * B <= d[1] * B + B - 1
        /\ u * B + (B - 1) >= v * B /\ u * B + (B - 1) <= v * B + B - 1
  BY <1>1, <1>3, <1>4, <1>5
<1>7. ASSUME p \in square(d)
      PROVE  c[1] = d[1] /\ u = v
  <2> DEFINE t == c[1] * B - d[1] * B
             r == u * B + (B - 1) - v * B
  <2>1. t \in 0 .. B - 1 /\ c[1] * B + 0 = d[1] * B + t /\ 0 \in 0 .. B - 1
    BY <1>1, <1>5, <1>6, <1>7
  <2>2. r \in 0 .. B - 1 /\ u * B + (B - 1) = v * B + r /\ B - 1 \in 0 .. B - 1
    BY <1>1, <1>5, <1>6, <1>7
  <2> HIDE DEF t, r, u, v
  <2>3. c[1] = d[1]
    BY <1>1, <2>1, StepsApart
  <2>4. u = v
    BY <1>1, <2>2, StepsApart
  <2> QED
    BY <2>3, <2>4
<1>8. ASSUME c = d
      PROVE  p \in square(d)
  BY <1>1, <1>5, <1>6, <1>8
<1> HIDE DEF p
<1>9. u = v => c[2] = d[2]
  BY <1>1
<1> QED
  BY <1>1, <1>7, <1>8, <1>9 DEF p

\* The squares lie within the frame, on the screen and left of the box of the next piece.
LEMMA SquareWithin ==
  ASSUME GameFits, LayoutFits, NEW d \in Cols \X Rows, NEW p \in square(d)
  PROVE  p \in rect(GRID_OFFSET_X, GRID_OFFSET_Y, GRID_WIDTH * BLOCK_SIZE,
                    GRID_HEIGHT * BLOCK_SIZE)
<1> DEFINE B == BLOCK_SIZE
           v == GRID_HEIGHT - 1 - d[2]
<1>1. d[1] \in 0 .. GRID_WIDTH - 1 /\ d[2] \in 0 .. GRID_HEIGHT - 1 /\ B \in Nat
      /\ GRID_WIDTH \in Nat /\ GRID_HEIGHT \in Nat /\ GRID_OFFSET_X \in Nat
      /\ GRID_OFFSET_Y \in Nat
  BY DEF Cols, Rows, GameFits, LayoutFits
<1>2. v \in 0 .. GRID_HEIGHT - 1
  BY <1>1
<1>3. p \in (GRID_OFFSET_X + d[1] * B .. GRID_OFFSET_X + d[1] * B + B - 1)
              \X (GRID_OFFSET_Y + v * B .. GRID_OFFSET_Y + v * B + B - 1)
  BY DEF square, rect
<1> HIDE DEF v
<1>4. 0 <= d[1] * B /\ d[1] * B + B <= GRID_WIDTH * B
  BY <1>1, StepsWithin
<1>5. 0 <= v * B /\ v * B + B <= GRID_HEIGHT * B
  BY <1>1, <1>2, StepsWithin
<1> DEFINE w == GRID_WIDTH * B
           h == GRID_HEIGHT * B
           x == d[1] * B
           y == v * B
<1>6. w \in Int /\ h \in Int /\ x \in Int /\ y \in Int
  BY <1>1, <1>2
<1> HIDE DEF w, h, x, y
<1>7. p \in (GRID_OFFSET_X .. GRID_OFFSET_X + w - 1) \X (GRID_OFFSET_Y .. GRID_OFFSET_Y + h - 1)
  BY <1>1, <1>3, <1>4, <1>5, <1>6 DEF x, y, w, h
<1> QED
  BY <1>7 DEF rect, w, h
\* What lies within the frame is on the screen, not on the frame, and left of the box of
\* the next piece.
LEMMA WithinIs ==
  ASSUME GameFits, LayoutFits,
         NEW p \in rect(GRID_OFFSET_X, GRID_OFFSET_Y, GRID_WIDTH * BLOCK_SIZE,
                        GRID_HEIGHT * BLOCK_SIZE)
  PROVE  /\ on_screen(p)
         /\ p \notin outline(GRID_OFFSET_X - 1, GRID_OFFSET_Y - 1,
                            GRID_WIDTH * BLOCK_SIZE + 2, GRID_HEIGHT * BLOCK_SIZE + 2)
         /\ p[1] \in Int /\ p[1] < PREVIEW_X
<1> DEFINE w == GRID_WIDTH * BLOCK_SIZE
           h == GRID_HEIGHT * BLOCK_SIZE
<1>1. w \in Int /\ h \in Int
  BY DEF GameFits, LayoutFits
<1>2. /\ GRID_OFFSET_X + w < SCREEN_WIDTH /\ GRID_OFFSET_Y + h < SCREEN_HEIGHT
      /\ PREVIEW_X > GRID_OFFSET_X + w
      /\ p \in (GRID_OFFSET_X .. GRID_OFFSET_X + w - 1) \X (GRID_OFFSET_Y .. GRID_OFFSET_Y + h - 1)
  BY DEF LayoutFits, rect
<1>3. outline(GRID_OFFSET_X - 1, GRID_OFFSET_Y - 1, w + 2, h + 2)
        = { q \in rect(GRID_OFFSET_X - 1, GRID_OFFSET_Y - 1, w + 2, h + 2) :
              \/ q[1] \in {GRID_OFFSET_X - 1, GRID_OFFSET_X - 1 + (w + 2) - 1}
              \/ q[2] \in {GRID_OFFSET_Y - 1, GRID_OFFSET_Y - 1 + (h + 2) - 1} }
  BY DEF outline
<1> HIDE DEF w, h
<1>4. /\ p[1] \in GRID_OFFSET_X .. GRID_OFFSET_X + w - 1
      /\ p[2] \in GRID_OFFSET_Y .. GRID_OFFSET_Y + h - 1
  BY <1>2
<1>5. on_screen(p) /\ p[1] \in Int /\ p[1] < PREVIEW_X
  BY <1>1, <1>2, <1>4 DEF on_screen, LayoutFits
<1>6. p \notin outline(GRID_OFFSET_X - 1, GRID_OFFSET_Y - 1, w + 2, h + 2)
  BY <1>1, <1>3, <1>4 DEF LayoutFits
<1> QED
  BY <1>5, <1>6 DEF w, h

\* The preview draws in its own box, on the screen (tetris_draw.c:264-300).
LEMMA PreviewBox ==
  ASSUME GameFits, LayoutFits, NEW s \in Shapes, NEW d \in shape_get_cells(s, 0)
  PROVE  /\ d[1] \in 0 .. 3 /\ d[2] \in 0 .. 3 /\ d = <<d[1], d[2]>>
         /\ preview_square(d) \subseteq rect(PREVIEW_X, PREVIEW_Y, 12, 12)
<1>1. s \in 0 .. 6
  BY DEF GameFits
<1>2. d[1] \in 0 .. 3 /\ d[2] \in 0 .. 3 /\ d = <<d[1], d[2]>>
  BY <1>1, ShapeTable
<1>3. PREVIEW_X \in Int /\ PREVIEW_Y \in Int
  BY DEF LayoutFits
<1>4. preview_square(d) \subseteq rect(PREVIEW_X, PREVIEW_Y, 12, 12)
  <2> DEFINE x == PREVIEW_X + 3 * d[1]
             y == PREVIEW_Y + 3 * (3 - d[2])
  <2>1. x \in PREVIEW_X .. PREVIEW_X + 9 /\ y \in PREVIEW_Y .. PREVIEW_Y + 9
    BY <1>2, <1>3
  <2>2. preview_square(d) = (x .. x + 2 - 1) \X (y .. y + 2 - 1)
    BY DEF preview_square, rect
  <2> HIDE DEF x, y
  <2> QED
    BY <1>3, <2>1, <2>2 DEF rect
<1> QED
  BY <1>2, <1>4

\* Left of its box the preview draws nothing.
LEMMA PreviewKeeps ==
  ASSUME GameFits, LayoutFits, NEW s \in Shapes, NEW fb, NEW p, p[1] \in Int, p[1] < PREVIEW_X
  PROVE  fb_pixel(draw_preview(fb, s), p) = fb_pixel(fb, p)
<1> DEFINE P == UNION { preview_square(d) : d \in shape_get_cells(s, 0) }
           box == rect(PREVIEW_X, PREVIEW_Y, 12, 12)
           fb1 == fb_rect(fb, PREVIEW_X, PREVIEW_Y, 12, 12, BLACK)
<1>1. p \notin box
  BY DEF rect, LayoutFits
<1>2. P \subseteq box
  BY PreviewBox
<1>3. fb_pixel(fb1, p) = fb_pixel(fb, p)
  BY <1>1, PaintedPixel DEF fb_rect, in_color
<1> HIDE DEF fb1, P
<1>4. fb_pixel(paint(fb1, in_color(P, COLOR(s))), p) = fb_pixel(fb1, p)
  BY <1>1, <1>2, PaintedPixel DEF in_color
<1> QED
  BY <1>3, <1>4 DEF draw_preview, fb1, P

\* The frame around the well, and nothing within it.
LEMMA BorderShown ==
  ASSUME GameFits, LayoutFits, NEW p
  PROVE  /\ p \in outline(GRID_OFFSET_X - 1, GRID_OFFSET_Y - 1,
                         GRID_WIDTH * BLOCK_SIZE + 2, GRID_HEIGHT * BLOCK_SIZE + 2)
              /\ on_screen(p) => fb_pixel(draw_border(black), p) = RED
         /\ p \notin outline(GRID_OFFSET_X - 1, GRID_OFFSET_Y - 1,
                            GRID_WIDTH * BLOCK_SIZE + 2, GRID_HEIGHT * BLOCK_SIZE + 2)
              => fb_pixel(draw_border(black), p) = BLACK
<1> DEFINE P == outline(GRID_OFFSET_X - 1, GRID_OFFSET_Y - 1,
                        GRID_WIDTH * BLOCK_SIZE + 2, GRID_HEIGHT * BLOCK_SIZE + 2)
<1>1. draw_border(black) = paint(black, in_color(P, RED))
  BY DEF draw_border, fb_rect_outline
<1>2. fb_pixel(black, p) = BLACK
  BY DEF fb_pixel, black
<1> HIDE DEF P
<1>3. DOMAIN in_color(P, RED) = P /\ (p \in P => in_color(P, RED)[p] = RED)
  BY DEF in_color
<1>4. p \in P /\ on_screen(p) => fb_pixel(draw_border(black), p) = RED
  BY <1>1, <1>3, PaintedPixel
<1>5. p \notin P => fb_pixel(draw_border(black), p) = BLACK
  BY <1>1, <1>2, <1>3, PaintedPixel
<1> QED
  BY <1>4, <1>5 DEF P

\* draw_grid and draw_block paint only within the frame.
LEMMA OutsideKept ==
  ASSUME GameFits, LayoutFits, NEW fb, NEW g, NEW b, Placed(b), NEW p,
         p \notin rect(GRID_OFFSET_X, GRID_OFFSET_Y, GRID_WIDTH * BLOCK_SIZE,
                       GRID_HEIGHT * BLOCK_SIZE)
  PROVE  fb_pixel(draw_block(draw_grid(fb, g), b), p) = fb_pixel(fb, p)
<1> DEFINE new == { c \in cells(b) : on_grid(c) }
           fb1 == draw_grid(fb, g)
<1>1. \A C \in SUBSET (Cols \X Rows) : p \notin squares(C)
  BY SquareWithin DEF squares
<1>2. new \in SUBSET (Cols \X Rows)
  <2>1. \A c \in cells(b) : c = <<c[1], c[2]>>
    BY CellsOf DEF Placed, Block, GameFits
  <2> QED
    BY <2>1 DEF on_grid
<1>3. occupied(g) \in SUBSET (Cols \X Rows)
  BY DEF occupied
<1>4. fb_pixel(fb1, p) = fb_pixel(fb, p)
  BY <1>1, <1>3, PaintedPixel DEF draw_grid
<1> HIDE DEF fb1
<1>5. fb_pixel(draw_block(fb1, b), p) = fb_pixel(fb1, p)
  <2>1. draw_block(fb1, b) = paint(fb1, in_color(squares(new), b.color))
    BY DEF draw_block
  <2> HIDE DEF new
  <2> QED
    BY <1>1, <1>2, <2>1, PaintedPixel DEF in_color
<1> QED
  BY <1>4, <1>5 DEF fb1
\* A cell of the grid is shown in its colour, under the falling block in that one's
\* (tetris_draw.c:157-208).
LEMMA CellShown ==
  ASSUME GameFits, LayoutFits, NEW g \in Grid, NEW b, Placed(b), NEW s \in Shapes,
         NEW c \in Cols \X Rows
  PROVE  fb_pixel(draw_preview(draw_block(draw_grid(draw_border(black), g), b), s), corner(c))
           = IF c \in cells(b) THEN b.color
             ELSE IF c[1] \in g.rows[c[2]] THEN g.colors[c[2]][c[1]] ELSE BLACK
<1> DEFINE p == corner(c)
           fb1 == draw_border(black)
           fb2 == draw_grid(fb1, g)
           fb3 == draw_block(fb2, b)
           new == { d \in cells(b) : on_grid(d) }
           cell_of(q) == CHOOSE d \in occupied(g) : q \in square(d)
           picture == [q \in squares(occupied(g)) |-> g.colors[cell_of(q)[2]][cell_of(q)[1]]]
<1>1. p \in square(c) /\ \A d \in Cols \X Rows : p \in square(d) => d = c
  BY CornerOf
<1>2. /\ on_screen(p) /\ p[1] \in Int /\ p[1] < PREVIEW_X
      /\ p \notin outline(GRID_OFFSET_X - 1, GRID_OFFSET_Y - 1,
                         GRID_WIDTH * BLOCK_SIZE + 2, GRID_HEIGHT * BLOCK_SIZE + 2)
  BY <1>1, SquareWithin, WithinIs
<1> HIDE DEF p
<1>3. fb_pixel(draw_preview(fb3, s), p) = fb_pixel(fb3, p)
  BY <1>2, PreviewKeeps
<1>4. fb_pixel(fb1, p) = BLACK
  BY <1>2, BorderShown
<1> HIDE DEF fb1
<1>5. new \in SUBSET (Cols \X Rows) /\ (c \in cells(b) <=> c \in new)
  <2>1. \A d \in cells(b) : d = <<d[1], d[2]>>
    BY CellsOf DEF Placed, Block, GameFits
  <2> QED
    BY <2>1 DEF on_grid
<1>6. \A C \in SUBSET (Cols \X Rows) : p \in squares(C) <=> c \in C
  BY <1>1 DEF squares
<1>7. occupied(g) \in SUBSET (Cols \X Rows) /\ (c \in occupied(g) <=> c[1] \in g.rows[c[2]])
  BY DEF occupied
<1>8. fb_pixel(fb2, p) = IF c \in occupied(g) THEN g.colors[c[2]][c[1]] ELSE BLACK
  <2>1. fb2 = paint(fb1, picture) /\ DOMAIN picture = squares(occupied(g))
    BY DEF draw_grid
  <2>2. CASE c \in occupied(g)
    <3>1. p \in squares(occupied(g))
      BY <1>6, <1>7, <2>2
    <3>2. cell_of(p) = c
      <4>1. \E d \in occupied(g) : p \in square(d)
        BY <1>1, <2>2
      <4>2. cell_of(p) \in occupied(g) /\ p \in square(cell_of(p))
        BY <4>1
      <4> HIDE DEF cell_of
      <4> QED
        BY <1>1, <1>7, <4>2
    <3>3. picture[p] = g.colors[cell_of(p)[2]][cell_of(p)[1]]
      BY <3>1
    <3> HIDE DEF picture, cell_of
    <3> QED
      BY <1>2, <2>1, <2>2, <3>1, <3>2, <3>3, PaintedPixel
  <2>3. CASE c \notin occupied(g)
    <3>1. p \notin squares(occupied(g))
      BY <1>6, <1>7, <2>3
    <3> HIDE DEF picture
    <3> QED
      BY <1>4, <2>1, <2>3, <3>1, PaintedPixel
  <2> QED
    BY <2>2, <2>3
<1> HIDE DEF fb2
<1>9. fb_pixel(fb3, p) = IF c \in new THEN b.color ELSE fb_pixel(fb2, p)
  <2>1. fb3 = paint(fb2, in_color(squares(new), b.color))
    BY DEF draw_block
  <2> HIDE DEF new
  <2>2. p \in squares(new) <=> c \in new
    BY <1>5, <1>6
  <2>3. DOMAIN in_color(squares(new), b.color) = squares(new)
        /\ (p \in squares(new) => in_color(squares(new), b.color)[p] = b.color)
    BY DEF in_color
  <2> QED
    BY <1>2, <2>1, <2>2, <2>3, PaintedPixel
<1> HIDE DEF fb3, new
<1> QED
  BY <1>3, <1>5, <1>7, <1>8, <1>9 DEF p, fb1, fb2, fb3

\* The box of the next piece shows its cells and nothing else (tetris_draw.c:264-329).
LEMMA PreviewShown ==
  ASSUME GameFits, LayoutFits, NEW fb, NEW s \in Shapes, NEW i \in 0 .. 3, NEW j \in 0 .. 3
  PROVE  fb_pixel(draw_preview(fb, s), <<PREVIEW_X + 3 * i, PREVIEW_Y + 9 - 3 * j>>)
           = IF <<i, j>> \in shape_get_cells(s, 0) THEN COLOR(s) ELSE BLACK
<1> DEFINE p == <<PREVIEW_X + 3 * i, PREVIEW_Y + 9 - 3 * j>>
           C == shape_get_cells(s, 0)
           P == UNION { preview_square(d) : d \in C }
           fb1 == fb_rect(fb, PREVIEW_X, PREVIEW_Y, 12, 12, BLACK)
<1>1. PREVIEW_X \in Nat /\ PREVIEW_Y \in Nat /\ on_screen(p)
  BY DEF LayoutFits, on_screen
<1>2. p \in rect(PREVIEW_X, PREVIEW_Y, 12, 12)
  BY <1>1 DEF rect
<1>3. fb_pixel(fb1, p) = BLACK
  <2> DEFINE box == rect(PREVIEW_X, PREVIEW_Y, 12, 12)
  <2>1. fb1 = paint(fb, in_color(box, BLACK))
    BY DEF fb_rect
  <2> HIDE DEF box, p
  <2>2. DOMAIN in_color(box, BLACK) = box /\ (p \in box => in_color(box, BLACK)[p] = BLACK)
    BY DEF in_color
  <2> QED
    BY <1>1, <1>2, <2>1, <2>2, PaintedPixel DEF box
<1>4. ASSUME NEW d \in C
      PROVE  p \in preview_square(d) <=> d = <<i, j>>
  <2>1. d[1] \in 0 .. 3 /\ d[2] \in 0 .. 3 /\ d = <<d[1], d[2]>>
    BY PreviewBox
  <2> DEFINE u == d[1]
             v == d[2]
             x == PREVIEW_X + 3 * u
             y == PREVIEW_Y + 3 * (3 - v)
  <2>2. preview_square(d) = (x .. x + 2 - 1) \X (y .. y + 2 - 1)
    BY DEF preview_square, rect
  <2> HIDE DEF u, v
  <2>3. u \in 0 .. 3 /\ v \in 0 .. 3 /\ d = <<u, v>>
    BY <2>1 DEF u, v
  <2>4. x \in Int /\ y \in Int
    BY <1>1, <2>3
  <2>5. p \in preview_square(d) <=> PREVIEW_X + 3 * i \in x .. x + 1
                                    /\ PREVIEW_Y + 9 - 3 * j \in y .. y + 1
    BY <1>1, <2>2, <2>4
  <2>6. p \in preview_square(d) <=> u = i /\ v = j
    BY <1>1, <2>3, <2>5
  <2> QED
    BY <2>3, <2>6
<1>5. p \in P <=> <<i, j>> \in C
  BY <1>4
<1> HIDE DEF fb1, P, p, C
<1>6. draw_preview(fb, s) = paint(fb1, in_color(P, COLOR(s)))
  BY DEF draw_preview, fb1, P, C
<1>7. DOMAIN in_color(P, COLOR(s)) = P /\ (p \in P => in_color(P, COLOR(s))[p] = COLOR(s))
  BY DEF in_color
<1>8. fb_pixel(draw_preview(fb, s), p) = IF <<i, j>> \in C THEN COLOR(s) ELSE BLACK
  BY <1>1, <1>3, <1>5, <1>6, <1>7, PaintedPixel
<1> QED
  BY <1>8 DEF p, C

\* The frame is whole: neither cells nor the preview are drawn over it.
LEMMA FrameIsWhole ==
  ASSUME GameFits, LayoutFits, NEW g, NEW b, Placed(b), NEW s \in Shapes,
         NEW p \in rect(GRID_OFFSET_X - 1, GRID_OFFSET_Y - 1,
                        GRID_WIDTH * BLOCK_SIZE + 2, GRID_HEIGHT * BLOCK_SIZE + 2)
                   \ rect(GRID_OFFSET_X, GRID_OFFSET_Y,
                          GRID_WIDTH * BLOCK_SIZE, GRID_HEIGHT * BLOCK_SIZE)
  PROVE  fb_pixel(draw_preview(draw_block(draw_grid(draw_border(black), g), b), s), p) = RED
<1> DEFINE w == GRID_WIDTH * BLOCK_SIZE
           h == GRID_HEIGHT * BLOCK_SIZE
           X == GRID_OFFSET_X
           Y == GRID_OFFSET_Y
<1>1. w \in Int /\ h \in Int /\ X \in Int /\ Y \in Int /\ X >= 1 /\ Y >= 1
  BY DEF GameFits, LayoutFits
<1>2. /\ X + w < SCREEN_WIDTH /\ Y + h < SCREEN_HEIGHT /\ PREVIEW_X > X + w
      /\ SCREEN_WIDTH \in Int /\ SCREEN_HEIGHT \in Int /\ PREVIEW_X \in Int
  BY DEF LayoutFits
<1> HIDE DEF w, h, X, Y
<1>3. p \in ((X - 1) .. (X - 1) + (w + 2) - 1) \X ((Y - 1) .. (Y - 1) + (h + 2) - 1)
  BY DEF rect, w, h, X, Y
<1>4. p[1] \in X - 1 .. X + w /\ p[2] \in Y - 1 .. Y + h /\ p = <<p[1], p[2]>>
  BY <1>1, <1>3
<1>5. ~(p[1] \in X .. X + w - 1 /\ p[2] \in Y .. Y + h - 1)
  <2>1. p \notin (X .. X + w - 1) \X (Y .. Y + h - 1)
    BY DEF rect, w, h, X, Y
  <2> QED
    BY <1>4, <2>1
<1>6. p[1] \in {X - 1, X - 1 + (w + 2) - 1} \/ p[2] \in {Y - 1, Y - 1 + (h + 2) - 1}
  BY <1>1, <1>4, <1>5
<1>7. p \in outline(X - 1, Y - 1, w + 2, h + 2)
  BY <1>6 DEF outline, w, h, X, Y
<1>8. on_screen(p) /\ p[1] \in Int /\ p[1] < PREVIEW_X
  BY <1>1, <1>2, <1>4 DEF on_screen
<1>9. fb_pixel(draw_border(black), p) = RED
  BY <1>7, <1>8, BorderShown DEF w, h, X, Y
<1>10. fb_pixel(draw_block(draw_grid(draw_border(black), g), b), p) = RED
  BY <1>9, OutsideKept
<1> QED
  BY <1>8, <1>10, PreviewKeeps

\* What was drawn shows the game as it stands.
LEMMA ShownAsIs ==
  ASSUME GameFits, LayoutFits, IInv, ScreenInv
  PROVE  DisplayShowsGame
<1> SUFFICES ASSUME screen = frame
             PROVE  DisplayShowsGame
  BY DEF ScreenInv, DisplayShowsGame
<1>1. /\ grid \in Grid /\ Placed(current_block) /\ next_block.shape \in Shapes
      /\ next_block.color = COLOR(next_block.shape)
  BY DEF IInv, BoardInv, Placed, Block
<1>2. ASSUME NEW c \in Cols \X Rows
      PROVE  fb_pixel(screen, corner(c))
               = IF c \in cells(current_block) THEN current_block.color
                 ELSE IF c[1] \in grid.rows[c[2]] THEN grid.colors[c[2]][c[1]] ELSE BLACK
  BY <1>1, CellShown DEF frame
<1>3. ASSUME NEW i \in 0 .. 3, NEW j \in 0 .. 3
      PROVE  fb_pixel(screen, <<PREVIEW_X + 3 * i, PREVIEW_Y + 9 - 3 * j>>)
               = IF <<i, j>> \in shape_get_cells(next_block.shape, 0)
                 THEN next_block.color ELSE BLACK
  BY <1>1, PreviewShown DEF frame
<1>4. ASSUME NEW p \in rect(GRID_OFFSET_X - 1, GRID_OFFSET_Y - 1,
                            GRID_WIDTH * BLOCK_SIZE + 2, GRID_HEIGHT * BLOCK_SIZE + 2)
                       \ rect(GRID_OFFSET_X, GRID_OFFSET_Y,
                              GRID_WIDTH * BLOCK_SIZE, GRID_HEIGHT * BLOCK_SIZE)
      PROVE  fb_pixel(screen, p) = RED
  BY <1>1, <1>4, FrameIsWhole DEF frame
<1> QED
  BY <1>2, <1>3, <1>4 DEF DisplayShowsGame, corner

\* While the program waits for an input the display shows the game as it stands: every
\* cell of the well, the falling block, the next piece and the whole frame, whatever the
\* size of the well and of a cell (tetris_draw.c:144-329, tetris.c:402-412).
THEOREM DisplayIsTrue ==
  ASSUME GameFits, LayoutFits
  PROVE  Spec => []DisplayShowsGame
<1>1. Init => IInv /\ ScreenInv
  BY InitInvariant, SMTT(40) DEF Init, ScreenInv, Lit, black
<1>2. IInv /\ ScreenInv /\ [Next]_vars => IInv' /\ ScreenInv'
  BY StepInvariant, StepShows
<1>3. IInv /\ ScreenInv => DisplayShowsGame
  BY ShownAsIs
<1> QED
  BY <1>1, <1>2, <1>3, PTL DEF Spec
=============================================================================
