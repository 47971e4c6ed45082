---------------------------- MODULE TetrisShapes ----------------------------
(***************************************************************************)
(* The shape tables of csrc/tetris/tetris_shape.c and the bag the shapes   *)
(* are dealt from.  Shapes and rotations keep their numbers; the four      *)
(* cells of a rotation are a set, for no code depends on their order.      *)
(***************************************************************************)
EXTENDS Integers, Sequences, FiniteSets

CONSTANT Shapes   \* the shapes in the bag, 0..6 in the source

\* The colours, by their palette index (tetris.h).
BLACK == 0
CYAN == 1
YELLOW == 2
PURPLE == 3
GREEN == 4
RED == 5
BLUE == 6
ORANGE == 7
GRAY == 8
SHAPE_COLORS == <<YELLOW, PURPLE, CYAN, BLUE, ORANGE, GREEN, RED>>
COLOR(shape) == SHAPE_COLORS[shape + 1]

\* The cells of each rotation, relative to the corner of the block.
SHAPES ==
  LET O == {<<0,0>>, <<1,0>>, <<0,1>>, <<1,1>>}
      I0 == {<<0,0>>, <<1,0>>, <<2,0>>, <<3,0>>}
      I1 == {<<0,0>>, <<0,1>>, <<0,2>>, <<0,3>>}
      S0 == {<<0,0>>, <<1,0>>, <<1,1>>, <<2,1>>}
      S1 == {<<0,1>>, <<0,2>>, <<1,0>>, <<1,1>>}
      Z0 == {<<0,1>>, <<1,1>>, <<1,0>>, <<2,0>>}
      Z1 == {<<0,0>>, <<0,1>>, <<1,1>>, <<1,2>>}
  IN << <<O, O, O, O>>,
        << {<<0,1>>, <<1,1>>, <<2,1>>, <<1,0>>}, {<<1,0>>, <<1,1>>, <<1,2>>, <<0,1>>},
           {<<0,0>>, <<1,0>>, <<2,0>>, <<1,1>>}, {<<0,0>>, <<0,1>>, <<0,2>>, <<1,1>>} >>,
        <<I0, I1, I0, I1>>,
        << {<<0,0>>, <<0,1>>, <<1,0>>, <<2,0>>}, {<<0,0>>, <<1,0>>, <<1,1>>, <<1,2>>},
           {<<0,1>>, <<1,1>>, <<2,1>>, <<2,0>>}, {<<0,0>>, <<0,1>>, <<0,2>>, <<1,2>>} >>,
        << {<<0,0>>, <<1,0>>, <<2,0>>, <<2,1>>}, {<<0,2>>, <<1,0>>, <<1,1>>, <<1,2>>},
           {<<0,0>>, <<0,1>>, <<1,1>>, <<2,1>>}, {<<0,0>>, <<0,1>>, <<0,2>>, <<1,0>>} >>,
        <<S0, S1, S0, S1>>,
        <<Z0, Z1, Z0, Z1>> >>

shape_get_cells(shape, rot) == SHAPES[shape + 1][(rot % 4) + 1]
shape_num_rotations(shape)  == <<1, 4, 2, 4, 4, 2, 2>>[shape + 1]

\* Width and height of every shape in its first rotation; the others swap them.
SHAPE_DIMENSIONS == << <<2, 2>>, <<3, 2>>, <<4, 1>>, <<3, 2>>, <<3, 2>>, <<3, 2>>, <<3, 2>> >>
shape_get_width(shape, rot)  == SHAPE_DIMENSIONS[shape + 1][1 + (rot % 2)]
shape_get_height(shape, rot) == SHAPE_DIMENSIONS[shape + 1][2 - (rot % 2)]

(***************************************************************************)
(* The bag.  It is kept as the shapes still to be dealt, bag[bag_pos..6].  *)
(* The Fisher-Yates swaps of shuffle_bag reach every order as the numbers  *)
(* of my_rand vary, so a shuffle is any order of the shapes.               *)
(***************************************************************************)
shuffled_bags ==
  { b \in [1 .. Cardinality(Shapes) -> Shapes] : \A i, j \in DOMAIN b : b[i] = b[j] => i = j }

\* Variant: the bag is shuffled again before its last shape is dealt.
bags_to_deal_early(bag) == IF Len(bag) <= 1 THEN shuffled_bags ELSE {bag}

\* What shape_random may find in the bag: an empty bag is filled first.
bags_to_deal(bag) == IF bag = << >> THEN shuffled_bags ELSE {bag}
=============================================================================
