---------------------------- MODULE TetrisInput -----------------------------
(***************************************************************************)
(* input_poll of csrc/tetris/tetris.c: the bytes of the keys come over the *)
(* UART one after the other while the program turns them into inputs.  An  *)
(* arrow key is three bytes, the last of which is a key of its own with    *)
(* another meaning.                                                        *)
(*                                                                         *)
(* A wait of 1000 rounds, each with a read over the bus, is longer than a  *)
(* byte takes (434 cycles a bit, ten bits), so it ends without a byte only *)
(* if none is on its way.  The escape key itself is not among the keys: a  *)
(* byte that follows it within the wait is taken for a part of a sequence. *)
(***************************************************************************)
EXTENDS Naturals, Sequences

CONSTANTS
  Keys,       \* the keys that are pressed
  Capacity    \* bytes the UART holds: its FIFO and the one in the receiver

VARIABLES
  line,       \* bytes on their way
  fifo,       \* bytes the program can read
  at,         \* where input_poll stands: "start", "escape", "bracket", "over" for good
  pressed     \* history: the inputs that the pressed keys stand for, oldest first

vars == <<line, fifo, at, pressed>>

\* The bytes of a key as a terminal sends them.
bytes(key) ==
  CASE key = "up" -> <<"ESC", "[", "A">>
    [] key = "down" -> <<"ESC", "O", "B">>
    [] key = "right" -> <<"ESC", "[", "C">>
    [] key = "left" -> <<"ESC", "[", "D">>
    [] key = "home" -> <<"ESC", "[", "H">>
    [] OTHER -> <<key>>

\* What the player means.
meaning(key) ==
  CASE key \in {"up", "w", "W", "k"} -> "ROTATE"
    [] key \in {"down", "s", "S", "j"} -> "SOFT_DROP"
    [] key \in {"right", "d", "D", "l"} -> "RIGHT"
    [] key \in {"left", "a", "A", "h"} -> "LEFT"
    [] key = " " -> "HARD_DROP"
    [] key \in {"p", "P"} -> "PAUSE"
    [] key \in {"q", "Q"} -> "QUIT"
    [] OTHER -> "NONE"

TypeOK ==
  /\ Len(line) + Len(fifo) <= Capacity
  /\ at \in {"start", "escape", "bracket", "over"}
  /\ pressed \in Seq({"ROTATE", "SOFT_DROP", "RIGHT", "LEFT", "HARD_DROP", "PAUSE", "QUIT"})

Init == line = << >> /\ fifo = << >> /\ at = "start" /\ pressed = << >>

-----------------------------------------------------------------------------
\* The player does not outrun the UART: a key is pressed only when its bytes fit.
Press ==
  \E key \in Keys :
    /\ Len(line) + Len(fifo) + Len(bytes(key)) <= Capacity
    /\ line' = line \o bytes(key)
    /\ pressed' = IF meaning(key) = "NONE" THEN pressed ELSE Append(pressed, meaning(key))
    /\ UNCHANGED <<fifo, at>>

Arrive ==
  /\ line # << >>
  /\ fifo' = Append(fifo, Head(line))
  /\ line' = Tail(line)
  /\ UNCHANGED <<at, pressed>>

\* What a single byte stands for.
input_of(c) ==
  CASE c \in {"a", "A", "h"} -> "LEFT"
    [] c \in {"d", "D", "l"} -> "RIGHT"
    [] c \in {"w", "W", "k"} -> "ROTATE"
    [] c \in {"s", "S", "j"} -> "SOFT_DROP"
    [] c = " " -> "HARD_DROP"
    [] c \in {"p", "P"} -> "PAUSE"
    [] c \in {"q", "Q"} -> "QUIT"
    [] OTHER -> "NONE"

\* What the last byte of a sequence stands for.
arrow_of(c) ==
  CASE c = "A" -> "ROTATE" [] c = "B" -> "SOFT_DROP" [] c = "C" -> "RIGHT"
    [] c = "D" -> "LEFT" [] OTHER -> "NONE"

\* input_poll returns an input, and the game acts on it; paused or not, it polls again,
\* unless the player quits.
Return(input) ==
  /\ at' = IF input = "QUIT" THEN "over" ELSE "start"
  /\ pressed' = IF input = "NONE" \/ pressed = << >> THEN pressed ELSE Tail(pressed)

\* The byte read, or -1 when the wait ended without one.
next_byte == IF fifo = << >> THEN "none" ELSE Head(fifo)
take_byte == fifo' = IF fifo = << >> THEN fifo ELSE Tail(fifo)

\* Variant: the next byte is looked for at once, without a wait.
waited_not == TRUE

\* A wait is over when a byte is there, or none is on its way.
waited == fifo # << >> \/ line = << >>

\* The input that input_poll returns in this step, "" while it goes on.
returned ==
  CASE at = "start" -> IF next_byte = "ESC" THEN "" ELSE input_of(next_byte)
    [] at = "escape" -> IF next_byte \in {"[", "O"} THEN "" ELSE "NONE"
    [] at = "bracket" -> arrow_of(next_byte)

Poll ==
  /\ at = "start" /\ fifo # << >>
  /\ take_byte
  /\ IF returned = "" THEN at' = "escape" /\ UNCHANGED pressed ELSE Return(returned)
  /\ UNCHANGED line

AfterEscape ==
  /\ at = "escape" /\ waited
  /\ take_byte
  /\ IF returned = "" THEN at' = "bracket" /\ UNCHANGED pressed ELSE Return(returned)
  /\ UNCHANGED line

AfterBracket ==
  /\ at = "bracket" /\ waited
  /\ take_byte
  /\ Return(returned)
  /\ UNCHANGED line

\* After the game nobody reads the bytes any more.
Halt == at = "over" /\ UNCHANGED vars

Next == Press \/ Arrive \/ Poll \/ AfterEscape \/ AfterBracket \/ Halt

Spec == Init /\ [][Next]_vars

-----------------------------------------------------------------------------
\* The game sees the inputs of the pressed keys, each once and in order: no part of an
\* arrow is taken for a key, which would move the block the other way, and none is lost
\* (tetris.c:99-169).
InputsFollowKeysStep ==
  (line' = line /\ fifo' # fifo /\ returned \notin {"", "NONE"})
    => pressed # << >> /\ returned = Head(pressed)
InputsFollowKeys == [][InputsFollowKeysStep]_vars
=============================================================================
