-------------------------------- MODULE TRex --------------------------------
(***************************************************************************)
(* The T-Rex game, csrc/trex.  One round takes a key ("input"), moves the  *)
(* dino and looks for a crash ("move"), moves the cactus ("scroll"), draws *)
(* and uploads the band of the picture that can change ("draw"), and shows *)
(* it in the vertical blank ("show").                                      *)
(*                                                                         *)
(* The picture is kept row by row: a row holds the rows of the sprites     *)
(* that were painted on it.  One word of the VGA stands for the eight      *)
(* words of a row.  The score is only printed and left out.                *)
(***************************************************************************)
EXTENDS VGA

CONSTANT CACTUS_START   \* 64 in the source: where a cactus enters

VARIABLES
  dino_y, y_velocity, setdown_times,
  cactus_x,
  body_picture,      \* the leg that is down, body_picture % 2
  vga_framebuffer,   \* the rows in memory
  vga,               \* the peripheral
  rx,                \* the key the UART holds, if any
  pc

vars == <<dino_y, y_velocity, setdown_times, cactus_x, body_picture, vga_framebuffer,
          vga, rx, pc>>

GROUND_Y == 50
\* Variant: a stronger jump.
JUMP_IMPULSE_high == -7

JUMP_IMPULSE == -6
GRAVITY == 1
cactus_y == 54

PictureRows == 0 .. WORDS_PER_FRAME - 1
BandRows == 28 .. 57   \* rows that a round clears and uploads
Keys == {"jump", "crouch", "other"}

\* What a row of the picture may hold: rows of sprites, or a part of the horizon.
dino_row(i, picture) == <<"dino", i, picture>>
setdown_row(i, picture) == <<"setdown", i, picture>>
cactus_row(i, x) == <<"cactus", i, x>>
die_row(i) == <<"die", i>>

TypeOK ==
  /\ dino_y \in 0 .. GROUND_Y
  /\ y_velocity \in JUMP_IMPULSE .. 2 * GROUND_Y
  /\ setdown_times \in 0 .. 2
  /\ cactus_x \in -8 .. CACTUS_START
  /\ body_picture \in {0, 1}
  /\ pc \in {"input", "move", "dead", "scroll", "draw", "show"}
  /\ rx \in Keys \cup {"none"}

-----------------------------------------------------------------------------
(***************************************************************************)
(* Painting.                                                               *)
(***************************************************************************)
\* The n rows of a sprite from row y on; what is off the picture is clipped.
place(fb, y, n, sprite(_)) ==
  [r \in PictureRows |-> IF r \in y .. y + n - 1 THEN fb[r] \cup {sprite(r - y)} ELSE fb[r]]

draw_horizon(fb) == [fb EXCEPT ![58] = {"line"}, ![59] = {"dots"}]

\* Variant: the picture is cleared from the row of the head of a small jump.
draw_cleanup_buffers_low(fb) == [r \in PictureRows |-> IF r \in 32 .. 57 THEN {} ELSE fb[r]]

draw_cleanup_buffers(fb) == [r \in PictureRows |-> IF r \in BandRows THEN {} ELSE fb[r]]

place_cactus(fb, x) == place(fb, cactus_y, 4, LAMBDA i : cactus_row(i, x))
place_dino(fb, y, picture) == place(fb, y, 8, LAMBDA i : dino_row(i, picture))
place_die(fb) == place(fb, 50, 8, LAMBDA i : die_row(i))

\* The four upper rows of the crouching dino are blank.
place_dino_setdown(fb, y, picture) ==
  place(fb, y + 4, 4, LAMBDA i : setdown_row(i + 4, picture))

\* Writes the rows first..last to STREAM_DATA, in order.
stream_rows(v, fb, first, last) ==
  stream_data(v, [i \in 1 .. last - first + 1 |-> fb[first + i - 1]])

\* The picture at the start: only the horizon.  It is streamed without setting the
\* upload address, which is 0 after reset.
draw_init_buffers(v) == stream_rows(v, draw_horizon([r \in PictureRows |-> {}]),
                                    0, WORDS_PER_FRAME - 1)

draw_swap_buffers(v, fb) ==
  set_ctrl(stream_rows(set_upload_addr(v, 0, 0), fb, 0, WORDS_PER_FRAME - 1), 0, TRUE)

Init ==
  /\ dino_y = 50
  /\ y_velocity = 0
  /\ setdown_times = 0
  /\ cactus_x = CACTUS_START
  /\ body_picture = 0
  /\ vga_framebuffer = draw_horizon([r \in PictureRows |-> {}])
  /\ vga = draw_init_buffers(vga_reset({}))
  /\ rx \in Keys     \* the key that started the game is not taken out
  /\ pc = "input"

-----------------------------------------------------------------------------
KeyArrives ==
  /\ rx = "none"
  /\ rx' \in Keys
  /\ UNCHANGED <<dino_y, y_velocity, setdown_times, cactus_x, body_picture,
                 vga_framebuffer, vga, pc>>

\* A jump starts on the ground only; 's' pulls the dino down in the air, and on the
\* ground it crouches for two rounds.
handle_input ==
  /\ y_velocity' = CASE rx = "jump" /\ dino_y = GROUND_Y -> JUMP_IMPULSE
                     [] rx = "crouch" /\ dino_y < GROUND_Y -> 4
                     [] OTHER -> y_velocity
  /\ setdown_times' = CASE rx = "jump" /\ dino_y = GROUND_Y -> 0
                        [] rx = "crouch" /\ dino_y >= GROUND_Y -> 2
                        [] OTHER -> setdown_times
  /\ rx' = "none"

Input ==
  /\ pc = "input"
  /\ handle_input
  /\ pc' = "move"
  /\ UNCHANGED <<dino_y, cactus_x, body_picture, vga_framebuffer, vga>>

update_physics ==
  IF dino_y + y_velocity < GROUND_Y
  THEN dino_y' = dino_y + y_velocity /\ y_velocity' = y_velocity + GRAVITY
  ELSE dino_y' = GROUND_Y /\ y_velocity' = 0

crash(y) == cactus_x > 5 /\ 13 > cactus_x + 4 /\ y + 8 > cactus_y

\* After a crash the cactus starts again and the skull is shown (draw_die).
Move ==
  /\ pc = "move"
  /\ update_physics
  /\ IF crash(dino_y')
     THEN LET fb == place_die(draw_cleanup_buffers(vga_framebuffer)) IN
          /\ cactus_x' = CACTUS_START
          /\ vga_framebuffer' = fb
          /\ vga' = draw_swap_buffers(vga, fb)
          /\ pc' = "dead"
     ELSE pc' = "scroll" /\ UNCHANGED <<cactus_x, vga_framebuffer, vga>>
  /\ UNCHANGED <<setdown_times, body_picture, rx>>

\* draw_die waits for a key and leaves it in the UART for the next round.
KeyAfterCrash ==
  /\ pc = "dead"
  /\ rx # "none"
  /\ pc' = "scroll"
  /\ UNCHANGED <<dino_y, y_velocity, setdown_times, cactus_x, body_picture,
                 vga_framebuffer, vga, rx>>

Scroll ==
  /\ pc = "scroll"
  /\ cactus_x' = IF cactus_x - 1 < -8 THEN CACTUS_START ELSE cactus_x - 1
  /\ pc' = "draw"
  /\ UNCHANGED <<dino_y, y_velocity, setdown_times, body_picture, vga_framebuffer, vga, rx>>

Draw ==
  LET ground == place_cactus(draw_cleanup_buffers(vga_framebuffer), cactus_x)
      fb == IF setdown_times > 0 THEN place_dino_setdown(ground, dino_y, body_picture)
            ELSE place_dino(ground, dino_y, body_picture) IN
  /\ pc = "draw"
  /\ setdown_times' = IF setdown_times > 0 THEN setdown_times - 1 ELSE 0
  /\ vga_framebuffer' = fb
  /\ vga' = stream_rows(set_upload_addr(vga, 0, 28), fb, 28, 57)
  /\ pc' = "show"
  /\ UNCHANGED <<dino_y, y_velocity, cactus_x, body_picture, rx>>

\* The vertical blank has come, the frame is selected.
Show ==
  /\ pc = "show"
  /\ vga' = set_ctrl(vga, 0, TRUE)
  /\ body_picture' = 1 - body_picture
  /\ pc' = "input"
  /\ UNCHANGED <<dino_y, y_velocity, setdown_times, cactus_x, vga_framebuffer, rx>>

Round == Input \/ Move \/ KeyAfterCrash \/ Scroll \/ Draw \/ Show

Next == KeyArrives \/ Round

Spec == Init /\ [][Next]_vars

-----------------------------------------------------------------------------
(***************************************************************************)
(* Properties.                                                             *)
(***************************************************************************)
\* Wherever a jump, a pull down in the air or a landing brings the dino, its eight rows
\* lie in the band that a round clears and uploads; the band and the physics are written
\* at different places (draw.c:193-196, 278; play.c:31-50).
DinoInBand == dino_y .. dino_y + 7 \subseteq BandRows

\* What the display shows at the start of a round is this dino, this cactus and the
\* horizon, and nothing left of an earlier round or of the skull, although a round
\* uploads a part of the picture only (draw.c:156-203).
PictureShowsGame ==
  (pc = "input" /\ vga.enabled) =>
    \A r \in PictureRows :
      LET shown == frame_word(vga, vga.frame_sel, r)
          dino == { s \in shown : s[1] \in {"dino", "setdown"} } IN
      CASE r = 58 -> shown = {"line"}
        [] r = 59 -> shown = {"dots"}
        [] OTHER ->
             /\ \A s \in shown : s[1] # "die"
             /\ { s \in shown : s[1] = "cactus" }
                  = IF r \in cactus_y .. cactus_y + 3
                    THEN {cactus_row(r - cactus_y, cactus_x)} ELSE {}
             /\ \A s \in dino : s[2] = r - dino_y /\ s[3] = 1 - body_picture
             /\ Cardinality(dino) <= 1
             /\ r \in dino_y + 4 .. dino_y + 7 => dino # {}
=============================================================================
