-------------------------------- MODULE VGA ---------------------------------
(***************************************************************************)
(* The registers of the VGA peripheral (peripheral/VGA.scala) that the     *)
(* programs write, as operators on a record.  The framebuffer RAM holds    *)
(* NUM_FRAMES frames one after the other; a word is whatever the program   *)
(* packs into one write.  A frame is shown when CTRL selects it.           *)
(***************************************************************************)
EXTENDS Integers, Sequences, FiniteSetsExt

CONSTANTS
  NUM_FRAMES,        \* 12 in the source
  WORDS_PER_FRAME    \* 512 in the source

vga_reset(empty) ==
  [ upload_frame |-> 0, upload_word |-> 0, frame_sel |-> 0, enabled |-> FALSE,
    framebuffer |-> [a \in 0 .. NUM_FRAMES * WORDS_PER_FRAME - 1 |-> empty] ]

\* Every 4-bit frame number is accepted; the ones that do not exist stand for the last.
clamped(frame) == IF frame >= NUM_FRAMES THEN NUM_FRAMES - 1 ELSE frame

set_upload_addr(v, frame, word) ==
  [v EXCEPT !.upload_frame = frame, !.upload_word = word]

\* The words of data, one frame at most, written to STREAM_DATA in order: each is stored
\* and moves the address on, back to the start of the frame after its last word.
stream_data(v, data) ==
  LET base == clamped(v.upload_frame) * WORDS_PER_FRAME
      nth(a) == 1 + ((a - base - v.upload_word) % WORDS_PER_FRAME) IN
  [v EXCEPT !.framebuffer = [a \in DOMAIN @ |->
              IF a \in base .. base + WORDS_PER_FRAME - 1 /\ nth(a) <= Len(data)
              THEN data[nth(a)] ELSE @[a]],
            !.upload_frame = clamped(@),
            !.upload_word = (@ + Len(data)) % WORDS_PER_FRAME]

\* A frame number that does not exist leaves the selection as it is.
set_ctrl(v, frame, enable) ==
  [v EXCEPT !.frame_sel = IF frame < NUM_FRAMES THEN frame ELSE @, !.enabled = enable]

frame_word(v, frame, word) == v.framebuffer[frame * WORDS_PER_FRAME + word]
=============================================================================
