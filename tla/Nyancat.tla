------------------------------ MODULE Nyancat -------------------------------
(***************************************************************************)
(* The animation of csrc/nyancat.c: every frame is decoded and uploaded to *)
(* a frame of its own in the VGA memory, then the frames are shown in      *)
(* turn.  The first frame is run-length coded, each later one is coded as  *)
(* the difference to the frame before.  In another build every frame is    *)
(* run-length coded, and in a third the words of nyancat-frames.h are      *)
(* uploaded as they are; the choice is made at the start here.             *)
(*                                                                         *)
(* The coder is scripts/gen-nyancat-data.py.  The coded data is any one in *)
(* which an opcode is there only if the picture agrees with it.  That is   *)
(* more than this coder writes, which makes runs and skips as long as they *)
(* can be.                                                                 *)
(***************************************************************************)
EXTENDS VGA

CONSTANTS
  Colors,             \* palette indices, 0 the background
  PIXELS_PER_WORD,    \* 8 in the source
  Params,             \* 1..16 in the source: the parameter of an opcode, plus one
  LONG, VERY_LONG     \* 16 and 64 in the source: what the long opcodes count in

FRAME_SIZE == WORDS_PER_FRAME * PIXELS_PER_WORD
Pixels == 0 .. FRAME_SIZE - 1
Picture == [Pixels -> Colors]

\* The table of nyancat-frames.h: any pictures.
nyancat_frames == [0 .. NUM_FRAMES - 1 -> Picture]

VARIABLES
  movie,               \* the pictures
  build,               \* "prepacked", "delta" or "rle"
  frame,               \* the frame at hand, NUM_FRAMES when all are uploaded
  pos, current_color,  \* state of the decoder
  frame_buffer, prev_frame_buffer,
  nyan_vga,
  phase                \* "start", "decode", "upload", "animate"

vars == <<movie, build, frame, pos, current_color, frame_buffer, prev_frame_buffer,
          nyan_vga, phase>>

blank == [p \in Pixels |-> 0]

TypeOK ==
  /\ frame \in 0 .. NUM_FRAMES
  /\ pos \in Nat
  /\ current_color \in Colors
  /\ {frame_buffer, prev_frame_buffer} \subseteq Picture
  /\ phase \in {"start", "decode", "upload", "animate"}

Init ==
  /\ movie \in nyancat_frames
  /\ build \in {"prepacked", "delta", "rle"}
  /\ frame = 0
  /\ pos = 0
  /\ current_color = 0
  /\ frame_buffer = blank
  /\ prev_frame_buffer = blank
  /\ nyan_vga = set_ctrl(vga_reset(<< >>), 0, TRUE)
  /\ phase = "start"

-----------------------------------------------------------------------------
\* A frame that does not refer to the one before.
baseline == frame = 0 \/ build = "rle"

\* The upload address is set to the frame's own start; a difference is decoded over
\* the frame before.
StartFrame ==
  /\ phase = "start"
  /\ nyan_vga' = set_upload_addr(nyan_vga, frame, 0)
  /\ phase' = IF build = "prepacked" THEN "upload" ELSE "decode"
  /\ frame_buffer' = IF build = "prepacked" \/ baseline THEN frame_buffer ELSE prev_frame_buffer
  /\ pos' = 0
  /\ current_color' = 0
  /\ UNCHANGED <<movie, build, frame, prev_frame_buffer>>

span(n) == { p \in Pixels : p >= pos /\ p < pos + n }

\* What the coder keeps to: a run has the picture's colour, a skip leaves the picture
\* of the frame before.
run_is_true(n)  == \A p \in span(n) : movie[frame][p] = current_color
skip_is_true(n) == \A p \in span(n) : movie[frame][p] = movie[frame - 1][p]

SetColor ==
  /\ phase = "decode" /\ pos < FRAME_SIZE
  /\ current_color' \in Colors \ {current_color}
  /\ UNCHANGED <<movie, build, frame, pos, frame_buffer, prev_frame_buffer, nyan_vga, phase>>

\* 0x2Y counts pixels; the long run is 0x3Y in a baseline frame and 0x4Y in a difference.
Repeat ==
  /\ phase = "decode" /\ pos < FRAME_SIZE
  /\ \E param \in Params, unit \in {1, LONG} :
       LET count == param * unit IN
       /\ run_is_true(count)
       /\ frame_buffer' = [p \in Pixels |-> IF p \in span(count) THEN current_color
                                            ELSE frame_buffer[p]]
       /\ pos' = IF pos + count < FRAME_SIZE THEN pos + count ELSE FRAME_SIZE
  /\ UNCHANGED <<movie, build, frame, current_color, prev_frame_buffer, nyan_vga, phase>>

\* Variant: a skip is taken for a run, as if 0x3Y meant the same in every frame.
SkipPaints ==
  /\ phase = "decode" /\ pos < FRAME_SIZE
  /\ ~baseline
  /\ \E param \in Params, unit \in {1, LONG, VERY_LONG} :
       LET count == param * unit IN
       /\ skip_is_true(count)
       /\ frame_buffer' = [p \in Pixels |-> IF unit = LONG /\ p \in span(count)
                                            THEN current_color ELSE frame_buffer[p]]
       /\ pos' = pos + count
  /\ UNCHANGED <<movie, build, frame, current_color, prev_frame_buffer, nyan_vga, phase>>

\* 0x1Y, 0x3Y and 0x5Y of a difference; a skip may lead past the end of the frame.
Skip ==
  /\ phase = "decode" /\ pos < FRAME_SIZE
  /\ ~baseline
  /\ \E param \in Params, unit \in {1, LONG, VERY_LONG} :
       /\ skip_is_true(param * unit)
       /\ pos' = pos + param * unit
  /\ UNCHANGED <<movie, build, frame, current_color, frame_buffer, prev_frame_buffer,
                 nyan_vga, phase>>

\* The data ends (0xFF, or its last byte), or the frame is full.  What a baseline
\* frame lacks is background; what a difference lacks is as before.
EndOfFrame ==
  /\ phase = "decode"
  /\ LET rest == { p \in Pixels : p >= pos } IN
     /\ \A p \in rest : movie[frame][p] = IF baseline THEN 0 ELSE movie[frame - 1][p]
     /\ frame_buffer' = IF ~baseline THEN frame_buffer
                        ELSE [p \in Pixels |-> IF p \in rest THEN 0 ELSE frame_buffer[p]]
  /\ prev_frame_buffer' = IF build = "rle" THEN prev_frame_buffer ELSE frame_buffer'
  /\ phase' = "upload"
  /\ UNCHANGED <<movie, build, frame, pos, current_color, nyan_vga>>

vga_pack8_pixels(pixels, word) ==
  [i \in 1 .. PIXELS_PER_WORD |-> pixels[word * PIXELS_PER_WORD + i - 1]]

packed(picture) == [w \in 1 .. WORDS_PER_FRAME |-> vga_pack8_pixels(picture, w - 1)]

UploadFrame ==
  /\ phase = "upload"
  /\ nyan_vga' = stream_data(nyan_vga, packed(IF build = "prepacked" THEN movie[frame] ELSE frame_buffer))
  /\ frame' = frame + 1
  /\ phase' = IF frame + 1 < NUM_FRAMES THEN "start" ELSE "animate"
  /\ UNCHANGED <<movie, build, pos, current_color, frame_buffer, prev_frame_buffer>>

\* The frame after the one on display, the first one after the last.
Animate ==
  LET shown == nyan_vga.frame_sel IN
  /\ phase = "animate"
  /\ nyan_vga' = set_ctrl(nyan_vga, IF shown + 1 < NUM_FRAMES THEN shown + 1 ELSE 0, TRUE)
  /\ UNCHANGED <<movie, build, frame, pos, current_color, frame_buffer,
                 prev_frame_buffer, phase>>

Next ==
  \/ StartFrame \/ SetColor \/ Repeat \/ Skip \/ EndOfFrame \/ UploadFrame \/ Animate

Spec == Init /\ [][Next]_vars

-----------------------------------------------------------------------------
\* Whatever opcodes a coder chose, every uploaded frame of the VGA memory holds its
\* picture, also a difference of a difference, and no later upload touches it; the
\* three builds show the same film (nyancat.c:100-252).
FramesHoldPictures ==
  \A f \in 0 .. frame - 1, w \in 0 .. WORDS_PER_FRAME - 1 :
    frame_word(nyan_vga, f, w) = vga_pack8_pixels(movie[f], w)
=============================================================================
