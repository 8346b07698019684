----------------------------- MODULE ByteStream -----------------------------
(***************************************************************************)
(* What a raw partition promises to the code that writes an image to it: a *)
(* stream that grows along the image and is then sealed with zeros up to a *)
(* whole number of blocks.  It knows nothing of buffers, bad blocks and    *)
(* retries.                                                                *)
(***************************************************************************)
EXTENDS Naturals, Sequences

CONSTANT BlockBytes
VARIABLES image, stream, sealed

(* s with the zeros that fill its last block.                              *)
Padded(s) ==
  LET short == (BlockBytes - (Len(s) % BlockBytes)) % BlockBytes
  IN s \o [i \in 1..short |-> 0]

StreamInit == stream = <<>> /\ sealed = FALSE

Extend ==
  /\ ~sealed
  /\ \E n \in (Len(stream) + 1)..Len(image) : stream' = SubSeq(image, 1, n)
  /\ UNCHANGED <<image, sealed>>

Seal ==
  /\ ~sealed /\ stream = image
  /\ stream' = Padded(image) /\ sealed' = TRUE
  /\ UNCHANGED image

StreamSpec == StreamInit /\ [][Extend \/ Seal]_<<image, stream, sealed>>

=============================================================================
