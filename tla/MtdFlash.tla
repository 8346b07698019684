------------------------------ MODULE MtdFlash ------------------------------
(***************************************************************************)
(* Raw NAND partitions (mtdutils.c): an image is written in pieces that    *)
(* are coalesced into erase blocks, blocks known as bad are passed over,   *)
(* a block that does not verify is tried twice and given up, and the       *)
(* partition is read back block by block.                                  *)
(***************************************************************************)
EXTENDS Naturals, Sequences, FiniteSets

CONSTANTS
  NBlocks,      \* blocks of the partition
  EraseSize,    \* bytes of a block
  Lengths,      \* lengths of the images written; their bytes are all different
  Pieces,       \* sizes of the pieces the caller hands over (BUFSIZ)
  MaxBad,       \* blocks bad from the factory, at most
  MaxFails      \* failures of the writer and of the reader, at most

VARIABLES
  img, piece,   \* the image and the piece size of this behaviour
  badBlocks,    \* blocks MEMGETBADBLOCK reports
  flash,        \* content of each block; <<>> is erased
  fpos,         \* the block the file position is at
  skipped,      \* bad_block_offsets
  stored,       \* ctx->buffer[0..ctx->stored)
  src,          \* rest of the piece mtd_write_data was called with
  rest,         \* rest of the image file
  wpc,          \* "data", "flush", "erase", "close", "read", "done", "failed"
  flushed,      \* FALSE when the last, partial block found no room
  fails,        \* blocks given up or passed over, and reads broken off
  rpos, out,    \* reader: next block and what it has delivered
  where         \* history: <<block, byte>> of every byte written, in order

flashVars == <<img, piece, badBlocks, flash, fpos, skipped, stored, src, rest,
               wpc, flushed, fails, rpos, out, where>>

(* The partition has whole blocks of some bytes, and a piece is not empty. *)
ASSUME FlashAssumption ==
  /\ NBlocks \in Nat /\ EraseSize \in Nat \ {0} /\ Lengths \subseteq Nat
  /\ Pieces \subseteq Nat \ {0} /\ MaxBad \in Nat /\ MaxFails \in Nat

Blocks == 0..(NBlocks - 1)

(* The zeros that fill the last block of s.                                *)
PadZero(s) ==
  s \o [i \in 1..((EraseSize - (Len(s) % EraseSize)) % EraseSize) |-> 0]

FlashInit ==
  /\ img \in {[i \in 1..n |-> i] : n \in Lengths} /\ piece \in Pieces
  /\ badBlocks \in {B \in SUBSET Blocks : Cardinality(B) <= MaxBad}
  /\ flash = [b \in Blocks |-> [i \in 1..EraseSize |-> 9]]   \* old content
  /\ fpos = 0 /\ skipped = {} /\ stored = <<>> /\ src = <<>> /\ rest = img
  /\ wpc = "data" /\ flushed = TRUE /\ fails = 0
  /\ rpos = 0 /\ out = <<>> /\ where = <<>>

-----------------------------------------------------------------------------
(* cmd_mtd_restore_raw_partition and mtd_write_data.                       *)

NeedsBlock ==
  \/ wpc = "data" /\ Len(stored) = EraseSize
  \/ wpc = "data" /\ stored = <<>> /\ Len(src) >= EraseSize
  \/ wpc = "flush"

BlockData ==
  IF wpc = "flush" THEN PadZero(stored)
  ELSE IF stored # <<>> THEN stored ELSE SubSeq(src, 1, EraseSize)

NextPiece ==
  /\ wpc = "data" /\ src = <<>> /\ Len(stored) < EraseSize /\ rest # <<>>
  /\ LET n == IF Len(rest) < piece THEN Len(rest) ELSE piece
     IN src' = SubSeq(rest, 1, n) /\ rest' = SubSeq(rest, n + 1, Len(rest))
  /\ UNCHANGED <<img, piece, badBlocks, flash, fpos, skipped, stored, wpc,
                 flushed, fails, rpos, out, where>>

Coalesce ==
  /\ wpc = "data" /\ src # <<>> /\ Len(stored) < EraseSize
  /\ stored # <<>> \/ Len(src) < EraseSize
  /\ LET avail == EraseSize - Len(stored)
         n     == IF Len(src) < avail THEN Len(src) ELSE avail
     IN /\ stored' = stored \o SubSeq(src, 1, n)
        /\ src' = SubSeq(src, n + 1, Len(src))
  /\ UNCHANGED <<img, piece, badBlocks, flash, fpos, skipped, rest, wpc,
                 flushed, fails, rpos, out, where>>

(* Mutant: a bad block is written like any other.                          *)
SkipBadForgets ==
  /\ NeedsBlock /\ fpos < NBlocks /\ fpos \in badBlocks
  /\ fpos' = fpos + 1
  /\ flash' = [flash EXCEPT ![fpos] = BlockData]
  /\ stored' = <<>> /\ src' = SubSeq(src, EraseSize + 1, Len(src))
  /\ where' = where \o [j \in 1..EraseSize |-> <<fpos, j>>]
  /\ UNCHANGED <<img, piece, badBlocks, skipped, rest, wpc,
                 flushed, fails, rpos, out>>

(* write_block at a block known as bad.                                    *)
SkipBad ==
  /\ NeedsBlock /\ fpos < NBlocks /\ fpos \in badBlocks
  /\ skipped' = skipped \union {fpos} /\ fpos' = fpos + 1
  /\ UNCHANGED <<img, piece, badBlocks, flash, stored, src, rest, wpc,
                 flushed, fails, rpos, out, where>>

(* write_block at a block it gives up after two tries: erased once more,   *)
(* not marked as bad.                                                      *)
GiveUp ==
  /\ NeedsBlock /\ fpos < NBlocks /\ fpos \notin badBlocks /\ fails < MaxFails
  /\ skipped' = skipped \union {fpos} /\ fpos' = fpos + 1 /\ fails' = fails + 1
  /\ flash' = [flash EXCEPT ![fpos] = <<>>]
  /\ UNCHANGED <<img, piece, badBlocks, stored, src, rest, wpc, flushed,
                 rpos, out, where>>

(* Mutant: the buffer is not emptied once its block is written.            *)
WriteKeepsBuffer ==
  /\ NeedsBlock /\ fpos < NBlocks /\ fpos \notin badBlocks
  /\ flash' = [flash EXCEPT ![fpos] = BlockData] /\ fpos' = fpos + 1
  /\ wpc' = IF wpc = "flush" THEN "erase" ELSE "data"
  /\ src' = IF stored # <<>> THEN src ELSE SubSeq(src, EraseSize + 1, Len(src))
  /\ where' = where \o [j \in 1..EraseSize |-> <<fpos, j>>]
  /\ UNCHANGED <<img, piece, badBlocks, skipped, stored, rest, flushed,
                 fails, rpos, out>>

(* write_block erases, writes and verifies.                                *)
WriteBlock ==
  /\ NeedsBlock /\ fpos < NBlocks /\ fpos \notin badBlocks
  /\ flash' = [flash EXCEPT ![fpos] = BlockData] /\ fpos' = fpos + 1
  /\ wpc' = IF wpc = "flush" THEN "erase" ELSE "data"
  /\ stored' = <<>>
  /\ src' = IF stored # <<>> THEN src ELSE SubSeq(src, EraseSize + 1, Len(src))
  /\ where' = where \o [j \in 1..EraseSize |-> <<fpos, j>>]
  /\ UNCHANGED <<img, piece, badBlocks, skipped, rest, flushed, fails, rpos,
                 out>>

(* No block is left.  In mtd_write_data that fails the restore; in the     *)
(* flush of the last block the error is printed and the restore goes on.   *)
NoSpace ==
  /\ NeedsBlock /\ fpos = NBlocks
  /\ IF wpc = "flush" THEN wpc' = "close" /\ flushed' = FALSE
                      ELSE wpc' = "failed" /\ UNCHANGED flushed
  /\ UNCHANGED <<img, piece, badBlocks, flash, fpos, skipped, stored, src,
                 rest, fails, rpos, out, where>>

(* mtd_erase_blocks(-1): the partial block is padded and written ...       *)
EndOfImage ==
  /\ wpc = "data" /\ src = <<>> /\ rest = <<>> /\ Len(stored) < EraseSize
  /\ wpc' = IF stored = <<>> THEN "erase" ELSE "flush"
  /\ UNCHANGED <<img, piece, badBlocks, flash, fpos, skipped, stored, src,
                 rest, flushed, fails, rpos, out, where>>

(* ... and the blocks behind it are erased, as far as they can be.         *)
EraseRest ==
  /\ wpc = "erase"
  /\ \E F \in SUBSET {b \in Blocks : b >= fpos} :
       flash' = [b \in Blocks |-> IF b >= fpos /\ b \notin F \union badBlocks
                                    THEN <<>> ELSE flash[b]]
  /\ wpc' = "close"
  /\ UNCHANGED <<img, piece, badBlocks, fpos, skipped, stored, src, rest,
                 flushed, fails, rpos, out, where>>

(* mtd_write_close tries the pending block again, in vain, and the restore *)
(* returns 0 all the same.                                                 *)
CloseWrite ==
  /\ wpc = "close" /\ wpc' = "read"
  /\ UNCHANGED <<img, piece, badBlocks, flash, fpos, skipped, stored, src,
                 rest, flushed, fails, rpos, out, where>>

-----------------------------------------------------------------------------
(* cmd_mtd_backup_raw_partition: read_block returns the next block that    *)
(* reads without error and is not bad.                                     *)

Bytes(b) == IF flash[b] = <<>> THEN [i \in 1..EraseSize |-> 255] ELSE flash[b]

ReadBlock ==
  /\ wpc = "read" /\ rpos < NBlocks
  /\ \/ rpos \in badBlocks /\ UNCHANGED <<out, fails>>
     \/ rpos \notin badBlocks /\ out' = out \o Bytes(rpos) /\ UNCHANGED fails
     \/ /\ rpos \notin badBlocks /\ fails < MaxFails       \* read or ECC error
        /\ fails' = fails + 1 /\ UNCHANGED out
  /\ rpos' = rpos + 1
  /\ UNCHANGED <<img, piece, badBlocks, flash, fpos, skipped, stored, src,
                 rest, wpc, flushed, where>>

(* ECCGETSTATS fails: read_block gives -1 as it does at the end, and the   *)
(* backup takes it for the end and returns 0.                              *)
ReadStops ==
  /\ wpc = "read" /\ fails < MaxFails
  /\ wpc' = "done" /\ fails' = fails + 1
  /\ UNCHANGED <<img, piece, badBlocks, flash, fpos, skipped, stored, src,
                 rest, flushed, rpos, out, where>>

ReadEnd ==
  /\ wpc = "read" /\ rpos = NBlocks
  /\ wpc' = "done"
  /\ UNCHANGED <<img, piece, badBlocks, flash, fpos, skipped, stored, src,
                 rest, flushed, fails, rpos, out, where>>

FlashNext ==
  \/ NextPiece \/ Coalesce \/ SkipBad \/ GiveUp \/ WriteBlock \/ NoSpace
  \/ EndOfImage \/ EraseRest \/ CloseWrite \/ ReadBlock \/ ReadStops
  \/ ReadEnd

FlashSpec == FlashInit /\ [][FlashNext]_flashVars

-----------------------------------------------------------------------------
(* What the flash holds now in the places that were written.               *)
OnFlash ==
  [i \in 1..Len(where) |-> flash[where[i][1]][where[i][2]]]

Stream == INSTANCE ByteStream WITH
            BlockBytes <- EraseSize, image <- img,
            stream <- OnFlash \o stored,
            sealed <- wpc \in {"erase", "close", "read", "done"} /\ flushed

(* mtd_write_data implements the stream: whatever the pieces, bad blocks,  *)
(* retries and lack of room, every byte of the image is on the flash or in *)
(* the buffer once and in order, and only the last block is padded.        *)
WritesStream == Stream!StreamSpec

(* A backup of a partition that has been restored begins with the image,   *)
(* when no block was given up or passed over unmarked, the reader was not  *)
(* broken off and the last block found room.                               *)
BackupReadsImage ==
  (wpc = "done" /\ flushed /\ fails = 0) =>
    /\ Len(PadZero(img)) <= Len(out)
    /\ SubSeq(out, 1, Len(PadZero(img))) = PadZero(img)

=============================================================================
