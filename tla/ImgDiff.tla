------------------------------ MODULE ImgDiff -------------------------------
(***************************************************************************)
(* applypatch/imgdiff.c and applypatch/imgpatch.c: a patch between two     *)
(* images (gzip members in a stream of other data) or two zip files, made  *)
(* chunk by chunk, and its application.                                    *)
(*                                                                         *)
(* An image is a sequence of tokens [k, d, l]: a byte "b", the header and  *)
(* the footer of a gzip member "hdr" and "ftr" (whose l is the size it     *)
(* states), a local zip header "lh" (whose l is the name) or a deflate     *)
(* stream "z", which is data d compressed at level l.  A stream that does  *)
(* not inflate is "bad", a part of a zip directory that does not check is  *)
(* "odd", and "cut" is the start of a header, 1f 8b 08, in the last three  *)
(* bytes of an image.  A bsdiff patch is the pair of the strings it was    *)
(* made from: BsDiff shows that it gives the new one when, and the code    *)
(* relies on it only when, it is applied to the old one.                   *)
(***************************************************************************)
EXTENDS Integers, Sequences, FiniteSets, FiniteSetsExt, SequencesExt

CONSTANTS ImgPairs,     \* pairs of images, each [zip, src, tgt]
          Bonuses,      \* bonus files; <<>> stands for none
          RawMax        \* 160 in the code

VARIABLES job,          \* the pair, and the bonus file
          bonus,
          schunks, tchunks,     \* src_chunks and tgt_chunks
          ipc,          \* "read", "try", "make", "apply" or "end"; imgdiff
                        \* ended as "refused", "endless" or "awry", imgpatch
                        \* as "failed" or "unwritten"
          inx,          \* i of the loops
          ipatch,       \* the patch: one record for each target chunk
          iout,         \* what the sink of imgpatch has taken
          isha,         \* what the SHA-1 of its output was computed of
          ishort        \* a call of the sink has come up short

outVars == <<iout, isha, ishort>>
imgVars == <<job, bonus, schunks, tchunks, ipc, inx, ipatch, outVars>>

Garbage == [k |-> "garbage", d |-> <<>>, l |-> 0]
DefaultLevels == <<6, 9>>

Normal(img, a, b) ==            \* the tokens a .. b - 1, counted from 0
    [type |-> "normal", start |-> a, data |-> SubSeq(img, a + 1, b),
     ddata |-> <<>>, name |-> 0, level |-> 0]
Deflate(img, a, n) ==           \* the stream at a, inflated
    [type |-> "deflate", start |-> a, data |-> img[a + 1].d,
     ddata |-> <<img[a + 1]>>, name |-> n, level |-> 0]

\* The next position from a on with a token of kind k, or the end.
NextOf(img, a, k) ==
    Min({p \in a .. Len(img) : p = Len(img) \/ img[p + 1].k = k})

(***************************************************************************)
(* ReadImage: three chunks for a gzip member (whose footer must state the  *)
(* size of the data), one for what lies between two members.               *)
(***************************************************************************)
ReadImage(img) ==
    LET from[a \in 0 .. Len(img)] ==
            IF a = Len(img) THEN <<>>
            ELSE IF img[a + 1].k = "hdr"
                 THEN <<Normal(img, a, a + 1), Deflate(img, a + 1, 0),
                        Normal(img, a + 2, a + 3)>> \o from[a + 3]
                 ELSE <<Normal(img, a, NextOf(img, a, "hdr"))>>
                      \o from[NextOf(img, a, "hdr")]
    IN  from[0]

(***************************************************************************)
(* How ReadImage ends.  It inflates until the end of the stream, also when *)
(* inflate() can only fail, and takes a cut header at the end for a header *)
(* in the search but not in the loop around it: both go round for ever.  A *)
(* footer that states another size makes it return NULL.                   *)
(***************************************************************************)
Endless(img, a) == \/ img[a].k = "hdr" /\ img[a + 1].k = "bad"
                   \/ img[a].k = "cut" /\ a = Len(img)
FooterDiffers(img, a) == img[a].k = "ftr" /\ img[a].l # Len(img[a - 1].d)

ReadImageEnds(img) ==
    LET flaws == {a \in DOMAIN img : Endless(img, a) \/ FooterDiffers(img, a)}
    IN  IF flaws = {} THEN "read"
        ELSE IF Endless(img, Min(flaws)) THEN "endless" ELSE "refused"

(***************************************************************************)
(* ReadZip: a chunk for each deflated entry, in the order of the file,     *)
(* normal ones between them, and for the source the whole file first.      *)
(***************************************************************************)
ReadZip(img, pseudo) ==
    LET from[a \in 0 .. Len(img)] ==
            IF a = Len(img) THEN <<>>
            ELSE IF img[a + 1].k = "z"
                 THEN <<Deflate(img, a, img[a].l)>> \o from[a + 1]
                 ELSE <<Normal(img, a, NextOf(img, a, "z"))>>
                      \o from[NextOf(img, a, "z")]
    IN  (IF pseudo THEN <<Normal(img, 0, Len(img))>> ELSE <<>>) \o from[0]

\* It returns NULL when a stream does not inflate, for a second disk, an entry
\* without its mark, or a local header that is not the one of its entry.
ReadZipEnds(img) ==
    IF \E a \in DOMAIN img : img[a].k \in {"bad", "odd"} THEN "refused"
    ELSE "read"

\* MergeAdjacentNormalChunks: runs of adjoining normal chunks become one.
MergeAdjacent(chunks) ==
    LET Joins(c, d) == /\ c.type = "normal" /\ d.type = "normal"
                       /\ d.start = c.start + Len(c.data)
        Add(cs, d) == IF cs # <<>> /\ Joins(Last(cs), d)
                      THEN [cs EXCEPT ![Len(cs)].data = @ \o d.data]
                      ELSE Append(cs, d)
    IN  FoldLeft(Add, <<>>, chunks)

\* ChangeDeflateChunkToNormal.
ToNormal(c) == IF c.type # "deflate" THEN c
               ELSE [c EXCEPT !.type = "normal", !.data = c.ddata]

\* FindChunkByName: the first deflate chunk of that name, 0 if none.
FindChunkByName(n) ==
    LET js == {j \in DOMAIN schunks :
                 schunks[j].type = "deflate" /\ schunks[j].name = n}
    IN  IF js = {} THEN 0 ELSE Min(js)

\* The source chunk that target chunk i is compared with.
SourceOf(i) == IF job.zip THEN FindChunkByName(tchunks[i].name) ELSE i

\* ReconstructDeflateChunk: the level that gives the same stream, or 0.
Reconstructs(c) ==
    LET ls == {x \in Range(DefaultLevels) : c.ddata[1].l = x}
    IN  IF ls = {} THEN 0 ELSE Min(ls)
-----------------------------------------------------------------------------
ImgInit ==
    /\ job \in ImgPairs
    /\ bonus \in Bonuses
    /\ schunks = <<>> /\ tchunks = <<>>
    /\ ipc = "read" /\ inx = 1
    /\ ipatch = <<>> /\ iout = <<>> /\ isha = <<>> /\ ishort = FALSE

\* main of imgdiff up to the loop over the deflate chunks: a file that is not
\* read, the source first, or chunks that are not parallel end the program.
ReadingEnds ==
    LET ends(img) == IF job.zip THEN ReadZipEnds(img) ELSE ReadImageEnds(img)
    IN  IF ends(job.src) # "read" THEN ends(job.src) ELSE ends(job.tgt)

ReadFails ==
    /\ ipc = "read" /\ ReadingEnds # "read"
    /\ ipc' = ReadingEnds
    /\ UNCHANGED <<job, bonus, schunks, tchunks, inx, ipatch, outVars>>

BreakApart ==
    /\ ipc = "read" /\ ReadingEnds = "read"
    /\ LET s == IF job.zip THEN ReadZip(job.src, TRUE)
                ELSE MergeAdjacent(ReadImage(job.src))
           t == IF job.zip THEN ReadZip(job.tgt, FALSE)
                ELSE MergeAdjacent(ReadImage(job.tgt))
           parallel == /\ Len(s) = Len(t)
                       /\ \A i \in DOMAIN s : s[i].type = t[i].type
       IN  /\ schunks' = s /\ tchunks' = t
           /\ ipc' = IF job.zip \/ parallel THEN "try" ELSE "refused"
    /\ UNCHANGED <<job, bonus, inx, ipatch, outVars>>

TargetOnly(i, j) ==     \* mutant: the source chunk stays a deflate chunk
    /\ tchunks' = [tchunks EXCEPT ![i] = ToNormal(@)]
    /\ schunks' = schunks

\* Target chunk i and its source chunk j (0 for none) become normal ones.
BothToNormal(i, j) ==
    /\ tchunks' = [tchunks EXCEPT ![i] = ToNormal(@)]
    /\ schunks' = IF j = 0 THEN schunks
                  ELSE [schunks EXCEPT ![j] = ToNormal(@)]

\* One turn of the loop over the target's deflate chunks.
TryChunk ==
    /\ ipc = "try" /\ inx <= Len(tchunks)
    /\ LET c == tchunks[inx]
           j == SourceOf(inx)
           level == Reconstructs(c)
       IN  IF c.type # "deflate" THEN UNCHANGED <<schunks, tchunks>>
           ELSE IF level = 0 \/ j = 0 \/ schunks[j].ddata = c.ddata
           THEN BothToNormal(inx, j)
           ELSE /\ tchunks' = [tchunks EXCEPT ![inx].level = level]
                /\ schunks' = schunks
    /\ inx' = inx + 1
    /\ UNCHANGED <<job, bonus, ipc, ipatch, outVars>>

\* The merging after it; for images the two lists must stay parallel.
MergeChunks ==
    /\ ipc = "try" /\ inx > Len(tchunks)
    /\ LET t == MergeAdjacent(tchunks)
           s == IF job.zip THEN schunks ELSE MergeAdjacent(schunks)
       IN  /\ tchunks' = t /\ schunks' = s
           /\ ipc' = IF job.zip \/ Len(s) = Len(t) THEN "make" ELSE "awry"
    /\ inx' = 1
    /\ UNCHANGED <<job, bonus, ipatch, outVars>>

\* The source of a patch: bonus data goes behind the second source chunk.
PatchSource(i) ==
    IF job.zip
    THEN LET j == IF tchunks[i].type = "deflate"
                  THEN FindChunkByName(tchunks[i].name) ELSE 0
         IN  schunks[IF j = 0 THEN 1 ELSE j]
    ELSE IF i = 2 THEN [schunks[i] EXCEPT !.data = @ \o bonus]
    ELSE schunks[i]

\* MakePatch: the header record of a chunk that is patched.  The whole source
\* as a chunk has no deflate_len; whatever is found there, imgpatch does not
\* inflate it, since a zip file begins with a local header.
Header(s, c) ==
    [type |-> c.type, start |-> s.start,
     len |-> IF c.type = "deflate" THEN Len(s.ddata) ELSE Len(s.data),
     ulen |-> Len(s.data), old |-> s.data, new |-> c.data, level |-> c.level]
Raw(c) == [type |-> "raw", start |-> 0, len |-> 0, ulen |-> 0, old |-> <<>>,
           new |-> c.data, level |-> 0]

\* A normal chunk is stored as it is when it is short or its patch is long.
MakePatch ==
    /\ ipc = "make" /\ inx <= Len(tchunks)
    /\ LET c == tchunks[inx]
       IN  \/ /\ c.type = "normal"
              /\ ipatch' = Append(ipatch, Raw(c))
           \/ /\ c.type = "normal" => Len(c.data) > RawMax
              /\ ipatch' = Append(ipatch, Header(PatchSource(inx), c))
    /\ inx' = inx + 1
    /\ UNCHANGED <<job, bonus, schunks, tchunks, ipc, outVars>>

WritePatch ==
    /\ ipc = "make" /\ inx > Len(tchunks)
    /\ ipc' = "apply" /\ inx' = 1
    /\ UNCHANGED <<job, bonus, schunks, tchunks, ipatch, outVars>>
-----------------------------------------------------------------------------
PatchedBy(old, h) == IF old = h.old THEN h.new ELSE <<Garbage>>

\* bonus_size: only the second chunk of the patch takes bonus data.
BonusSize(i) == IF i = 2 THEN Len(bonus) ELSE 0

(***************************************************************************)
(* One turn of the loop of ApplyImagePatch.  A deflate chunk is inflated   *)
(* (it must come up short by the bonus data exactly), patched and deflated *)
(* again at the level of the header.                                       *)
(***************************************************************************)
SourceAt(h) == SubSeq(job.src, h.start + 1, h.start + h.len)
Inflates(h) == LET at == SourceAt(h)
               IN  /\ Len(at) = 1 /\ at[1].k = "z"
                   /\ h.ulen - Len(at[1].d) = BonusSize(inx)
OutputOf(h) ==
    CASE h.type = "raw" -> h.new
      [] h.type = "normal" -> PatchedBy(SourceAt(h), h)
      [] h.type = "deflate" ->
            <<[k |-> "z", l |-> h.level,
               d |-> PatchedBy(SourceAt(h)[1].d
                               \o SubSeq(bonus, 1, BonusSize(inx)), h)]>>

ApplyChunk ==
    /\ ipc = "apply" /\ inx <= Len(ipatch)
    /\ LET h == ipatch[inx]
       IN  IF h.type = "deflate" /\ ~Inflates(h)
           THEN ipc' = "failed" /\ UNCHANGED outVars
           ELSE /\ iout' = iout \o OutputOf(h)
                /\ isha' = isha \o OutputOf(h)
                /\ UNCHANGED <<ipc, ishort>>
    /\ inx' = inx + 1
    /\ UNCHANGED <<job, bonus, schunks, tchunks, ipatch>>

\* The sink has room for the first n tokens of a chunk only.  The result of
\* ApplyBSDiffPatch for a normal chunk is not looked at: the loop goes on
\* and the hash lacks the chunk.  The others return -1.
SinkFails ==
    /\ ipc = "apply" /\ inx <= Len(ipatch)
    /\ LET h == ipatch[inx]
       IN  /\ h.type = "deflate" => Inflates(h)
           /\ \E n \in 0 .. Len(OutputOf(h)) - 1 :
                iout' = iout \o SubSeq(OutputOf(h), 1, n)
           /\ isha' = IF h.type = "raw" THEN isha \o h.new ELSE isha
           /\ ipc' = IF h.type = "normal" THEN ipc ELSE "unwritten"
    /\ ishort' = TRUE
    /\ inx' = inx + 1
    /\ UNCHANGED <<job, bonus, schunks, tchunks, ipatch>>

ApplyEnds ==
    /\ ipc = "apply" /\ inx > Len(ipatch)
    /\ ipc' = "end"
    /\ UNCHANGED <<job, bonus, schunks, tchunks, inx, ipatch, outVars>>

ImgNext == \/ ReadFails \/ BreakApart \/ TryChunk \/ MergeChunks
           \/ MakePatch \/ WritePatch \/ ApplyChunk \/ SinkFails \/ ApplyEnds
-----------------------------------------------------------------------------
(***************************************************************************)
(* While the sink takes all, what imgpatch writes is at every point a      *)
(* prefix of the target, bit for bit in the compressed streams too, and at *)
(* the end it is the target: the header of a chunk names the right source  *)
(* data.  And when the sink came up short in a normal chunk, which is not  *)
(* reported, the hash is not the target's, so that applypatch refuses it.  *)
(***************************************************************************)
ImageRoundTrip ==
    /\ ~ishort => /\ IsPrefix(iout, job.tgt)
                  /\ ipc = "end" => iout = job.tgt
    /\ ipc = "end" /\ isha = job.tgt => iout = job.tgt

\* Two deflated entries of a zip file have one name.
NamesRepeat(img) ==
    \E a, b \in DOMAIN img : /\ a # b /\ img[a].k = "z" /\ img[b].k = "z"
                             /\ img[a - 1].l = img[b - 1].l

(***************************************************************************)
(* The two lists of an image stay parallel while chunks are turned into    *)
(* normal ones and merged: "This shouldn't happen" ("merging normal chunks *)
(* went awry") does not.  And imgpatch refuses a patch of imgdiff only in  *)
(* zip mode, for one of two reasons: a bonus file was given, which -z      *)
(* ignores, or two deflated entries of the target have one name, one of    *)
(* which is equal to the source's and takes its chunk from the other.      *)
(***************************************************************************)
NeverAwry ==
    /\ ipc # "awry"
    /\ ipc = "failed" => job.zip /\ (bonus # <<>> \/ NamesRepeat(job.tgt))

(***************************************************************************)
(* The chunks partition the image they were read from, whatever has been   *)
(* merged; bonus data is only ever put behind inflated data, which was     *)
(* allocated, never behind a chunk that points into the image.             *)
(***************************************************************************)
ImgTypeOK ==
    /\ LET bytes(c) == IF c.type = "deflate" THEN c.ddata ELSE c.data
           all(cs) == FoldLeft(LAMBDA b, c : b \o bytes(c), <<>>, cs)
       IN  ipc \notin {"read", "refused", "endless"} =>
             /\ all(tchunks) = job.tgt
             /\ all(schunks) = IF job.zip THEN job.src \o job.src ELSE job.src
    /\ (ipc = "make" /\ ~job.zip /\ Len(schunks) > 1) =>
           schunks[2].type = "deflate"

(***************************************************************************)
(* imgdiff and imgpatch are inverse to each other: the chunks partition    *)
(* their image, the lists stay parallel, a patch is refused for two named  *)
(* reasons only, and what is written and accepted is the target.           *)
(***************************************************************************)
ImgInv == ImgTypeOK /\ NeverAwry /\ ImageRoundTrip
=============================================================================
