------------------------------- MODULE BsDiff -------------------------------
(***************************************************************************)
(* applypatch/bsdiff.c and applypatch/bspatch.c: the differences of two    *)
(* strings as control triples with a diff and an extra block, and the new  *)
(* string made again from the old one and the three blocks.                *)
(*                                                                         *)
(* Bytes are 0 .. ByteRange - 1 with wrapping subtraction and addition     *)
(* (256 in the code), offsets are those of the code (from 0), and the      *)
(* bzip2 coding of the blocks is left out.                                 *)
(***************************************************************************)
EXTENDS Integers, Sequences, FiniteSets, FiniteSetsExt, SequencesExt

CONSTANTS ByteRange,    \* number of byte values
          MaxOld, MaxNew,   \* bounds on the lengths
          Slack         \* 8 in the code: how much better a match must be

VARIABLES bold, bnew,   \* the two strings
          sufs,         \* I: the suffix array of the old one
          bpc,          \* "diff", "patch" or "end"; "exit" when bsdiff fails
          scan, len, mpos, lastscan, lastpos, lastoffset,    \* of bsdiff
          ctrl, db, eb, \* the blocks of the patch
          bout, oldpos, \* new_data up to newpos and oldpos of bspatch
          nread         \* control triples read

diffVars == <<bold, bnew, sufs, bpc, scan, len, mpos, lastscan, lastpos,
              lastoffset, ctrl, db, eb, bout, oldpos, nread>>

Suffix(s, k) == SubSeq(s, k + 1, Len(s))
Byte(s, k) == s[k + 1]
Strings(n) == UNION {[1 .. k -> 0 .. ByteRange - 1] : k \in 0 .. n}

\* matchlen.
MatchLen(s, t) == Len(LongestCommonPrefix({s, t}))

\* memcmp over the shorter of the two lengths, its result < 0.
MemcmpLess(s, t) == LET k == MatchLen(s, t) + 1
                    IN  k <= Len(s) /\ k <= Len(t) /\ s[k] < t[k]

\* What qsufsort is for: the starts of all the suffixes, the empty one
\* included, sorted.  Its passes over the groups are not modelled.
SuffixArray(s) ==
    SetToSortSeq(0 .. Len(s), LAMBDA i, j :
        \/ MemcmpLess(Suffix(s, i), Suffix(s, j))
        \/ ~MemcmpLess(Suffix(s, j), Suffix(s, i)) /\ j < i)

\* search: the binary search for the suffix of old that matches t longest.
Search(t) ==
    LET at(x) == Suffix(bold, sufs[x + 1])
        find[st \in 0 .. Len(bold), en \in 0 .. Len(bold)] ==
            IF en - st < 2
            THEN LET x == MatchLen(at(st), t)
                     y == MatchLen(at(en), t)
                 IN  IF x > y THEN [len |-> x, pos |-> sufs[st + 1]]
                     ELSE [len |-> y, pos |-> sufs[en + 1]]
            ELSE LET x == st + (en - st) \div 2
                 IN  IF MemcmpLess(at(x), t) THEN find[x, en]
                     ELSE find[st, x]
    IN  find[0, Len(bold)]
-----------------------------------------------------------------------------
\* The byte of new at k is the one of old at k + lastoffset.
Same(k) == /\ k + lastoffset < Len(bold)
           /\ Byte(bold, k + lastoffset) = Byte(bnew, k)

\* oldscore after its loop over scsc .. e - 1.
Score(score, scsc, e) == score + Cardinality({k \in scsc .. e - 1 : Same(k)})

(***************************************************************************)
(* The loop of bsdiff over scan: where it breaks off, or the end, with the *)
(* match and the score found there.                                        *)
(***************************************************************************)
ScanFrom(start) ==
    LET turn[sc \in 0 .. Len(bnew), scsc \in 0 .. Len(bnew),
             score \in -1 .. Len(bnew), l \in 0 .. Len(bnew),
             p \in 0 .. Len(bold)] ==
            IF sc = Len(bnew) THEN [scan |-> sc, len |-> l, pos |-> p,
                                    score |-> score]
            ELSE LET m == Search(Suffix(bnew, sc))
                     upto == IF scsc < sc + m.len THEN sc + m.len ELSE scsc
                     s == Score(score, scsc, sc + m.len)
                 IN  IF (m.len = s /\ m.len # 0) \/ m.len > s + Slack
                     THEN [scan |-> sc, len |-> m.len, pos |-> m.pos,
                           score |-> s]
                     ELSE turn[sc + 1, upto, IF Same(sc) THEN s - 1 ELSE s,
                               m.len, m.pos]
    IN  turn[start, start, 0, len, mpos]

\* The first index in 0 .. n with the greatest value.
FirstBest(f, n) ==
    Min({i \in 0 .. n : \A j \in 0 .. n : f[j] <= f[i]})

Equal(o, w, I) == Cardinality({k \in I : Byte(bold, o + k) = Byte(bnew, w + k)})

\* lenf: how far the last match is extended forwards.
Forward(r) ==
    LET n == Min({r.scan - lastscan, Len(bold) - lastpos})
    IN  FirstBest([i \in 0 .. n |->
            2 * Equal(lastpos, lastscan, 0 .. i - 1) - i], n)

\* lenb: how far the new match is extended backwards.
Backward(r) ==
    LET n == Min({r.scan - lastscan, r.pos})
    IN  IF r.scan = Len(bnew) THEN 0
        ELSE FirstBest([i \in 0 .. n |->
            2 * Equal(r.pos, r.scan, -i .. -1) - i], n)

OverlapKept(r) == [f |-> Forward(r), b |-> Backward(r)]     \* mutant

\* Where the two extensions overlap, the overlap is split at its best point.
Extensions(r) ==
    LET f == Forward(r)
        b == Backward(r)
        overlap == (lastscan + f) - (r.scan - b)
        lens == FirstBest([i \in 0 .. overlap |->
                    Equal(lastpos + f - overlap, lastscan + f - overlap,
                          0 .. i - 1)
                    - Equal(r.pos - b, r.scan - b, 0 .. i - 1)], overlap)
    IN  IF overlap > 0 THEN [f |-> f + lens - overlap, b |-> b - lens]
        ELSE [f |-> f, b |-> b]
-----------------------------------------------------------------------------
DiffInit ==
    /\ bold \in Strings(MaxOld)
    /\ sufs = SuffixArray(bold)
    /\ bnew \in Strings(MaxNew)
    /\ bpc = "diff"
    /\ scan = 0 /\ len = 0 /\ mpos = 0
    /\ lastscan = 0 /\ lastpos = 0 /\ lastoffset = 0
    /\ ctrl = <<>> /\ db = <<>> /\ eb = <<>>
    /\ bout = <<>> /\ oldpos = 0 /\ nread = 0

DiffScan ==
    /\ bpc = "diff" /\ scan < Len(bnew)
    /\ LET r == ScanFrom(scan + len)
           x == Extensions(r)
           extra == (r.scan - x.b) - (lastscan + x.f)
       IN  /\ scan' = r.scan /\ len' = r.len /\ mpos' = r.pos
           /\ IF r.len # r.score \/ r.scan = Len(bnew)
              THEN /\ db' = db \o [i \in 1 .. x.f |->
                        (bnew[lastscan + i] - bold[lastpos + i]) % ByteRange]
                   /\ eb' = eb \o SubSeq(bnew, lastscan + x.f + 1,
                                         lastscan + x.f + extra)
                   /\ ctrl' = Append(ctrl,
                        <<x.f, extra, (r.pos - x.b) - (lastpos + x.f)>>)
                   /\ lastscan' = r.scan - x.b
                   /\ lastpos' = r.pos - x.b
                   /\ lastoffset' = r.pos - r.scan
              ELSE UNCHANGED <<db, eb, ctrl, lastscan, lastpos, lastoffset>>
    /\ UNCHANGED <<bold, bnew, sufs, bpc, bout, oldpos, nread>>

DiffEnds ==
    /\ bpc = "diff" /\ scan >= Len(bnew)
    /\ bpc' = "patch"
    /\ UNCHANGED <<bold, bnew, sufs, scan, len, mpos, lastscan, lastpos,
                   lastoffset, ctrl, db, eb, bout, oldpos, nread>>

\* err() and errx(): bzip2 or the file of the patch fails, while a control
\* triple is written or after the loop, and the program exits.
DiffFails ==
    /\ bpc = "diff"
    /\ bpc' = "exit"
    /\ UNCHANGED <<bold, bnew, sufs, scan, len, mpos, lastscan, lastpos,
                   lastoffset, ctrl, db, eb, bout, oldpos, nread>>

\* What FillBuffer has taken from the diff and the extra block so far.
Taken(i) == FoldSeq(LAMBDA c, n : n + c[i], 0, SubSeq(ctrl, 1, nread))

\* The checks of bspatch on a control triple and on what is left to read.
Corrupt(c) ==
    \/ c[1] < 0 \/ c[2] < 0
    \/ Len(bout) + c[1] + c[2] > Len(bnew)
    \/ Taken(1) + c[1] > Len(db) \/ Taken(2) + c[2] > Len(eb)

\* The diff bytes of a triple with the old data added, where there is any.
PatchAdd(c) ==
    [i \in 1 .. c[1] |->
        LET o == oldpos + i - 1
        IN  (db[Taken(1) + i]
             + IF o >= 0 /\ o < Len(bold) THEN Byte(bold, o) ELSE 0)
            % ByteRange]

\* One turn of the loop of ApplyBSDiffPatchMem.
PatchStep ==
    /\ bpc = "patch" /\ Len(bout) < Len(bnew)
    /\ nread < Len(ctrl)
    /\ LET c == ctrl[nread + 1]
       IN  /\ ~Corrupt(c)
           /\ bout' = bout \o PatchAdd(c)
                           \o SubSeq(eb, Taken(2) + 1, Taken(2) + c[2])
           /\ oldpos' = oldpos + c[1] + c[3]
    /\ nread' = nread + 1
    /\ UNCHANGED <<bold, bnew, sufs, bpc, scan, len, mpos, lastscan, lastpos,
                   lastoffset, ctrl, db, eb>>

PatchEnds ==
    /\ bpc = "patch" /\ Len(bout) = Len(bnew)
    /\ bpc' = "end"
    /\ UNCHANGED <<bold, bnew, sufs, scan, len, mpos, lastscan, lastpos,
                   lastoffset, ctrl, db, eb, bout, oldpos, nread>>

DiffNext == DiffScan \/ DiffEnds \/ DiffFails \/ PatchStep \/ PatchEnds
-----------------------------------------------------------------------------
(***************************************************************************)
(* What bspatch has made is at every point a prefix of the new string, and *)
(* at the end it is the new string, for every pair of strings.             *)
(***************************************************************************)
PatchMakesNew ==
    /\ IsPrefix(bout, bnew)
    /\ bpc = "end" => bout = bnew

(***************************************************************************)
(* bspatch never finds a patch of bsdiff corrupt and never waits for more  *)
(* of a block than there is (FillBuffer would go round for ever).          *)
(***************************************************************************)
NeverCorrupt ==
    (bpc = "patch" /\ Len(bout) < Len(bnew)) =>
        nread < Len(ctrl) /\ ~Corrupt(ctrl[nread + 1])

(***************************************************************************)
(* While bsdiff runs, the triples written so far account for the new       *)
(* string up to lastscan exactly, and its positions stay inside the two    *)
(* strings.                                                                *)
(***************************************************************************)
DiffTypeOK ==
    /\ lastscan \in 0 .. Len(bnew) /\ lastpos \in 0 .. Len(bold)
    /\ scan \in lastscan .. Len(bnew)
    /\ Len(db) + Len(eb) = lastscan
    /\ FoldSeq(LAMBDA c, n : n + c[1], 0, ctrl) = Len(db)
    /\ FoldSeq(LAMBDA c, n : n + c[2], 0, ctrl) = Len(eb)

(***************************************************************************)
(* bsdiff and bspatch are inverse to each other: the blocks are            *)
(* consistent, the patch is never found corrupt, and what it makes is the  *)
(* new string.                                                             *)
(***************************************************************************)
DiffInv == DiffTypeOK /\ NeverCorrupt /\ PatchMakesNew
=============================================================================
