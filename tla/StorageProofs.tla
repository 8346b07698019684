--------------------------- MODULE StorageProofs ----------------------------
(***************************************************************************)
(* The menus and the storage under them: formats and wipes, the two stores *)
(* of backups, and the keys of the menus with what one sideload leaves for *)
(* the next.                                                               *)
(***************************************************************************)
EXTENDS Volumes, Nandroid, Dedupe, Sideload, FiniteSetTheorems, TLAPS

(* A leaf that names no prover is for Zenon; the ones that need arithmetic *)
(* or the theory of functions and records name SMT.                        *)
USE ZenonT(60)

-----------------------------------------------------------------------------
(***************************************************************************)
(* No format, wipe or restore takes the user's /data/media but the item    *)
(* that names it, none makes a file system under a mount in sight, and one *)
(* that is to make the volume anew and reports success has: for every      *)
(* volume table, every limit of the scan of /proc/mounts and every order   *)
(* of mounts and failures.                                                 *)
(*                                                                         *)
(* The argument follows the calls: each function of roots.c and            *)
(* extendedcommands.c leaves the content of the paths outside the volume   *)
(* it was given, and with the media preserved, given /data, it leaves all  *)
(* but /data itself.                                                       *)
(***************************************************************************)
FileStates == {"files", "empty", "torn"}

(* A record the operators of Volumes work on, and a result of theirs.      *)
Device(M) ==
  /\ M = [mounts |-> M.mounts, content |-> M.content, over |-> M.over]
  /\ M.content \in [Paths -> FileStates]

Outcome(r) ==
  /\ r = [M |-> r.M, ok |-> r.ok, skipped |-> r.skipped]
  /\ Device(r.M)

(* What r leaves of M: all content but that of the paths in S.             *)
LeavesBut(M, r, S) ==
  /\ Outcome(r)
  /\ \A q \in Paths \ S : r.M.content[q] = M.content[q]

(* What emptying p takes: /data loses all but its media.                   *)
Gone(p) == IF p = "data" THEN {p} ELSE Inside(p)

(* What a format of p may touch: a file system is made on the whole        *)
(* volume, also for a path inside it.                                      *)
Touched(p) == Gone(p) \cup Inside(p) \cup Inside(Holder[p])

MediaPaths == {p \in Paths : Kind[p] = "datamedia"}

-----------------------------------------------------------------------------
(* A result is an outcome when its record is one of a device.              *)
LEMMA ResultOutcome ==
  ASSUME NEW M, Device(M), NEW ok
  PROVE  Outcome(Result(M, ok)) /\ Result(M, ok).M = M
BY DEF Outcome, Result

(* A change of the mount table is no change of content.                    *)
LEMMA TableOnly ==
  ASSUME NEW M, Device(M), NEW ms
  PROVE  /\ Device([M EXCEPT !.mounts = ms])
         /\ [M EXCEPT !.mounts = ms].content = M.content
BY SMTT(60) DEF Device

(* try_mount changes the mount table only.                                 *)
LEMMA MountsLeave ==
  ASSUME NEW M, Device(M), NEW v, NEW r \in Mounts(M, v)
  PROVE  LeavesBut(M, r, {})
<1>1. CASE r = Result(M, FALSE)
  BY <1>1, ResultOutcome DEF LeavesBut
<1>2. CASE r = Result([M EXCEPT !.mounts = Append(M.mounts, v)], TRUE)
  <2> DEFINE N == [M EXCEPT !.mounts = Append(M.mounts, v)]
  <2>1. Device(N) /\ N.content = M.content
    BY TableOnly
  <2> HIDE DEF N
  <2>2. r = Result(N, TRUE)
    BY <1>2 DEF N
  <2>3. QED
    BY <2>1, <2>2, ResultOutcome DEF LeavesBut
<1>3. QED
  BY <1>1, <1>2 DEF Mounts

(* ensure_path_mounted changes the mount table only.                       *)
LEMMA MountingLeaves ==
  ASSUME NEW M, Device(M), NEW p, NEW r \in PathMounted(M, p)
  PROVE  LeavesBut(M, r, {})
<1>1. CASE r \in Mounts(M, Holder[p])
  BY <1>1, MountsLeave
<1>2. CASE r = Result(M, TRUE) \/ r = Result(M, FALSE)
  BY <1>2, ResultOutcome DEF LeavesBut
<1>3. QED
  BY <1>1, <1>2 DEF PathMounted

(* ensure_path_unmounted changes the mount table only.                     *)
LEMMA UnmountingLeaves ==
  ASSUME NEW M, Device(M), NEW p, NEW keep, NEW r \in PathUnmounted(M, p, keep)
  PROVE  LeavesBut(M, r, {})
<1>1. ASSUME NEW i
      PROVE  Device(Unlisted(M, i)) /\ Unlisted(M, i).content = M.content
  BY TableOnly DEF Unlisted
<1>2. \/ r = Result(M, TRUE) \/ r = Result(M, FALSE)
      \/ \E i \in {j \in DOMAIN M.mounts : M.mounts[j] = Holder[p]} :
           r = Result(Unlisted(M, i), TRUE)
  BY DEF PathUnmounted
<1>3. CASE r = Result(M, TRUE) \/ r = Result(M, FALSE)
  BY <1>3, ResultOutcome DEF LeavesBut
<1>4. ASSUME NEW i, r = Result(Unlisted(M, i), TRUE)
      PROVE  LeavesBut(M, r, {})
  <2>1. Outcome(r) /\ r.M = Unlisted(M, i)
    BY <1>1, <1>4, ResultOutcome
  <2>2. QED
    BY <1>1, <2>1 DEF LeavesBut
<1>5. QED
  BY <1>2, <1>3, <1>4

(* M with the paths in S holding c.                                        *)
Changed(M, S, c, o) ==
  [[M EXCEPT !.over = o] EXCEPT
     !.content = [q \in Paths |-> IF q \in S THEN c ELSE M.content[q]]]

(* A change of content inside S leaves the rest of the device.             *)
LEMMA ContentOnly ==
  ASSUME NEW M, Device(M), NEW S, NEW c \in FileStates, NEW o
  PROVE  /\ Device(Changed(M, S, c, o))
         /\ \A q \in Paths \ S : Changed(M, S, c, o).content[q] = M.content[q]
<1> DEFINE f == [q \in Paths |-> IF q \in S THEN c ELSE M.content[q]]
           N == Changed(M, S, c, o)
<1>1. f \in [Paths -> FileStates] /\ \A q \in Paths \ S : f[q] = M.content[q]
  BY DEF Device
<1>a. N = [[M EXCEPT !.over = o] EXCEPT !.content = f]
  BY DEF Changed
<1> HIDE DEF f, N
<1>2. N = [mounts |-> M.mounts, content |-> f, over |-> o]
  BY <1>a DEF Device
<1>3. N.content = f /\ N = [mounts |-> N.mounts, content |-> N.content,
                            over |-> N.over]
  BY <1>2
<1>4. Device(N) /\ \A q \in Paths \ S : N.content[q] = M.content[q]
  BY <1>1, <1>3 DEF Device
<1>5. QED
  BY <1>4 DEF N

(* Making a file system on a volume leaves the other volumes.              *)
LEMMA MakingLeaves ==
  ASSUME NEW M, Device(M), NEW v, NEW r \in MakeFs(M, v)
  PROVE  LeavesBut(M, r, Inside(v))
<1> DEFINE o == M.over \/ v \in Scan(M.mounts)
           N(c) == Changed(M, Inside(v), c, o)
<1>1. r \in {Result(N("empty"), TRUE), Result(N("torn"), FALSE),
             Result(M, FALSE)}
  BY DEF MakeFs, Changed
<1>2. ASSUME NEW c \in FileStates
      PROVE  /\ Device(N(c))
             /\ \A q \in Paths \ Inside(v) : N(c).content[q] = M.content[q]
  BY ContentOnly, SMTT(60)
<1> HIDE DEF N
<1>3. ASSUME NEW c \in FileStates, NEW ok, r = Result(N(c), ok)
      PROVE  LeavesBut(M, r, Inside(v))
  BY <1>2, <1>3, ResultOutcome, SMTT(60) DEF LeavesBut
<1>4. CASE r = Result(M, FALSE)
  BY <1>4, ResultOutcome DEF LeavesBut
<1>5. QED
  BY <1>1, <1>3, <1>4 DEF FileStates

(* So does vold's format.                                                  *)
LEMMA VoldLeaves ==
  ASSUME NEW M, Device(M), NEW v, NEW r \in VoldFormat(M, v)
  PROVE  LeavesBut(M, r, Inside(v))
<1>1. CASE r \in MakeFs(M, v)
  BY <1>1, MakingLeaves
<1>2. CASE r = Result(M, FALSE)
  BY <1>2, ResultOutcome DEF LeavesBut
<1>3. QED
  BY <1>1, <1>2 DEF VoldFormat

(* M after an rm -rf of p that got as far as c.                            *)
RmLeft(M, p, c) ==
  [M EXCEPT !.content = [q \in Paths |-> IF q \in Gone(p) THEN c
                                         ELSE M.content[q]]]

LEMMA RmCases ==
  ASSUME NEW M, NEW p, NEW N \in RmAll(M, p)
  PROVE  N = M \/ \E c \in {"torn", "empty"} : N = RmLeft(M, p, c)
BY DEF RmAll, RmLeft, Gone

LEMMA RmChanges ==
  ASSUME NEW M, Device(M), NEW p, NEW c
  PROVE  RmLeft(M, p, c) = Changed(M, Gone(p), c, M.over)
<1> DEFINE f == [q \in Paths |-> IF q \in Gone(p) THEN c ELSE M.content[q]]
<1>1. RmLeft(M, p, c) = [M EXCEPT !.content = f]
  BY DEF RmLeft
<1>2. Changed(M, Gone(p), c, M.over)
        = [[M EXCEPT !.over = M.over] EXCEPT !.content = f]
  BY DEF Changed
<1> HIDE DEF f
<1>3. QED
  BY <1>1, <1>2 DEF Device

(* The rm -rf of format_unknown_device leaves, in /data, the media.        *)
LEMMA EmptyingLeaves ==
  ASSUME NEW M, Device(M), NEW p, NEW N \in RmAll(M, p)
  PROVE  /\ Device(N)
         /\ \A q \in Paths \ Gone(p) : N.content[q] = M.content[q]
<1>1. CASE N = M
  BY <1>1
<1>2. ASSUME NEW c \in {"torn", "empty"}, N = RmLeft(M, p, c)
      PROVE  /\ Device(N)
             /\ \A q \in Paths \ Gone(p) : N.content[q] = M.content[q]
  <2>1. N = Changed(M, Gone(p), c, M.over)
    BY <1>2, RmChanges
  <2>2. QED
    BY <2>1, ContentOnly, SMTT(60) DEF FileStates
<1>3. QED
  BY <1>1, <1>2, RmCases

(* What follows an unmount leaves what the unmount left.                   *)
LEMMA AfterTable ==
  ASSUME NEW M, NEW S, NEW u, LeavesBut(M, u, {}), NEW r, LeavesBut(u.M, r, S)
  PROVE  LeavesBut(M, r, S)
BY DEF LeavesBut

LEMMA UnmountAndMakeLeaves ==
  ASSUME NEW M, Device(M), NEW p, NEW keep, NEW r \in UnmountAndMake(M, p, keep)
  PROVE  LeavesBut(M, r, Inside(Holder[p]))
<1>1. PICK u \in PathUnmounted(M, p, keep) :
        r \in IF u.ok THEN MakeFs(u.M, Holder[p]) ELSE {Result(u.M, FALSE)}
  BY DEF UnmountAndMake
<1>2. LeavesBut(M, u, {}) /\ Device(u.M)
  BY UnmountingLeaves, SMTT(60) DEF LeavesBut, Outcome
<1>3. LeavesBut(u.M, r, Inside(Holder[p]))
  <2>1. CASE r \in MakeFs(u.M, Holder[p])
    BY <1>2, <2>1, MakingLeaves
  <2>2. CASE r = Result(u.M, FALSE)
    BY <1>2, <2>2, ResultOutcome DEF LeavesBut
  <2>3. QED
    BY <1>1, <2>1, <2>2
<1>4. QED
  BY <1>2, <1>3, AfterTable

(* The ways of format_unknown_device.  Without a file system of its own to *)
(* make it mounts, removes and unmounts, or skips.                         *)
Sweeps(M, p, keep, r) ==
  \E m \in PathMounted(M, p) :
    \/ r = Skipped(m.M)
    \/ \E N \in RmAll(m.M, p) : \E u \in PathUnmounted(N, p, keep) :
         r = Result(u.M, TRUE)

LEMMA UnknownCases ==
  ASSUME NEW M, NEW p, NEW fs, NEW keep, NEW r \in FormatUnknown(M, p, fs, keep)
  PROVE  \/ fs \in {"emmc", "bml"} /\ r = Result(M, TRUE)
         \/ r = Skipped(M)
         \/ fs \in {"ext2", "ext3"} /\ r \in UnmountAndMake(M, p, keep)
         \/ fs \notin {"emmc", "bml", "ext2", "ext3"} /\ Sweeps(M, p, keep, r)
<1>1. CASE fs \in {"emmc", "bml"}
  BY <1>1 DEF FormatUnknown
<1>2. CASE fs \in {"ext2", "ext3"}
  BY <1>2 DEF FormatUnknown
<1>3. CASE fs \notin {"emmc", "bml", "ext2", "ext3"} /\ r # Skipped(M)
  <2>1. PICK m \in PathMounted(M, p) :
          r \in IF ~m.ok THEN {Skipped(m.M)}
                ELSE {Result(u.M, TRUE) :
                        u \in UNION {PathUnmounted(N, p, keep) :
                                       N \in RmAll(m.M, p)}}
    BY <1>3 DEF FormatUnknown
  <2>2. CASE r = Skipped(m.M)
    BY <1>3, <2>2 DEF Sweeps
  <2>3. CASE \E N \in RmAll(m.M, p) : \E u \in PathUnmounted(N, p, keep) :
               r = Result(u.M, TRUE)
    BY <1>3, <2>3 DEF Sweeps
  <2>4. QED
    BY <2>1, <2>2, <2>3
<1>4. QED
  BY <1>1, <1>2, <1>3

LEMMA SkippedOutcome ==
  ASSUME NEW M, Device(M)
  PROVE  Outcome(Skipped(M)) /\ Skipped(M).M = M /\ Skipped(M).skipped = TRUE
BY DEF Outcome, Skipped

(* format_unknown_device without a type empties the path: mount, rm -rf,   *)
(* unmount.  An mkfs takes all that is on the volume.                      *)
LEMMA UnknownLeaves ==
  ASSUME NEW M, Device(M), NEW p, NEW fs, NEW keep,
         NEW r \in FormatUnknown(M, p, fs, keep)
  PROVE  /\ LeavesBut(M, r, Touched(p))
         /\ fs = "" => LeavesBut(M, r, Gone(p))
<1>1. CASE r = Result(M, TRUE) \/ r = Skipped(M)
  BY <1>1, ResultOutcome, SkippedOutcome DEF LeavesBut
<1>2. CASE fs \in {"ext2", "ext3"} /\ r \in UnmountAndMake(M, p, keep)
  <2>1. LeavesBut(M, r, Inside(Holder[p]))
    BY <1>2, UnmountAndMakeLeaves
  <2>2. QED
    BY <1>2, <2>1 DEF LeavesBut, Touched
<1>3. ASSUME Sweeps(M, p, keep, r)
      PROVE  LeavesBut(M, r, Gone(p))
  <2>a. PICK m \in PathMounted(M, p) :
          \/ r = Skipped(m.M)
          \/ \E N \in RmAll(m.M, p) : \E u \in PathUnmounted(N, p, keep) :
               r = Result(u.M, TRUE)
    BY <1>3 DEF Sweeps
  <2>1. LeavesBut(M, m, {}) /\ Device(m.M)
    BY MountingLeaves DEF LeavesBut, Outcome
  <2>2. CASE r = Skipped(m.M)
    BY <2>1, <2>2, SkippedOutcome DEF LeavesBut
  <2>3. ASSUME NEW N \in RmAll(m.M, p), NEW u \in PathUnmounted(N, p, keep),
               r = Result(u.M, TRUE)
        PROVE  LeavesBut(M, r, Gone(p))
    <3>1. /\ Device(N)
          /\ \A q \in Paths \ Gone(p) : N.content[q] = m.M.content[q]
      BY <2>1, EmptyingLeaves, SMTT(60)
    <3>2. LeavesBut(N, u, {})
      BY <3>1, UnmountingLeaves
    <3>3. Device(u.M)
      BY <3>2 DEF LeavesBut, Outcome
    <3>4. Outcome(r) /\ r.M = u.M
      BY <2>3, <3>3, ResultOutcome
    <3>5. QED
      BY <2>1, <3>1, <3>2, <3>4 DEF LeavesBut
  <2>4. QED
    BY <2>a, <2>2, <2>3
<1>4. CASE LeavesBut(M, r, Gone(p))
  BY <1>4 DEF LeavesBut, Touched
<1>5. QED
  BY <1>1, <1>2, <1>3, <1>4, UnknownCases

(* What an unmount and a format of an unknown type leave.                  *)
LEMMA UnmountedUnknownLeaves ==
  ASSUME NEW M, Device(M), NEW p, NEW fs, NEW keep,
         NEW r \in FormatUnmounted(M, p, fs, keep)
  PROVE  LeavesBut(M, r, Touched(p))
<1>a. PICK u \in PathUnmounted(M, p, keep) :
        r \in IF u.ok THEN FormatUnknown(u.M, p, fs, keep)
              ELSE {Result(u.M, FALSE)}
  BY DEF FormatUnmounted
<1>1. LeavesBut(M, u, {}) /\ Device(u.M)
  BY UnmountingLeaves, SMTT(60) DEF LeavesBut, Outcome
<1>2. CASE r \in FormatUnknown(u.M, p, fs, keep)
  BY <1>1, <1>2, UnknownLeaves, AfterTable
<1>3. CASE r = Result(u.M, FALSE)
  <2>1. LeavesBut(u.M, r, Touched(p))
    BY <1>1, <1>3, ResultOutcome DEF LeavesBut
  <2>2. QED
    BY <1>1, <2>1, AfterTable
<1>4. QED
  BY <1>a, <1>2, <1>3

(* The ways of format_volume.                                              *)
MadeKinds == {"yaffs2", "mtd", "ext4", "f2fs"}

LEMMA VolumeCases ==
  ASSUME NEW M, NEW p, NEW keep, NEW r \in FormatVolume(M, p, keep)
  PROVE  \/ Emptied(p, keep) /\ r \in FormatUnknown(M, p, "", keep)
         \/ /\ ~Emptied(p, keep)
            /\ \/ r = Result(M, FALSE)
               \/ /\ p \in VoldManaged
                  /\ \E u \in PathUnmounted(M, p, keep) : r \in VoldFormat(u.M, p)
               \/ /\ p \notin VoldManaged
                  /\ \/ Kind[p] = "inside" /\ r \in FormatUnknown(M, p, "", keep)
                     \/ Kind[p] \in MadeKinds /\ r \in UnmountAndMake(M, p, keep)
                     \/ /\ Kind[p] \notin MadeKinds
                        /\ r \in FormatUnmounted(M, p, Kind[p], keep)
<1>1. CASE Emptied(p, keep)
  BY <1>1 DEF FormatVolume
<1>2. CASE ~Emptied(p, keep)
  <2>1. \/ r = Result(M, FALSE)
        \/ r \in IF p \in VoldManaged
                   THEN UNION {VoldFormat(u.M, p) : u \in PathUnmounted(M, p, keep)}
                 ELSE IF Kind[Holder[p]] = "ramdisk" THEN {Result(M, FALSE)}
                 ELSE IF Kind[p] = "inside" THEN FormatUnknown(M, p, "", keep)
                 ELSE IF Kind[p] \in MadeKinds THEN UnmountAndMake(M, p, keep)
                 ELSE FormatUnmounted(M, p, Kind[p], keep)
    BY <1>2 DEF FormatVolume, MadeKinds
  <2>2. QED
    BY <1>2, <2>1
<1>3. QED
  BY <1>1, <1>2

(* format_volume leaves the other volumes.  Of a path that is emptied, as  *)
(* /data is with its media preserved, it leaves what rm -rf leaves.        *)
LEMMA VolumeLeaves ==
  ASSUME NEW M, Device(M), NEW p, NEW keep, NEW r \in FormatVolume(M, p, keep)
  PROVE  /\ LeavesBut(M, r, Touched(p))
         /\ Emptied(p, keep) => LeavesBut(M, r, Gone(p))
<1>1. CASE Emptied(p, keep) /\ r \in FormatUnknown(M, p, "", keep)
  BY <1>1, UnknownLeaves
<1>2. ASSUME ~Emptied(p, keep), NEW u \in PathUnmounted(M, p, keep),
             r \in VoldFormat(u.M, p)
      PROVE  LeavesBut(M, r, Touched(p))
  <2>2. LeavesBut(M, u, {}) /\ Device(u.M)
    BY UnmountingLeaves, SMTT(60) DEF LeavesBut, Outcome
  <2>3. LeavesBut(u.M, r, Inside(p))
    BY <1>2, <2>2, VoldLeaves
  <2>4. LeavesBut(M, r, Inside(p))
    BY <2>2, <2>3, AfterTable
  <2>5. QED
    BY <2>4 DEF LeavesBut, Touched
<1>3. CASE r = Result(M, FALSE)
  BY <1>3, ResultOutcome DEF LeavesBut
<1>4. CASE ~Emptied(p, keep) /\ r \in UnmountAndMake(M, p, keep)
  <2>1. LeavesBut(M, r, Inside(Holder[p]))
    BY <1>4, UnmountAndMakeLeaves
  <2>2. QED
    BY <1>4, <2>1 DEF LeavesBut, Touched
<1>5. CASE r \in FormatUnknown(M, p, "", keep)
  BY <1>5, UnknownLeaves
<1>6. CASE ~Emptied(p, keep) /\ r \in FormatUnmounted(M, p, Kind[p], keep)
  BY <1>6, UnmountedUnknownLeaves
<1>7. QED
  BY <1>1, <1>2, <1>3, <1>4, <1>5, <1>6, VolumeCases

(* The ways of format_device.                                              *)
LEMMA DeviceCases ==
  ASSUME NEW M, NEW p, NEW fs, NEW r \in FormatDevice(M, p, fs)
  PROVE  \/ Emptied(p, TRUE) /\ r \in FormatUnknown(M, p, "", TRUE)
         \/ /\ ~Emptied(p, TRUE)
            /\ \/ /\ fs \in {"rfs", "yaffs2", "ext4", "f2fs"}
                  /\ r \in UnmountAndMake(M, p, TRUE)
               \/ Kind[p] = "inside" /\ r \in FormatUnknown(M, p, "", TRUE)
               \/ /\ fs \notin {"rfs", "yaffs2", "ext4", "f2fs"}
                  /\ r \in FormatUnmounted(M, p, fs, TRUE)
<1>1. CASE Emptied(p, TRUE)
  BY <1>1 DEF FormatDevice
<1>2. CASE ~Emptied(p, TRUE)
  BY <1>2 DEF FormatDevice
<1>3. QED
  BY <1>1, <1>2

(* format_device leaves the same, and always preserves the media.          *)
LEMMA DeviceLeaves ==
  ASSUME NEW M, Device(M), NEW p, NEW fs, NEW r \in FormatDevice(M, p, fs)
  PROVE  /\ LeavesBut(M, r, Touched(p))
         /\ Emptied(p, TRUE) => LeavesBut(M, r, Gone(p))
<1>1. CASE Emptied(p, TRUE) /\ r \in FormatUnknown(M, p, "", TRUE)
  BY <1>1, UnknownLeaves
<1>2. CASE ~Emptied(p, TRUE) /\ r \in UnmountAndMake(M, p, TRUE)
  <2>1. LeavesBut(M, r, Inside(Holder[p]))
    BY <1>2, UnmountAndMakeLeaves
  <2>2. QED
    BY <1>2, <2>1 DEF LeavesBut, Touched
<1>3. CASE ~Emptied(p, TRUE) /\ r \in FormatUnknown(M, p, "", TRUE)
  BY <1>3, UnknownLeaves
<1>4. CASE ~Emptied(p, TRUE) /\ r \in FormatUnmounted(M, p, fs, TRUE)
  BY <1>4, UnmountedUnknownLeaves
<1>5. QED
  BY <1>1, <1>2, <1>3, <1>4, DeviceCases

-----------------------------------------------------------------------------
(* setup_data_media: what is inside another volume, and what is emptied in *)
(* /data, is not the media.                                                *)
LEMMA MediaApart ==
  ASSUME NEW q \in MediaPaths, NEW p \in Paths, p # q
  PROVE  /\ q \notin Gone(p)
         /\ ~Emptied(p, TRUE) => q \notin Touched(p)
<1>1. q \in Paths /\ Kind[q] = "datamedia" /\ Holder[q] = "data" /\ q # "data"
  BY VolumesAssumption DEF MediaPaths
<1>2. DataMedia /\ "data" \in DataLike
  BY <1>1, VolumesAssumption DEF DataMedia
<1>3. q \notin Gone(p)
  BY <1>1 DEF Gone, Inside
<1>4. ASSUME ~Emptied(p, TRUE)
      PROVE  q \notin Inside(p) /\ q \notin Inside(Holder[p])
  <2>1. p # "data" /\ p \notin DataLike /\ Kind[p] # "datamedia"
    BY <1>2, <1>4 DEF Emptied
  <2>2. Holder[p] # "data"
    BY <2>1, VolumesAssumption
  <2>3. Holder[p] # q
    BY <1>1, <2>2, VolumesAssumption
  <2>4. QED
    BY <1>1, <2>1, <2>2, <2>3, p # q DEF Inside
<1>5. QED
  BY <1>3, <1>4 DEF Touched

(* What keeps the media of a path that was not the one formatted.          *)
LEMMA MediaLeft ==
  ASSUME NEW M, NEW r, NEW p \in Paths, NEW q \in MediaPaths, p # q,
         LeavesBut(M, r, Touched(p)),
         Emptied(p, TRUE) => LeavesBut(M, r, Gone(p))
  PROVE  r.M.content[q] = M.content[q]
<1>1. q \in Paths
  BY DEF MediaPaths
<1>2. CASE Emptied(p, TRUE)
  BY <1>1, <1>2, MediaApart DEF LeavesBut
<1>3. CASE ~Emptied(p, TRUE)
  BY <1>1, <1>3, MediaApart DEF LeavesBut
<1>4. QED
  BY <1>2, <1>3

-----------------------------------------------------------------------------
(* The step property, and what it needs to be stated of every step.        *)
ContentOK == content \in [Paths -> FileStates]

Kept ==
  \A q \in MediaPaths :
    content[q] = "files" /\ content'[q] # "files"
    => op'.item = "all" \/ (op'.path = q /\ op'.item = "format")

LEMMA StartDevice ==
  ASSUME ContentOK
  PROVE  Device(M0) /\ M0.content = content
BY DEF ContentOK, Device, M0

(* A menu item that formats: the media are the path it names, or kept.     *)
LEMMA FormattingKeeps ==
  ASSUME ContentOK, NEW p \in Paths, NEW item, NEW fs, NEW r,
         Chose(item, p, fs, r), item = "format" \/ p \notin MediaPaths,
         LeavesBut(M0, r, Touched(p)),
         Emptied(p, TRUE) => LeavesBut(M0, r, Gone(p))
  PROVE  ContentOK' /\ Kept
<1>1. content' = r.M.content /\ op'.item = item /\ op'.path = p
  BY DEF Chose, Becomes
<1>2. ContentOK'
  BY <1>1 DEF LeavesBut, Outcome, Device, ContentOK
<1>3. ASSUME NEW q \in MediaPaths, p # q
      PROVE  content'[q] = content[q]
  <2>1. r.M.content[q] = M0.content[q]
    BY <1>3, MediaLeft
  <2>2. QED
    BY <1>1, <2>1, StartDevice
<1>4. Kept
  BY <1>1, <1>3 DEF Kept
<1>5. QED
  BY <1>2, <1>4

(* A menu item that only mounts or unmounts.                               *)
LEMMA MountingKeeps ==
  ASSUME ContentOK, NEW r, Becomes(r), LeavesBut(M0, r, {})
  PROVE  ContentOK' /\ Kept
<1>1. content' = r.M.content
  BY DEF Becomes
<1>2. ContentOK'
  BY <1>1 DEF LeavesBut, Outcome, Device, ContentOK
<1>3. \A q \in Paths : content'[q] = content[q]
  BY <1>1, StartDevice DEF LeavesBut
<1>4. QED
  BY <1>2, <1>3 DEF Kept, MediaPaths

LEMMA MountItemKeeps ==
  ASSUME ContentOK, NEW p \in Vols, MountItem(p)
  PROVE  ContentOK' /\ Kept
<1>1. Device(M0)
  BY StartDevice
<1>2. CASE \E r \in PathMounted(M0, p) : Becomes(r)
  BY <1>1, <1>2, MountingLeaves, MountingKeeps
<1>3. CASE \E r \in PathUnmounted(M0, p, FALSE) : Becomes(r)
  BY <1>1, <1>3, UnmountingLeaves, MountingKeeps
<1>4. QED
  BY <1>2, <1>3 DEF MountItem

LEMMA FormatItemKeeps ==
  ASSUME ContentOK, NEW p \in Paths, FormatItem(p)
  PROVE  ContentOK' /\ Kept
<1>1. PICK r \in FormatVolume(M0, p, TRUE) : Chose("format", p, "", r)
  BY DEF FormatItem
<1>2. QED
  BY <1>1, StartDevice, VolumeLeaves, FormattingKeeps

LEMMA EraseVolumeKeeps ==
  ASSUME ContentOK, NEW p \in Paths, EraseVolume(p)
  PROVE  ContentOK' /\ Kept
<1>1. PICK u \in PathUnmounted(M0, p, TRUE) :
        \E r \in FormatVolume(u.M, p, TRUE) : Chose("wipe", p, "", r)
  BY DEF EraseVolume
<1>2. PICK r \in FormatVolume(u.M, p, TRUE) : Chose("wipe", p, "", r)
  BY <1>1
<1>a. LeavesBut(M0, u, {})
  BY StartDevice, UnmountingLeaves
<1>3. LeavesBut(M0, u, {}) /\ Device(u.M)
  BY <1>a DEF LeavesBut, Outcome
<1>4. /\ LeavesBut(M0, r, Touched(p))
      /\ Emptied(p, TRUE) => LeavesBut(M0, r, Gone(p))
  BY <1>3, VolumeLeaves, AfterTable
<1>5. p \notin MediaPaths
  BY DEF EraseVolume, Partition, MediaPaths
<1>6. QED
  BY <1>2, <1>4, <1>5, FormattingKeeps

LEMMA RestoreKeeps ==
  ASSUME ContentOK, NEW p \in Paths, RestoreFormats(p)
  PROVE  ContentOK' /\ Kept
<1>1. PICK fs, r : /\ r \in FormatVolume(M0, p, TRUE)
                      \/ r \in FormatDevice(M0, p, fs)
                   /\ Chose("restore", p, fs, r)
  BY DEF RestoreFormats
<1>2. p \notin MediaPaths
  BY DEF RestoreFormats, Partition, MediaPaths
<1>3. LeavesBut(M0, r, Touched(p)) /\ (Emptied(p, TRUE) => LeavesBut(M0, r, Gone(p)))
  BY <1>1, StartDevice, DeviceLeaves, VolumeLeaves
<1>4. QED
  BY <1>1, <1>2, <1>3, FormattingKeeps

LEMMA SdcardKeeps ==
  ASSUME ContentOK, NEW p \in Paths, NEW fs, FormatSdcard(p, fs)
  PROVE  ContentOK' /\ Kept
<1>1. p \notin MediaPaths /\ ~Emptied(p, TRUE)
  BY VolumesAssumption DEF FormatSdcard, MediaPaths, Emptied
<1>2. PICK u \in PathUnmounted(M0, p, TRUE) :
        IF ~u.ok THEN Chose("mkfs", p, fs, u)
        ELSE \E r \in IF fs = "default" THEN FormatVolume(u.M, p, TRUE)
                      ELSE IF fs = "ext3" THEN FormatUnknown(u.M, p, fs, TRUE)
                      ELSE IF p \in VoldManaged THEN VoldFormat(u.M, p)
                      ELSE MakeFs(u.M, p) : Chose("mkfs", p, fs, r)
  BY DEF FormatSdcard
<1>a. LeavesBut(M0, u, {})
  BY StartDevice, UnmountingLeaves
<1>3. LeavesBut(M0, u, {}) /\ Device(u.M)
  BY <1>a DEF LeavesBut, Outcome
<1>4. CASE ~u.ok
  BY <1>2, <1>3, <1>4, MountingKeeps DEF Chose
<1>5. CASE u.ok
  <2>1. PICK r : /\ Chose("mkfs", p, fs, r)
                 /\ \/ r \in FormatVolume(u.M, p, TRUE)
                    \/ r \in FormatUnknown(u.M, p, fs, TRUE)
                    \/ r \in VoldFormat(u.M, p) \cup MakeFs(u.M, p)
    BY <1>2, <1>5
  <2>2. LeavesBut(u.M, r, Touched(p))
    <3>1. CASE r \in FormatVolume(u.M, p, TRUE)
      BY <1>3, <3>1, VolumeLeaves
    <3>2. CASE r \in FormatUnknown(u.M, p, fs, TRUE)
      BY <1>3, <3>2, UnknownLeaves
    <3>3. CASE r \in VoldFormat(u.M, p) \cup MakeFs(u.M, p)
      <4>1. LeavesBut(u.M, r, Inside(p))
        BY <1>3, <3>3, VoldLeaves, MakingLeaves
      <4>2. QED
        BY <4>1 DEF LeavesBut, Touched
    <3>4. QED
      BY <2>1, <3>1, <3>2, <3>3
  <2>3. LeavesBut(M0, r, Touched(p))
    BY <1>3, <2>2, AfterTable
  <2>4. QED
    BY <1>1, <2>1, <2>3, FormattingKeeps
<1>6. QED
  BY <1>4, <1>5

LEMMA FormatAllKeeps ==
  ASSUME ContentOK, FormatAll
  PROVE  ContentOK' /\ Kept
<1>1. PICK r \in FormatVolume(M0, "data", FALSE) :
        \E m \in PathMounted(r.M, "data") :
           Chose("all", "data", "", [r EXCEPT !.M = m.M])
  BY DEF FormatAll
<1>2. PICK m \in PathMounted(r.M, "data") :
        Chose("all", "data", "", [r EXCEPT !.M = m.M])
  BY <1>1
<1>a. LeavesBut(M0, r, Touched("data"))
  BY StartDevice, VolumeLeaves
<1>3. Outcome(r) /\ Device(r.M)
  BY <1>a DEF LeavesBut, Outcome
<1>4. Device(m.M)
  BY <1>3, MountingLeaves DEF LeavesBut, Outcome
<1>5. [r EXCEPT !.M = m.M].M = m.M
  BY <1>3 DEF Outcome
<1>6. content' = m.M.content /\ op'.item = "all"
  BY <1>2, <1>5 DEF Chose, Becomes
<1>7. QED
  BY <1>4, <1>6 DEF ContentOK, Device, Kept

(* Files are added, never removed, and vold mounts: nothing is lost.       *)
LEMMA OthersKeep ==
  ASSUME ContentOK, NEW v \in Vols, Fill(v) \/ VoldMounts(v)
  PROVE  ContentOK' /\ Kept
<1>1. CASE Fill(v)
  <2>1. ContentOK'
    BY <1>1 DEF Fill, ContentOK, FileStates
  <2>2. \A q \in Paths : content[q] = "files" => content'[q] = "files"
    BY <1>1 DEF Fill
  <2>3. QED
    BY <2>1, <2>2 DEF Kept, MediaPaths
<1>2. CASE VoldMounts(v)
  BY <1>2 DEF VoldMounts, ContentOK, Kept
<1>3. QED
  BY <1>1, <1>2

LEMMA EveryStepKeeps ==
  ASSUME ContentOK, VolNext
  PROVE  ContentOK' /\ Kept
BY MountItemKeeps, FormatItemKeeps, EraseVolumeKeeps, RestoreKeeps,
   SdcardKeeps, FormatAllKeeps, OthersKeep DEF VolNext, Vols

-----------------------------------------------------------------------------
(***************************************************************************)
(* For every volume table with the media inside /data, no step of the      *)
(* menus, wipes and restores (roots.c, extendedcommands.c) takes the       *)
(* user's media but "format /data and /data/media" or the format item that *)
(* names their path.                                                       *)
(***************************************************************************)
THEOREM MediaSurvives == VolSpec => MediaKept
<1> DEFINE Step == \A p \in Paths :
             /\ Kind[p] = "datamedia"
             /\ content[p] = "files" /\ content'[p] # "files"
             => op'.item = "all"
                \/ (op'.path = p /\ op'.item = "format")
<1>1. VolInit => ContentOK
  BY DEF VolInit, ContentOK, FileStates
<1>2. ContentOK /\ [VolNext]_volVars => ContentOK'
  BY EveryStepKeeps DEF volVars, ContentOK
<1>3. ContentOK /\ [VolNext]_volVars => [Step]_volVars
  <2>1. ContentOK /\ VolNext => Step
    BY EveryStepKeeps DEF Kept, MediaPaths
  <2>2. QED
    BY <2>1
<1>4. QED
  BY <1>1, <1>2, <1>3, PTL DEF VolSpec, MediaKept

-----------------------------------------------------------------------------
(* The mount table names volumes, each once, and no file system was made   *)
(* under a mount in sight.                                                 *)
Sound(M) ==
  /\ Device(M)
  /\ M.mounts \in Seq(Vols) /\ IsInjective(M.mounts)
  /\ M.over = FALSE

SoundResult(r) ==
  /\ Outcome(r) /\ Sound(r.M)
  /\ r.ok \in BOOLEAN /\ r.skipped \in BOOLEAN

(* What a format that reports success, and did not skip, has done to p.    *)
Empties(r, p) == r.ok /\ ~r.skipped => r.M.content[p] = "empty"

LEMMA ResultSound ==
  ASSUME NEW M, Sound(M), NEW ok \in BOOLEAN
  PROVE  /\ SoundResult(Result(M, ok))
         /\ Result(M, ok).M = M /\ Result(M, ok).ok = ok
         /\ Result(M, ok).skipped = FALSE
BY ResultOutcome DEF Sound, SoundResult, Result

LEMMA SkippedSound ==
  ASSUME NEW M, Sound(M), NEW p
  PROVE  SoundResult(Skipped(M)) /\ Empties(Skipped(M), p)
BY SkippedOutcome DEF Sound, SoundResult, Skipped, Empties

(* A new line at the end of the mount table.                               *)
LEMMA AppendSound ==
  ASSUME NEW M, Sound(M), NEW v \in Vols, v \notin Range(M.mounts)
  PROVE  Sound([M EXCEPT !.mounts = Append(M.mounts, v)])
<1> DEFINE ms == Append(M.mounts, v)
           N == [M EXCEPT !.mounts = ms]
<1>1. M.mounts \in Seq(Vols) /\ IsInjective(M.mounts)
  BY DEF Sound
<1>a. Len(M.mounts) \in Nat /\ DOMAIN M.mounts = 1 .. Len(M.mounts)
  BY <1>1, SMTT(60)
<1>b. /\ ms \in Seq(Vols) /\ Len(ms) = Len(M.mounts) + 1
      /\ \A j \in 1 .. Len(M.mounts) : ms[j] = M.mounts[j] /\ ms[j] # v
      /\ ms[Len(ms)] = v
  BY <1>1, <1>a, SMTT(60) DEF Range
<1> HIDE DEF ms
<1>2. IsInjective(ms)
  <2> SUFFICES ASSUME NEW j \in 1 .. Len(ms), NEW k \in 1 .. Len(ms),
                      ms[j] = ms[k]
               PROVE  j = k
    BY <1>b, SMTT(60) DEF IsInjective
  <2>1. \A m \in 1 .. Len(ms) : m \in 1 .. Len(M.mounts) \/ m = Len(ms)
    BY <1>a, <1>b, SMTT(60)
  <2>2. QED
    BY <1>1, <1>a, <1>b, <2>1 DEF IsInjective
<1>3. Device(N)
  BY TableOnly DEF Sound
<1>4. N.mounts = ms /\ N.over = M.over
  BY DEF Sound, Device
<1>5. QED
  BY <1>b, <1>2, <1>3, <1>4 DEF Sound, ms

(* Taking away the line of v leaves the others, and v out of sight.        *)
LEMMA UnlistedSound ==
  ASSUME NEW M, Sound(M), NEW i \in DOMAIN M.mounts
  PROVE  /\ Sound(Unlisted(M, i))
         /\ M.mounts[i] \notin Scan(Unlisted(M, i).mounts)
<1> DEFINE ms == [j \in 1 .. Len(M.mounts) - 1 |->
                    IF j < i THEN M.mounts[j] ELSE M.mounts[j + 1]]
           N == [M EXCEPT !.mounts = ms]
<1>1. M.mounts \in Seq(Vols) /\ IsInjective(M.mounts)
  BY DEF Sound
<1>a. Len(M.mounts) \in Nat /\ DOMAIN M.mounts = 1 .. Len(M.mounts)
  BY <1>1, SMTT(60)
<1>2. ms \in Seq(Vols) /\ Len(ms) = Len(M.mounts) - 1
  BY <1>1, <1>a, SMTT(60)
<1>b. \A j \in 1 .. Len(ms) : ms[j] = IF j < i THEN M.mounts[j] ELSE M.mounts[j + 1]
  BY <1>1, <1>a, <1>2
<1> HIDE DEF ms
<1>c. \A j, k \in 1 .. Len(M.mounts) : M.mounts[j] = M.mounts[k] => j = k
  BY <1>1, <1>a DEF IsInjective
<1>3. IsInjective(ms)
  <2> SUFFICES ASSUME NEW j \in 1 .. Len(ms), NEW k \in 1 .. Len(ms),
                      ms[j] = ms[k]
               PROVE  j = k
    BY <1>2, SMTT(60) DEF IsInjective
  <2> DEFINE at(m) == IF m < i THEN m ELSE m + 1
  <2>1. \A m \in 1 .. Len(ms) : at(m) \in 1 .. Len(M.mounts)
                               /\ ms[m] = M.mounts[at(m)]
    BY <1>a, <1>2, <1>b, SMTT(60)
  <2>2. at(j) = at(k)
    BY <1>c, <2>1
  <2>3. QED
    BY <1>a, <2>2, SMTT(60)
<1>4. ASSUME NEW j \in 1 .. Len(ms)
      PROVE  ms[j] # M.mounts[i]
  <2>1. CASE j < i
    BY <1>a, <1>2, <1>b, <1>c, <2>1, SMTT(60)
  <2>2. CASE ~(j < i)
    <3>1. j + 1 \in 1 .. Len(M.mounts) /\ j + 1 # i /\ ms[j] = M.mounts[j + 1]
      BY <1>a, <1>2, <1>b, <2>2, SMTT(60)
    <3>2. QED
      BY <1>a, <1>c, <3>1
  <2>3. QED
    BY <2>1, <2>2
<1>5. Device(N)
  BY TableOnly DEF Sound
<1>6. N.mounts = ms /\ N.over = M.over
  BY DEF Sound, Device
<1>7. M.mounts[i] \notin Scan(ms)
  <2>1. ASSUME NEW j \in 1 .. (IF Len(ms) < ScanLines THEN Len(ms) ELSE ScanLines)
        PROVE  ms[j] # M.mounts[i]
    BY <1>2, <1>4, VolumesAssumption, SMTT(60)
  <2>2. QED
    BY <2>1 DEF Scan
<1>8. Unlisted(M, i) = N
  BY DEF Unlisted, ms
<1>9. QED
  BY <1>2, <1>3, <1>5, <1>6, <1>7, <1>8 DEF Sound

(* ensure_path_mounted keeps the table sound.                              *)
LEMMA MountingSound ==
  ASSUME NEW M, Sound(M), NEW p \in Paths, NEW r \in PathMounted(M, p)
  PROVE  SoundResult(r) /\ r.skipped = FALSE /\ r.M.content = M.content
<1>1. Holder[p] \in Vols
  BY VolumesAssumption DEF Vols
<1>2. ASSUME NEW ok \in BOOLEAN, r = Result(M, ok)
      PROVE  SoundResult(r) /\ r.skipped = FALSE /\ r.M.content = M.content
  BY <1>2, ResultSound
<1>3. CASE /\ Holder[p] \notin Range(M.mounts)
           /\ r = Result([M EXCEPT !.mounts = Append(M.mounts, Holder[p])], TRUE)
  <2> DEFINE N == [M EXCEPT !.mounts = Append(M.mounts, Holder[p])]
  <2>1. Sound(N)
    BY <1>1, <1>3, AppendSound
  <2>2. N.content = M.content
    BY DEF Sound, Device
  <2>3. r = Result(N, TRUE)
    BY <1>3
  <2> HIDE DEF N
  <2>4. QED
    BY <2>1, <2>2, <2>3, ResultSound
<1>4. \/ r = Result(M, TRUE) \/ r = Result(M, FALSE)
      \/ r \in Mounts(M, Holder[p])
  BY DEF PathMounted
<1>5. QED
  BY <1>2, <1>3, <1>4 DEF Mounts

(* ensure_path_unmounted keeps the table sound; when it reports success    *)
(* for a path that is not to be emptied, the volume is out of the scan's   *)
(* sight.                                                                  *)
LEMMA UnmountingSound ==
  ASSUME NEW M, Sound(M), NEW p \in Paths, NEW keep \in BOOLEAN,
         NEW r \in PathUnmounted(M, p, keep)
  PROVE  /\ SoundResult(r) /\ r.skipped = FALSE /\ r.M.content = M.content
         /\ r.ok /\ ~Emptied(p, keep) => Holder[p] \notin Scan(r.M.mounts)
<1>1. CASE r = Result(M, TRUE) /\ (Holder[p] \in Scan(M.mounts) =>
                                     Emptied(p, keep))
  BY <1>1, ResultSound
<1>2. CASE r = Result(M, FALSE)
  BY <1>2, ResultSound
<1>3. ASSUME NEW i \in DOMAIN M.mounts, M.mounts[i] = Holder[p],
             r = Result(Unlisted(M, i), TRUE)
      PROVE  /\ SoundResult(r) /\ r.skipped = FALSE /\ r.M.content = M.content
             /\ Holder[p] \notin Scan(r.M.mounts)
  <2>1. Sound(Unlisted(M, i)) /\ Holder[p] \notin Scan(Unlisted(M, i).mounts)
    BY <1>3, UnlistedSound
  <2>2. Unlisted(M, i).content = M.content
    BY TableOnly DEF Unlisted, Sound
  <2>3. QED
    BY <1>3, <2>1, <2>2, ResultSound
<1>4. \/ r = Result(M, TRUE) /\ (Holder[p] \in Scan(M.mounts) =>
                                   Emptied(p, keep))
      \/ r = Result(M, FALSE)
      \/ \E i \in {j \in DOMAIN M.mounts : M.mounts[j] = Holder[p]} :
           r = Result(Unlisted(M, i), TRUE)
  BY DEF PathUnmounted, Emptied
<1>5. QED
  BY <1>1, <1>2, <1>3, <1>4

(* A change of content leaves the mount table.                             *)
LEMMA ChangedSound ==
  ASSUME NEW M, Sound(M), NEW S, NEW c \in FileStates
  PROVE  /\ Sound(Changed(M, S, c, FALSE))
         /\ \A q \in Paths \cap S : Changed(M, S, c, FALSE).content[q] = c
<1> DEFINE g == [q \in Paths |-> IF q \in S THEN c ELSE M.content[q]]
           N == Changed(M, S, c, FALSE)
<1>1. Device(N)
  BY ContentOnly DEF Sound
<1>2. \A q \in Paths \cap S : g[q] = c
  OBVIOUS
<1>3. N = [[M EXCEPT !.over = FALSE] EXCEPT !.content = g]
  BY DEF Changed
<1> HIDE DEF g, N
<1>4. N = [mounts |-> M.mounts, content |-> g, over |-> FALSE]
  BY <1>3 DEF Sound, Device
<1>5. N.mounts = M.mounts /\ N.content = g /\ N.over = FALSE
  BY <1>4
<1>6. Sound(N) /\ \A q \in Paths \cap S : N.content[q] = c
  BY <1>1, <1>2, <1>5 DEF Sound
<1>7. QED
  BY <1>6 DEF N

(* Making a file system on a volume that the scan does not see mounted.    *)
LEMMA MakingSound ==
  ASSUME NEW M, Sound(M), NEW v \in Paths, v \notin Scan(M.mounts),
         NEW r \in MakeFs(M, v)
  PROVE  SoundResult(r) /\ r.skipped = FALSE /\ Empties(r, v)
<1> DEFINE N(c) == Changed(M, Inside(v), c, FALSE)
<1> DEFINE o == M.over \/ v \in Scan(M.mounts)
<1>1. o = FALSE
  BY DEF Sound
<1>a. r \in {Result(Changed(M, Inside(v), "empty", o), TRUE),
             Result(Changed(M, Inside(v), "torn", o), FALSE), Result(M, FALSE)}
  BY DEF MakeFs, Changed
<1> HIDE DEF o
<1>2. r \in {Result(N("empty"), TRUE), Result(N("torn"), FALSE),
             Result(M, FALSE)}
  BY <1>1, <1>a
<1>3. v \in Paths \cap Inside(v)
  BY DEF Inside
<1>4. Sound(N("empty")) /\ Sound(N("torn")) /\ N("empty").content[v] = "empty"
  BY <1>3, ChangedSound DEF FileStates
<1> HIDE DEF N
<1>5. CASE r = Result(N("empty"), TRUE)
  BY <1>4, <1>5, ResultSound DEF Empties
<1>6. CASE r = Result(N("torn"), FALSE)
  BY <1>4, <1>6, ResultSound DEF Empties
<1>7. CASE r = Result(M, FALSE)
  BY <1>7, ResultSound DEF Empties
<1>8. QED
  BY <1>2, <1>5, <1>6, <1>7

LEMMA VoldSound ==
  ASSUME NEW M, Sound(M), NEW v \in Paths, NEW r \in VoldFormat(M, v)
  PROVE  SoundResult(r) /\ r.skipped = FALSE /\ Empties(r, v)
<1>1. CASE v \in Range(M.mounts)
  BY <1>1, ResultSound DEF VoldFormat, Empties
<1>2. CASE v \notin Range(M.mounts)
  <2>1. Scan(M.mounts) \subseteq Range(M.mounts)
    <3>1. Len(M.mounts) \in Nat /\ DOMAIN M.mounts = 1 .. Len(M.mounts)
      BY SMTT(60) DEF Sound
    <3>2. QED
      BY <3>1, VolumesAssumption, SMTT(60) DEF Scan, Range
  <2>2. QED
    BY <1>2, <2>1, MakingSound DEF VoldFormat
<1>3. QED
  BY <1>1, <1>2

LEMMA EmptyingSound ==
  ASSUME NEW M, Sound(M), NEW p \in Paths, NEW N \in RmAll(M, p)
  PROVE  Sound(N)
<1>1. ASSUME NEW c \in {"torn", "empty"}, N = RmLeft(M, p, c)
      PROVE  Sound(N)
  <2>1. N = Changed(M, Gone(p), c, FALSE)
    BY <1>1, RmChanges DEF Sound
  <2>2. QED
    BY <2>1, ChangedSound DEF FileStates
<1>2. QED
  BY <1>1, RmCases

LEMMA UnmountAndMakeSound ==
  ASSUME NEW M, Sound(M), NEW p \in Paths, NEW keep \in BOOLEAN,
         ~Emptied(p, keep), NEW r \in UnmountAndMake(M, p, keep)
  PROVE  SoundResult(r) /\ Empties(r, Holder[p])
<1>1. PICK u \in PathUnmounted(M, p, keep) :
        r \in IF u.ok THEN MakeFs(u.M, Holder[p]) ELSE {Result(u.M, FALSE)}
  BY DEF UnmountAndMake
<1>2. Sound(u.M) /\ u.ok \in BOOLEAN
  BY UnmountingSound DEF SoundResult
<1>3. CASE u.ok
  <2>1. Holder[p] \in Paths /\ Holder[p] \notin Scan(u.M.mounts)
    BY <1>3, VolumesAssumption, UnmountingSound
  <2>2. QED
    BY <1>1, <1>2, <1>3, <2>1, MakingSound
<1>4. CASE ~u.ok
  <2>1. r = Result(u.M, FALSE)
    BY <1>1, <1>4
  <2>2. QED
    BY <1>2, <2>1, ResultSound DEF Empties
<1>5. QED
  BY <1>3, <1>4

(* format_unknown_device: an mkfs is for a path that is not to be emptied. *)
LEMMA UnknownSound ==
  ASSUME NEW M, Sound(M), NEW p \in Paths, NEW fs, NEW keep \in BOOLEAN,
         fs \in {"ext2", "ext3"} => ~Emptied(p, keep),
         NEW r \in FormatUnknown(M, p, fs, keep)
  PROVE  SoundResult(r) /\ (fs \in {"ext2", "ext3"} => Empties(r, Holder[p]))
<1>1. CASE fs \in {"emmc", "bml"} /\ r = Result(M, TRUE)
  BY <1>1, ResultSound
<1>2. CASE r = Skipped(M)
  BY <1>2, SkippedSound
<1>3. CASE fs \in {"ext2", "ext3"} /\ r \in UnmountAndMake(M, p, keep)
  BY <1>3, UnmountAndMakeSound
<1>4. ASSUME fs \notin {"emmc", "bml", "ext2", "ext3"}, Sweeps(M, p, keep, r)
      PROVE  SoundResult(r)
  <2>a. PICK m \in PathMounted(M, p) :
          \/ r = Skipped(m.M)
          \/ \E N \in RmAll(m.M, p) : \E u \in PathUnmounted(N, p, keep) :
               r = Result(u.M, TRUE)
    BY <1>4 DEF Sweeps
  <2>1. Sound(m.M)
    BY MountingSound DEF SoundResult
  <2>2. CASE r = Skipped(m.M)
    BY <2>1, <2>2, SkippedSound
  <2>3. ASSUME NEW N \in RmAll(m.M, p), NEW u \in PathUnmounted(N, p, keep),
               r = Result(u.M, TRUE)
        PROVE  SoundResult(r)
    <3>1. Sound(N)
      BY <2>1, EmptyingSound
    <3>2. Sound(u.M)
      BY <3>1, UnmountingSound DEF SoundResult
    <3>3. QED
      BY <2>3, <3>2, ResultSound
  <2>4. QED
    BY <2>a, <2>2, <2>3
<1>5. QED
  BY <1>1, <1>2, <1>3, <1>4, UnknownCases

LEMMA UnmountedUnknownSound ==
  ASSUME NEW M, Sound(M), NEW p \in Paths, NEW fs, NEW keep \in BOOLEAN,
         ~Emptied(p, keep), NEW r \in FormatUnmounted(M, p, fs, keep)
  PROVE  SoundResult(r) /\ (fs \in {"ext2", "ext3"} => Empties(r, Holder[p]))
<1>1. PICK u \in PathUnmounted(M, p, keep) :
        r \in IF u.ok THEN FormatUnknown(u.M, p, fs, keep)
              ELSE {Result(u.M, FALSE)}
  BY DEF FormatUnmounted
<1>2. Sound(u.M)
  BY UnmountingSound DEF SoundResult
<1>3. CASE r \in FormatUnknown(u.M, p, fs, keep)
  BY <1>2, <1>3, UnknownSound
<1>4. CASE r = Result(u.M, FALSE)
  BY <1>2, <1>4, ResultSound DEF Empties
<1>5. QED
  BY <1>1, <1>3, <1>4

(* format_volume.                                                          *)
LEMMA VolumeSound ==
  ASSUME NEW M, Sound(M), NEW p \in Paths, NEW keep \in BOOLEAN,
         NEW r \in FormatVolume(M, p, keep)
  PROVE  /\ SoundResult(r)
         /\ /\ p \in Vols /\ ~Emptied(p, keep)
            /\ p \in VoldManaged \/ Kind[p] \in MadeKinds \cup {"ext2", "ext3"}
            => Empties(r, p)
<1>1. CASE Emptied(p, keep) /\ r \in FormatUnknown(M, p, "", keep)
  <2>1. "" \notin {"ext2", "ext3"}
    OBVIOUS
  <2>2. QED
    BY <1>1, <2>1, UnknownSound
<1>2. CASE r = Result(M, FALSE)
  BY <1>2, ResultSound DEF Empties
<1>3. ASSUME NEW u \in PathUnmounted(M, p, keep), r \in VoldFormat(u.M, p)
      PROVE  SoundResult(r) /\ Empties(r, p)
  <2>1. Sound(u.M)
    BY UnmountingSound DEF SoundResult
  <2>2. QED
    BY <1>3, <2>1, VoldSound
<1>4. ASSUME p \notin VoldManaged, Kind[p] = "inside",
             r \in FormatUnknown(M, p, "", keep)
      PROVE  SoundResult(r) /\ p \notin Vols
  <2>1. "" \notin {"ext2", "ext3"}
    OBVIOUS
  <2>2. p \notin Vols
    BY <1>4, VolumesAssumption DEF Vols
  <2>3. QED
    BY <1>4, <2>1, <2>2, UnknownSound
<1>5. ASSUME ~Emptied(p, keep), r \in UnmountAndMake(M, p, keep)
      PROVE  SoundResult(r) /\ (p \in Vols => Empties(r, p))
  BY <1>5, UnmountAndMakeSound DEF Vols
<1>6. ASSUME ~Emptied(p, keep), p \notin VoldManaged, Kind[p] \notin MadeKinds,
             r \in FormatUnmounted(M, p, Kind[p], keep)
      PROVE  /\ SoundResult(r)
             /\ p \in Vols /\ Kind[p] \in {"ext2", "ext3"} => Empties(r, p)
  <2>1. /\ SoundResult(r)
        /\ Kind[p] \in {"ext2", "ext3"} => Empties(r, Holder[p])
    BY <1>6, UnmountedUnknownSound
  <2>2. QED
    BY <2>1 DEF Vols
<1>7. QED
  BY <1>1, <1>2, <1>3, <1>4, <1>5, <1>6, VolumeCases

(* format_device.                                                          *)
LEMMA DeviceSound ==
  ASSUME NEW M, Sound(M), NEW p \in Paths, NEW fs,
         NEW r \in FormatDevice(M, p, fs)
  PROVE  /\ SoundResult(r)
         /\ p \in Vols /\ ~Emptied(p, TRUE) /\ fs \in {"ext4", "rfs"}
            => Empties(r, p)
<1>a. "" \notin {"ext2", "ext3"}
  OBVIOUS
<1>1. CASE Emptied(p, TRUE) /\ r \in FormatUnknown(M, p, "", TRUE)
  BY <1>a, <1>1, UnknownSound
<1>2. ASSUME ~Emptied(p, TRUE), r \in UnmountAndMake(M, p, TRUE)
      PROVE  SoundResult(r) /\ (p \in Vols => Empties(r, p))
  BY <1>2, UnmountAndMakeSound DEF Vols
<1>3. ASSUME Kind[p] = "inside", r \in FormatUnknown(M, p, "", TRUE)
      PROVE  SoundResult(r) /\ p \notin Vols
  <2>1. p \notin Vols
    BY <1>3, VolumesAssumption DEF Vols
  <2>2. QED
    BY <1>a, <1>3, <2>1, UnknownSound
<1>4. ASSUME ~Emptied(p, TRUE), fs \notin {"rfs", "yaffs2", "ext4", "f2fs"},
             r \in FormatUnmounted(M, p, fs, TRUE)
      PROVE  SoundResult(r)
  BY <1>4, UnmountedUnknownSound
<1>5. QED
  BY <1>1, <1>2, <1>3, <1>4, DeviceCases

-----------------------------------------------------------------------------
LEMMA StartSound ==
  ASSUME VolInv
  PROVE  Sound(M0) /\ M0.mounts = mounts
<1>1. /\ mounts \in Seq(Vols) /\ IsInjective(mounts) /\ over = FALSE
      /\ content \in [Paths -> FileStates]
  BY DEF VolInv, VolTypeOK, NoFsUnderMount, FileStates
<1>2. M0.mounts = mounts /\ M0.content = content /\ M0.over = over
  BY DEF M0
<1>3. M0 = [mounts |-> M0.mounts, content |-> M0.content, over |-> M0.over]
  BY DEF M0
<1>4. QED
  BY <1>1, <1>2, <1>3 DEF Sound, Device

(* A menu item whose result is sound and which empties what it is to make. *)
LEMMA ChoseSound ==
  ASSUME NEW p \in Paths, NEW fs \in Types, NEW r, SoundResult(r),
         NEW item \in {"format", "all", "wipe", "restore", "mkfs"},
         MakesAnew(item, p, fs) => Empties(r, p), Chose(item, p, fs, r)
  PROVE  VolInv'
<1>1. mounts' = r.M.mounts /\ content' = r.M.content /\ over' = r.M.over
  BY DEF Chose, Becomes
<1>2. op' = [item |-> item, path |-> p, fs |-> fs, ok |-> r.ok,
             skipped |-> r.skipped]
  BY DEF Chose
<1>3. /\ mounts' \in Seq(Vols) /\ IsInjective(mounts')
      /\ content' \in [Paths -> {"files", "empty", "torn"}]
      /\ over' = FALSE
  BY <1>1 DEF SoundResult, Sound, Device, FileStates
<1>4. op' \in [item : {"none", "format", "all", "wipe", "restore", "mkfs"},
               path : Paths, fs : Types, ok : BOOLEAN, skipped : BOOLEAN]
  BY <1>2 DEF SoundResult
<1>5. VolTypeOK'
  BY <1>3, <1>4 DEF VolTypeOK
<1>6. /\ op'.item = item /\ op'.path = p /\ op'.fs = fs
      /\ op'.ok = r.ok /\ op'.skipped = r.skipped
  BY <1>2
<1>7. FormatEmpties'
  BY <1>1, <1>6 DEF FormatEmpties, Empties
<1>8. QED
  BY <1>3, <1>5, <1>7 DEF VolInv, NoFsUnderMount

(* What is not a format forgets the item.                                  *)
LEMMA NoOpSound ==
  ASSUME op' = NoOp, over' = FALSE, mounts' \in Seq(Vols), IsInjective(mounts'),
         content' \in [Paths -> {"files", "empty", "torn"}]
  PROVE  VolInv'
<1>1. (CHOOSE p \in Paths : TRUE) \in Paths
  BY VolumesAssumption
<1>2. /\ op' \in [item : {"none", "format", "all", "wipe", "restore", "mkfs"},
                  path : Paths, fs : Types, ok : BOOLEAN, skipped : BOOLEAN]
      /\ op'.item = "none"
  BY <1>1 DEF NoOp, Types
<1>3. ~MakesAnew("none", op'.path, op'.fs)
  BY DEF MakesAnew
<1>4. QED
  BY <1>2, <1>3 DEF VolInv, VolTypeOK, NoFsUnderMount, FormatEmpties

LEMMA MountItemSound ==
  ASSUME VolInv, NEW p \in Vols, MountItem(p)
  PROVE  VolInv'
<1>1. Sound(M0) /\ p \in Paths
  BY StartSound DEF Vols
<1>2. PICK r : /\ r \in PathMounted(M0, p) \/ r \in PathUnmounted(M0, p, FALSE)
               /\ Becomes(r)
  BY DEF MountItem
<1>3. Sound(r.M)
  BY <1>1, <1>2, MountingSound, UnmountingSound DEF SoundResult
<1>4. op' = NoOp
  BY DEF MountItem
<1>5. QED
  BY <1>2, <1>3, <1>4, NoOpSound DEF Becomes, Sound, Device, FileStates

LEMMA FormatItemSound ==
  ASSUME VolInv, NEW p \in Paths, FormatItem(p)
  PROVE  VolInv'
<1>1. PICK r \in FormatVolume(M0, p, TRUE) : Chose("format", p, "", r)
  BY DEF FormatItem
<1>2. SoundResult(r) /\ (MakesAnew("format", p, "") => Empties(r, p))
  BY StartSound, VolumeSound DEF MakesAnew, MadeKinds
<1>3. QED
  BY <1>1, <1>2, ChoseSound DEF Types

LEMMA EraseVolumeSound ==
  ASSUME VolInv, NEW p \in Paths, EraseVolume(p)
  PROVE  VolInv'
<1>1. PICK u \in PathUnmounted(M0, p, TRUE) :
        \E r \in FormatVolume(u.M, p, TRUE) : Chose("wipe", p, "", r)
  BY DEF EraseVolume
<1>2. PICK r \in FormatVolume(u.M, p, TRUE) : Chose("wipe", p, "", r)
  BY <1>1
<1>3. Sound(u.M)
  BY StartSound, UnmountingSound DEF SoundResult
<1>4. SoundResult(r) /\ (MakesAnew("wipe", p, "") => Empties(r, p))
  BY <1>3, VolumeSound DEF MakesAnew, MadeKinds
<1>5. QED
  BY <1>2, <1>4, ChoseSound DEF Types

LEMMA RestoreSound ==
  ASSUME VolInv, NEW p \in Paths, RestoreFormats(p)
  PROVE  VolInv'
<1>1. CASE \E r \in FormatVolume(M0, p, TRUE) : Chose("restore", p, "", r)
  <2>1. PICK r \in FormatVolume(M0, p, TRUE) : Chose("restore", p, "", r)
    BY <1>1
  <2>2. SoundResult(r) /\ ~MakesAnew("restore", p, "")
    BY StartSound, VolumeSound DEF MakesAnew
  <2>3. QED
    BY <2>1, <2>2, ChoseSound DEF Types
<1>2. CASE \E fs \in {"ext4", "vfat", "rfs"} :
             \E r \in FormatDevice(M0, p, fs) : Chose("restore", p, fs, r)
  <2>1. PICK fs \in {"ext4", "vfat", "rfs"} :
          \E r \in FormatDevice(M0, p, fs) : Chose("restore", p, fs, r)
    BY <1>2
  <2>2. PICK r \in FormatDevice(M0, p, fs) : Chose("restore", p, fs, r)
    BY <2>1
  <2>3. SoundResult(r) /\ (MakesAnew("restore", p, fs) => Empties(r, p))
    BY StartSound, DeviceSound DEF MakesAnew
  <2>4. QED
    BY <2>2, <2>3, ChoseSound DEF Types
<1>3. QED
  BY <1>1, <1>2 DEF RestoreFormats

LEMMA SdcardSound ==
  ASSUME VolInv, NEW p \in Vols, NEW fs \in {"default", "vfat", "ext3"},
         FormatSdcard(p, fs)
  PROVE  VolInv'
<1>1. p \in Paths /\ Holder[p] = p /\ ~Emptied(p, TRUE)
  BY VolumesAssumption DEF FormatSdcard, Emptied, Vols
<1>2. PICK u \in PathUnmounted(M0, p, TRUE) :
        IF ~u.ok THEN Chose("mkfs", p, fs, u)
        ELSE \E r \in IF fs = "default" THEN FormatVolume(u.M, p, TRUE)
                      ELSE IF fs = "ext3" THEN FormatUnknown(u.M, p, fs, TRUE)
                      ELSE IF p \in VoldManaged THEN VoldFormat(u.M, p)
                      ELSE MakeFs(u.M, p) : Chose("mkfs", p, fs, r)
  BY DEF FormatSdcard
<1>3. SoundResult(u) /\ Sound(u.M) /\ (u.ok => p \notin Scan(u.M.mounts))
  BY <1>1, StartSound, UnmountingSound DEF SoundResult
<1>4. CASE ~u.ok
  BY <1>1, <1>2, <1>3, <1>4, ChoseSound DEF Empties, Types
<1>5. CASE u.ok
  <2>1. PICK r : /\ Chose("mkfs", p, fs, r)
                 /\ \/ fs = "default" /\ r \in FormatVolume(u.M, p, TRUE)
                    \/ fs = "ext3" /\ r \in FormatUnknown(u.M, p, fs, TRUE)
                    \/ r \in VoldFormat(u.M, p)
                    \/ r \in MakeFs(u.M, p)
    BY <1>2, <1>5
  <2>2. SoundResult(r) /\ (MakesAnew("mkfs", p, fs) => Empties(r, p))
    <3>1. CASE fs = "default" /\ r \in FormatVolume(u.M, p, TRUE)
      BY <1>1, <1>3, <3>1, VolumeSound DEF MakesAnew
    <3>2. CASE fs = "ext3" /\ r \in FormatUnknown(u.M, p, fs, TRUE)
      BY <1>1, <1>3, <3>2, UnknownSound
    <3>3. CASE r \in VoldFormat(u.M, p)
      BY <1>1, <1>3, <3>3, VoldSound
    <3>4. CASE r \in MakeFs(u.M, p)
      BY <1>1, <1>3, <1>5, <3>4, MakingSound
    <3>5. QED
      BY <2>1, <3>1, <3>2, <3>3, <3>4
  <2>3. QED
    BY <1>1, <2>1, <2>2, ChoseSound DEF Types
<1>6. QED
  BY <1>4, <1>5

LEMMA FormatAllSound ==
  ASSUME VolInv, FormatAll
  PROVE  VolInv'
<1>1. PICK r \in FormatVolume(M0, "data", FALSE) :
        \E m \in PathMounted(r.M, "data") :
           Chose("all", "data", "", [r EXCEPT !.M = m.M])
  BY DEF FormatAll
<1>2. PICK m \in PathMounted(r.M, "data") :
        Chose("all", "data", "", [r EXCEPT !.M = m.M])
  BY <1>1
<1>3. "data" \in Paths /\ ~Emptied("data", FALSE)
  BY VolumesAssumption DEF FormatAll, Emptied
<1>4. SoundResult(r) /\ (MakesAnew("all", "data", "") => Empties(r, "data"))
  BY <1>3, StartSound, VolumeSound DEF MakesAnew, MadeKinds
<1>5. Sound(m.M) /\ m.M.content = r.M.content
  BY <1>3, <1>4, MountingSound DEF SoundResult
<1> DEFINE t == [r EXCEPT !.M = m.M]
<1>a. r = [M |-> r.M, ok |-> r.ok, skipped |-> r.skipped]
  BY <1>4 DEF SoundResult, Outcome
<1>6. t = [M |-> m.M, ok |-> r.ok, skipped |-> r.skipped]
  BY <1>a, SMTT(60)
<1> HIDE DEF t
<1>7. SoundResult(t) /\ (MakesAnew("all", "data", "") => Empties(t, "data"))
  BY <1>4, <1>5, <1>6 DEF SoundResult, Outcome, Sound, Empties
<1>8. Chose("all", "data", "", t)
  BY <1>2 DEF t
<1>9. QED
  BY <1>3, <1>7, <1>8, ChoseSound DEF Types

LEMMA OthersSound ==
  ASSUME VolInv, NEW v \in Vols, Fill(v) \/ VoldMounts(v)
  PROVE  VolInv'
<1>1. CASE Fill(v)
  <2>1. content' \in [Paths -> {"files", "empty", "torn"}]
    BY <1>1 DEF Fill, VolInv, VolTypeOK
  <2>2. mounts' \in Seq(Vols) /\ IsInjective(mounts')
    BY <1>1 DEF Fill, VolInv, VolTypeOK
  <2>3. op' = NoOp /\ over' = FALSE
    BY <1>1 DEF Fill, VolInv, NoFsUnderMount, VolTypeOK
  <2>4. QED
    BY <2>1, <2>2, <2>3, NoOpSound
<1>2. CASE VoldMounts(v)
  <2>1. v \notin Range(M0.mounts) /\ mounts' = Append(M0.mounts, v)
    BY <1>2, StartSound DEF VoldMounts
  <2> DEFINE N == [M0 EXCEPT !.mounts = Append(M0.mounts, v)]
  <2>2. Sound(N)
    BY <2>1, StartSound, AppendSound
  <2>3. N.mounts = mounts'
    BY <2>1 DEF M0
  <2> HIDE DEF N
  <2>4. mounts' \in Seq(Vols) /\ IsInjective(mounts')
    BY <2>2, <2>3 DEF Sound
  <2>5. content' \in [Paths -> {"files", "empty", "torn"}]
    BY <1>2 DEF VoldMounts, VolInv, VolTypeOK
  <2>6. op' = NoOp /\ over' = FALSE
    BY <1>2 DEF VoldMounts, VolInv, NoFsUnderMount, VolTypeOK
  <2>7. QED
    BY <2>4, <2>5, <2>6, NoOpSound
<1>3. QED
  BY <1>1, <1>2

(***************************************************************************)
(* For every volume table and every length of the scan: the recovery makes *)
(* no file system under a mount that scan_mounted_volumes could see, and a *)
(* format that is to make the volume anew, returns 0 and did not say that  *)
(* it skips left it empty, in every order of mounts, formats and failures. *)
(* VolInv is inductive: the calls of roots.c need the mount table to list  *)
(* a volume at most once, and then a successful unmount leaves the volume  *)
(* out of the scan.                                                        *)
(***************************************************************************)
THEOREM FormatsAreSound == VolSpec => []VolInv
<1>1. VolInit => VolInv
  <2> SUFFICES ASSUME VolInit PROVE VolInv
    OBVIOUS
  <2>1. (CHOOSE p \in Paths : TRUE) \in Paths
    BY VolumesAssumption
  <2>2. /\ op \in [item : {"none", "format", "all", "wipe", "restore", "mkfs"},
                   path : Paths, fs : Types, ok : BOOLEAN, skipped : BOOLEAN]
        /\ op.item = "none"
    BY <2>1 DEF VolInit, NoOp, Types
  <2>3. /\ mounts \in Seq(Vols) /\ IsInjective(mounts) /\ over = FALSE
        /\ content \in [Paths -> {"files", "empty", "torn"}]
    BY SMTT(60) DEF VolInit, IsInjective
  <2>4. QED
    BY <2>2, <2>3 DEF VolInv, VolTypeOK, NoFsUnderMount, FormatEmpties,
         MakesAnew
<1>2. VolInv /\ [VolNext]_volVars => VolInv'
  <2>1. VolInv /\ VolNext => VolInv'
    BY MountItemSound, FormatItemSound, EraseVolumeSound, RestoreSound,
       SdcardSound, FormatAllSound, OthersSound DEF VolNext
  <2>2. VolInv /\ UNCHANGED volVars => VolInv'
    <3> SUFFICES ASSUME VolInv, UNCHANGED volVars PROVE VolInv'
      OBVIOUS
    <3>1. mounts' = mounts /\ content' = content /\ over' = over /\ op' = op
      BY SMTT(60) DEF volVars
    <3>2. VolTypeOK' /\ NoFsUnderMount'
      BY <3>1 DEF VolInv, VolTypeOK, NoFsUnderMount
    <3>3. FormatEmpties'
      BY <3>1 DEF VolInv, FormatEmpties
    <3>4. QED
      BY <3>2, <3>3 DEF VolInv
  <2>3. QED
    BY <2>1, <2>2
<1>3. QED
  BY <1>1, <1>2, PTL DEF VolSpec

-----------------------------------------------------------------------------
(***************************************************************************)
(* The two stores of backups.  First, what a restore that reports success  *)
(* guarantees, for any partitions, groups, archives and numbers of faults  *)
(* and restores.  NandroidInv speaks of the end of a restore only; the     *)
(* invariant says what holds on the way: of the files while a backup is    *)
(* made, of those a silent check has passed, and of the partitions already *)
(* visited.                                                                *)
(*                                                                         *)
(* Then, that the deduplicating store keeps every finished backup          *)
(* restorable, for any number of backups and contents.  Restorable is not  *)
(* inductive: a collection removes blobs one by one long after it has read *)
(* the manifests, and a power loss takes what was renamed since the last   *)
(* sync().  The invariant adds what the blobs of unfinished backups are,   *)
(* and what the walk and the collection hold.                              *)
(***************************************************************************)
Picked == {f \in Present : Selected(f)}
Silent == ~asked /\ Cardinality(Picked) <= MaxChecked
Ahead  == {todo[i] : i \in 1..Len(todo)}

(* The two results of a restore, for one partition.                        *)
Filled(p) ==
  (Group[p] \in flags /\ (p \in RawParts \/ HasImage(p)))
    => part[p] # "empty"
Exact(p) ==
  (/\ Group[p] \in flags /\ p \in RawParts \cup Sought
   /\ dir[<<p, 0>>] # "none" /\ \A f \in FilesOf(p) : dir[f] # "cut")
    => part[p] = "v1" \/ (p \in Swept \ RawParts /\ part[p] = "mixed")

(* What a format leaves: nothing, or what an rm -rf could not remove.      *)
Cleared(p) == part[p] = "empty" \/ p \in Swept \ RawParts

(* A backup is made once, into an empty directory, and only the image at   *)
(* hand is unfinished; so no line of nandroid.md5 is that of a bad file.   *)
BackupInv ==
  /\ (job = "idle" /\ ret = "none") => Present = {} /\ restores = 0
  /\ job \in {"backup", "writing"} => restores = 0
  /\ job = "backup" => \A f \in Files : dir[f] # "bad"
  /\ job = "writing" =>
       /\ todo # <<>>
       /\ \A f \in Files : dir[f] = "bad" => f[1] = Head(todo)
  /\ \A f \in Files : md5[f] # "bad"

(* What a silent check has passed is as it was written.                    *)
CheckInv ==
  (job \in {"restore", "formatted"} /\ Silent)
    => \A f \in Picked : dir[f] \in {"ok", "cut"}

(* Every partition is still to be visited, or as it should be.             *)
VisitInv ==
  /\ job = "check" => todo = RestoreOrder
  /\ job = "formatted" => todo # <<>> /\ Cleared(Head(todo))
  /\ job \in {"restore", "formatted"} =>
       \A p \in Restored \ Ahead : Filled(p) /\ (Silent => Exact(p))

RestoreIInv == /\ NandroidInv /\ todo \in Seq(Parts)
        /\ BackupInv /\ CheckInv /\ VisitInv

-----------------------------------------------------------------------------
LEMMA RestoredParts == Restored \subseteq Parts
  BY NandroidAssumption, SMTT(60) DEF Restored

(* The first and the other elements of a job's list.                       *)
LEMMA AheadTail ==
  ASSUME todo \in Seq(Parts), todo # <<>>
  PROVE  /\ Tail(todo) \in Seq(Parts) /\ Head(todo) \in Parts
         /\ Ahead = {Head(todo)} \cup {Tail(todo)[i] : i \in 1..Len(Tail(todo))}
<1> DEFINE t == Tail(todo)
<1>1. /\ t \in Seq(Parts) /\ Len(t) = Len(todo) - 1
      /\ Len(todo) \in Nat \ {0}
      /\ \A i \in 1..(Len(todo) - 1) : t[i] = todo[i + 1]
      /\ Head(todo) = todo[1] /\ todo[1] \in Parts
  BY SMTT(60)
<1> HIDE DEF t
<1>2. \A i \in 1..Len(todo) : i = 1 \/ (i - 1 \in 1..Len(t) /\ t[i - 1] = todo[i])
  BY <1>1, SMTT(60)
<1>3. \A i \in 1..Len(t) : i + 1 \in 1..Len(todo) /\ t[i] = todo[i + 1]
  BY <1>1, SMTT(60)
<1>4. 1 \in 1..Len(todo)
  BY <1>1, SMTT(60)
<1>5. Ahead \subseteq {Head(todo)} \cup {t[i] : i \in 1..Len(t)}
  BY <1>1, <1>2, SMTT(60) DEF Ahead
<1>6. {Head(todo)} \cup {t[i] : i \in 1..Len(t)} \subseteq Ahead
  BY <1>1, <1>3, <1>4, SMTT(60) DEF Ahead
<1>7. QED
  BY <1>1, <1>5, <1>6 DEF t

(* Below the limit the check reads every name (nandroid_md5.c).            *)
LEMMA ListedAll ==
  ASSUME NEW S, S \subseteq Files, Cardinality(S) <= MaxChecked,
         NEW read \in Listed(S)
  PROVE  read = S
<1>1. IsFiniteSet(0..MaxChunks)
  BY FS_Interval, NandroidAssumption, SMTT(60)
<1>2. IsFiniteSet(Files)
  BY <1>1, FS_Product, NandroidAssumption DEF Files
<1>3. IsFiniteSet(S)
  BY <1>2, FS_Subset
<1>4. Cardinality(S) \in Nat
  BY <1>3, FS_CardinalityType
<1>5. Min({Cardinality(S), MaxChecked}) = Cardinality(S)
  BY <1>4, NandroidAssumption, SMTT(60) DEF Min
<1>6. read \in SUBSET S /\ Cardinality(read) = Cardinality(S)
  BY <1>5 DEF Listed, kSubset
<1>7. QED
  BY <1>3, <1>6, FS_Subset

-----------------------------------------------------------------------------
LEMMA RestoreInit == NandroidInit => RestoreIInv
<1> SUFFICES ASSUME NandroidInit PROVE RestoreIInv
  OBVIOUS
<1> USE NandroidAssumption
<1>1. NandroidTypeOK /\ todo \in Seq(Parts)
  <2>1. fmt \in Formats
    BY DEF NandroidInit
  <2>2. /\ part \in [Parts -> {"v1", "v2", "empty", "junk", "mixed"}]
        /\ dir \in [Files -> {"none", "ok", "cut", "bad"}]
        /\ md5 \in [Files -> {"none", "ok", "cut", "bad"}]
    BY DEF NandroidInit
  <2>3. asked \in BOOLEAN
    BY DEF NandroidInit
  <2>4. faults \in 0..MaxFaults /\ restores \in 0..MaxRestores
    BY SMTT(60) DEF NandroidInit
  <2>5. QED
    BY <2>1, <2>2, <2>3, <2>4, SMTT(60) DEF NandroidInit, NandroidTypeOK
<1>2. SuccessFillsPartitions /\ SilentRestoreIsExact
  BY DEF NandroidInit, SuccessFillsPartitions, SilentRestoreIsExact,
         JustRestored
<1>3. BackupInv /\ CheckInv /\ VisitInv
  BY DEF NandroidInit, BackupInv, CheckInv, VisitInv, Present
<1>4. QED
  BY <1>1, <1>2, <1>3 DEF RestoreIInv, NandroidInv

(* Every step keeps the types.                                             *)
LEMMA RestoreTypes ==
  ASSUME RestoreIInv, NandroidNext
  PROVE  NandroidTypeOK' /\ todo' \in Seq(Parts)
<1> USE NandroidAssumption DEF RestoreIInv, NandroidInv, NandroidTypeOK
<1>1. CASE BackupStart
  BY <1>1 DEF BackupStart, Fails
<1>2. CASE BackupBegin
  <2>1. dir' \in [Files -> {"none", "ok", "cut", "bad"}]
    BY <1>2 DEF BackupBegin
  <2>2. job' \in {"idle", "writing"} /\ ret' \in {"error", ret}
        /\ todo' = IF job' = "idle" THEN <<>> ELSE todo
    BY <1>2 DEF BackupBegin, Fails
  <2>3. UNCHANGED <<part, md5, flags, asked, fmt, faults, restores>>
    BY <1>2 DEF BackupBegin
  <2>4. QED
    BY <2>1, <2>2, <2>3, SMTT(60)
<1>3. CASE BackupSkips
  BY <1>3, AheadTail DEF BackupSkips
<1>4. CASE BackupEnd
  <2>1. todo # <<>>
    BY <1>4 DEF BackupEnd, BackupInv
  <2>2. Tail(todo) \in Seq(Parts)
    BY <2>1, AheadTail
  <2>3. dir' \in [Files -> {"none", "ok", "cut", "bad"}]
    BY <1>4 DEF BackupEnd, Written
  <2>4. job' \in {"idle", "backup"} /\ ret' \in {"error", ret}
        /\ todo' = IF job' = "idle" THEN <<>> ELSE Tail(todo)
    BY <1>4 DEF BackupEnd, Fails
  <2>5. UNCHANGED <<part, md5, flags, asked, fmt, faults, restores>>
    BY <1>4 DEF BackupEnd
  <2>6. QED
    BY <2>2, <2>3, <2>4, <2>5, SMTT(60)
<1>5. CASE Md5Gen
  <2>1. md5' \in [Files -> {"none", "ok", "cut", "bad"}]
    BY <1>5 DEF Md5Gen, Md5Lines
  <2>2. QED
    BY <1>5, <2>1 DEF Md5Gen, Fails
<1>6. CASE RestoreStart
  <2>1. flags' \subseteq {Group[p] : p \in Parts}
    BY <1>6, SMTT(60) DEF RestoreStart, MenuFlags
  <2>2. restores' \in 0..MaxRestores
    BY <1>6, SMTT(60) DEF RestoreStart
  <2>3. QED
    BY <1>6, <2>1, <2>2 DEF RestoreStart, Fails
<1>7. CASE Md5Check
  <2>1. asked' \in BOOLEAN
    BY <1>7 DEF Md5Check
  <2>2. job' \in {"idle", "restore"} /\ ret' \in {"error", ret}
        /\ todo' = IF job' = "idle" THEN <<>> ELSE todo
    BY <1>7 DEF Md5Check, Fails
  <2>3. UNCHANGED <<part, dir, md5, flags, fmt, faults, restores>>
    BY <1>7 DEF Md5Check
  <2>4. QED
    BY <2>1, <2>2, <2>3, SMTT(60)
<1>8. CASE RestoreFormat
  <2>1. Tail(todo) \in Seq(Parts) /\ Head(todo) \in Parts
    BY <1>8, AheadTail DEF RestoreFormat
  <2>2. part' \in {part, [part EXCEPT ![Head(todo)] = "empty"],
                  [part EXCEPT ![Head(todo)] = "junk"]}
    BY <1>8 DEF RestoreFormat
  <2>3. job' \in {"idle", "restore", "formatted"} /\ ret' \in {"error", ret}
        /\ todo' \in {<<>>, todo, Tail(todo)} /\ (job' = "idle" => todo' = <<>>)
    BY <1>8 DEF RestoreFormat, Fails
  <2>4. UNCHANGED <<dir, md5, flags, asked, fmt, faults, restores>>
    BY <1>8 DEF RestoreFormat
  <2>5. part' \in [Parts -> {"v1", "v2", "empty", "junk", "mixed"}]
    BY <2>1, <2>2
  <2>6. todo' \in Seq(Parts)
    <3>1. <<>> \in Seq(Parts) /\ todo \in Seq(Parts)
      BY SMTT(60)
    <3>2. QED
      BY <2>1, <2>3, <3>1
  <2>7. QED
    BY <2>3, <2>4, <2>5, <2>6
<1>9. CASE RestoreWrite
  <2>1. Tail(todo) \in Seq(Parts) /\ Head(todo) \in Parts
    BY <1>9, AheadTail DEF RestoreWrite, VisitInv
  <2>2. part' \in [Parts -> {"v1", "v2", "empty", "junk", "mixed"}]
    <3>1. PICK o \in Outcomes(Head(todo)) :
            part' = [part EXCEPT ![Head(todo)] = o[1]]
      BY <1>9 DEF RestoreWrite
    <3>2. o[1] \in {"v1", "empty", "junk", "mixed"}
      BY SMTT(60) DEF Outcomes
    <3>3. QED
      BY <3>1, <3>2
  <2>3. job' \in {"idle", "restore"} /\ ret' \in {"error", ret}
        /\ todo' = IF job' = "idle" THEN <<>> ELSE Tail(todo)
    BY <1>9 DEF RestoreWrite, Fails
  <2>4. UNCHANGED <<dir, md5, flags, asked, fmt, faults, restores>>
    BY <1>9 DEF RestoreWrite
  <2>5. QED
    BY <2>1, <2>2, <2>3, <2>4, SMTT(60)
<1>10. CASE RestoreDone
  BY <1>10 DEF RestoreDone
<1>11. CASE Use
  BY <1>11 DEF Use
<1>12. CASE Damage
  <2>1. dir' \in [Files -> {"none", "ok", "cut", "bad"}]
    BY <1>12 DEF Damage
  <2>2. faults' \in 0..MaxFaults
    BY <1>12, SMTT(60) DEF Damage
  <2>3. QED
    BY <1>12, <2>1, <2>2 DEF Damage
<1>13. CASE DeleteBackup
  BY <1>13 DEF DeleteBackup
<1>14. CASE PowerLoss
  BY <1>14, SMTT(60) DEF PowerLoss, Fails
<1>15. QED
  BY <1>1, <1>2, <1>3, <1>4, <1>5, <1>6, <1>7, <1>8, <1>9, <1>10, <1>11,
     <1>12, <1>13, <1>14 DEF NandroidNext

(* A backup leaves only sound files, with lines of sound files.            *)
LEMMA BackupStep ==
  ASSUME RestoreIInv, NandroidNext
  PROVE  BackupInv'
<1> USE NandroidAssumption DEF RestoreIInv, NandroidInv, NandroidTypeOK, BackupInv,
                               Present
<1>1. CASE BackupStart
  BY <1>1 DEF BackupStart, Fails
<1>2. CASE BackupBegin
  <2>1. \A n \in 1..MaxChunks : \A f \in ImageFiles(Head(todo), n) :
           f[1] = Head(todo)
    BY SMTT(60) DEF ImageFiles
  <2>2. QED
    BY <1>2, <2>1, SMTT(60) DEF BackupBegin, Fails
<1>3. CASE BackupSkips
  BY <1>3 DEF BackupSkips
<1>4. CASE BackupEnd
  BY <1>4 DEF BackupEnd, Fails, FilesOf, Written
<1>5. CASE Md5Gen
  BY <1>5 DEF Md5Gen, Fails, Md5Lines
<1>6. CASE RestoreStart
  BY <1>6 DEF RestoreStart, Fails
<1>7. CASE Md5Check
  BY <1>7 DEF Md5Check, Fails
<1>8. CASE RestoreFormat
  BY <1>8 DEF RestoreFormat, Fails
<1>9. CASE RestoreWrite
  BY <1>9 DEF RestoreWrite, Fails
<1>10. CASE RestoreDone
  BY <1>10 DEF RestoreDone
<1>11. CASE Use
  BY <1>11 DEF Use
<1>12. CASE Damage
  BY <1>12 DEF Damage
<1>13. CASE DeleteBackup
  BY <1>13 DEF DeleteBackup
<1>14. CASE PowerLoss
  BY <1>14 DEF PowerLoss, Fails
<1>15. QED
  BY <1>1, <1>2, <1>3, <1>4, <1>5, <1>6, <1>7, <1>8, <1>9, <1>10, <1>11,
     <1>12, <1>13, <1>14 DEF NandroidNext

-----------------------------------------------------------------------------
(* nandroid_restore_md5_check that asks nothing has compared every file.   *)
LEMMA CheckPasses ==
  ASSUME RestoreIInv, Md5Check, job' = "restore", Silent'
  PROVE  \A f \in Picked : dir[f] \in {"ok", "cut"}
<1>1. PICK read \in Listed(Picked) :
         ~Differs(read) /\ asked' = (Doubtful(read) # {})
  BY DEF Md5Check, Fails, Picked
<1>2. Picked' = Picked
  BY DEF Md5Check, Picked, Present, Selected
<1>3. Cardinality(Picked) <= MaxChecked /\ Doubtful(read) = {}
  BY <1>1, <1>2 DEF Silent
<1>4. read = Picked
  BY <1>3, ListedAll DEF Picked, Present
<1>5. Picked \subseteq Lines
  BY <1>3, <1>4 DEF Doubtful
<1>6. \A f \in Picked : dir[f] = md5[f] /\ md5[f] # "none" /\ f \in Files
  BY <1>1, <1>4, <1>5 DEF Differs, Lines
<1>7. QED
  BY <1>6 DEF RestoreIInv, BackupInv, NandroidInv, NandroidTypeOK

(* A step of the restore that keeps the backup and what was selected.      *)
Keeps == UNCHANGED <<dir, flags, asked>>

LEMMA KeepsSame ==
  ASSUME Keeps
  PROVE  /\ Picked' = Picked /\ Silent' = Silent
         /\ \A p : FilesOf(p)' = FilesOf(p)
  BY DEF Keeps, Picked, Silent, Present, Selected, FilesOf

(* A partition other than the one at hand keeps what was said of it.       *)
LEMMA OthersKept ==
  ASSUME Keeps, NEW p, part'[p] = part[p],
         Filled(p) /\ (Silent => Exact(p))
  PROVE  Filled(p)' /\ (Silent' => Exact(p)')
  BY KeepsSame, SMTT(60) DEF Keeps, Filled, Exact, HasImage

(* Extracting an image that reports success (tar, dedupe, flash).          *)
LEMMA WritesImage ==
  ASSUME RestoreIInv, RestoreWrite, job' = "restore", NEW h, h = Head(todo)
  PROVE  /\ todo # <<>> /\ todo' = Tail(todo)
         /\ Keeps /\ \A p \in Parts \ {h} : part'[p] = part[p]
         /\ Filled(h)' /\ (Silent' => Exact(h)')
<1>1. job = "formatted" /\ todo # <<>> /\ h \in Parts
  BY AheadTail DEF RestoreWrite, RestoreIInv, VisitInv
<1>2. PICK o \in Outcomes(h) :
        /\ part' = [part EXCEPT ![h] = o[1]]
        /\ o[2] = "ok" /\ todo' = Tail(todo)
  BY DEF RestoreWrite, Fails
<1>3. Keeps
  BY DEF RestoreWrite, Keeps
<1>4. part \in [Parts -> {"v1", "v2", "empty", "junk", "mixed"}]
  BY DEF RestoreIInv, NandroidInv, NandroidTypeOK
<1>5. part'[h] = o[1] /\ \A p \in Parts \ {h} : part'[p] = part[p]
  BY <1>1, <1>2, <1>4
<1>6. \/ o = <<"v1", "ok">> \/ (o = <<"mixed", "ok">> /\ part[h] # "empty")
      \/ o = <<"junk", "ok">> /\ \E f \in FilesOf(h) : dir[f] # "ok"
  BY <1>2, SMTT(60) DEF Outcomes
<1>7. Filled(h)'
  BY <1>5, <1>6, SMTT(60) DEF Filled
<1>a. Cleared(h)
  BY <1>1 DEF RestoreIInv, VisitInv
<1>8. ASSUME Silent', Group[h] \in flags, \A f \in FilesOf(h) : dir[f] # "cut"
      PROVE  o[1] = "v1" \/ (h \in Swept \ RawParts /\ o[1] = "mixed")
  <2>1. \A f \in Picked : dir[f] \in {"ok", "cut"}
    BY <1>1, <1>3, <1>8, KeepsSame DEF RestoreIInv, CheckInv
  <2>2. FilesOf(h) \subseteq Picked
    BY <1>8 DEF FilesOf, Picked, Selected
  <2>3. \A f \in FilesOf(h) : dir[f] = "ok"
    BY <1>8, <2>1, <2>2
  <2>4. o = <<"v1", "ok">> \/ (o = <<"mixed", "ok">> /\ h \in Swept \ RawParts)
    BY <1>6, <1>a, <2>3 DEF Cleared
  <2>5. QED
    BY <2>4, SMTT(60)
<1>9. Silent' => Exact(h)'
  <2>1. flags' = flags /\ dir' = dir /\ FilesOf(h)' = FilesOf(h)
    BY <1>3, KeepsSame DEF Keeps
  <2>2. QED
    BY <1>5, <1>8, <2>1 DEF Exact
<1>10. QED
  BY <1>1, <1>2, <1>3, <1>5, <1>7, <1>9

(* A partition that is not selected, or has no image, is passed over.      *)
LEMMA PassesOver ==
  ASSUME RestoreIInv, RestoreFormat, job' = "restore", NEW h, h = Head(todo)
  PROVE  /\ todo # <<>> /\ todo' = Tail(todo)
         /\ Keeps /\ part' = part /\ Filled(h)' /\ Exact(h)'
<1>1. todo # <<>> /\ Keeps
  BY DEF RestoreFormat, Keeps
<1>2. /\ Group[h] \notin flags \/ (h \notin RawParts /\ ~HasImage(h))
      /\ todo' = Tail(todo) /\ part' = part
  BY DEF RestoreFormat, Fails
<1>3. QED
  BY <1>1, <1>2 DEF Filled, Exact, Keeps, HasImage

(* One partition on in the list.                                           *)
LEMMA NextPartition ==
  ASSUME RestoreIInv, job \in {"restore", "formatted"}, job' = "restore",
         NEW h, h = Head(todo), todo # <<>>, todo' = Tail(todo), Keeps,
         \A p \in Parts \ {h} : part'[p] = part[p],
         Filled(h)' /\ (Silent' => Exact(h)')
  PROVE  CheckInv' /\ VisitInv'
<1>1. CheckInv'
  BY KeepsSame DEF RestoreIInv, CheckInv, Keeps
<1>2. Ahead = {h} \cup Ahead'
  BY AheadTail DEF Ahead, RestoreIInv
<1>3. ASSUME NEW p \in Restored, p \notin Ahead'
      PROVE  Filled(p)' /\ (Silent' => Exact(p)')
  <2>1. CASE p = h
    BY <2>1
  <2>2. CASE p # h
    <3>1. p \notin Ahead /\ p \in Parts
      BY <1>2, <1>3, <2>2, RestoredParts
    <3>2. Filled(p) /\ (Silent => Exact(p))
      BY <3>1 DEF RestoreIInv, VisitInv
    <3>3. QED
      BY <2>2, <3>1, <3>2, OthersKept
  <2>3. QED
    BY <2>1, <2>2
<1>4. Restored' = Restored
  BY DEF Restored
<1>5. QED
  BY <1>1, <1>3, <1>4 DEF VisitInv

LEMMA RestoreStep ==
  ASSUME RestoreIInv, NandroidNext
  PROVE  CheckInv' /\ VisitInv'
<1>1. CASE job' \notin {"check", "restore", "formatted"}
  BY <1>1 DEF CheckInv, VisitInv
<1>2. CASE RestoreStart
  BY <1>2 DEF RestoreStart, Fails, CheckInv, VisitInv
<1>3. CASE Md5Check /\ job' = "restore"
  <2>1. /\ UNCHANGED <<dir, flags>> /\ todo' = todo /\ todo = RestoreOrder
    BY <1>3 DEF Md5Check, Fails, RestoreIInv, VisitInv
  <2>2. Picked' = Picked
    BY <2>1 DEF Picked, Present, Selected
  <2>3. CheckInv'
    BY <1>3, <2>1, <2>2, CheckPasses DEF CheckInv
  <2>4. Ahead' = Restored
    BY <2>1 DEF Ahead, Restored
  <2>5. Restored' = Restored
    BY DEF Restored
  <2>6. QED
    BY <1>3, <2>3, <2>4, <2>5 DEF VisitInv
<1>4. CASE RestoreFormat /\ job' = "restore"
  <2>1. PICK h : h = Head(todo)
    OBVIOUS
  <2>2. job = "restore"
    BY <1>4 DEF RestoreFormat
  <2>3. QED
    BY <1>4, <2>1, <2>2, PassesOver, NextPartition
<1>5. CASE RestoreFormat /\ job' = "formatted"
  <2>1. PICK h : h = Head(todo)
    OBVIOUS
  <2>2. /\ job = "restore" /\ todo # <<>> /\ todo' = todo /\ Keeps
        /\ \/ part' = [part EXCEPT ![h] = "empty"]
           \/ h \in Swept \ RawParts /\ part' = [part EXCEPT ![h] = "junk"]
    BY <1>5, <2>1 DEF RestoreFormat, Fails, Keeps
  <2>3. /\ part \in [Parts -> {"v1", "v2", "empty", "junk", "mixed"}]
        /\ h \in Ahead /\ h \in Parts
    BY <2>1, <2>2, AheadTail DEF RestoreIInv, NandroidInv, NandroidTypeOK
  <2>a. Cleared(h)' /\ Head(todo') = h
    BY <2>1, <2>2, <2>3 DEF Cleared
  <2>4. CheckInv'
    BY <2>2, KeepsSame DEF RestoreIInv, CheckInv, Keeps
  <2>5. Ahead' = Ahead /\ Restored' = Restored
    BY <2>2 DEF Ahead, Restored
  <2>6. ASSUME NEW p \in Restored, p \notin Ahead
        PROVE  Filled(p)' /\ (Silent' => Exact(p)')
    <3>1. p # h /\ p \in Parts
      BY <2>3, <2>6, RestoredParts
    <3>2. part'[p] = part[p]
      BY <2>2, <2>3, <3>1
    <3>3. Filled(p) /\ (Silent => Exact(p))
      BY <2>2, <2>6 DEF RestoreIInv, VisitInv
    <3>4. QED
      BY <2>2, <3>2, <3>3, OthersKept
  <2>7. QED
    BY <1>5, <2>2, <2>4, <2>5, <2>6, <2>a DEF VisitInv
<1>6. CASE RestoreWrite /\ job' = "restore"
  <2>1. PICK h : h = Head(todo)
    OBVIOUS
  <2>2. job = "formatted"
    BY <1>6 DEF RestoreWrite
  <2>3. QED
    BY <1>6, <2>1, <2>2, WritesImage, NextPartition
<1>7. QED
  BY <1>1, <1>2, <1>3, <1>4, <1>5, <1>6
     DEF NandroidNext, BackupStart, BackupBegin, BackupSkips, BackupEnd, Md5Gen,
         Md5Check, RestoreFormat, RestoreWrite, RestoreDone, Use, Damage,
         DeleteBackup, PowerLoss, Fails

(* A result of a restore comes from its last step.                         *)
LEMMA ResultStep ==
  ASSUME RestoreIInv, NandroidNext
  PROVE  SuccessFillsPartitions' /\ SilentRestoreIsExact'
<1>1. CASE ~JustRestored'
  BY <1>1 DEF SuccessFillsPartitions, SilentRestoreIsExact
<1>2. CASE RestoreDone
  <2>1. Keeps /\ part' = part /\ job = "restore" /\ Ahead = {}
    BY <1>2, SMTT(60) DEF RestoreDone, Keeps, Ahead
  <2>2. \A p \in Restored : Filled(p) /\ (Silent => Exact(p))
    BY <2>1 DEF RestoreIInv, VisitInv
  <2>3. \A p \in Restored : Filled(p)' /\ (Silent' => Exact(p)')
    BY <2>1, <2>2, OthersKept
  <2>4. Restored' = Restored
    BY DEF Restored
  <2>5. SuccessFillsPartitions'
    BY <2>3, <2>4 DEF SuccessFillsPartitions, Filled
  <2>6. SilentRestoreIsExact'
    BY <2>3, <2>4 DEF SilentRestoreIsExact, Exact, Silent, Picked
  <2>7. QED
    BY <2>5, <2>6
<1>3. RestoreDone \/ ~JustRestored'
  <2>1. CASE Md5Gen
    BY <2>1, SMTT(60) DEF Md5Gen, JustRestored, RestoreIInv, BackupInv, NandroidInv,
                NandroidTypeOK
  <2>2. CASE ~Md5Gen /\ ~RestoreDone
    BY <2>2 DEF NandroidNext, BackupStart, BackupBegin, BackupSkips, BackupEnd,
         RestoreStart, Md5Check, RestoreFormat, RestoreWrite, Use, Damage,
         DeleteBackup, PowerLoss, Fails, JustRestored
  <2>3. QED
    BY <2>1, <2>2
<1>4. QED
  BY <1>1, <1>2, <1>3

(* A restore that reports success (nandroid_restore) leaves no selected    *)
(* partition erased that has an image it looks for; if it also asked       *)
(* nothing, and the check could look at every file, each of them is what   *)
(* was backed up, unless the manifest of its image was already cut when it *)
(* was summed.  On a volume emptied by rm -rf older files may remain.      *)
(* This holds for any partitions, grouping, formats and file systems,      *)
(* after any sequence of failed restores, damage and power losses.         *)
THEOREM RestoreIsExact == NandroidSpec => []NandroidInv
<1>1. ASSUME RestoreIInv, [NandroidNext]_nandroidVars PROVE RestoreIInv'
  <2>1. CASE NandroidNext
    BY <1>1, <2>1, RestoreTypes, BackupStep, RestoreStep, ResultStep
       DEF RestoreIInv, NandroidInv
  <2>2. CASE UNCHANGED nandroidVars
    BY <1>1, <2>2, SMTT(60) DEF nandroidVars, RestoreIInv, NandroidInv, NandroidTypeOK, BackupInv,
       CheckInv, VisitInv, SuccessFillsPartitions, SilentRestoreIsExact,
       JustRestored, Picked, Present, Selected, Silent, Ahead, Filled, Exact,
       FilesOf, Restored, HasImage, Cleared
  <2>3. QED
    BY <1>1, <2>1, <2>2
<1>2. RestoreIInv => NandroidInv
  BY DEF RestoreIInv
<1>3. QED
  BY RestoreInit, <1>1, <1>2, PTL DEF NandroidSpec

-----------------------------------------------------------------------------
(* The deduplicating store.                                                *)


(* A removed backup has no lines; the one being stored is open.            *)
ManInv ==
  /\ \A b \in Backups : man[b].st = "none" => man[b].lines = {}
  /\ djob \in {"store", "copy"} => man[cur].st = "open"

(* What is copied has no good blob yet, so it is no blob of a backup.      *)
CopyInv == djob = "copy" => \A c \in copying : blob[c] # "ok"

(* The blobs of a backup that is open, closed or synced are good, and      *)
(* those of a synced one durable.                                          *)
BlobInv ==
  ~brokeOff =>
    \A b \in Backups : \A c \in man[b].lines :
      /\ man[b].st \in {"open", "closed", "synced"} => blob[c] = "ok"
      /\ man[b].st = "synced" => c \notin unsynced

(* A collection has nothing in hand that a manifest names.                 *)
GcInv ==
  (djob = "gc" /\ ~brokeOff) =>
    \A b \in Backups : man[b].lines \cap copying = {}

StoreIInv == DedupeTypeOK /\ ManInv /\ CopyInv /\ BlobInv /\ GcInv

-----------------------------------------------------------------------------
(* Good blobs are what an extraction needs (extract_file, dedupe.c).       *)
LEMMA GoodIsExact ==
  ASSUME StoreIInv
  PROVE  DedupeInv
<1>1. SUFFICES ASSUME ~brokeOff, NEW b \in Backups, man[b].st = "synced"
               PROVE  Extracted(b) = "exact"
  BY DEF DedupeInv, Restorable, StoreIInv
<1>2. man[b].lines \subseteq Contents
  BY DEF StoreIInv, DedupeTypeOK
<1>3. \A c \in man[b].lines : blob[c] = "ok"
  BY <1>1 DEF StoreIInv, BlobInv
<1>4. man[b].lines \ AllFiles = {}
  BY <1>2, <1>3 DEF AllFiles
<1>5. QED
  BY <1>3, <1>4 DEF Extracted

LEMMA StoreInit == DedupeInit => StoreIInv
<1> SUFFICES ASSUME DedupeInit PROVE StoreIInv
  OBVIOUS
<1>1. DedupeTypeOK
  BY DEF DedupeInit, DedupeTypeOK, Absent, States
<1>2. ManInv /\ CopyInv /\ BlobInv /\ GcInv
  BY DEF DedupeInit, ManInv, CopyInv, BlobInv, GcInv, Absent
<1>3. QED
  BY <1>1, <1>2 DEF StoreIInv

(* Every step of the store keeps its types.                                *)
LEMMA StoreTypes ==
  ASSUME StoreIInv, DedupeNext
  PROVE  DedupeTypeOK'
<1> USE DEF StoreIInv, DedupeTypeOK
<1>1. CASE \E b \in Backups : StoreStart(b) \/ DropBackup(b)
  BY <1>1, SMTT(60) DEF StoreStart, DropBackup, Absent, States
<1>2. CASE \E c \in Contents : StoreKnown(c) \/ CopyStart(c)
  BY <1>2, SMTT(60) DEF StoreKnown, CopyStart, AddLine, States
<1>3. ASSUME NEW c \in Contents, CopyEnd(c) PROVE DedupeTypeOK'
  BY <1>3 DEF CopyEnd, AddLine, States
<1>4. ASSUME NEW c \in Contents, GcRemove(c) PROVE DedupeTypeOK'
  BY <1>4 DEF GcRemove, States
<1>5. CASE CopyFails \/ StoreFails \/ GcEnd
  BY <1>5 DEF CopyFails, StoreFails, GcEnd, States
<1>a. CASE StoreEnd
  <2>1. ASSUME NEW L \in SUBSET Contents
        PROVE  [man EXCEPT ![cur] = [st |-> "torn", lines |-> L]]
                 \in [Backups -> [st : States, lines : SUBSET Contents]]
    BY <2>1, SMTT(60) DEF States
  <2>2. [man EXCEPT ![cur].st = "closed"]
          \in [Backups -> [st : States, lines : SUBSET Contents]]
    BY SMTT(60) DEF States
  <2>3. man[cur].lines \subseteq Contents
    BY SMTT(60)
  <2>4. man' \in [Backups -> [st : States, lines : SUBSET Contents]]
    <3>1. CASE man' = [man EXCEPT ![cur].st = "closed"]
      BY <2>2, <3>1
    <3>2. ASSUME NEW L \in SUBSET man[cur].lines,
                 man' = [man EXCEPT ![cur] = [st |-> "torn", lines |-> L]]
          PROVE  man' \in [Backups -> [st : States, lines : SUBSET Contents]]
      BY <2>1, <2>3, <3>2
    <3>3. QED
      BY <1>a, <3>1, <3>2 DEF StoreEnd
  <2>5. /\ djob' = "idle" /\ left' = {}
        /\ UNCHANGED <<blob, tmp, cur, copying, unsynced, brokeOff>>
    BY <1>a DEF StoreEnd
  <2>6. QED
    BY <2>4, <2>5
<1>6. CASE SyncAll
  BY <1>6 DEF SyncAll, States
<1>7. CASE GcRead
  BY <1>7 DEF GcRead, AllFiles, States
<1>8. CASE DedupePowerLoss
  BY <1>8, SMTT(60) DEF DedupePowerLoss, States
<1>9. QED
  BY <1>1, <1>2, <1>3, <1>4, <1>5, <1>6, <1>7, <1>8, <1>a DEF DedupeNext

(* A backup is opened without lines and written while it is open.          *)
LEMMA ManStep ==
  ASSUME StoreIInv, DedupeNext
  PROVE  ManInv'
<1> USE DEF StoreIInv, DedupeTypeOK, ManInv
<1>1. CASE \E b \in Backups : StoreStart(b) \/ DropBackup(b)
  BY <1>1, SMTT(60) DEF StoreStart, DropBackup, Absent
<1>2. CASE \E c \in Contents : StoreKnown(c) \/ CopyStart(c) \/ CopyEnd(c)
  BY <1>2, SMTT(60) DEF StoreKnown, CopyStart, CopyEnd, AddLine
<1>3. CASE \E c \in Contents : GcRemove(c)
  BY <1>3 DEF GcRemove
<1>4. CASE CopyFails \/ StoreFails \/ GcRead \/ GcEnd
  BY <1>4 DEF CopyFails, StoreFails, GcRead, GcEnd
<1>5. CASE SyncAll \/ DedupePowerLoss
  BY <1>5, SMTT(60) DEF SyncAll, DedupePowerLoss
<1>a. CASE StoreEnd
  BY <1>a, SMTT(60) DEF StoreEnd
<1>6. QED
  BY <1>1, <1>2, <1>3, <1>4, <1>5, <1>a DEF DedupeNext

(* Only what has no good blob is copied, and a copy makes it good.         *)
LEMMA CopyStep ==
  ASSUME StoreIInv, DedupeNext
  PROVE  CopyInv'
<1> USE DEF StoreIInv, DedupeTypeOK, CopyInv
<1>1. CASE \E b \in Backups : StoreStart(b) \/ DropBackup(b)
  BY <1>1 DEF StoreStart, DropBackup
<1>2. CASE \E c \in Contents : StoreKnown(c) \/ CopyStart(c) \/ CopyEnd(c)
  BY <1>2 DEF StoreKnown, CopyStart, CopyEnd
<1>3. CASE \E c \in Contents : GcRemove(c)
  BY <1>3 DEF GcRemove
<1>4. CASE CopyFails \/ StoreFails \/ StoreEnd \/ SyncAll \/ GcRead \/ GcEnd
  BY <1>4 DEF CopyFails, StoreFails, StoreEnd, SyncAll, GcRead, GcEnd
<1>5. CASE DedupePowerLoss
  BY <1>5 DEF DedupePowerLoss
<1>6. QED
  BY <1>1, <1>2, <1>3, <1>4, <1>5 DEF DedupeNext

(* The blobs of backups survive every step: a copy replaces only what no   *)
(* backup relies on, a collection removes only what no manifest names, a   *)
(* power loss takes only what was not synced.                              *)
LEMMA BlobStep ==
  ASSUME StoreIInv, DedupeNext
  PROVE  BlobInv'
<1> USE DEF StoreIInv, DedupeTypeOK, BlobInv
<1>1. ASSUME NEW b \in Backups, StoreStart(b) PROVE BlobInv'
  BY <1>1, SMTT(60) DEF StoreStart, ManInv
<1>2. ASSUME NEW b \in Backups, DropBackup(b) PROVE BlobInv'
  BY <1>2 DEF DropBackup, Absent
<1>3. ASSUME NEW c \in Contents, StoreKnown(c) PROVE BlobInv'
  BY <1>3, SMTT(60) DEF StoreKnown, AddLine, ManInv
<1>4. ASSUME NEW c \in Contents, CopyStart(c) PROVE BlobInv'
  BY <1>4 DEF CopyStart
<1>5. ASSUME NEW c \in Contents, CopyEnd(c) PROVE BlobInv'
  BY <1>5, SMTT(60) DEF CopyEnd, AddLine, ManInv, CopyInv
<1>6. ASSUME NEW c \in Contents, GcRemove(c) PROVE BlobInv'
  <2>1. ~brokeOff => \A b \in Backups : c \notin man[b].lines
    BY <1>6 DEF GcRemove, GcInv
  <2>2. \A d \in Contents : d # c => blob'[d] = blob[d]
    BY <1>6 DEF GcRemove
  <2>3. unsynced' \subseteq unsynced
    BY <1>6 DEF GcRemove
  <2>4. QED
    BY <1>6, <2>1, <2>2, <2>3, SMTT(60) DEF GcRemove
<1>7. CASE CopyFails \/ StoreFails \/ GcEnd
  BY <1>7 DEF CopyFails, StoreFails, GcEnd
<1>8. CASE StoreEnd
  BY <1>8, SMTT(60) DEF StoreEnd, ManInv
<1>9. CASE SyncAll
  BY <1>9, SMTT(60) DEF SyncAll
<1>10. CASE GcRead
  BY <1>10 DEF GcRead
<1>11. CASE DedupePowerLoss
  BY <1>11, SMTT(60) DEF DedupePowerLoss
<1>12. QED
  BY <1>1, <1>2, <1>3, <1>4, <1>5, <1>6, <1>7, <1>8, <1>9, <1>10, <1>11
     DEF DedupeNext

(* A collection that was not broken off has read every manifest, and no    *)
(* line is added while it removes.                                         *)
LEMMA GcStep ==
  ASSUME StoreIInv, DedupeNext
  PROVE  GcInv'
<1> USE DEF StoreIInv, DedupeTypeOK, GcInv
<1>1. CASE \E b \in Backups : StoreStart(b) \/ DropBackup(b)
  BY <1>1 DEF StoreStart, DropBackup
<1>2. CASE \E c \in Contents : StoreKnown(c) \/ CopyStart(c) \/ CopyEnd(c)
  BY <1>2 DEF StoreKnown, CopyStart, CopyEnd
<1>3. CASE \E c \in Contents : GcRemove(c)
  BY <1>3, SMTT(60) DEF GcRemove
<1>4. CASE CopyFails \/ StoreFails \/ StoreEnd \/ SyncAll \/ GcEnd
  BY <1>4 DEF CopyFails, StoreFails, StoreEnd, SyncAll, GcEnd
<1>5. CASE GcRead
  <2>1. SUFFICES ASSUME ~brokeOff', NEW b \in Backups
                 PROVE  man[b].lines \cap copying' = {}
    BY <1>5 DEF GcRead
  <2>2. Manifests \cap Newer = {}
    BY <1>5, <2>1 DEF GcRead
  <2>3. copying' = AllFiles \ UsedBy(Manifests \ Newer)
    BY <1>5, <2>2 DEF GcRead
  <2>4. CASE b \in Manifests
    <3>1. man[b].lines \subseteq UsedBy(Manifests \ Newer)
      BY <2>2, <2>4 DEF UsedBy
    <3>2. QED
      BY <2>3, <3>1
  <2>5. CASE b \notin Manifests
    BY <2>1, <2>5 DEF Manifests, ManInv
  <2>6. QED
    BY <2>4, <2>5
<1>6. CASE DedupePowerLoss
  BY <1>6 DEF DedupePowerLoss
<1>7. QED
  BY <1>1, <1>2, <1>3, <1>4, <1>5, <1>6 DEF DedupeNext

(* Every finished backup with a whole manifest can be restored exactly,    *)
(* after any sequence of backups that share blobs, failures, full disks,   *)
(* removals, garbage collections and power losses, as long as no           *)
(* collection meets a manifest of a later version (dedupe.c; DedupeInv     *)
(* also says that the state is well typed).                                *)
THEOREM BackupsStayRestorable == DedupeSpec => []DedupeInv
<1>1. DedupeInit => StoreIInv
  BY StoreInit
<1>2. StoreIInv /\ [DedupeNext]_dedupeVars => StoreIInv'
  <2>1. SUFFICES ASSUME StoreIInv, [DedupeNext]_dedupeVars PROVE StoreIInv'
    OBVIOUS
  <2>2. CASE DedupeNext
    BY <2>1, <2>2, StoreTypes, ManStep, CopyStep, BlobStep, GcStep DEF StoreIInv
  <2>3. CASE UNCHANGED dedupeVars
    BY <2>1, <2>3 DEF StoreIInv, DedupeTypeOK, ManInv, CopyInv, BlobInv, GcInv,
                      dedupeVars
  <2>4. QED
    BY <2>1, <2>2, <2>3
<1>3. StoreIInv => DedupeInv
  BY GoodIsExact
<1>4. QED
  BY <1>1, <1>2, <1>3, PTL DEF DedupeSpec

-----------------------------------------------------------------------------
(* The entries of a queue after it grew or lost its head.                  *)

LEMMA RangeAppend ==
  ASSUME NEW S, NEW s \in Seq(S), NEW e \in S
  PROVE  Range(Append(s, e)) = Range(s) \cup {e}
<1>1. /\ DOMAIN Append(s, e) = 1..(Len(s) + 1) /\ DOMAIN s = 1..Len(s)
      /\ Len(s) \in Nat
      /\ \A i \in 1..Len(s) : Append(s, e)[i] = s[i]
      /\ Append(s, e)[Len(s) + 1] = e
  BY SMTT(60)
<1>2. 1..(Len(s) + 1) = 1..Len(s) \cup {Len(s) + 1}
  BY <1>1, SMTT(60)
<1>3. QED
  BY <1>1, <1>2, SMTT(60) DEF Range

LEMMA RangeTail ==
  ASSUME NEW S, NEW s \in Seq(S), s # <<>>
  PROVE  /\ Tail(s) \in Seq(S) /\ Head(s) \in S
         /\ Range(Tail(s)) \subseteq Range(s)
         /\ Head(s) \in Range(s)
<1>1. /\ Tail(s) \in Seq(S) /\ Len(Tail(s)) = Len(s) - 1 /\ Len(s) \in Nat \ {0}
      /\ \A i \in 1..(Len(s) - 1) : Tail(s)[i] = s[i + 1]
      /\ Head(s) = s[1] /\ s[1] \in S
  BY SMTT(60)
<1>2. DOMAIN Tail(s) = 1..(Len(s) - 1) /\ DOMAIN s = 1..Len(s)
  BY <1>1, SMTT(60)
<1>3. \A i \in 1..(Len(s) - 1) : i + 1 \in 1..Len(s)
  BY <1>1, SMTT(60)
<1>4. QED
  BY <1>1, <1>2, <1>3, SMTT(60) DEF Range

LEMMA RangeEmpty == Range(<<>>) = {}
  BY SMTT(60) DEF Range

-----------------------------------------------------------------------------
(* The steps of the menu and of the input thread keep the types, and only  *)
(* keys come into the queue: a cancellation comes from ui_cancel_wait_key  *)
(* alone.                                                                  *)

QueueKept == Range(queue') \subseteq Range(queue) \cup Keys

LEMMA EnqueueKeeps ==
  ASSUME InputTypeOK, NEW k \in Keys, repeatOn' \in BOOLEAN, Enqueue(k)
  PROVE  /\ queue' \in Seq(Keys \cup {Cancel}) /\ QueueKept
         /\ repeated' \in [Keys -> BOOLEAN] /\ owed' \in [Keys -> Nat]
<1>1. CASE Len(queue) < QueueMax
  <2>1. /\ queue' = Append(queue, k)
        /\ repeated' = IF repeatOn' THEN [repeated EXCEPT ![k] = FALSE]
                                    ELSE repeated
        /\ owed' = [owed EXCEPT ![k] = @ + 1]
    BY <1>1 DEF Enqueue
  <2>2. queue' \in Seq(Keys \cup {Cancel}) /\ QueueKept
    <3>1. queue \in Seq(Keys \cup {Cancel}) /\ k \in Keys \cup {Cancel}
      BY DEF InputTypeOK
    <3>2. Range(Append(queue, k)) = Range(queue) \cup {k}
      BY <3>1, RangeAppend, SMTT(60)
    <3>3. QED
      BY <2>1, <3>1, <3>2, SMTT(60) DEF QueueKept
  <2>3. repeated' \in [Keys -> BOOLEAN]
    BY <2>1 DEF InputTypeOK
  <2>4. owed' \in [Keys -> Nat]
    BY <2>1, SMTT(60) DEF InputTypeOK
  <2>5. QED
    BY <2>2, <2>3, <2>4
<1>2. CASE ~(Len(queue) < QueueMax)
  BY <1>2 DEF Enqueue, QueueKept, InputTypeOK
<1>3. QED
  BY <1>1, <1>2

LEMMA InputKeeps ==
  ASSUME InputTypeOK, Input
  PROVE  InputTypeOK' /\ QueueKept
<1> USE MenuAssumption
<1>1. PICK k \in Keys : KeyDown(k) \/ KeyRepeat(k) \/ FakeKey(k) \/ KeyUp(k)
  BY DEF Input
<1>2. CASE KeyUp(k)
  BY <1>2 DEF KeyUp, InputTypeOK, menuVars, QueueKept
<1>3. CASE KeyDown(k) \/ KeyRepeat(k) \/ FakeKey(k)
  <2>1. /\ pressed' \in [Keys -> BOOLEAN] /\ repeatOn' \in BOOLEAN
        /\ KeyEvent(k)
    BY <1>3 DEF KeyDown, KeyRepeat, FakeKey, InputTypeOK
  <2>2. presses' \in 0..MaxPresses
    BY <2>1, SMTT(60) DEF KeyEvent, InputTypeOK
  <2>3. /\ queue' \in Seq(Keys \cup {Cancel}) /\ QueueKept
        /\ repeated' \in [Keys -> BOOLEAN] /\ owed' \in [Keys -> Nat]
    BY <2>1, EnqueueKeeps DEF KeyEvent
  <2>4. UNCHANGED <<menuVars, changed>>
    BY <2>1 DEF KeyEvent
  <2>5. QED
    BY <2>1, <2>2, <2>3, <2>4 DEF InputTypeOK, menuVars
<1>4. QED
  BY <1>1, <1>2, <1>3

(* ui_wait_key and its loop take entries out and put held keys back.       *)
LEMMA ReaddedKeeps ==
  ASSUME InputTypeOK, queue # <<>>, NEW k \in Keys, Head(queue) = k
  PROVE  /\ Readded(k) \in Seq(Keys \cup {Cancel})
         /\ Range(Readded(k)) \subseteq Range(queue) \cup Keys
<1> DEFINE t == Tail(queue)
<1>1. t \in Seq(Keys \cup {Cancel}) /\ Range(t) \subseteq Range(queue)
  BY RangeTail DEF InputTypeOK
<1>2. Readded(k) \in {t, Append(t, k)}
  BY DEF Readded
<1>3. k \in Keys \cup {Cancel}
  OBVIOUS
<1> HIDE DEF t
<1>4. Append(t, k) \in Seq(Keys \cup {Cancel})
  BY <1>1, <1>3, SMTT(60)
<1>5. Range(Append(t, k)) = Range(t) \cup {k}
  BY <1>1, <1>3, RangeAppend, SMTT(60)
<1>6. QED
  BY <1>1, <1>2, <1>4, <1>5

LEMMA AnsweredType ==
  ASSUME InputTypeOK, NEW k \in Keys
  PROVE  Answered(k) \in [Keys -> Nat]
  BY SMTT(60) DEF Answered, InputTypeOK

(* Taking the head of the queue, in ui_wait_key.                           *)
LEMMA HeadKeeps ==
  ASSUME InputTypeOK, queue # <<>>, Returns(Head(queue)), queue' = Tail(queue),
         owed' = IF Head(queue) = Cancel THEN owed ELSE Answered(Head(queue)),
         UNCHANGED <<pressed, repeated, repeatOn, presses, seen, timedOut>>,
         changed' \in BOOLEAN
  PROVE  InputTypeOK' /\ QueueKept
<1>1. /\ Tail(queue) \in Seq(Keys \cup {Cancel}) /\ Head(queue) \in Keys \cup {Cancel}
      /\ Range(Tail(queue)) \subseteq Range(queue)
  BY RangeTail DEF InputTypeOK
<1>2. owed' \in [Keys -> Nat]
  BY <1>1, AnsweredType DEF InputTypeOK
<1>3. QED
  BY <1>1, <1>2 DEF InputTypeOK, QueueKept, Returns

LEMMA WaitKeyKeeps ==
  ASSUME InputTypeOK, WaitKey
  PROVE  InputTypeOK' /\ QueueKept
<1>1. CASE EnterWait
  <2>1. CASE ~repeatOn /\ queue # <<>>
    BY <1>1, <2>1, HeadKeeps DEF EnterWait, PopFirst, InputTypeOK
  <2>2. CASE repeatOn \/ queue = <<>>
    BY <1>1, <2>2 DEF EnterWait, InputTypeOK, keyVars, QueueKept
  <2>3. QED
    BY <2>1, <2>2
<1>2. CASE EnterRepeatWait \/ LoopEnds
  BY <1>2 DEF EnterRepeatWait, LoopEnds, InputTypeOK, keyVars, QueueKept
<1>3. CASE Wake
  BY <1>3 DEF Wake, InputTypeOK, keyVars, QueueKept
<1>4. CASE ReportChange
  BY <1>4 DEF ReportChange, Returns, InputTypeOK, keyVars, QueueKept
<1>5. CASE PollWait
  <2>1. changed' \in BOOLEAN
    BY <1>5 DEF PollWait, ClearUnseen, InputTypeOK
  <2>2. CASE queue # <<>>
    BY <1>5, <2>1, <2>2, HeadKeeps DEF PollWait
  <2>3. CASE queue = <<>>
    BY <1>5, <2>1, <2>3 DEF PollWait, Returns, InputTypeOK, QueueKept
  <2>4. QED
    BY <2>2, <2>3
<1>6. CASE PollRepeatWait
  BY <1>6 DEF PollRepeatWait, ClearUnseen, InputTypeOK, keyVars, QueueKept
<1>7. CASE CheckTimeout
  BY <1>7 DEF CheckTimeout, Returns, InputTypeOK, keyVars, QueueKept
<1>8. CASE LoopCancel
  <2>1. /\ Tail(queue) \in Seq(Keys \cup {Cancel})
        /\ Range(Tail(queue)) \subseteq Range(queue)
    BY <1>8, RangeTail DEF LoopCancel, InputTypeOK
  <2>2. QED
    BY <1>8, <2>1 DEF LoopCancel, Returns, InputTypeOK, QueueKept
<1>9. ASSUME NEW k \in Keys, LoopDrop(k) PROVE InputTypeOK' /\ QueueKept
  <2>1. /\ Tail(queue) \in Seq(Keys \cup {Cancel})
        /\ Range(Tail(queue)) \subseteq Range(queue)
    BY <1>9, RangeTail DEF LoopDrop, InputTypeOK
  <2>2. QED
    BY <1>9, <2>1 DEF LoopDrop, InputTypeOK, QueueKept, menuVars
<1>10. ASSUME NEW k \in Keys, LoopNotReady(k) PROVE InputTypeOK' /\ QueueKept
  <2>1. /\ Readded(k) \in Seq(Keys \cup {Cancel})
        /\ Range(Readded(k)) \subseteq Range(queue) \cup Keys
    BY <1>10, ReaddedKeeps DEF LoopNotReady
  <2>2. QED
    BY <1>10, <2>1 DEF LoopNotReady, InputTypeOK, QueueKept, menuVars
<1>11. ASSUME NEW k \in Keys, LoopReturn(k) PROVE InputTypeOK' /\ QueueKept
  <2>1. /\ Readded(k) \in Seq(Keys \cup {Cancel})
        /\ Range(Readded(k)) \subseteq Range(queue) \cup Keys
    BY <1>11, ReaddedKeeps DEF LoopReturn
  <2>2. owed' \in [Keys -> Nat]
    BY <1>11, AnsweredType DEF LoopReturn
  <2>3. repeated' \in [Keys -> BOOLEAN]
    BY <1>11 DEF LoopReturn, InputTypeOK
  <2>4. QED
    BY <1>11, <2>1, <2>2, <2>3 DEF LoopReturn, Returns, InputTypeOK, QueueKept
<1>12. QED
  BY <1>1, <1>2, <1>3, <1>4, <1>5, <1>6, <1>7, <1>8, <1>9, <1>10, <1>11
     DEF WaitKey

LEMMA MenuKeeps ==
  ASSUME InputTypeOK, Menu
  PROVE  InputTypeOK' /\ QueueKept
<1>1. CASE MenuStarts \/ MenuChooses
  <2>1. queue' = <<>> /\ owed' = [k \in Keys |-> 0]
    BY <1>1 DEF MenuStarts, MenuChooses, ClearKeyQueue
  <2>2. QueueKept /\ owed' \in [Keys -> Nat]
    BY <2>1, RangeEmpty DEF QueueKept
  <2>3. QED
    BY <1>1, <2>1, <2>2, SMTT(60) DEF MenuStarts, MenuChooses, ClearKeyQueue, InputTypeOK
<1>2. CASE MenuGoesOn \/ MenuLeaves
  BY <1>2 DEF MenuGoesOn, MenuLeaves, InputTypeOK, keyVars, QueueKept
<1>3. QED
  BY <1>1, <1>2 DEF Menu

-----------------------------------------------------------------------------
(* The child is gone once the waiter has reaped it, and the main thread    *)
(* comes past the join only with a waiter that is done.                    *)
ThreadInv ==
  /\ waiter = "none" => child = "none"
  /\ waiter \in {"posting", "done"} => child = "reaped"
  /\ apc \in {"clear", "stat"} => waiter = "done"

IInv == SideloadInv /\ ThreadInv

LEMMA InitInv == SideloadInit => IInv
<1> SUFFICES ASSUME SideloadInit PROVE IInv
  OBVIOUS
<1>1. InputTypeOK
  <2>1. queue \in Seq(Keys \cup {Cancel}) /\ repeatOn \in BOOLEAN
    BY MenuAssumption, SMTT(60) DEF SideloadInit, InputInit
  <2>2. pressed \in [Keys -> BOOLEAN] /\ repeated \in [Keys -> BOOLEAN]
    BY DEF SideloadInit, InputInit
  <2>3. presses \in 0..MaxPresses /\ owed \in [Keys -> Nat]
    BY MenuAssumption, SMTT(60) DEF SideloadInit, InputInit
  <2>4. QED
    BY <2>1, <2>2, <2>3 DEF SideloadInit, InputInit, InputTypeOK
<1>2. Cancel \notin Range(queue)
  BY RangeEmpty DEF SideloadInit, InputInit
<1>3. QED
  BY <1>1, <1>2 DEF SideloadInit, IInv, SideloadInv, SideloadTypeOK,
                    NoStaleCancel, NoStalePackage, ThreadInv

(* A step that keeps the queue from cancellations and touches no variable  *)
(* of the sideload.                                                        *)
LEMMA MenuStep ==
  ASSUME IInv, InputTypeOK', QueueKept, UNCHANGED loadVars
  PROVE  IInv'
<1>1. Cancel \notin Keys
  BY MenuAssumption
<1>2. NoStaleCancel'
  BY <1>1 DEF IInv, SideloadInv, NoStaleCancel, QueueKept, loadVars
<1>3. QED
  BY <1>2 DEF IInv, SideloadInv, SideloadTypeOK, NoStalePackage, ThreadInv,
              loadVars

(* The main thread of a sideload.                                          *)
LEMMA MainStep ==
  ASSUME IInv, StartSideload \/ SideloadMain
  PROVE  IInv'
<1>0. InputTypeOK /\ Cancel \notin Keys
  BY MenuAssumption DEF IInv, SideloadInv, SideloadTypeOK
<1> USE DEF IInv, SideloadInv, SideloadTypeOK, ThreadInv, NoStaleCancel,
            NoStalePackage
<1>1. CASE StartSideload
  BY <1>1 DEF StartSideload, inputVars, keyVars, menuVars, InputTypeOK
<1>2. CASE OpenMenu
  <2>1. InputTypeOK'
    BY <1>0, <1>2, MenuKeeps DEF OpenMenu, Menu
  <2>2. QED
    BY <1>2, <2>1 DEF OpenMenu
<1>3. CASE LeaveMenu
  <2>1. InputTypeOK'
    BY <1>0, <1>3, MenuKeeps DEF LeaveMenu, Menu
  <2>2. QED
    BY <1>3, <2>1 DEF LeaveMenu
<1>4. CASE KillChild
  BY <1>4, SMTT(60) DEF KillChild, inputVars, keyVars, menuVars, InputTypeOK
<1>5. CASE JoinThread
  BY <1>5, SMTT(60) DEF JoinThread, inputVars, keyVars, menuVars, InputTypeOK
<1>6. CASE ClearAfterJoin
  <2>1. queue' = <<>> /\ owed' = [k \in Keys |-> 0]
    BY <1>6 DEF ClearAfterJoin, ClearKeyQueue
  <2>2. InputTypeOK'
    BY <1>0, <1>6, <2>1, SMTT(60) DEF ClearAfterJoin, ClearKeyQueue, InputTypeOK, menuVars
  <2>3. Cancel \notin Range(queue')
    BY <2>1, RangeEmpty
  <2>4. QED
    BY <1>6, <2>2, <2>3 DEF ClearAfterJoin
<1>7. CASE InstallSideloaded
  BY <1>7, SMTT(60) DEF InstallSideloaded, inputVars, keyVars, menuVars, InputTypeOK
<1>8. QED
  BY <1>1, <1>2, <1>3, <1>4, <1>5, <1>6, <1>7 DEF SideloadMain

(* The waiter and the child.                                               *)
LEMMA OthersStep ==
  ASSUME IInv, Waiter \/ Child
  PROVE  IInv'
<1> USE DEF IInv, SideloadInv, SideloadTypeOK, ThreadInv, NoStaleCancel,
            NoStalePackage
<1>1. CASE ReapChild
  BY <1>1, SMTT(60) DEF ReapChild, inputVars, keyVars, menuVars, InputTypeOK
<1>2. CASE PostCancel
  <2>1. InputTypeOK'
    BY <1>2, SMTT(60) DEF PostCancel, CancelWaitKey, InputTypeOK, menuVars
  <2>2. apc \notin {"stat", "idle"}
    BY <1>2 DEF PostCancel
  <2>3. QED
    BY <1>2, <2>1, <2>2 DEF PostCancel
<1>3. CASE Child
  BY <1>3, SMTT(60) DEF Child, ReceiveStarts, ReceiveEnds, ChildExits, Alive,
              inputVars, keyVars, menuVars, InputTypeOK
<1>4. QED
  BY <1>1, <1>2, <1>3 DEF Waiter

(* Every step of a sideload, of the menus and of the input thread.         *)
LEMMA InvStep ==
  ASSUME IInv, [SideloadNext]_allVars
  PROVE  IInv'
<1>0. InputTypeOK
  BY DEF IInv, SideloadInv, SideloadTypeOK
<1>1. CASE StartSideload \/ SideloadMain
  BY <1>1, MainStep
<1>2. CASE Waiter \/ Child
  BY <1>2, OthersStep
<1>3. CASE InMenu \/ OrdinaryMenu
  BY <1>0, <1>3, WaitKeyKeeps, MenuKeeps, MenuStep DEF InMenu, OrdinaryMenu, Menu
<1>4. CASE Elsewhere
  <2>1. CASE Input
    BY <1>0, <1>4, <2>1, InputKeeps, MenuStep DEF Elsewhere
  <2>2. CASE VolumeHotswap
    <3>1. InputTypeOK' /\ QueueKept
      BY <1>0, <2>2 DEF VolumeHotswap, InputTypeOK, keyVars, menuVars, QueueKept
    <3>2. QED
      BY <1>4, <3>1, MenuStep DEF Elsewhere
  <2>3. QED
    BY <1>4, <2>1, <2>2 DEF Elsewhere
<1>5. CASE UNCHANGED allVars
  <2>1. InputTypeOK' /\ QueueKept /\ UNCHANGED loadVars
    BY <1>0, <1>5, SMTT(60) DEF allVars, inputVars, keyVars, menuVars, loadVars, InputTypeOK, QueueKept
  <2>2. QED
    BY <2>1, MenuStep
<1>6. QED
  BY <1>1, <1>2, <1>3, <1>4, <1>5 DEF SideloadNext

(* A sideload leaves neither a cancellation nor a package to a later menu  *)
(* or sideload, however the menu, the child and the thread that waits for  *)
(* it interleave: apply_from_adb joins the thread before it clears the     *)
(* queue, and the thread ends only after the child (adb_install.c:129-168).*)
THEOREM SideloadLeavesNothing == SideloadSpec => []SideloadInv
<1>1. SideloadInit => IInv
  BY InitInv
<1>2. IInv /\ [SideloadNext]_allVars => IInv'
  BY InvStep
<1>3. IInv => SideloadInv
  BY DEF IInv
<1>4. QED
  BY <1>1, <1>2, <1>3, PTL DEF SideloadSpec

-----------------------------------------------------------------------------
(* How often a key is in the queue.                                        *)
Places(q, k) == {i \in 1..Len(q) : q[i] = k}

LEMMA PlacesFinite ==
  ASSUME NEW S, NEW s \in Seq(S), NEW k
  PROVE  IsFiniteSet(Places(s, k)) /\ Cardinality(Places(s, k)) \in Nat
<1>1. Len(s) \in Nat /\ Places(s, k) \in SUBSET (1..Len(s))
  BY SMTT(60) DEF Places
<1>2. IsFiniteSet(1..Len(s))
  BY <1>1, FS_Interval, SMTT(60)
<1>3. QED
  BY <1>1, <1>2, FS_Subset, FS_CardinalityType

LEMMA PlacesAppend ==
  ASSUME NEW S, NEW s \in Seq(S), NEW e \in S, NEW k
  PROVE  /\ e # k => Places(Append(s, e), k) = Places(s, k)
         /\ e = k => Cardinality(Places(Append(s, e), k)) = Cardinality(Places(s, k)) + 1
<1>1. /\ Len(s) \in Nat /\ Len(Append(s, e)) = Len(s) + 1
      /\ \A i \in 1..Len(s) : Append(s, e)[i] = s[i]
      /\ Append(s, e)[Len(s) + 1] = e
  BY SMTT(60)
<1>2. 1..(Len(s) + 1) = 1..Len(s) \cup {Len(s) + 1} /\ Len(s) + 1 \notin 1..Len(s)
  BY <1>1, SMTT(60)
<1>3. CASE e # k
  BY <1>1, <1>2, <1>3 DEF Places
<1>4. CASE e = k
  <2>1. Places(Append(s, e), k) = Places(s, k) \cup {Len(s) + 1}
    BY <1>1, <1>2, <1>4 DEF Places
  <2>2. Len(s) + 1 \notin Places(s, k)
    BY <1>2 DEF Places
  <2>3. QED
    BY <1>4, <2>1, <2>2, PlacesFinite, FS_AddElement
<1>5. QED
  BY <1>3, <1>4

LEMMA PlacesTail ==
  ASSUME NEW S, NEW s \in Seq(S), s # <<>>, NEW k
  PROVE  /\ Places(Tail(s), k) # {} => Places(s, k) # {}
         /\ Cardinality(Places(Tail(s), k)) \in Nat
         /\ Cardinality(Places(Tail(s), k)) <= Cardinality(Places(s, k))
         /\ Head(s) = k => /\ Cardinality(Places(Tail(s), k)) <= Cardinality(Places(s, k)) - 1
                           /\ Places(s, k) # {}
<1>1. /\ Tail(s) \in Seq(S) /\ Len(Tail(s)) = Len(s) - 1 /\ Len(s) \in Nat \ {0}
      /\ \A i \in 1..(Len(s) - 1) : Tail(s)[i] = s[i + 1]
      /\ Head(s) = s[1]
  BY SMTT(60)
<1> DEFINE P == Places(s, k)
           T == Places(Tail(s), k)
           f == [i \in T |-> i + 1]
<1>2. \A i \in T : i \in 1..(Len(s) - 1) /\ i + 1 \in P \ {1}
  BY <1>1, SMTT(60) DEF Places
<1>3. IsFiniteSet(P) /\ Cardinality(P) \in Nat /\ Cardinality(T) \in Nat
  BY <1>1, PlacesFinite
<1>4. Head(s) = k => 1 \in P
  BY <1>1, SMTT(60) DEF Places
<1> HIDE DEF P, T
<1>5. f \in Injection(T, P \ {1})
  <2>1. f \in [T -> P \ {1}]
    BY <1>2
  <2>2. \A i, j \in T : f[i] = f[j] => i = j
    BY <1>1, <1>2, SMTT(60)
  <2>3. QED
    BY <2>1, <2>2 DEF Injection, IsInjective
<1>6. /\ IsFiniteSet(P \ {1})
      /\ Cardinality(P \ {1}) = IF 1 \in P THEN Cardinality(P) - 1 ELSE Cardinality(P)
  BY <1>3, FS_RemoveElement
<1>7. Cardinality(T) <= Cardinality(P \ {1})
  BY <1>5, <1>6, FS_Injection
<1>8. /\ T # {} => P # {}
      /\ Cardinality(T) \in Nat /\ Cardinality(T) <= Cardinality(P)
      /\ Head(s) = k => Cardinality(T) <= Cardinality(P) - 1 /\ P # {}
  BY <1>2, <1>3, <1>4, <1>6, <1>7, SMTT(60)
<1>9. QED
  BY <1>8 DEF P, T

LEMMA PlacesEmpty ==
  ASSUME NEW k
  PROVE  Places(<<>>, k) = {} /\ Cardinality(Places(<<>>, k)) = 0
<1>1. Places(<<>>, k) = {}
  BY SMTT(60) DEF Places
<1>2. QED
  BY <1>1, FS_EmptySet

-----------------------------------------------------------------------------
(* A queued key is owed an answer as long as it has not repeated.  A key   *)
(* that does not repeat is owed one for each of its places.  Neither holds *)
(* of ui_wait_key() without repetition, which is never left again for      *)
(* ui_wait_key_with_repeat().                                              *)
Repeating == {"rwait", "rblocked", "rpolling", "rcheck", "rloop"}

KeyOwed(k) ==
  /\ k \in Repeatable /\ ~repeated[k] /\ Places(queue, k) # {} => owed[k] > 0
  /\ k \notin Repeatable => Cardinality(Places(queue, k)) <= owed[k]

OwedInv ==
  /\ \A k \in Keys : repeated[k] => k \in Repeatable
  /\ pc \in {"blocked", "polling"} => ~repeatOn
  /\ repeatOn \/ pc \in Repeating => \A k \in Keys : KeyOwed(k)

(* Only input_callback changes repeatOn, and only to FALSE.                *)
LEMMA OwedSame ==
  ASSUME OwedInv, UNCHANGED <<queue, repeated, owed, repeatOn>>,
         pc' \in Repeating => repeatOn \/ pc \in Repeating,
         pc' \in {"blocked", "polling"} => ~repeatOn
  PROVE  OwedInv'
<1>1. \A k \in Keys : KeyOwed(k) => KeyOwed(k)'
  BY DEF KeyOwed
<1>2. QED
  BY <1>1 DEF OwedInv

LEMMA OwedCleared ==
  ASSUME OwedInv, ClearKeyQueue, pc' \in {"blocked", "polling"} => ~repeatOn
  PROVE  OwedInv'
<1>1. /\ queue' = <<>> /\ owed' = [k \in Keys |-> 0] /\ repeated' = repeated
      /\ repeatOn' = repeatOn
  BY DEF ClearKeyQueue
<1>2. \A k \in Keys : KeyOwed(k)'
  BY <1>1, PlacesEmpty, SMTT(60) DEF KeyOwed
<1>3. QED
  BY <1>1, <1>2 DEF OwedInv

(* A key that goes to the end of the queue, or a cancellation.             *)
LEMMA OwedInput ==
  ASSUME InputTypeOK, OwedInv, Input
  PROVE  OwedInv'
<1>1. PICK k \in Keys : KeyDown(k) \/ KeyRepeat(k) \/ FakeKey(k) \/ KeyUp(k)
  BY DEF Input
<1>2. pc' = pc /\ (repeatOn' => repeatOn)
  BY <1>1, SMTT(60) DEF KeyDown, KeyRepeat, FakeKey, KeyUp, KeyEvent, menuVars
<1>3. CASE UNCHANGED <<queue, repeated, owed>>
  <2>1. \A j \in Keys : KeyOwed(j) => KeyOwed(j)'
    BY <1>3 DEF KeyOwed
  <2>2. QED
    BY <1>2, <1>3, <2>1 DEF OwedInv
<1>4. CASE ~UNCHANGED <<queue, repeated, owed>>
  <2>1. Enqueue(k) /\ Len(queue) < QueueMax
    BY <1>1, <1>4 DEF KeyDown, KeyRepeat, FakeKey, KeyUp, KeyEvent, Enqueue
  <2>2. /\ queue' = Append(queue, k)
        /\ owed' = [owed EXCEPT ![k] = @ + 1]
        /\ repeated' = IF repeatOn' THEN [repeated EXCEPT ![k] = FALSE] ELSE repeated
    BY <2>1 DEF Enqueue
  <2>3. queue \in Seq(Keys \cup {Cancel}) /\ k \in Keys \cup {Cancel}
        /\ owed \in [Keys -> Nat] /\ repeated \in [Keys -> BOOLEAN]
    BY DEF InputTypeOK
  <2>4. \A j \in Keys : repeated'[j] => repeated[j]
    BY <2>2, <2>3
  <2>5. ASSUME NEW j \in Keys, KeyOwed(j), j # k
        PROVE  KeyOwed(j)'
    <3>1. Places(queue', j) = Places(queue, j)
      BY <2>2, <2>3, <2>5, PlacesAppend
    <3>2. owed'[j] = owed[j] /\ repeated'[j] = repeated[j]
      BY <2>2, <2>3, <2>5
    <3>3. QED
      BY <2>5, <3>1, <3>2 DEF KeyOwed
  <2>6. ASSUME KeyOwed(k)
        PROVE  KeyOwed(k)'
    <3>1. Cardinality(Places(queue', k)) = Cardinality(Places(queue, k)) + 1
      BY <2>2, <2>3, PlacesAppend
    <3>2. owed'[k] = owed[k] + 1 /\ owed[k] \in Nat
      BY <2>2, <2>3
    <3>3. Cardinality(Places(queue, k)) \in Nat
      BY <2>3, PlacesFinite
    <3>4. QED
      BY <2>6, <3>1, <3>2, <3>3, SMTT(60) DEF KeyOwed
  <2>7. QED
    BY <1>2, <2>4, <2>5, <2>6 DEF OwedInv
<1>5. QED
  BY <1>3, <1>4

LEMMA OwedCancel ==
  ASSUME InputTypeOK, OwedInv, CancelWaitKey
  PROVE  OwedInv'
<1>1. queue' = Append(queue, Cancel) /\ UNCHANGED <<repeated, repeatOn, owed, pc>>
  BY DEF CancelWaitKey, menuVars
<1>2. queue \in Seq(Keys \cup {Cancel}) /\ Cancel \in Keys \cup {Cancel}
  BY DEF InputTypeOK
<1>3. \A k \in Keys : Places(queue', k) = Places(queue, k)
  BY <1>1, <1>2, PlacesAppend, MenuAssumption
<1>4. \A k \in Keys : KeyOwed(k) => KeyOwed(k)'
  BY <1>1, <1>3 DEF KeyOwed
<1>5. QED
  BY <1>1, <1>4 DEF OwedInv

(* The steps of ui_wait_key and ui_wait_key_with_repeat that take the head *)
(* of the queue.                                                           *)
LEMMA OwedDropped ==
  ASSUME InputTypeOK, OwedInv, queue # <<>>, queue' = Tail(queue),
         UNCHANGED <<repeated, repeatOn, owed>>,
         pc \in Repeating, pc' \notin {"blocked", "polling"}
  PROVE  OwedInv'
<1>1. queue \in Seq(Keys \cup {Cancel}) /\ owed \in [Keys -> Nat]
  BY DEF InputTypeOK
<1>2. ASSUME NEW k \in Keys, KeyOwed(k)
      PROVE  KeyOwed(k)'
  <2>1. /\ Places(queue', k) # {} => Places(queue, k) # {}
        /\ Cardinality(Places(queue', k)) \in Nat
        /\ Cardinality(Places(queue', k)) <= Cardinality(Places(queue, k))
    BY <1>1, PlacesTail
  <2>2. Cardinality(Places(queue, k)) \in Nat /\ owed[k] \in Nat
    BY <1>1, PlacesFinite
  <2>3. QED
    BY <1>2, <2>1, <2>2, SMTT(60) DEF KeyOwed
<1>3. QED
  BY <1>2 DEF OwedInv

(* A held key that goes back to the end leaves the others where they are.  *)
LEMMA OwedReadded ==
  ASSUME InputTypeOK, OwedInv, queue # <<>>, pc = "rloop",
         NEW k \in Keys, Head(queue) = k, queue' = Readded(k),
         \A j \in Keys \ {k} : owed'[j] = owed[j] /\ repeated'[j] = repeated[j]
  PROVE  \A j \in Keys \ {k} : KeyOwed(j)'
<1> SUFFICES ASSUME NEW j \in Keys \ {k}
             PROVE  KeyOwed(j)'
  OBVIOUS
<1>1. queue \in Seq(Keys \cup {Cancel}) /\ owed \in [Keys -> Nat] /\ KeyOwed(j)
  BY DEF InputTypeOK, OwedInv, Repeating
<1>2. Tail(queue) \in Seq(Keys \cup {Cancel}) /\ k \in Keys \cup {Cancel}
  BY <1>1, RangeTail
<1>3. Places(queue', j) = Places(Tail(queue), j)
  <2>1. Places(Append(Tail(queue), k), j) = Places(Tail(queue), j)
    BY <1>2, PlacesAppend
  <2>2. QED
    BY <2>1 DEF Readded
<1>4. /\ Places(queue', j) # {} => Places(queue, j) # {}
      /\ Cardinality(Places(queue', j)) \in Nat
      /\ Cardinality(Places(queue', j)) <= Cardinality(Places(queue, j))
  BY <1>1, <1>3, PlacesTail
<1>5. Cardinality(Places(queue, j)) \in Nat /\ owed[j] \in Nat
  BY <1>1, PlacesFinite
<1>6. QED
  BY <1>1, <1>4, <1>5, SMTT(60) DEF KeyOwed

LEMMA OwedNotReady ==
  ASSUME InputTypeOK, OwedInv, NEW k \in Keys, LoopNotReady(k)
  PROVE  OwedInv'
<1>1. /\ queue # <<>> /\ Head(queue) = k /\ queue' = Readded(k)
      /\ repeated[k] /\ k \in Repeatable
      /\ pc = "rloop" /\ UNCHANGED <<repeated, repeatOn, owed, pc>>
  BY DEF LoopNotReady, menuVars
<1>2. \A j \in Keys \ {k} : KeyOwed(j)'
  BY <1>1, OwedReadded
<1>3. KeyOwed(k)'
  BY <1>1 DEF KeyOwed
<1>4. QED
  BY <1>1, <1>2, <1>3 DEF OwedInv

LEMMA OwedReturn ==
  ASSUME InputTypeOK, OwedInv, NEW k \in Keys, LoopReturn(k)
  PROVE  OwedInv'
<1>1. /\ queue # <<>> /\ Head(queue) = k /\ queue' = Readded(k)
      /\ repeated' = [repeated EXCEPT ![k] = @ \/ k \in Repeatable]
      /\ owed' = Answered(k)
      /\ pc = "rloop" /\ pc' = "return" /\ repeatOn' = repeatOn
  BY DEF LoopReturn, Returns
<1>2. /\ queue \in Seq(Keys \cup {Cancel}) /\ owed \in [Keys -> Nat]
      /\ repeated \in [Keys -> BOOLEAN]
  BY DEF InputTypeOK
<1>3. \A j \in Keys \ {k} : owed'[j] = owed[j] /\ repeated'[j] = repeated[j]
  BY <1>1, <1>2 DEF Answered
<1>4. \A j \in Keys \ {k} : KeyOwed(j)'
  BY <1>1, <1>3, OwedReadded
<1>5. repeated'[k] <=> k \in Repeatable
  BY <1>1, <1>2 DEF OwedInv
<1>6. KeyOwed(k)'
  <2>1. CASE k \in Repeatable
    BY <1>5, <2>1 DEF KeyOwed
  <2>2. CASE k \notin Repeatable
    <3>1. queue' = Tail(queue)
      BY <1>1, <2>2 DEF Readded
    <3>2. /\ Cardinality(Places(queue', k)) \in Nat
          /\ Cardinality(Places(queue', k)) <= Cardinality(Places(queue, k)) - 1
      BY <1>1, <1>2, <3>1, PlacesTail
    <3>3. Cardinality(Places(queue, k)) \in Nat /\ owed[k] \in Nat
      BY <1>2, PlacesFinite
    <3>4. Cardinality(Places(queue, k)) <= owed[k]
      BY <1>1, <2>2 DEF OwedInv, Repeating, KeyOwed
    <3>5. owed'[k] = IF owed[k] = 0 THEN 0 ELSE owed[k] - 1
      BY <1>1, <1>2 DEF Answered
    <3>6. Cardinality(Places(queue', k)) <= owed'[k]
      BY <3>2, <3>3, <3>4, <3>5, SMTT(60)
    <3>7. QED
      BY <2>2, <3>6 DEF KeyOwed
  <2>3. QED
    BY <2>1, <2>2
<1>7. \A j \in Keys : repeated'[j] => j \in Repeatable
  BY <1>3, <1>5 DEF OwedInv
<1>8. QED
  BY <1>1, <1>4, <1>6, <1>7 DEF OwedInv

LEMMA OwedWaitKey ==
  ASSUME InputTypeOK, OwedInv, WaitKey
  PROVE  OwedInv'
<1>1. CASE EnterWait \/ PollWait
  <2>1. CASE EnterWait /\ repeatOn
    BY <2>1, OwedSame DEF EnterWait, keyVars, Repeating
  <2>2. CASE ~(EnterWait /\ repeatOn)
    <3>1. ~repeatOn' /\ pc' \in {"return", "blocked"} /\ repeated' = repeated
      BY <1>1, <2>2, SMTT(60)
         DEF EnterWait, PopFirst, PollWait, Returns, keyVars, OwedInv
    <3>2. QED
      BY <3>1 DEF OwedInv, Repeating
  <2>3. QED
    BY <2>1, <2>2
<1>2. CASE EnterRepeatWait \/ Wake \/ ReportChange
  BY <1>2, OwedSame
     DEF EnterRepeatWait, Wake, ReportChange, Returns, keyVars, Repeating, OwedInv
<1>3. CASE PollRepeatWait \/ CheckTimeout \/ LoopEnds
  BY <1>3, OwedSame
     DEF PollRepeatWait, CheckTimeout, LoopEnds, Returns, keyVars, Repeating
<1>4. CASE LoopCancel
  BY <1>4, OwedDropped DEF LoopCancel, Returns, Repeating
<1>5. ASSUME NEW k \in Keys, LoopDrop(k) PROVE OwedInv'
  BY <1>5, OwedDropped DEF LoopDrop, Repeating, menuVars
<1>6. QED
  BY <1>1, <1>2, <1>3, <1>4, <1>5, OwedNotReady, OwedReturn DEF WaitKey

LEMMA OwedMenu ==
  ASSUME OwedInv, Menu
  PROVE  OwedInv'
<1>1. CASE MenuStarts \/ MenuChooses
  BY <1>1, OwedCleared DEF MenuStarts, MenuChooses
<1>2. CASE MenuGoesOn \/ MenuLeaves
  BY <1>2, OwedSame DEF MenuGoesOn, MenuLeaves, keyVars, Repeating
<1>3. QED
  BY <1>1, <1>2 DEF Menu

LEMMA OwedStep ==
  ASSUME InputTypeOK, OwedInv, [SideloadNext]_allVars
  PROVE  OwedInv'
<1>1. CASE Input \/ WaitKey \/ Menu \/ CancelWaitKey
  BY <1>1, OwedInput, OwedWaitKey, OwedMenu, OwedCancel
<1>2. CASE ClearAfterJoin
  BY <1>2, OwedCleared DEF ClearAfterJoin, menuVars, OwedInv
<1>3. CASE VolumeHotswap \/ UNCHANGED inputVars
  BY <1>3, OwedSame DEF VolumeHotswap, inputVars, keyVars, menuVars, OwedInv
<1>4. \/ Input \/ WaitKey \/ Menu \/ CancelWaitKey \/ ClearAfterJoin
      \/ VolumeHotswap \/ UNCHANGED inputVars
  BY DEF SideloadNext, StartSideload, SideloadMain, OpenMenu, LeaveMenu, KillChild,
         JoinThread, InstallSideloaded, Waiter, ReapChild, PostCancel, Child,
         ReceiveStarts, ReceiveEnds, ChildExits, InMenu, OrdinaryMenu, Elsewhere,
         Menu, allVars
<1>5. QED
  BY <1>1, <1>2, <1>3, <1>4

LEMMA OwedInit == SideloadInit => OwedInv
<1> SUFFICES ASSUME SideloadInit PROVE OwedInv
  OBVIOUS
<1>1. /\ queue = <<>> /\ owed = [k \in Keys |-> 0]
      /\ repeated = [k \in Keys |-> FALSE] /\ pc = "out"
  BY DEF SideloadInit, InputInit
<1>2. \A k \in Keys : KeyOwed(k)
  BY <1>1, PlacesEmpty, SMTT(60) DEF KeyOwed
<1>3. QED
  BY <1>1, <1>2 DEF OwedInv

(* ui_wait_key_with_repeat never returns a key that was let go, except for *)
(* a press that was not yet answered: whatever keys are held, repeated or  *)
(* pressed again in between, and also when the kernel's own repetition     *)
(* takes over in the middle of a wait.                                     *)
THEOREM HeldKeysStop == SideloadSpec => NoPhantomKey
<1> DEFINE A == \A k \in Keys :
                  pc = "rloop" /\ pc' = "return" /\ key' = k /\ ~pressed[k]
                    => owed[k] > 0
<1>1. ASSUME InputTypeOK, OwedInv, [SideloadNext]_allVars
      PROVE  [A]_inputVars
  <2> SUFFICES ASSUME NEW k \in Keys, pc = "rloop", pc' = "return", key' = k,
                      ~pressed[k]
               PROVE  owed[k] > 0
    OBVIOUS
  <2>1. LoopReturn(k)
    <3>1. Cancel \notin Keys
      BY MenuAssumption
    <3>2. WaitKey
      BY <1>1
         DEF SideloadNext, StartSideload, SideloadMain, OpenMenu, LeaveMenu, KillChild,
             JoinThread, ClearAfterJoin, InstallSideloaded, Waiter, ReapChild,
             PostCancel, CancelWaitKey, Child, ReceiveStarts, ReceiveEnds,
             ChildExits, InMenu, OrdinaryMenu, Elsewhere, MenuStarts, MenuGoesOn,
             MenuChooses, MenuLeaves, Input, KeyDown, KeyRepeat, FakeKey, KeyUp,
             KeyEvent, VolumeHotswap, inputVars, menuVars, allVars
    <3>3. QED
      BY <3>1, <3>2
         DEF WaitKey, EnterWait, EnterRepeatWait, Wake, ReportChange, PollWait,
             PollRepeatWait, CheckTimeout, LoopEnds, LoopCancel, LoopDrop,
             LoopNotReady, LoopReturn, Returns, menuVars
  <2>2. queue # <<>> /\ Head(queue) = k /\ ~repeated[k]
    BY <2>1 DEF LoopReturn
  <2>3. queue \in Seq(Keys \cup {Cancel}) /\ owed \in [Keys -> Nat]
    BY <1>1 DEF InputTypeOK
  <2>4. KeyOwed(k)
    BY <1>1 DEF OwedInv, Repeating
  <2>5. /\ Places(queue, k) # {} /\ Cardinality(Places(Tail(queue), k)) \in Nat
        /\ Cardinality(Places(Tail(queue), k)) <= Cardinality(Places(queue, k)) - 1
    BY <2>2, <2>3, PlacesTail
  <2>6. Cardinality(Places(queue, k)) \in Nat /\ owed[k] \in Nat
    BY <2>3, PlacesFinite
  <2>7. QED
    BY <2>2, <2>4, <2>5, <2>6, SMTT(60) DEF KeyOwed
<1> DEFINE Inv == IInv /\ OwedInv
<1>2. Inv => InputTypeOK
  BY DEF IInv, SideloadInv, SideloadTypeOK
<1>3. SideloadInit => Inv
  BY InitInv, OwedInit
<1>4. Inv /\ [SideloadNext]_allVars => Inv'
  BY <1>2, InvStep, OwedStep
<1>5. Inv /\ [SideloadNext]_allVars => [A]_inputVars
  BY <1>1, <1>2
<1>6. QED
  BY <1>3, <1>4, <1>5, PTL DEF SideloadSpec, NoPhantomKey

=============================================================================
