------------------------------ MODULE Volumes ------------------------------
(***************************************************************************)
(* Mounting, unmounting and formatting volumes: roots.c, the scan of       *)
(* /proc/mounts in mounts.c, and the mount and format menu of              *)
(* extendedcommands.c.                                                     *)
(*                                                                         *)
(* A path of the recovery is a whole volume, or lies inside one.  On a     *)
(* data-media device /sdcard is /data/media, which is why /data is not     *)
(* reformatted but emptied around that directory as long as                *)
(* data_media_preserved_state is 1.                                        *)
(*                                                                         *)
(* The functions of roots.c are operators: from a record                   *)
(*   M = [mounts, content, over]                                           *)
(* they give the set of the records they can leave, each with "ok", the    *)
(* value they return.  A menu item is one action, since one thread runs    *)
(* the menu.                                                               *)
(***************************************************************************)
EXTENDS Naturals, Sequences, Functions

CONSTANTS Kind,         \* fs_type of each path's volume, or "inside"
          Holder,       \* the volume that holds the path
          VoldManaged,  \* the volumes vold mounts and formats
          DataLike,     \* the paths that begin with /data: /datadata too
          ScanLines     \* lines of /proc/mounts that fit in 2047 bytes

VARIABLES mounts,       \* /proc/mounts, in the order of mounting
          content,      \* what is at each path
          over,         \* ghost: a file system was made under a mount that
                        \* the scan could see
          op            \* the format last chosen, the file system asked
                        \* for and its outcome

volVars == <<mounts, content, over, op>>

Types == {"", "default", "vfat", "ext4", "ext3", "rfs"}
RawKinds == {"emmc", "bml", "mtd"}

Paths == DOMAIN Kind
Vols  == {p \in Paths : Holder[p] = p}

\* volume_for_path and setup_data_media: a path that is no volume of its own
\* lies inside one, and the media are a directory of /data.
ASSUME VolumesAssumption ==
    /\ Paths # {} /\ ScanLines \in Nat
    /\ Holder \in [Paths -> Paths]
    /\ VoldManaged \subseteq Vols /\ DataLike \subseteq Paths
    /\ \A p \in Paths : /\ Holder[Holder[p]] = Holder[p]
                        /\ Holder[p] # p <=> Kind[p] \in {"datamedia", "inside"}
    /\ \A p \in Paths : Kind[p] = "datamedia" => Holder[p] = "data" /\ p # "data"
    /\ \A p \in Paths : Kind[p] = "inside" /\ Holder[p] = "data" => p \in DataLike
    /\ \A p \in DataLike : Kind[p] # "auto"
    /\ "data" \in Paths => "data" \in DataLike

VolTypeOK ==
    /\ mounts \in Seq(Vols) /\ IsInjective(mounts)
    /\ content \in [Paths -> {"files", "empty", "torn"}]
    /\ over \in BOOLEAN
    /\ op \in [item : {"none", "format", "all", "wipe", "restore", "mkfs"},
               path : Paths, fs : Types, ok : BOOLEAN, skipped : BOOLEAN]

NoOp == [item |-> "none", path |-> CHOOSE p \in Paths : TRUE, fs |-> "",
         ok |-> TRUE, skipped |-> FALSE]

VolInit ==
    /\ mounts = <<>>
    /\ content = [p \in Paths |-> "files"]
    /\ over = FALSE
    /\ op = NoOp

Inside(p) == {q \in Paths : q = p \/ Holder[q] = p}

Result(M, ok) == [M |-> M, ok |-> ok, skipped |-> FALSE]
Skipped(M) == [M |-> M, ok |-> TRUE, skipped |-> TRUE]

(***************************************************************************)
(* scan_mounted_volumes reads the first 2047 bytes of /proc/mounts and     *)
(* find_mounted_volume_by_mount_point looks in what it read: a mount       *)
(* whose line comes later is not seen.                                     *)
(***************************************************************************)
Scan(ms) == {ms[i] : i \in 1 .. (IF Len(ms) < ScanLines THEN Len(ms)
                                                        ELSE ScanLines)}

\* is_data_media: a volume of type "datamedia" is in the table, or no sdcard.
DataMedia == (\E p \in Paths : Kind[p] = "datamedia") \/ "sdcard" \notin Paths

\* The kernel and vold mount a volume once; any mount may fail.
Mounts(M, v) ==
    {Result(M, FALSE)} \cup
    IF v \in Range(M.mounts) THEN {}
    ELSE {Result([M EXCEPT !.mounts = Append(@, v)], TRUE)}

(***************************************************************************)
(* ensure_path_mounted: a data-media path mounts /data; the ramdisk is     *)
(* always mounted; a raw partition cannot be.                              *)
(***************************************************************************)
PathMounted(M, p) ==
    LET v == Holder[p]
    IN  IF Kind[v] = "ramdisk" \/ v \in Scan(M.mounts) THEN {Result(M, TRUE)}
        ELSE IF Kind[v] \in RawKinds THEN {Result(M, FALSE)}
        ELSE Mounts(M, v)

\* umount: line i leaves the mount table.
Unlisted(M, i) ==
    [M EXCEPT !.mounts =
        [j \in 1 .. Len(@) - 1 |-> IF j < i THEN @[j] ELSE @[j + 1]]]

(***************************************************************************)
(* ensure_path_unmounted.  "keep" is data_media_preserved_state: with it,  *)
(* a path that begins with /data is left mounted on a data-media device    *)
(* and 0 returned.                                                         *)
(***************************************************************************)
PathUnmounted(M, p, keep) ==
    LET v == Holder[p]
    IN  IF (Kind[p] = "datamedia" \/ p \in DataLike) /\ DataMedia /\ keep
          THEN {Result(M, TRUE)}
        ELSE IF Kind[v] = "ramdisk" THEN {Result(M, FALSE)}
        ELSE IF v \notin Scan(M.mounts) THEN {Result(M, TRUE)}
        ELSE {Result(M, FALSE)} \cup
             {Result(Unlisted(M, i), TRUE) :
                i \in {j \in DOMAIN M.mounts : M.mounts[j] = v}}

(***************************************************************************)
(* Making a file system or erasing a partition (make_ext4fs, mtd_erase_    *)
(* blocks, mke2fs): all that was on the volume is gone, or it fails before *)
(* or after the first write.                                               *)
(***************************************************************************)
MakeFs(M, v) ==
    LET Left(c) == [q \in Paths |-> IF q \in Inside(v) THEN c
                                    ELSE M.content[q]]
        M2 == [M EXCEPT !.over = @ \/ v \in Scan(M.mounts)]
    IN  {Result([M2 EXCEPT !.content = Left("empty")], TRUE),
         Result([M2 EXCEPT !.content = Left("torn")], FALSE),
         Result(M, FALSE)}

\* vold formats a volume it manages only when that is not mounted.
VoldFormat(M, v) ==
    IF v \in Range(M.mounts) THEN {Result(M, FALSE)} ELSE MakeFs(M, v)

RmAllMedia(M, p) ==             \* mutant: the media go with the rest of /data
    {[M EXCEPT !.content = [q \in Paths |->
        IF q \in Inside(p) THEN "empty" ELSE M.content[q]]]}

\* The rm -rf of format_unknown_device, in /data of all but media, may remove
\* all, a part or nothing: its result is not looked at.  The .layout_version
\* written to /data afterwards is not a file of the user's.
RmAll(M, p) ==
    LET gone == IF p = "data" THEN {p} ELSE Inside(p)
        Left(c) == [M EXCEPT !.content = [q \in Paths |->
                       IF q \in gone THEN c ELSE M.content[q]]]
    IN  IF M.content[p] = "empty" THEN {Left("empty")}
        ELSE {M, Left("torn"), Left("empty")}

\* The device is that of the volume, also when a path inside it was given.
UnmountAndMake(M, p, keep) ==
    UNION {IF u.ok THEN MakeFs(u.M, Holder[p]) ELSE {Result(u.M, FALSE)} :
             u \in PathUnmounted(M, p, keep)}

(***************************************************************************)
(* format_unknown_device: a raw type is erased (the eMMC and the bml one   *)
(* report success and leave the partition as it is), ext2 and ext3 are     *)
(* made on the unmounted device, anything else is mounted, emptied and     *)
(* unmounted.  When the mount fails, and when the device of /sd-ext is not *)
(* there, it prints that it skips the format and returns 0.                *)
(***************************************************************************)
FormatUnknown(M, p, fs, keep) ==
    IF fs \in {"emmc", "bml"} THEN {Result(M, TRUE)}
    ELSE (IF p = "sd-ext" THEN {Skipped(M)} ELSE {}) \cup
         IF fs \in {"ext2", "ext3"} THEN UnmountAndMake(M, p, keep)
         ELSE UNION {IF ~m.ok THEN {Skipped(m.M)}
                     ELSE {Result(u.M, TRUE) :
                             u \in UNION {PathUnmounted(N, p, keep) :
                                            N \in RmAll(m.M, p)}} :
                       m \in PathMounted(M, p)}

\* What is emptied whatever its type: the media, and all that begins with
\* /data as long as the media are preserved.
Emptied(p, keep) == Kind[p] = "datamedia" \/ (p \in DataLike /\ DataMedia /\ keep)

\* The unmount of format_volume and what follows it.
FormatUnmounted(M, p, fs, keep) ==
    UNION {IF u.ok THEN FormatUnknown(u.M, p, fs, keep) ELSE {Result(u.M, FALSE)} :
             u \in PathUnmounted(M, p, keep)}

FormatVolumeMounted(M, p, keep) ==      \* mutant: the unmount is left out
    IF Emptied(p, keep) THEN FormatUnknown(M, p, "", keep)
    ELSE IF p \in VoldManaged THEN VoldFormat(M, p)
    ELSE IF Kind[Holder[p]] = "ramdisk" THEN {Result(M, FALSE)}
    ELSE IF Kind[p] = "inside" THEN FormatUnknown(M, p, "", keep)
    ELSE IF Kind[p] \in {"yaffs2", "mtd", "ext4", "f2fs"} THEN MakeFs(M, p)
    ELSE FormatUnknown(M, p, Kind[p], keep)

(***************************************************************************)
(* format_volume: what is emptied is; /sd-ext may have no device; a volume *)
(* of vold's is formatted by vold even when unmounting it failed; a path   *)
(* inside a volume is emptied; yaffs2, mtd, ext4 and f2fs are made on the  *)
(* unmounted volume.                                                       *)
(***************************************************************************)
FormatVolume(M, p, keep) ==
    IF Emptied(p, keep) THEN FormatUnknown(M, p, "", keep)
    ELSE (IF p = "sd-ext" THEN {Result(M, FALSE)} ELSE {}) \cup
         IF p \in VoldManaged
           THEN UNION {VoldFormat(u.M, p) : u \in PathUnmounted(M, p, keep)}
         ELSE IF Kind[Holder[p]] = "ramdisk" THEN {Result(M, FALSE)}
         ELSE IF Kind[p] = "inside" THEN FormatUnknown(M, p, "", keep)
         ELSE IF Kind[p] \in {"yaffs2", "mtd", "ext4", "f2fs"}
           THEN UnmountAndMake(M, p, keep)
         ELSE FormatUnmounted(M, p, Kind[p], keep)

(***************************************************************************)
(* format_device, which a restore uses with the file system of the backup: *)
(* on a data-media device what begins with /data is emptied whatever the   *)
(* preserved state; rfs is made on the whole volume even for a path inside *)
(* it.                                                                     *)
(***************************************************************************)
FormatDevice(M, p, fs) ==
    IF Emptied(p, TRUE) THEN FormatUnknown(M, p, "", TRUE)
    ELSE IF fs = "rfs" THEN UnmountAndMake(M, p, TRUE)
    ELSE IF Kind[p] = "inside" THEN FormatUnknown(M, p, "", TRUE)
    ELSE IF fs \in {"yaffs2", "ext4", "f2fs"} THEN UnmountAndMake(M, p, TRUE)
    ELSE FormatUnmounted(M, p, fs, TRUE)

-----------------------------------------------------------------------------
M0 == [mounts |-> mounts, content |-> content, over |-> over]

Becomes(r) == /\ mounts' = r.M.mounts
              /\ content' = r.M.content
              /\ over' = r.M.over

Chose(item, p, fs, r) ==
    /\ Becomes(r)
    /\ op' = [item |-> item, path |-> p, fs |-> fs, ok |-> r.ok,
              skipped |-> r.skipped]

\* The mount items of show_partition_menu: is_path_mounted decides which way;
\* the media is not preserved while /data is being unmounted.
MountItem(p) ==
    /\ Kind[p] \notin RawKinds \cup {"ramdisk"}
    /\ \/ /\ p \notin Scan(mounts)
          /\ \E r \in PathMounted(M0, p) : Becomes(r)
       \/ /\ p \in Scan(mounts)
          /\ \E r \in PathUnmounted(M0, p, FALSE) : Becomes(r)
    /\ op' = NoOp

\* The format items: the entries of the volume table that can be formatted;
\* for the type "auto" see format_sdcard.
FormatItem(p) ==
    /\ Kind[p] \notin {"auto", "inside", "mtd", "ramdisk"}
    /\ \E r \in FormatVolume(M0, p, TRUE) : Chose("format", p, "", r)

\* "format /data and /data/media": preservation is off for the format; /data
\* is mounted again afterwards and its media directory made.  Without a /data
\* in the table format_volume gives up at once.
FormatAll ==
    /\ DataMedia /\ "data" \in Paths
    /\ \E r \in FormatVolume(M0, "data", FALSE) :
         \E m \in PathMounted(r.M, "data") :
            Chose("all", "data", "", [r EXCEPT !.M = m.M])

\* format_sdcard, for a volume of type "auto": unmounted first, then the file
\* system of the user's choice; ext2 and ext3 are made by mke2fs, the others by
\* vold if it manages the volume and else by their own program.
FormatSdcard(p, fs) ==
    /\ Kind[p] = "auto"
    /\ \E u \in PathUnmounted(M0, p, TRUE) :
         IF ~u.ok THEN Chose("mkfs", p, fs, u)
         ELSE \E r \in IF fs = "default" THEN FormatVolume(u.M, p, TRUE)
                       ELSE IF fs = "ext3" THEN FormatUnknown(u.M, p, fs, TRUE)
                       ELSE IF p \in VoldManaged THEN VoldFormat(u.M, p)
                       ELSE MakeFs(u.M, p) : Chose("mkfs", p, fs, r)

\* What is wiped and what is restored with a file system: /data, /datadata,
\* /cache, /sd-ext and .android_secure, but not a storage card.
Partition(p) == Kind[p] \notin RawKinds \cup {"datamedia", "ramdisk"}
                /\ p \notin VoldManaged

\* erase_volume, for the wipe items and commands: unmount, whatever comes of
\* it, and format.
EraseVolume(p) ==
    /\ Partition(p)
    /\ \E u \in PathUnmounted(M0, p, TRUE) :
         \E r \in FormatVolume(u.M, p, TRUE) : Chose("wipe", p, "", r)

\* A restore formats with the file system of the backup, but a volume of type
\* "auto", and /data of a data-media device, as format_volume does.
RestoreFormats(p) ==
    /\ Partition(p)
    /\ IF Kind[Holder[p]] = "auto" \/ (Holder[p] = "data" /\ DataMedia)
         THEN \E r \in FormatVolume(M0, p, TRUE) : Chose("restore", p, "", r)
         ELSE \E fs \in {"ext4", "vfat", "rfs"} :
                \E r \in FormatDevice(M0, p, fs) : Chose("restore", p, fs, r)

\* External: files are put on a mounted volume; vold mounts a card.
Fill(v) ==
    /\ v \in Range(mounts)
    /\ content' = [p \in Paths |-> IF p \in Inside(v) /\ content[p] = "empty"
                                  THEN "files" ELSE content[p]]
    /\ op' = NoOp
    /\ UNCHANGED <<mounts, over>>

VoldMounts(v) ==
    /\ v \in VoldManaged /\ v \notin Range(mounts)
    /\ mounts' = Append(mounts, v)
    /\ op' = NoOp
    /\ UNCHANGED <<content, over>>

VolNext ==
    \/ \E p \in Vols : MountItem(p) \/ VoldMounts(p) \/ Fill(p)
    \/ \E p \in Paths : FormatItem(p) \/ EraseVolume(p) \/ RestoreFormats(p)
    \/ \E p \in Vols, fs \in {"default", "vfat", "ext3"} : FormatSdcard(p, fs)
    \/ FormatAll

VolSpec == VolInit /\ [][VolNext]_volVars
-----------------------------------------------------------------------------
(***************************************************************************)
(* A file system is made, or a partition erased, under a mounted volume    *)
(* only if the mount's line lies beyond the 2047 bytes that                *)
(* scan_mounted_volumes reads: every path of format_volume, format_device  *)
(* and the menus unmounts first and stops when that fails.                 *)
(***************************************************************************)
NoFsUnderMount == ~over

(***************************************************************************)
(* The user's /data/media is lost only when they chose to format it:       *)
(* wiping or formatting /data, restoring it and formatting any other       *)
(* volume leave it, in every order of mounts and failures before.          *)
(***************************************************************************)
MediaKept ==
    [][\A p \in Paths :
          /\ Kind[p] = "datamedia"
          /\ content[p] = "files" /\ content'[p] # "files"
          => op'.item = "all" \/ (op'.path = p /\ op'.item = "format")]_volVars

\* A menu item is to make the volume anew: by its type, by the one asked for,
\* or because vold formats it.  The rest is emptied by rm -rf.
MakesAnew(item, p, fs) ==
    /\ p \in Vols
    /\ item = "all" \/ ~Emptied(p, TRUE)
    /\ \/ item = "mkfs" /\ (fs # "default" \/ p \in VoldManaged)
       \/ item = "restore" /\ fs \in {"ext4", "rfs"}
       \/ /\ item \in {"format", "wipe", "all"}
          /\ \/ p \in VoldManaged
             \/ Kind[p] \in {"yaffs2", "mtd", "ext4", "f2fs", "ext3", "ext2"}

(***************************************************************************)
(* A format that is to make a volume anew and returns 0 has left nothing   *)
(* on it, unless it said that it skips a missing /sd-ext.  Nothing can be  *)
(* said of a volume or directory that is emptied by rm -rf, whose result   *)
(* format_unknown_device ignores, nor of an eMMC or bml partition, which   *)
(* erase_raw_partition leaves alone.                                       *)
(***************************************************************************)
FormatEmpties ==
    MakesAnew(op.item, op.path, op.fs) /\ op.ok /\ ~op.skipped
    => content[op.path] = "empty"

(***************************************************************************)
(* The volumes' invariant: what is mounted where, what a format may be     *)
(* done to and what it has done when it reports success (roots.c).         *)
(***************************************************************************)
VolInv == VolTypeOK /\ NoFsUnderMount /\ FormatEmpties
=============================================================================
