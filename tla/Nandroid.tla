------------------------------ MODULE Nandroid ------------------------------
(***************************************************************************)
(* Backup and restore of the device's partitions (nandroid.c) and the      *)
(* checksum file that guards a restore (nandroid_md5.c).                   *)
(*                                                                         *)
(* A backup directory is a set of image files: one for a raw partition or  *)
(* a deduplicated one, and for a tar archive an empty marker (file 0) with *)
(* the archive itself cut into pieces 1..n.  A file is "ok" when it holds  *)
(* what was to be written, "cut" when dedupe has written less of it        *)
(* without noticing, "bad" when it is unfinished or damaged.               *)
(***************************************************************************)
EXTENDS Naturals, Sequences, FiniteSets, FiniteSetsExt

CONSTANTS
  BackupOrder,   \* the partitions nandroid_backup() visits, in its order
  RestoreOrder,  \* the partitions nandroid_restore() visits, in its order
  RawParts,      \* those on mtd, bml or emmc: copied as raw images
  Sought,        \* those whose file system is one of the seven a restore
                 \* looks for an image of (exfat and ntfs are not)
  Swept,         \* those a restore empties by rm -rf instead of making their
                 \* file system anew: /data beside its media, .android_secure
  Optional,      \* those a backup skips when the device lacks them
  Group,         \* the menu entry a partition is restored under
  Formats,       \* the backup formats the user may have configured
  MaxChunks,     \* pieces an archive is cut into, at most
  MaxChecked,    \* MAX_FILES_CHECKED
  MaxFaults,     \* files lost or damaged after the backup, at most
  MaxRestores    \* restores the user starts, at most

VARIABLES
  part,     \* content of each partition: "v1", "v2", "empty", "junk", or
            \* "mixed": the files of v1 among older ones
  dir,      \* the files of the backup directory
  md5,      \* what nandroid.md5 says of each file ("none": no line)
  job,      \* "idle", "backup", "writing", "check", "restore",
            \* "formatted"
  todo,     \* partitions the running job still has to visit
  flags,    \* entries selected for the restore
  ret,      \* "none", "ok" or "error": what the last job returned;
            \* "old" when something has changed since
  asked,    \* the user was asked to confirm during the md5 check
  fmt,      \* the format of this backup
  faults, restores

nandroidVars == <<part, dir, md5, job, todo, flags, ret, asked, fmt,
                  faults, restores>>

Parts == {BackupOrder[i] : i \in 1..Len(BackupOrder)}
Files == Parts \X (0..MaxChunks)

ASSUME NandroidAssumption ==
  /\ BackupOrder \in Seq(Parts) /\ IsFiniteSet(Parts)
  /\ RestoreOrder \in Seq(Parts)
  /\ Formats # {} /\ MaxChunks \in Nat \ {0} /\ MaxChecked \in Nat
  /\ MaxFaults \in Nat /\ MaxRestores \in Nat

NandroidTypeOK ==
  /\ part \in [Parts -> {"v1", "v2", "empty", "junk", "mixed"}]
  /\ dir \in [Files -> {"none", "ok", "cut", "bad"}]
  /\ md5 \in [Files -> {"none", "ok", "cut", "bad"}]
  /\ job \in {"idle", "backup", "writing", "check", "restore",
              "formatted"}
  /\ flags \subseteq {Group[p] : p \in Parts}
  /\ ret \in {"none", "ok", "error", "old"}
  /\ job = "idle" => todo = <<>>
  /\ asked \in BOOLEAN
  /\ fmt \in Formats
  /\ faults \in 0..MaxFaults /\ restores \in 0..MaxRestores

NandroidInit ==
  /\ part = [p \in Parts |-> "v1"]
  /\ dir = [f \in Files |-> "none"] /\ md5 = [f \in Files |-> "none"]
  /\ job = "idle" /\ todo = <<>> /\ flags = {}
  /\ ret = "none" /\ asked = FALSE
  /\ fmt = CHOOSE x \in Formats : TRUE
  /\ faults = 0 /\ restores = 0

Present   == {f \in Files : dir[f] # "none"}
FilesOf(p) == {f \in Present : f[1] = p}

(* print_and_error: the job ends where it is, nothing is undone.           *)
Fails ==
  /\ job' = "idle" /\ ret' = "error"
  /\ todo' = <<>>

-----------------------------------------------------------------------------
(* nandroid_backup.                                                        *)

(* The directory is named after the time: it is new.                       *)
BackupStart ==
  /\ job = "idle" /\ Present = {} /\ ret = "none"
  /\ \E g \in Formats : fmt' = g
  /\ \/ Fails          \* the storage cannot be mounted, found or statted
     \/ job' = "backup" /\ todo' = BackupOrder /\ UNCHANGED ret
  /\ UNCHANGED <<part, dir, md5, flags, asked, faults, restores>>

(* The files get_backup_handler's choice makes for p when its data fills   *)
(* n pieces.                                                               *)
ImageFiles(p, n) ==
  IF p \in RawParts \/ fmt = "dup" THEN {<<p, 0>>} ELSE {p} \X (0..n)

BackupBegin ==
  /\ job = "backup" /\ todo # <<>>
  /\ \/ Fails /\ UNCHANGED dir                     \* cannot be mounted
     \/ /\ \E n \in 1..MaxChunks :
             dir' = [f \in Files |-> IF f \in ImageFiles(Head(todo), n)
                                       THEN "bad" ELSE dir[f]]
        /\ job' = "writing"
        /\ UNCHANGED <<todo, ret>>
  /\ UNCHANGED <<part, md5, flags, asked, fmt, faults, restores>>

(* A partition or directory that the device lacks is passed over.          *)
BackupSkips ==
  /\ job = "backup" /\ todo # <<>> /\ Head(todo) \in Optional
  /\ todo' = Tail(todo)
  /\ UNCHANGED <<part, dir, md5, job, flags, ret, asked, fmt, faults, restores>>

(* The handler's exit status decides: pclose() of a pipeline that stops at *)
(* its first failure.  That of dedupe says nothing of its manifest, which  *)
(* a full disk may have cut.                                               *)
Written(p) == IF p \notin RawParts /\ fmt = "dup" THEN {"ok", "cut"} ELSE {"ok"}

BackupEnd ==
  /\ job = "writing"
  /\ \/ /\ \E c \in Written(Head(todo)) :
             dir' = [f \in Files |-> IF f \in FilesOf(Head(todo))
                                       THEN c ELSE dir[f]]
        /\ job' = "backup" /\ todo' = Tail(todo)
        /\ UNCHANGED ret
     \/ Fails /\ UNCHANGED dir
  /\ UNCHANGED <<part, md5, flags, asked, fmt, faults, restores>>

(* The first MAX_FILES_CHECKED of S in directory order, which is any.      *)
Listed(S) == kSubset(Min({Cardinality(S), MaxChecked}), S)

(* nandroid_backup_md5_gen writes the lines L of the names S it has read.  *)
Md5Lines(L) == [f \in Files |-> IF f \in L THEN dir[f] ELSE "none"]

(* A file that cannot be read gets no line; nandroid.md5 may not be        *)
(* creatable, and power may go after any of the lines.                     *)
Md5Gen ==
  /\ job = "backup" /\ todo = <<>>
  /\ \E S \in Listed(Present) : \E L \in SUBSET S :
       /\ md5' = Md5Lines(L)
       /\ Fails \/ (job' = "idle" /\ ret' = "ok" /\ UNCHANGED todo)
  /\ UNCHANGED <<part, dir, flags, asked, fmt, faults, restores>>

-----------------------------------------------------------------------------
(* nandroid_restore.                                                       *)

(* The restore menus: everything, or the entries ticked in the advanced    *)
(* menu.                                                                   *)
MenuFlags == SUBSET {Group[RestoreOrder[i]] : i \in 1..Len(RestoreOrder)}

RestoreStart ==
  /\ job = "idle" /\ Present # {} /\ restores < MaxRestores
  /\ restores' = restores + 1
  /\ flags' \in MenuFlags
  /\ asked' = FALSE
  /\ \/ Fails                                   \* storage not mounted
     \/ job' = "check" /\ todo' = RestoreOrder /\ UNCHANGED ret
  /\ UNCHANGED <<part, dir, md5, fmt, faults>>

(* is_selected_for_restore: by the entry's name within the file name.      *)
Selected(f) == Group[f[1]] \in flags

(* The selected files nandroid.md5 has lines for.                          *)
Lines == {f \in Files : md5[f] # "none" /\ Selected(f)}

(* Files nandroid.md5 lists and the directory lacks, and files it does not *)
(* list: each kind needs the user's consent (and fails without a screen).  *)
Doubtful(seen) == (Lines \ seen) \union (seen \ Lines)

(* Some listed file does not have the sum it had.                          *)
Differs(seen) == \E f \in seen \cap Lines : dir[f] # md5[f]

(* Mutant: a file without a line in nandroid.md5 is taken as verified.     *)
Md5CheckLax ==
  /\ job = "check"
  /\ \E seen \in Listed({f \in Present : Selected(f)}) :
       \/ Fails /\ asked' = FALSE
       \/ /\ seen # {} /\ ~Differs(seen)
          /\ asked' = (Lines \ seen # {})
          /\ job' = "restore"
          /\ UNCHANGED <<todo, ret>>
  /\ UNCHANGED <<part, dir, md5, flags, fmt, faults, restores>>

(* nandroid_restore_md5_check after it has read the names `seen' of the    *)
(* directory: doubt is put to the user, a difference is fatal.             *)
Md5Check ==
  /\ job = "check"
  /\ \E seen \in Listed({f \in Present : Selected(f)}) :
       \/ Fails /\ asked' = (Doubtful(seen) # {} /\ seen # {})
       \/ /\ seen # {} /\ ~Differs(seen)
          /\ asked' = (Doubtful(seen) # {})
          /\ job' = "restore"
          /\ UNCHANGED <<todo, ret>>
  /\ UNCHANGED <<part, dir, md5, flags, fmt, faults, restores>>

(* What extracting p's image leaves, and whether the command reports       *)
(* success.  An archive with a piece missing ends early and says so; a     *)
(* damaged one may or may not be noticed.  What rm -rf has left stays.     *)
Outcomes(p) ==
  LET whole == \E n \in 1..MaxChunks : FilesOf(p) = ImageFiles(p, n)
      sound == \A f \in FilesOf(p) : dir[f] = "ok"
  IN {<<"junk", "error">>, <<"empty", "error">>}
       \union (IF FilesOf(p) # {} /\ whole /\ sound
                 THEN {<<IF part[p] = "empty" THEN "v1" ELSE "mixed", "ok">>}
                 ELSE {})
       \union (IF FilesOf(p) # {} /\ ~sound THEN {<<"junk", "ok">>} ELSE {})

(* nandroid_restore_partition_extended looks for <name>.<file system>.     *)
HasImage(p) == p \in Sought /\ dir[<<p, 0>>] # "none"

(* nandroid_restore_partition up to the format.  A raw partition is erased *)
(* before its image is looked for; another one is left alone, without an   *)
(* error, when no image of it is found.  An rm -rf that fails is not       *)
(* noticed.                                                                *)
RestoreFormat ==
  /\ job = "restore" /\ todo # <<>>
  /\ LET p == Head(todo) IN
       IF Group[p] \notin flags \/ (p \notin RawParts /\ ~HasImage(p))
         THEN todo' = Tail(todo) /\ UNCHANGED <<part, job, ret>>
         ELSE \/ Fails /\ UNCHANGED part
              \/ /\ \/ part' = [part EXCEPT ![p] = "empty"]
                    \/ p \in Swept \ RawParts /\ part' = [part EXCEPT ![p] = "junk"]
                 /\ \/ Fails                             \* cannot be mounted
                    \/ job' = "formatted" /\ UNCHANGED <<todo, ret>>
  /\ UNCHANGED <<dir, md5, flags, asked, fmt, faults, restores>>

RestoreWrite ==
  /\ job = "formatted"
  /\ \E o \in Outcomes(Head(todo)) :
       /\ part' = [part EXCEPT ![Head(todo)] = o[1]]
       /\ IF o[2] = "ok"
            THEN job' = "restore" /\ todo' = Tail(todo) /\ UNCHANGED ret
            ELSE Fails
  /\ UNCHANGED <<dir, md5, flags, asked, fmt, faults, restores>>

RestoreDone ==
  /\ job = "restore" /\ todo = <<>>
  /\ job' = "idle" /\ ret' = "ok"
  /\ UNCHANGED <<part, dir, md5, todo, flags, asked, fmt, faults,
                 restores>>

-----------------------------------------------------------------------------
(* The surroundings.                                                       *)

(* Android runs, and changes the partitions.                               *)
Use ==
  /\ job = "idle" /\ ret # "none" /\ \E p \in Parts : part[p] = "v1"
  /\ part' = [p \in Parts |-> IF part[p] = "v1" THEN "v2" ELSE part[p]]
  /\ ret' = "old"
  /\ UNCHANGED <<dir, md5, job, todo, flags, asked, fmt, faults,
                 restores>>

(* The storage loses or damages a file of the finished backup.             *)
Damage ==
  /\ job = "idle" /\ faults < MaxFaults
  /\ \E f \in Present, c \in {"none", "bad"} :
       dir[f] # "bad" /\ dir' = [dir EXCEPT ![f] = c]
  /\ faults' = faults + 1
  /\ ret' = "old"
  /\ UNCHANGED <<part, md5, job, todo, flags, asked, fmt, restores>>

(* "Delete" in the menu: rm -rf.                                           *)
DeleteBackup ==
  /\ job = "idle" /\ Present # {}
  /\ dir' = [f \in Files |-> "none"] /\ md5' = [f \in Files |-> "none"]
  /\ ret' = "old"
  /\ UNCHANGED <<part, job, todo, flags, asked, fmt, faults, restores>>

(* The battery is pulled; a partition being written is left in between.    *)
PowerLoss ==
  /\ job # "idle"
  /\ Fails
  /\ IF job = "formatted"
       THEN \E c \in {"empty", "junk"} : part' = [part EXCEPT ![Head(todo)] = c]
       ELSE UNCHANGED part
  /\ UNCHANGED <<dir, md5, flags, asked, fmt, faults, restores>>

NandroidNext ==
  \/ BackupStart \/ BackupBegin \/ BackupSkips \/ BackupEnd
  \/ Md5Gen
  \/ RestoreStart \/ Md5Check \/ RestoreFormat \/ RestoreWrite \/ RestoreDone
  \/ Use \/ Damage \/ DeleteBackup \/ PowerLoss

NandroidSpec == NandroidInit /\ [][NandroidNext]_nandroidVars

-----------------------------------------------------------------------------
Restored == {RestoreOrder[i] : i \in 1..Len(RestoreOrder)}
JustRestored == job = "idle" /\ ret = "ok" /\ restores > 0

(* A restore that reports success without having asked the user anything   *)
(* has put back exactly what was backed up on every partition it found an  *)
(* image of, whatever was damaged, lost or interrupted before -- as long   *)
(* as the md5 check could look at every file (MAX_FILES_CHECKED) and the   *)
(* image was whole when its sum was taken: a manifest that a full disk cut *)
(* is restored as it is.  Where the restore empties by rm -rf, whose       *)
(* result it ignores, older files may lie among those of the backup.       *)
SilentRestoreIsExact ==
  (/\ JustRestored /\ ~asked
   /\ Cardinality({f \in Present : Selected(f)}) <= MaxChecked)
    => \A p \in Restored :
         (/\ Group[p] \in flags /\ p \in RawParts \cup Sought
          /\ dir[<<p, 0>>] # "none" /\ \A f \in FilesOf(p) : dir[f] # "cut")
           => part[p] = "v1" \/ (p \in Swept \ RawParts /\ part[p] = "mixed")

(* A restore that reports success leaves no selected partition erased that *)
(* has an image it looks for (a raw one needs one), not even one that an   *)
(* earlier, failed restore had erased, and whether or not the user         *)
(* overrode the check.                                                     *)
SuccessFillsPartitions ==
  JustRestored =>
    \A p \in Restored :
      (Group[p] \in flags /\ (p \in RawParts \/ HasImage(p)))
        => part[p] # "empty"

(* What a restore that reports success guarantees, after any backups,      *)
(* damage and failed restores (nandroid_restore, nandroid.c).              *)
NandroidInv ==
  /\ NandroidTypeOK
  /\ SuccessFillsPartitions
  /\ SilentRestoreIsExact

=============================================================================
