----------------------------- MODULE ApplyPatch -----------------------------
(***************************************************************************)
(* An update script that patches files and partitions with applypatch(),   *)
(* which a power loss or an I/O error may stop anywhere and which is then  *)
(* run again from its first line.  Sources: applypatch/applypatch.c        *)
(* (applypatch, GenerateTarget, applypatch_check, LoadFileContents,        *)
(* SaveFileContents, WriteToPartition) and the edify functions             *)
(* apply_patch and apply_patch_check of updater/install.c.                 *)
(*                                                                         *)
(* A call of apply_patch that fails has the value "" (ApplyPatchFn): only  *)
(* an assertion around the call, or an abort() behind ||, ends the script. *)
(* Which calls have one is a parameter, Asserted; after a failure of any   *)
(* other call the script goes on with the next item.                       *)
(*                                                                         *)
(* An item of the script is one apply_patch call.  The bytes of a file are *)
(* abstracted to whether they are the version the patch starts from, the   *)
(* version it produces, anything else, or no file at all; that is all the  *)
(* SHA-1 comparisons of the code tell apart.                               *)
(***************************************************************************)
EXTENDS Naturals, Sequences

CONSTANTS
  Items,       \* the apply_patch calls of the script
  Locations,   \* file names and partition names
  Partitions,  \* the locations of the form MTD:... or EMMC:...
  Src, Tgt,    \* source_filename and target_filename of an item
  Script,      \* the items in the order of the script
  Checks,      \* the items the script first asserts apply_patch_check for
  Asserted     \* the items whose apply_patch call is asserted

Old(i)   == <<"old", i>>
New(i)   == <<"new", i>>
Missing  == <<"missing">>
Junk     == <<"junk">>
Contents == {Missing, Junk} \cup ({"old", "new"} \X Items)

ASSUME ItemsAssumption ==
  /\ Partitions \subseteq Locations
  /\ Src \in [Items -> Locations]
  /\ Tgt \in [Items -> Locations]
  /\ Script \in Seq(Items) /\ Script # <<>>
  /\ Checks \subseteq Items
  /\ Asserted \subseteq Items

(* Different calls work on different files.                                *)
ASSUME DisjointAssumption ==
  \A i, j \in Items : i # j => {Src[i], Tgt[i]} \cap {Src[j], Tgt[j]} = {}

VARIABLES
  content,   \* what is stored at each location
  copy,      \* what is stored in CACHE_TEMP_SOURCE
  pc,        \* the next step of the script's process ("idle": not running)
  pos,       \* the line of the script
  use,       \* source_to_use: the "source" file or the "copy" in the cache
  retry,     \* GenerateTarget's retry
  madeCopy,  \* GenerateTarget's made_copy
  outcome    \* how the last run of the script ended

vars == <<content, copy, pc, pos, use, retry, madeCopy, outcome>>

item   == Script[pos]
OnPart == Tgt[item] \in Partitions

Pcs == {"idle", "check", "load", "space", "save", "save_write", "unlink_source",
        "patch", "rename", "partition", "partition_write", "drop_copy"}

TypeOK ==
  /\ content \in [Locations -> Contents]
  /\ copy \in Contents
  /\ pc \in Pcs
  /\ pos \in 1..Len(Script)
  /\ use \in {"source", "copy"}
  /\ retry \in 0..1
  /\ madeCopy \in BOOLEAN
  /\ outcome \in {"none", "ok", "failed"}

(* Every source is in place; a copy of something may be left in the cache. *)
Init ==
  /\ content = [l \in Locations |->
                  IF \E i \in Items : Src[i] = l
                  THEN Old(CHOOSE i \in Items : Src[i] = l)
                  ELSE Missing]
  /\ copy \in {Missing, Junk}
  /\ pc = "idle"
  /\ pos = 1
  /\ use = "source"
  /\ retry = 1
  /\ madeCopy = FALSE
  /\ outcome = "none"

-----------------------------------------------------------------------------
StartScript ==
  /\ pc = "idle"
  /\ pc' = IF Checks # {} THEN "check" ELSE "load"
  /\ pos' = 1
  /\ outcome' = "none"
  /\ UNCHANGED <<content, copy, use, retry, madeCopy>>

(* A failed assertion ends the script, and so does a power loss.           *)
Abort ==
  /\ pc' = "idle"
  /\ outcome' = "failed"
  /\ UNCHANGED pos

(* The end of the script is a success, whatever its last call returned.    *)
NextItem ==
  IF pos < Len(Script)
  THEN pos' = pos + 1 /\ pc' = "load" /\ UNCHANGED outcome
  ELSE pc' = "idle" /\ outcome' = "ok" /\ UNCHANGED pos

(* applypatch() returned nonzero, and apply_patch gives "".                *)
ReturnFailure == IF item \in Asserted THEN Abort ELSE NextItem

(* applypatch_check: a partition must load as one of the versions its name *)
(* lists; no hashes are given for it, so that the cached copy never helps. *)
(* A file must exist (-ENOENT is returned before the cache is looked at)   *)
(* and it, or the copy, must have one of the hashes.                       *)
CheckPasses(i) ==
  \/ content[Src[i]] \in {Old(i), New(i)}
  \/ /\ Src[i] \notin Partitions
     /\ content[Src[i]] # Missing
     /\ copy \in {Old(i), New(i)}

Check ==
  /\ pc = "check"
  /\ IF item \in Checks /\ ~CheckPasses(item)
     THEN Abort
     ELSE /\ IF pos < Len(Script)
             THEN pos' = pos + 1 /\ UNCHANGED pc
             ELSE pos' = 1 /\ pc' = "load"
          /\ UNCHANGED outcome
  /\ UNCHANGED <<content, copy, use, retry, madeCopy>>

(* Mutant: the hash of the target is not compared.                         *)
AlreadyThere ==
  /\ pc = "load"
  /\ content[Tgt[item]] # Missing
  /\ NextItem
  /\ UNCHANGED <<content, copy, use, retry, madeCopy>>

(* applypatch(): "the patch was already applied".                          *)
AlreadyTarget ==
  /\ pc = "load"
  /\ content[Tgt[item]] = New(item)
  /\ NextItem
  /\ UNCHANGED <<content, copy, use, retry, madeCopy>>

(* Mutant: the copy in the cache is not tried.                             *)
LoadSourceOnly ==
  /\ pc = "load"
  /\ content[Tgt[item]] # New(item)
  /\ IF content[Src[item]] = Old(item)
     THEN use' = "source" /\ pc' = "space" /\ UNCHANGED <<pos, outcome>>
     ELSE ReturnFailure /\ UNCHANGED use
  /\ retry' = 1
  /\ madeCopy' = FALSE
  /\ UNCHANGED <<content, copy>>

(* The source, or else the copy, must be what the patch starts from: its   *)
(* load must succeed and its hash be found by FindMatchingPatch.           *)
LoadSource ==
  /\ pc = "load"
  /\ content[Tgt[item]] # New(item)
  /\ \/ /\ content[Src[item]] = Old(item)
        /\ use' = "source"
        /\ pc' = "space"
        /\ UNCHANGED <<pos, outcome>>
     \/ /\ content[Src[item]] # Old(item)
        /\ copy = Old(item)
        /\ use' = "copy"
        /\ pc' = "space"
        /\ UNCHANGED <<pos, outcome>>
     \/ /\ content[Src[item]] # Old(item)
        /\ copy # Old(item)
        /\ ReturnFailure
        /\ UNCHANGED use
  /\ retry' = 1
  /\ madeCopy' = FALSE
  /\ UNCHANGED <<content, copy>>

-----------------------------------------------------------------------------
(* GenerateTarget().                                                       *)

(* A partition is always backed up first; a file only when it has to be    *)
(* deleted to make room.  Free space is the environment's choice.          *)
CheckSpace ==
  /\ pc = "space"
  /\ \/ /\ OnPart
        /\ retry' = 0
        /\ pc' = "save"
        /\ UNCHANGED <<pos, outcome>>
     \/ /\ ~OnPart /\ retry > 0                       \* enough_space
        /\ pc' = "patch"
        /\ UNCHANGED <<pos, retry, outcome>>
     \/ /\ ~OnPart                                    \* !enough_space
        /\ retry' = 0
        /\ \/ use = "copy" /\ pc' = "patch" /\ UNCHANGED <<pos, outcome>>
           \/ /\ use = "source" /\ Src[item] \notin Partitions
              /\ pc' = "save" /\ UNCHANGED <<pos, outcome>>
           \/ use = "source" /\ Src[item] \in Partitions /\ ReturnFailure
  /\ UNCHANGED <<content, copy, use, madeCopy>>

(* MakeFreeSpaceOnCache fails, or the copy cannot be opened.               *)
NoSpaceOnCache ==
  /\ pc = "save"
  /\ ReturnFailure
  /\ UNCHANGED <<content, copy, use, retry, madeCopy>>

(* SaveFileContents(CACHE_TEMP_SOURCE, source_file): open with O_TRUNC...  *)
SaveTruncates ==
  /\ pc = "save"
  /\ copy' = Junk
  /\ pc' = "save_write"
  /\ UNCHANGED <<content, pos, use, retry, madeCopy, outcome>>

(* Mutant: the copy is not flushed before the source is deleted.           *)
SaveNotFlushed ==
  /\ pc = "save_write"
  /\ madeCopy' = TRUE
  /\ pc' = IF OnPart THEN "patch" ELSE "unlink_source"
  /\ UNCHANGED <<content, copy, pos, use, retry, outcome>>

(* ...then write and fsync.  source_file has no data when the copy is what *)
(* is being patched, and the write fails.                                  *)
SaveWrites ==
  /\ pc = "save_write"
  /\ \/ /\ use = "source"
        /\ copy' = Old(item)
        /\ madeCopy' = TRUE
        /\ pc' = IF OnPart THEN "patch" ELSE "unlink_source"
        /\ UNCHANGED <<pos, outcome>>
     \/ /\ use = "copy"
        /\ ReturnFailure
        /\ UNCHANGED <<copy, madeCopy>>
  /\ UNCHANGED <<content, use, retry>>

SaveFails ==
  /\ pc = "save_write"
  /\ ReturnFailure
  /\ UNCHANGED <<content, copy, use, retry, madeCopy>>

UnlinkSource ==
  /\ pc = "unlink_source"
  /\ content' = [content EXCEPT ![Src[item]] = Missing]
  /\ pc' = "patch"
  /\ UNCHANGED <<copy, pos, use, retry, madeCopy, outcome>>

(* The output goes to <target>.patch, or to memory for a partition.        *)
PatchApplies ==
  /\ pc = "patch"
  /\ pc' = IF OnPart THEN "partition" ELSE "rename"
  /\ UNCHANGED <<content, copy, pos, use, retry, madeCopy, outcome>>

(* The output does not fit: once more, without the source in the way.      *)
PatchFails ==
  /\ pc = "patch"
  /\ IF retry = 0
     THEN ReturnFailure /\ UNCHANGED retry
     ELSE retry' = 0 /\ pc' = "space" /\ UNCHANGED <<pos, outcome>>
  /\ UNCHANGED <<content, copy, use, madeCopy>>

(* Mutant: the output replaces the source file.                            *)
RenameToSource ==
  /\ pc = "rename"
  /\ content' = [content EXCEPT ![Src[item]] = New(item)]
  /\ pc' = "drop_copy"
  /\ UNCHANGED <<copy, pos, use, retry, madeCopy, outcome>>

RenameOutput ==
  /\ pc = "rename"
  /\ content' = [content EXCEPT ![Tgt[item]] = New(item)]
  /\ pc' = "drop_copy"
  /\ UNCHANGED <<copy, pos, use, retry, madeCopy, outcome>>

(* WriteToPartition: the old contents are gone before the new are there.   *)
PartitionWriteStarts ==
  /\ pc = "partition"
  /\ content' = [content EXCEPT ![Tgt[item]] = Junk]
  /\ pc' = "partition_write"
  /\ UNCHANGED <<copy, pos, use, retry, madeCopy, outcome>>

PartitionWriteEnds ==
  /\ pc = "partition_write"
  /\ content' = [content EXCEPT ![Tgt[item]] = New(item)]
  /\ pc' = "drop_copy"
  /\ UNCHANGED <<copy, pos, use, retry, madeCopy, outcome>>

(* chmod, chown, rename or a write to the partition fails.                 *)
OutputFails ==
  /\ pc \in {"rename", "partition", "partition_write"}
  /\ ReturnFailure
  /\ UNCHANGED <<content, copy, use, retry, madeCopy>>

(* "If this run of applypatch created the copy [...] we can delete it."    *)
DropCopy ==
  /\ pc = "drop_copy"
  /\ copy' = IF madeCopy THEN Missing ELSE copy
  /\ NextItem
  /\ UNCHANGED <<content, use, retry, madeCopy>>

Crash ==
  /\ pc # "idle"
  /\ Abort
  /\ UNCHANGED <<content, copy, use, retry, madeCopy>>

-----------------------------------------------------------------------------
Step ==
  \/ StartScript \/ Check \/ AlreadyTarget \/ LoadSource \/ CheckSpace
  \/ SaveTruncates \/ SaveWrites \/ UnlinkSource \/ PatchApplies
  \/ RenameOutput \/ PartitionWriteStarts \/ PartitionWriteEnds \/ DropCopy

Failure == NoSpaceOnCache \/ SaveFails \/ PatchFails \/ OutputFails \/ Crash

Next == Step \/ Failure

Spec == Init /\ [][Next]_vars

(* The update is tried again until it succeeds, and failures end.          *)
FairSpec == Spec /\ WF_vars(Step) /\ <>[][Step]_vars

-----------------------------------------------------------------------------
(* "safe (the original file is not touched until we have the desired       *)
(* replacement for it) and idempotent" (applypatch.c:675-678): at every    *)
(* moment each item is patched or can still be, from its source or from    *)
(* the copy in the cache, although there is a single copy for all items.   *)
Recoverable ==
  \A i \in Items : \/ content[Tgt[i]] = New(i)
                   \/ content[Src[i]] = Old(i)
                   \/ copy = Old(i)

Patched(i) == content[Tgt[i]] = New(i)

(* The asserted items on the first m - 1 lines are patched.                *)
BeforeDone(m) ==
  \A n \in 1..(m - 1) : Script[n] \in Asserted => Patched(Script[n])

(* A script that reports success has patched everything it asserts, also   *)
(* if earlier runs of it were interrupted and other calls failed.          *)
SuccessMeansPatched == outcome = "ok" => BeforeDone(Len(Script) + 1)

(* Restarted often enough the update gets done, whatever was interrupted:  *)
(* once power stays on and calls stop failing, the script comes to its end *)
(* with everything it asserts patched.                                     *)
Completes == <>(outcome = "ok" /\ BeforeDone(Len(Script) + 1))

-----------------------------------------------------------------------------
(* What Recoverable and Completes need of a script.  A partition must not  *)
(* be patched in place.  And since the copy belongs to the last call that  *)
(* wrote it, the script must not go on past a failed call that may depend  *)
(* on the copy, nor come back to one: each but the last is asserted.       *)
NoPartitionInPlace == \A i \in Items : Tgt[i] \in Partitions => Src[i] # Tgt[i]

UsesCopy(i) == Tgt[i] \in Partitions \/ Src[i] \notin Partitions

CopyAsserted ==
  \A n \in 1..(Len(Script) - 1) : UsesCopy(Script[n]) => Script[n] \in Asserted

(* The inductive invariant behind Recoverable.                             *)
AtWork == {"space", "save", "save_write", "unlink_source", "patch", "rename",
           "partition", "partition_write"}

(* There is one copy for all items; it is free for the item at pos because *)
(* an item that depends on it comes right after patched ones.              *)
CopyInUse ==
  \A j \in Items :
    \/ Patched(j)
    \/ content[Src[j]] = Old(j)
    \/ /\ copy = Old(j) /\ UsesCopy(j)
       /\ \E m \in 1..Len(Script) : Script[m] = j /\ BeforeDone(m)

PartitionSourceKept ==
  \A i \in Items : Tgt[i] \in Partitions => content[Src[i]] = Old(i)

ItemInv ==
  /\ pc \notin {"idle", "check"} => BeforeDone(pos)
  /\ pc \in AtWork => ~Patched(item)
  /\ pc = "space" \/ (pc = "patch" /\ retry # 0) =>
       IF use = "source" THEN content[Src[item]] = Old(item) ELSE copy = Old(item)
  /\ pc \in {"save", "save_write"} => content[Src[item]] = Old(item) /\ retry = 0
  /\ pc \in {"save", "save_write", "unlink_source"} => UsesCopy(item)
  /\ pc \in {"space", "save", "save_write"} => ~madeCopy
  /\ pc = "unlink_source" => copy = Old(item) /\ ~OnPart /\ retry = 0
  /\ pc = "rename" => ~OnPart
  /\ pc \in {"partition", "partition_write"} => OnPart
  /\ pc = "drop_copy" => Patched(item)
  /\ pc \in {"unlink_source", "patch", "rename", "partition",
             "partition_write", "drop_copy"} /\ madeCopy =>
       copy = Old(item) /\ retry = 0

IInv == TypeOK /\ CopyInUse /\ PartitionSourceKept /\ ItemInv

=============================================================================
