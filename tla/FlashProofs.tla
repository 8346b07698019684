---------------------------- MODULE FlashProofs -----------------------------
(***************************************************************************)
(* What an update writes: patched files, and the blocks of raw flash.      *)
(***************************************************************************)
EXTENDS ApplyPatch, MtdFlash, SequenceTheorems, TLAPS

(* A leaf that names no prover is for Zenon; the ones that need arithmetic *)
(* or the theory of functions and records name SMT.                        *)
USE ZenonT(60)

-----------------------------------------------------------------------------
(***************************************************************************)
(* For every script, whatever its length: a success that is reported means *)
(* that what the script asserts was achieved, and unless a partition is    *)
(* patched in place or a call that uses the cached copy is not asserted,   *)
(* no crash and no failed call makes an item unpatchable.                  *)
(***************************************************************************)
(* The hashes tell the versions of all items apart.                        *)
LEMMA VersionsDiffer ==
  /\ \A i, j : Old(i) = Old(j) => i = j
  /\ \A i, j : New(i) = New(j) => i = j
  /\ \A i, j : Old(i) # New(j)
  /\ \A i : Old(i) # Missing /\ Old(i) # Junk
  /\ \A i : New(i) # Missing /\ New(i) # Junk
  /\ \A i \in Items : Old(i) \in Contents /\ New(i) \in Contents
  /\ Missing \in Contents /\ Junk \in Contents
BY DEF Old, New, Missing, Junk, Contents

(* Storing something at a location of item i leaves the other items alone. *)
LEMMA OtherItems ==
  ASSUME NEW i \in Items, NEW j \in Items, i # j
  PROVE  /\ Src[i] # Src[j] /\ Src[i] # Tgt[j]
         /\ Tgt[i] # Src[j] /\ Tgt[i] # Tgt[j]
BY DisjointAssumption

LEMMA ItemType ==
  ASSUME TypeOK
  PROVE  /\ item \in Items
         /\ Src[item] \in Locations
         /\ Tgt[item] \in Locations
         /\ Len(Script) \in Nat
         /\ \A n \in 1..Len(Script) : Script[n] \in Items
BY ItemsAssumption, SMTT(60) DEF TypeOK, item

(* Type correctness: every step of the script's process, failed or not,    *)
(* keeps the contents, the position and the flags in range.                *)
LEMMA TypeStep ==
  ASSUME TypeOK, [Next]_vars
  PROVE  TypeOK'
<1> USE VersionsDiffer, ItemType, ItemsAssumption
<1>0. ASSUME ReturnFailure
      PROVE  pc' \in Pcs /\ pos' \in 1..Len(Script) /\ outcome' \in {"none", "ok", "failed"}
  BY <1>0, SMTT(60) DEF ReturnFailure, Abort, NextItem, TypeOK, Pcs
<1>1. CASE Step
  <2>1. CASE StartScript
    BY <2>1, SMTT(60) DEF StartScript, TypeOK, Pcs
  <2>2. CASE Check
    BY <2>2, SMTT(60) DEF Check, Abort, TypeOK, Pcs
  <2>3. CASE AlreadyTarget
    BY <2>3, SMTT(60) DEF AlreadyTarget, NextItem, TypeOK, Pcs
  <2>4. CASE LoadSource
    <3>1. /\ use' \in {"source", "copy"}
          /\ outcome' \in {"none", "ok", "failed"}
          /\ pc' \in Pcs
          /\ pos' \in 1..Len(Script)
      BY <2>4, <1>0 DEF LoadSource, TypeOK, Pcs
    <3>2. retry' = 1 /\ madeCopy' = FALSE /\ UNCHANGED <<content, copy>>
      BY <2>4 DEF LoadSource
    <3>3. madeCopy' \in BOOLEAN
      BY <3>2
    <3>4. retry' \in 0..1
      BY <3>2, SMTT(60)
    <3>5. UNCHANGED <<content, copy>>
      BY <3>2
    <3> QED
      BY <3>1, <3>3, <3>4, <3>5 DEF TypeOK
  <2>5. CASE CheckSpace
    BY <2>5, <1>0, SMTT(60) DEF CheckSpace, TypeOK, Pcs
  <2>6. CASE SaveTruncates
    BY <2>6 DEF SaveTruncates, TypeOK, Pcs
  <2>7. CASE SaveWrites
    BY <2>7, <1>0 DEF SaveWrites, TypeOK, Pcs
  <2>8. CASE UnlinkSource
    BY <2>8 DEF UnlinkSource, TypeOK, Pcs
  <2>9. CASE PatchApplies
    BY <2>9 DEF PatchApplies, TypeOK, Pcs
  <2>10. CASE RenameOutput
    BY <2>10 DEF RenameOutput, TypeOK, Pcs
  <2>11. CASE PartitionWriteStarts
    BY <2>11 DEF PartitionWriteStarts, TypeOK, Pcs
  <2>12. CASE PartitionWriteEnds
    BY <2>12 DEF PartitionWriteEnds, TypeOK, Pcs
  <2>13. CASE DropCopy
    BY <2>13, SMTT(60) DEF DropCopy, NextItem, TypeOK, Pcs
  <2> QED
    BY <1>1, <2>1, <2>2, <2>3, <2>4, <2>5, <2>6, <2>7, <2>8, <2>9, <2>10,
       <2>11, <2>12, <2>13 DEF Step
<1>2. CASE Failure
  BY <1>0, <1>2, SMTT(60)
     DEF Failure, NoSpaceOnCache, SaveFails, PatchFails, OutputFails, Crash,
         Abort, TypeOK, Pcs
<1>3. CASE UNCHANGED vars
  BY <1>3 DEF vars, TypeOK
<1> QED
  BY <1>1, <1>2, <1>3 DEF Next

(* The first states: every source is where it should be.                   *)
LEMMA InitInv ==
  ASSUME Init
  PROVE  IInv
<1> USE VersionsDiffer, ItemsAssumption
<1>1. TypeOK
  <2>1. content \in [Locations -> Contents]
    <3>1. ASSUME NEW l \in Locations, \E i \in Items : Src[i] = l
          PROVE  Old(CHOOSE i \in Items : Src[i] = l) \in Contents
      BY <3>1 DEF Old, Contents
    <3>2. Missing \in Contents
      BY DEF Contents
    <3> QED
      BY <3>1, <3>2 DEF Init
  <2>2. pos \in 1..Len(Script)
    <3>1. pos = 1
      BY DEF Init
    <3> QED
      BY <3>1, SMTT(60)
  <2>3. madeCopy \in BOOLEAN
    BY DEF Init
  <2>4. copy \in Contents
    BY DEF Init, Contents
  <2>5. retry \in 0..1
    <3>1. retry = 1
      BY DEF Init
    <3> QED
      BY <3>1, SMTT(60)
  <2>6. pc \in Pcs /\ use \in {"source", "copy"} /\ outcome \in {"none", "ok", "failed"}
    BY DEF Init, Pcs
  <2> QED
    BY <2>1, <2>2, <2>3, <2>4, <2>5, <2>6 DEF TypeOK
<1>2. \A i \in Items : content[Src[i]] = Old(i)
  <2> SUFFICES ASSUME NEW i \in Items
               PROVE  content[Src[i]] = Old(i)
    OBVIOUS
  <2>1. \A k \in Items : Src[k] = Src[i] => k = i
    BY OtherItems
  <2>2. (CHOOSE k \in Items : Src[k] = Src[i]) = i
    BY <2>1
  <2> QED
    BY <2>2 DEF Init
<1>3. CopyInUse /\ PartitionSourceKept
  BY <1>2 DEF CopyInUse, PartitionSourceKept
<1>4. ItemInv
  BY DEF Init, ItemInv, AtWork
<1> QED
  BY <1>1, <1>3, <1>4 DEF IInv

(* While an item writes the copy, the copy is not another item's: that     *)
(* item would be asserted and so be patched by now, or this one would.     *)
LEMMA CopyFree ==
  ASSUME CopyAsserted, IInv, pc \in {"save", "save_write"},
         NEW j \in Items, j # item
  PROVE  Patched(j) \/ content[Src[j]] = Old(j)
<1> SUFFICES ASSUME NEW m \in 1..Len(Script), Script[m] = j, BeforeDone(m),
                    UsesCopy(j), ~Patched(j)
             PROVE  FALSE
  BY DEF IInv, CopyInUse
<1>1. pos \in 1..Len(Script) /\ Len(Script) \in Nat
  BY ItemType DEF IInv, TypeOK
<1>2. BeforeDone(pos) /\ ~Patched(item) /\ UsesCopy(item)
  BY DEF IInv, ItemInv, AtWork
<1>3. CASE pos < m
  <2>1. pos \in 1..(m - 1) /\ pos \in 1..(Len(Script) - 1)
    BY <1>1, <1>3, SMTT(60)
  <2>2. item \in Asserted
    BY <1>2, <2>1 DEF CopyAsserted, item
  <2> QED
    BY <2>1, <2>2, <1>2 DEF BeforeDone, item
<1>4. CASE m < pos
  <2>1. m \in 1..(pos - 1) /\ m \in 1..(Len(Script) - 1)
    BY <1>1, <1>4, SMTT(60)
  <2>2. j \in Asserted
    BY <2>1 DEF CopyAsserted
  <2> QED
    BY <2>1, <2>2, <1>2 DEF BeforeDone
<1>5. CASE m = pos
  BY <1>5 DEF item
<1> QED
  BY <1>1, <1>3, <1>4, <1>5, SMTT(60)

(* A store to a location of the item at hand disturbs no patched item.     *)
LEMMA StoreLocal ==
  ASSUME TypeOK, ~Patched(item),
         NEW l \in {Src[item], Tgt[item]}, NEW v,
         content' = [content EXCEPT ![l] = v]
  PROVE  /\ \A j \in Items : j # item => /\ content'[Src[j]] = content[Src[j]]
                                       /\ content'[Tgt[j]] = content[Tgt[j]]
         /\ \A j \in Items : Patched(j) => Patched(j)'
         /\ \A m \in 1..Len(Script) : BeforeDone(m) => BeforeDone(m)'
<1> USE ItemsAssumption
<1>1. item \in Items /\ l \in Locations
  BY ItemType
<1>2. ASSUME NEW j \in Items, j # item
      PROVE  /\ content'[Src[j]] = content[Src[j]]
             /\ content'[Tgt[j]] = content[Tgt[j]]
  BY <1>1, <1>2, OtherItems DEF TypeOK
<1>3. \A j \in Items : Patched(j) => Patched(j)'
  BY <1>2 DEF Patched
<1>4. \A m \in 1..Len(Script) : \A n \in 1..(m - 1) : Script[n] \in Items
  BY <1>1, ItemType, SMTT(60)
<1> QED
  BY <1>2, <1>3, <1>4 DEF BeforeDone

(* A step that changes neither the stored contents nor the copy.           *)
LEMMA NothingStored ==
  ASSUME IInv, UNCHANGED <<content, copy>>
  PROVE  CopyInUse' /\ PartitionSourceKept'
BY SMTT(60) DEF IInv, CopyInUse, PartitionSourceKept, Patched, BeforeDone

(* The script goes on to its next line past an item that is patched, or    *)
(* whose call was not asserted.                                            *)
LEMMA NextItemDone ==
  ASSUME TypeOK, UNCHANGED content, BeforeDone(pos),
         item \in Asserted => Patched(item)
  PROVE  /\ pos' = pos + 1 => BeforeDone(pos)'
         /\ pos = Len(Script) => BeforeDone(Len(Script) + 1)'
<1>1. \A n \in 1..pos : Script[n] \in Asserted => Patched(Script[n])
  <2> TAKE n \in 1..pos
  <2>1. CASE n = pos
    BY <2>1 DEF item
  <2>2. CASE n # pos
    <3>1. n \in 1..(pos - 1)
      BY <2>2, SMTT(60) DEF TypeOK
    <3> QED
      BY <3>1 DEF BeforeDone
  <2> QED
    BY <2>1, <2>2
<1>2. pos \in 1..Len(Script) /\ Len(Script) \in Nat
  BY ItemType DEF TypeOK
<1>3. \A n \in 1..pos : Script[n] \in Asserted => Patched(Script[n])'
  BY <1>1 DEF Patched
<1>4. (pos + 1) - 1 = pos
  BY <1>2, SMTT(60)
<1>5. ASSUME pos' = pos + 1
      PROVE  BeforeDone(pos)'
  BY <1>3, <1>4, <1>5 DEF BeforeDone
<1>6. ASSUME pos = Len(Script)
      PROVE  BeforeDone(Len(Script) + 1)'
  BY <1>3, <1>4, <1>6 DEF BeforeDone
<1> QED
  BY <1>5, <1>6

LEMMA NextItemInv ==
  ASSUME TypeOK, NextItem, UNCHANGED content, BeforeDone(pos),
         item \in Asserted => Patched(item)
  PROVE  ItemInv'
<1>1. CASE pos < Len(Script)
  <2>1. pos' = pos + 1 /\ pc' = "load"
    BY <1>1 DEF NextItem
  <2>2. BeforeDone(pos)'
    BY <2>1, NextItemDone
  <2> QED
    BY <2>1, <2>2 DEF ItemInv, AtWork
<1>2. CASE ~(pos < Len(Script))
  BY <1>2 DEF NextItem, ItemInv, AtWork
<1> QED
  BY <1>1, <1>2

(* A run that ended leaves nothing to show, nor does a call that failed.   *)
LEMMA AbortInv ==
  ASSUME Abort
  PROVE  ItemInv'
BY DEF Abort, ItemInv, AtWork

LEMMA FailureInv ==
  ASSUME TypeOK, ReturnFailure, UNCHANGED content, BeforeDone(pos)
  PROVE  ItemInv'
<1>1. CASE item \in Asserted
  BY <1>1, AbortInv DEF ReturnFailure
<1>2. CASE item \notin Asserted
  BY <1>2, NextItemInv DEF ReturnFailure
<1> QED
  BY <1>1, <1>2

(* Every step keeps the invariant.                                         *)
LEMMA StepInv ==
  ASSUME NoPartitionInPlace, CopyAsserted, IInv, [Next]_vars
  PROVE  IInv'
<1> USE VersionsDiffer
<1>t. TypeOK /\ TypeOK' /\ item \in Items /\ CopyInUse /\ PartitionSourceKept /\ ItemInv
  BY TypeStep, ItemType DEF IInv
<1>1. CASE StartScript
  <2>1. ItemInv'
    BY <1>1, SMTT(60) DEF StartScript, ItemInv, AtWork, BeforeDone
  <2> QED
    BY <1>1, <1>t, <2>1, NothingStored DEF StartScript, IInv
<1>2. CASE Check
  <2>1. ItemInv'
    BY <1>2, AbortInv, SMTT(60) DEF Check, ItemInv, AtWork, BeforeDone
  <2> QED
    BY <1>2, <1>t, <2>1, NothingStored DEF Check, IInv
<1>3. CASE AlreadyTarget
  <2>1. ItemInv'
    BY <1>3, <1>t, NextItemInv DEF AlreadyTarget, ItemInv, Patched
  <2> QED
    BY <1>3, <1>t, <2>1, NothingStored DEF AlreadyTarget, IInv
<1>4. CASE LoadSource
  <2>0. BeforeDone(pos) /\ content' = content
    BY <1>4, <1>t DEF LoadSource, ItemInv
  <2>1. ItemInv'
    <3>1. CASE ReturnFailure
      BY <1>t, <2>0, <3>1, FailureInv
    <3>2. CASE ~ReturnFailure
      BY <1>4, <1>t, <3>2
         DEF LoadSource, ItemInv, AtWork, Patched, BeforeDone, item
    <3> QED
      BY <3>1, <3>2
  <2> QED
    BY <1>4, <1>t, <2>1, NothingStored DEF LoadSource, IInv
<1>5. CASE CheckSpace
  <2>1. OnPart => content[Src[item]] = Old(item)
    BY <1>t DEF PartitionSourceKept, OnPart
  <2>0. BeforeDone(pos) /\ content' = content
    BY <1>5, <1>t DEF CheckSpace, ItemInv
  <2>2. ItemInv'
    <3>1. CASE ReturnFailure
      BY <1>t, <2>0, <3>1, FailureInv
    <3>2. CASE ~ReturnFailure
      BY <1>5, <1>t, <2>1, <3>2
         DEF CheckSpace, ItemInv, AtWork, Patched, BeforeDone, item, OnPart, UsesCopy
    <3> QED
      BY <3>1, <3>2
  <2> QED
    BY <1>5, <1>t, <2>2, NothingStored DEF CheckSpace, IInv
<1>6. CASE SaveTruncates
  <2>1. pc = "save" /\ pc \in AtWork /\ content[Src[item]] = Old(item)
    BY <1>6, <1>t DEF SaveTruncates, ItemInv, AtWork
  <2>2. \A j \in Items : Patched(j) \/ content[Src[j]] = Old(j)
    BY <2>1, CopyFree
  <2>3. CopyInUse' /\ PartitionSourceKept'
    BY <1>6, <1>t, <2>2 DEF SaveTruncates, CopyInUse, PartitionSourceKept, Patched
  <2>4. ItemInv'
    BY <1>6, <1>t DEF SaveTruncates, ItemInv, AtWork, Patched, BeforeDone, item
  <2> QED
    BY <1>t, <2>3, <2>4 DEF IInv
<1>7. CASE SaveWrites
  <2>1. pc = "save_write" /\ pc \in AtWork /\ content[Src[item]] = Old(item)
    BY <1>7, <1>t DEF SaveWrites, ItemInv, AtWork
  <2>2. \A j \in Items : Patched(j) \/ content[Src[j]] = Old(j)
    BY <2>1, CopyFree
  <2>3. CopyInUse' /\ PartitionSourceKept'
    BY <1>7, <1>t, <2>2 DEF SaveWrites, CopyInUse, PartitionSourceKept, Patched
  <2>0. BeforeDone(pos) /\ content' = content
    BY <1>7, <1>t DEF SaveWrites, ItemInv
  <2>4. ItemInv'
    <3>1. CASE ReturnFailure
      BY <1>t, <2>0, <3>1, FailureInv
    <3>2. CASE ~ReturnFailure
      BY <1>7, <1>t, <3>2
         DEF SaveWrites, ItemInv, AtWork, Patched, BeforeDone, item, OnPart
    <3> QED
      BY <3>1, <3>2
  <2> QED
    BY <1>t, <2>3, <2>4 DEF IInv
<1>8. CASE UnlinkSource
  <2>1. /\ pc = "unlink_source" /\ ~Patched(item) /\ BeforeDone(pos)
        /\ copy = Old(item) /\ ~OnPart /\ UsesCopy(item)
    BY <1>8, <1>t DEF UnlinkSource, ItemInv, AtWork
  <2>2. /\ \A j \in Items : j # item => /\ content'[Src[j]] = content[Src[j]]
                                      /\ content'[Tgt[j]] = content[Tgt[j]]
        /\ \A j \in Items : Patched(j) => Patched(j)'
        /\ \A m \in 1..Len(Script) : BeforeDone(m) => BeforeDone(m)'
    BY <1>8, <1>t, <2>1, StoreLocal DEF UnlinkSource
  <2>3. pos \in 1..Len(Script) /\ Script[pos] = item
    BY <1>t DEF TypeOK, item
  <2>4. CopyInUse'
    BY <1>8, <1>t, <2>1, <2>2, <2>3 DEF UnlinkSource, CopyInUse
  <2>5. PartitionSourceKept'
    BY <1>t, <2>1, <2>2 DEF PartitionSourceKept, OnPart
  <2>6. pos' = pos /\ item' = item /\ copy' = copy /\ pc' = "patch"
    BY <1>8 DEF UnlinkSource, item
  <2>7. ~Patched(item)'
    <3>1. CASE Src[item] = Tgt[item]
      BY <1>8, <1>t, <2>6, <3>1, ItemType DEF UnlinkSource, Patched, TypeOK
    <3>2. CASE Src[item] # Tgt[item]
      BY <1>8, <1>t, <2>1, <2>6, <3>2, ItemType DEF UnlinkSource, Patched, TypeOK
    <3> QED
      BY <3>1, <3>2
  <2>8. ItemInv'
    BY <1>8, <1>t, <2>1, <2>2, <2>3, <2>6, <2>7 DEF UnlinkSource, ItemInv, AtWork
  <2> QED
    BY <1>t, <2>4, <2>5, <2>8 DEF IInv
<1>9. CASE PatchApplies
  <2>1. ItemInv'
    BY <1>9, <1>t DEF PatchApplies, ItemInv, AtWork, Patched, BeforeDone, item, OnPart
  <2> QED
    BY <1>9, <1>t, <2>1, NothingStored DEF PatchApplies, IInv
<1>10. CASE RenameOutput
  <2>1. /\ pc = "rename" /\ ~Patched(item) /\ BeforeDone(pos) /\ ~OnPart
        /\ (madeCopy => copy = Old(item) /\ retry = 0)
    BY <1>10, <1>t DEF RenameOutput, ItemInv, AtWork
  <2>2. /\ \A j \in Items : j # item => /\ content'[Src[j]] = content[Src[j]]
                                      /\ content'[Tgt[j]] = content[Tgt[j]]
        /\ \A j \in Items : Patched(j) => Patched(j)'
        /\ \A m \in 1..Len(Script) : BeforeDone(m) => BeforeDone(m)'
    BY <1>10, <1>t, <2>1, StoreLocal DEF RenameOutput
  <2>3. /\ pos' = pos /\ item' = item /\ copy' = copy /\ pc' = "drop_copy"
        /\ retry' = retry /\ madeCopy' = madeCopy
    BY <1>10 DEF RenameOutput, item
  <2>4. Patched(item)'
    BY <1>10, <1>t, <2>3, ItemType DEF RenameOutput, Patched, TypeOK
  <2>5. CopyInUse'
    BY <1>t, <2>2, <2>3, <2>4 DEF CopyInUse
  <2>6. PartitionSourceKept'
    BY <1>t, <2>1, <2>2 DEF PartitionSourceKept, OnPart
  <2>7. ItemInv'
    BY <1>t, <2>1, <2>2, <2>3, <2>4 DEF ItemInv, AtWork, TypeOK
  <2> QED
    BY <1>t, <2>5, <2>6, <2>7 DEF IInv
<1>11. CASE PartitionWriteStarts \/ PartitionWriteEnds
  <2>1. /\ pc \in {"partition", "partition_write"} /\ ~Patched(item)
        /\ BeforeDone(pos) /\ OnPart /\ Src[item] # Tgt[item]
        /\ (madeCopy => copy = Old(item) /\ retry = 0)
    BY <1>11, <1>t
       DEF PartitionWriteStarts, PartitionWriteEnds, ItemInv, AtWork, OnPart,
           NoPartitionInPlace
  <2>2. /\ \A j \in Items : j # item => /\ content'[Src[j]] = content[Src[j]]
                                      /\ content'[Tgt[j]] = content[Tgt[j]]
        /\ \A j \in Items : Patched(j) => Patched(j)'
        /\ \A m \in 1..Len(Script) : BeforeDone(m) => BeforeDone(m)'
    BY <1>11, <1>t, <2>1, StoreLocal DEF PartitionWriteStarts, PartitionWriteEnds
  <2>3. /\ pos' = pos /\ item' = item /\ copy' = copy
        /\ retry' = retry /\ madeCopy' = madeCopy
    BY <1>11 DEF PartitionWriteStarts, PartitionWriteEnds, item
  <2>4. content'[Src[item]] = content[Src[item]]
    BY <1>11, <1>t, <2>1, ItemType
       DEF PartitionWriteStarts, PartitionWriteEnds, TypeOK
  <2>5. content[Src[item]] = Old(item)
    BY <1>t, <2>1 DEF PartitionSourceKept, OnPart
  <2>6. CopyInUse'
    BY <1>t, <2>2, <2>3, <2>4, <2>5 DEF CopyInUse
  <2>7. PartitionSourceKept'
    BY <1>t, <2>2, <2>4, <2>5 DEF PartitionSourceKept
  <2>8. \/ pc' = "partition_write" /\ ~Patched(item)'
        \/ pc' = "drop_copy" /\ Patched(item)'
    BY <1>11, <1>t, <2>3, ItemType
       DEF PartitionWriteStarts, PartitionWriteEnds, Patched, TypeOK
  <2>9. BeforeDone(pos)' /\ OnPart'
    BY <1>t, <2>1, <2>2, <2>3 DEF TypeOK, OnPart
  <2>10. ItemInv'
    BY <2>1, <2>3, <2>8, <2>9 DEF ItemInv, AtWork
  <2> QED
    BY <1>t, <2>6, <2>7, <2>10 DEF IInv
<1>12. CASE DropCopy
  <2>1. Patched(item) /\ BeforeDone(pos) /\ (madeCopy => copy = Old(item))
    BY <1>12, <1>t DEF DropCopy, ItemInv
  <2>2. content' = content /\ NextItem /\ (copy' = copy \/ copy = Old(item))
    BY <1>12, <2>1 DEF DropCopy
  <2>3. CopyInUse'
    BY <1>t, <2>1, <2>2, SMTT(60) DEF CopyInUse, Patched, BeforeDone, Old
  <2>4. PartitionSourceKept'
    BY <1>t, <2>2 DEF PartitionSourceKept
  <2>5. ItemInv'
    BY <1>t, <2>1, <2>2, NextItemInv
  <2> QED
    BY <1>t, <2>3, <2>4, <2>5 DEF IInv
<1>13. CASE Failure
  <2>1. UNCHANGED <<content, copy>>
    BY <1>13 DEF Failure, NoSpaceOnCache, SaveFails, PatchFails, OutputFails, Crash
  <2>2. CASE Crash
    BY <1>t, <2>1, <2>2, NothingStored, AbortInv DEF IInv, Crash
  <2>4. CASE ReturnFailure /\ ~Crash
    <3>1. BeforeDone(pos)
      BY <1>13, <1>t, <2>4
         DEF Failure, NoSpaceOnCache, SaveFails, PatchFails, OutputFails, ItemInv
    <3> QED
      BY <1>t, <2>1, <2>4, <3>1, NothingStored, FailureInv DEF IInv
  <2>3. CASE PatchFails /\ ~ReturnFailure
    <3>1. /\ pc = "patch" /\ pc' = "space" /\ retry # 0 /\ ~madeCopy
          /\ UNCHANGED <<pos, use, madeCopy>>
      BY <1>t, <2>3 DEF PatchFails, ItemInv
    <3>2. ItemInv'
      BY <1>t, <2>1, <3>1 DEF ItemInv, AtWork, Patched, BeforeDone, item
    <3> QED
      BY <1>t, <2>1, <3>2, NothingStored DEF IInv
  <2> QED
    BY <1>13, <2>2, <2>3, <2>4
       DEF Failure, NoSpaceOnCache, SaveFails, PatchFails, OutputFails
<1>14. CASE UNCHANGED vars
  <2>1. ItemInv'
    BY <1>14, <1>t DEF vars, ItemInv, Patched, BeforeDone, item, OnPart
  <2> QED
    BY <1>14, <1>t, <2>1, NothingStored DEF vars, IInv
<1> QED
  BY <1>1, <1>2, <1>3, <1>4, <1>5, <1>6, <1>7, <1>8, <1>9, <1>10, <1>11, <1>12,
     <1>13, <1>14 DEF Next, Step

-----------------------------------------------------------------------------
(* How far the script has come.  This part of the invariant needs nothing  *)
(* of the copy, and holds for partitions patched in place as well.         *)
ScriptInv ==
  /\ pc \notin {"idle", "check"} => BeforeDone(pos)
  /\ pc \in AtWork => ~Patched(item)
  /\ pc = "drop_copy" => Patched(item)
  /\ outcome = "ok" => pc = "idle" /\ SuccessMeansPatched

(* NextItem, past an item that is patched or not asserted.                 *)
LEMMA NextItemScript ==
  ASSUME TypeOK, NextItem, UNCHANGED content, BeforeDone(pos),
         item \in Asserted => Patched(item), outcome # "ok"
  PROVE  ScriptInv'
<1>0. pos \in 1..Len(Script) /\ Len(Script) \in Nat
  BY ItemType DEF TypeOK
<1>1. CASE pos < Len(Script)
  <2>1. pos' = pos + 1 /\ pc' = "load" /\ outcome' # "ok"
    BY <1>1 DEF NextItem
  <2>2. BeforeDone(pos)'
    BY <2>1, NextItemDone
  <2> QED
    BY <2>1, <2>2 DEF ScriptInv, AtWork
<1>2. CASE ~(pos < Len(Script))
  <2>1. pc' = "idle" /\ pos = Len(Script)
    BY <1>0, <1>2, SMTT(60) DEF NextItem
  <2>2. SuccessMeansPatched'
    BY <2>1, NextItemDone DEF SuccessMeansPatched
  <2> QED
    BY <2>1, <2>2 DEF ScriptInv, AtWork
<1> QED
  BY <1>1, <1>2

(* Every step keeps it; only stores to the item at hand change a content.  *)
LEMMA ScriptStep ==
  ASSUME TypeOK, ScriptInv, [Next]_vars
  PROVE  ScriptInv'
<1> USE VersionsDiffer
<1>t. item \in Items /\ pos \in 1..Len(Script) /\ Len(Script) \in Nat
  BY ItemType DEF TypeOK
<1>a. ASSUME Abort PROVE ScriptInv'
  BY <1>a DEF Abort, ScriptInv, AtWork
<1>f. ASSUME ReturnFailure, content' = content, pc \notin {"idle", "check"}
      PROVE  ScriptInv'
  <2>1. BeforeDone(pos) /\ outcome # "ok"
    BY <1>f DEF ScriptInv
  <2>2. CASE item \in Asserted
    BY <1>a, <1>f, <2>2 DEF ReturnFailure
  <2>3. CASE item \notin Asserted
    BY <1>f, <2>1, <2>3, NextItemScript DEF ReturnFailure
  <2> QED
    BY <2>2, <2>3
<1>1. CASE StartScript
  BY <1>1, SMTT(60) DEF StartScript, ScriptInv, AtWork, BeforeDone
<1>2. CASE Check
  BY <1>2, <1>a, SMTT(60) DEF Check, ScriptInv, AtWork, BeforeDone
<1>3. CASE AlreadyTarget
  BY <1>3, NextItemScript DEF AlreadyTarget, ScriptInv, Patched
<1>4. CASE LoadSource
  <2>1. content' = content /\ pc \notin {"idle", "check"}
    BY <1>4 DEF LoadSource
  <2>2. CASE ~ReturnFailure
    BY <1>4, <2>2 DEF LoadSource, ScriptInv, AtWork, Patched, BeforeDone, item
  <2> QED
    BY <1>f, <2>1, <2>2
<1>5. CASE CheckSpace \/ SaveTruncates \/ SaveWrites \/ PatchApplies
  <2>1. pc \in AtWork /\ UNCHANGED content
    BY <1>5 DEF CheckSpace, SaveTruncates, SaveWrites, PatchApplies, AtWork
  <2>2. ReturnFailure \/ (pc' \in AtWork /\ UNCHANGED <<pos, outcome>>)
    <3>1. CASE CheckSpace
      BY <3>1 DEF CheckSpace, AtWork
    <3>2. CASE SaveTruncates \/ SaveWrites \/ PatchApplies
      BY <3>2 DEF SaveTruncates, SaveWrites, PatchApplies, AtWork
    <3> QED
      BY <1>5, <3>1, <3>2
  <2> QED
    BY <1>f, <2>1, <2>2 DEF ScriptInv, AtWork, Patched, BeforeDone, item
<1>6. CASE UnlinkSource \/ PartitionWriteStarts
  <2>1. PICK l \in {Src[item], Tgt[item]}, v \in {Missing, Junk} :
          content' = [content EXCEPT ![l] = v]
    BY <1>6 DEF UnlinkSource, PartitionWriteStarts
  <2>2. /\ pc \in AtWork /\ pc' \in AtWork /\ UNCHANGED <<pos, outcome>>
        /\ ~Patched(item) /\ BeforeDone(pos) /\ outcome # "ok"
    BY <1>6 DEF UnlinkSource, PartitionWriteStarts, AtWork, ScriptInv
  <2>3. BeforeDone(pos)'
    BY <1>t, <2>1, <2>2, StoreLocal
  <2>4. ~Patched(item)'
    BY <1>t, <2>1, <2>2, ItemType DEF Patched, TypeOK, item
  <2> QED
    BY <2>2, <2>3, <2>4 DEF ScriptInv, AtWork
<1>7. CASE RenameOutput \/ PartitionWriteEnds
  <2>1. /\ content' = [content EXCEPT ![Tgt[item]] = New(item)]
        /\ pc \in AtWork /\ pc' = "drop_copy" /\ UNCHANGED <<pos, outcome>>
        /\ ~Patched(item) /\ BeforeDone(pos) /\ outcome # "ok"
    BY <1>7 DEF RenameOutput, PartitionWriteEnds, AtWork, ScriptInv
  <2>2. BeforeDone(pos)'
    BY <1>t, <2>1, StoreLocal
  <2>3. Patched(item)'
    BY <1>t, <2>1, ItemType DEF Patched, TypeOK, item
  <2> QED
    BY <2>1, <2>2, <2>3 DEF ScriptInv, AtWork
<1>8. CASE DropCopy
  BY <1>8, NextItemScript DEF DropCopy, ScriptInv
<1>9. CASE Failure
  <2>1. CASE Crash
    BY <2>1, <1>a DEF Crash
  <2>2. CASE PatchFails /\ ~ReturnFailure
    BY <2>2 DEF PatchFails, ScriptInv, AtWork, Patched, BeforeDone, item
  <2>3. CASE ReturnFailure /\ ~Crash
    BY <1>9, <1>f, <2>3
       DEF Failure, NoSpaceOnCache, SaveFails, PatchFails, OutputFails
  <2> QED
    BY <1>9, <2>1, <2>2, <2>3
       DEF Failure, NoSpaceOnCache, SaveFails, PatchFails, OutputFails
<1>10. CASE UNCHANGED vars
  BY <1>10 DEF vars, ScriptInv, Patched, BeforeDone, item, SuccessMeansPatched
<1> QED
  BY <1>1, <1>2, <1>3, <1>4, <1>5, <1>6, <1>7, <1>8, <1>9, <1>10 DEF Next, Step

-----------------------------------------------------------------------------
(* applypatch() and the script that calls it keep every variable in the    *)
(* set of values the code gives it, whatever fails and wherever it stops.  *)
THEOREM TypeCorrect == Spec => []TypeOK
<1>1. Init => TypeOK
  BY InitInv DEF IInv
<1>2. TypeOK /\ [Next]_vars => TypeOK'
  BY TypeStep
<1> QED
  BY <1>1, <1>2, PTL DEF Spec

(* A script that ends without an error has patched every item whose call   *)
(* it asserts, whichever of its calls are asserted, also partitions in     *)
(* place, in whatever state earlier interrupted runs and failed calls left *)
(* files, partitions and the copy.                                         *)
THEOREM SuccessIsReal == Spec => []SuccessMeansPatched
<1> DEFINE Inv == TypeOK /\ ScriptInv
<1>1. Init => Inv
  <2>1. Init => TypeOK
    BY InitInv DEF IInv
  <2>2. Init => ScriptInv
    BY DEF Init, ScriptInv, AtWork
  <2> QED
    BY <2>1, <2>2
<1>2. Inv /\ [Next]_vars => Inv'
  BY TypeStep, ScriptStep
<1>3. Inv => SuccessMeansPatched
  BY DEF ScriptInv, SuccessMeansPatched
<1> QED
  BY <1>1, <1>2, <1>3, PTL DEF Spec

(* Unless a partition is patched in place or the script goes on past a     *)
(* failed call that uses the copy, the copy in the cache is never          *)
(* overwritten while an unpatched item depends on it, and each statement   *)
(* of applypatch finds the source or the copy it is about to use.          *)
THEOREM PatchInvariant ==
  ASSUME NoPartitionInPlace, CopyAsserted
  PROVE  Spec => []IInv
<1>1. Init => IInv
  BY InitInv
<1>2. IInv /\ [Next]_vars => IInv'
  BY StepInv
<1> QED
  BY <1>1, <1>2, PTL DEF Spec

(* For every script whose calls work on different files, that patches no   *)
(* partition in place and asserts every call that may use the cached copy, *)
(* the last one excepted: stopped anywhere and restarted any number of     *)
(* times, each target is patched or can still be patched.  Without either  *)
(* hypothesis TLC finds a script for which it is false (patch_partition,   *)
(* patch_bare).                                                            *)
THEOREM PatchingIsRecoverable ==
  ASSUME NoPartitionInPlace, CopyAsserted
  PROVE  Spec => []Recoverable
<1>1. IInv => Recoverable
  BY DEF IInv, CopyInUse, Patched, Recoverable
<1> QED
  BY <1>1, PatchInvariant, PTL

-----------------------------------------------------------------------------
(***************************************************************************)
(* MtdFlash, for every number of blocks, erase size, image, piece size and *)
(* set of bad blocks: mtd_write_data implements ByteStream, and a backup   *)
(* of a restored partition begins with the image.                          *)
(***************************************************************************)
Sealed == wpc \in {"erase", "close", "read", "done"} /\ flushed

(* Block b was written, and its bytes are those of where behind the first  *)
(* o: the places are in the order of the blocks.                           *)
WrittenAt(b, o) ==
  /\ o \in Nat /\ o + EraseSize <= Len(where)
  /\ \A j \in 1..EraseSize : where[o + j] = <<b, j>>
  /\ \A i \in 1..Len(where) : /\ i <= o <=> where[i][1] < b
                              /\ i > o + EraseSize <=> where[i][1] > b

Types ==
  /\ img \in Seq(Nat) /\ stored \in Seq(Nat) /\ src \in Seq(Nat)
  /\ rest \in Seq(Nat) /\ out \in Seq(Nat) /\ piece \in Nat
  /\ badBlocks \subseteq Blocks /\ flash \in [Blocks -> Seq(Nat)]
  /\ fpos \in 0..NBlocks /\ skipped \subseteq 0..(fpos - 1)
  /\ rpos \in 0..NBlocks /\ fails \in Nat /\ flushed \in BOOLEAN
  /\ wpc \in {"data", "flush", "erase", "close", "read", "done", "failed"}
  /\ where \in Seq(Blocks \X (1..EraseSize))

(* What the program counter says of the buffers.                           *)
Control ==
  /\ Len(stored) <= EraseSize
  /\ wpc \notin {"data", "failed"} => src = <<>> /\ rest = <<>>
  /\ wpc = "flush" => stored # <<>> /\ Len(stored) < EraseSize
  /\ ~flushed => wpc \in {"close", "read", "done"}
  /\ wpc \notin {"read", "done"} => rpos = 0 /\ out = <<>>
  /\ wpc = "done" /\ fails = 0 => rpos = NBlocks

(* The blocks behind the file position were written whole or passed over,  *)
(* and none of those written is bad.                                       *)
Places ==
  /\ badBlocks \intersect 0..(fpos - 1) \subseteq skipped
  /\ fails = 0 => skipped \subseteq badBlocks
  /\ \A b \in (0..(fpos - 1)) \ skipped :
       Len(flash[b]) = EraseSize /\ \E o \in Nat : WrittenAt(b, o)
  /\ \A i \in 1..Len(where) : where[i][1] \in (0..(fpos - 1)) \ skipped
  /\ Len(where) % EraseSize = 0

(* Flash, buffer, piece and rest of the file make the image.               *)
Pieced ==
  /\ Len(where) + Len(stored) + Len(src) + Len(rest) = Len(img)
  /\ \A i \in 1..Len(where) : OnFlash[i] = img[i]
  /\ \A i \in 1..Len(stored) : stored[i] = img[Len(where) + i]
  /\ \A i \in 1..Len(src) : src[i] = img[Len(where) + Len(stored) + i]
  /\ \A i \in 1..Len(rest) :
       rest[i] = img[Len(where) + Len(stored) + Len(src) + i]

Data ==
  /\ Sealed => stored = <<>> /\ OnFlash = PadZero(img)
  /\ ~Sealed => Pieced

(* The reader has delivered the bytes of the blocks it has gone past.      *)
Reader ==
  (wpc \in {"read", "done"} /\ fails = 0) =>
    \E n \in 0..Len(where) :
      /\ \A i \in 1..Len(where) : i <= n <=> where[i][1] < rpos
      /\ n <= Len(out) /\ (rpos <= fpos => Len(out) = n)
      /\ \A i \in 1..n : out[i] = OnFlash[i]

FlashInv == Types /\ Control /\ Places /\ Data /\ Reader

-----------------------------------------------------------------------------
(* What the operators on sequences return.                                 *)

(* The first n bytes of a sequence, and the ones behind them.              *)
LEMMA Cut ==
  ASSUME NEW S, NEW s \in Seq(S), NEW n \in 0..Len(s)
  PROVE  /\ SubSeq(s, 1, n) \in Seq(S) /\ Len(SubSeq(s, 1, n)) = n
         /\ \A i \in 1..n : SubSeq(s, 1, n)[i] = s[i]
         /\ SubSeq(s, n + 1, Len(s)) \in Seq(S)
         /\ Len(SubSeq(s, n + 1, Len(s))) = Len(s) - n
         /\ \A i \in 1..(Len(s) - n) : SubSeq(s, n + 1, Len(s))[i] = s[n + i]
<1>1. /\ Len(s) \in Nat /\ n \in Nat /\ n <= Len(s)
      /\ \A i \in 1..Len(s) : s[i] \in S
  BY ElementOfSeq, LenProperties, SMTT(60)
<1>2. /\ SubSeq(s, 1, n) \in Seq(S) /\ Len(SubSeq(s, 1, n)) = n
      /\ \A i \in 1..n : SubSeq(s, 1, n)[i] = s[i]
  <2>1. \A i \in 1..n : s[i] \in S
    BY <1>1, SMTT(60)
  <2>2. /\ SubSeq(s, 1, n) \in Seq(S)
        /\ Len(SubSeq(s, 1, n)) = IF 1 <= n THEN n - 1 + 1 ELSE 0
        /\ \A i \in 1..(n - 1 + 1) : SubSeq(s, 1, n)[i] = s[1 + i - 1]
    BY <1>1, <2>1, SubSeqProperties, SMTT(60)
  <2> QED
    BY <1>1, <2>2, SMTT(60)
<1>3. /\ SubSeq(s, n + 1, Len(s)) \in Seq(S)
      /\ Len(SubSeq(s, n + 1, Len(s))) = Len(s) - n
      /\ \A i \in 1..(Len(s) - n) : SubSeq(s, n + 1, Len(s))[i] = s[n + i]
  <2> DEFINE k == Len(s)
  <2>1. \A i \in (n + 1)..k : s[i] \in S
    BY <1>1, SMTT(60)
  <2>2. k \in Int /\ n + 1 \in Int
    BY <1>1, SMTT(60)
  <2>3. /\ SubSeq(s, n + 1, k) \in Seq(S)
        /\ Len(SubSeq(s, n + 1, k)) = IF n + 1 <= k THEN k - (n + 1) + 1 ELSE 0
        /\ \A i \in 1..(k - (n + 1) + 1) :
             SubSeq(s, n + 1, k)[i] = s[n + 1 + i - 1]
    <3> HIDE DEF k
    <3> QED  BY <2>1, <2>2, SubSeqProperties, SMTT(60)
  <2> QED
    BY <1>1, <2>3, SMTT(60)
<1> QED
  BY <1>2, <1>3

(* Two sequences, one behind the other.                                    *)
LEMMA Join ==
  ASSUME NEW S, NEW s \in Seq(S), NEW t \in Seq(S)
  PROVE  /\ s \o t \in Seq(S) /\ Len(s \o t) = Len(s) + Len(t)
         /\ \A i \in 1..Len(s) : (s \o t)[i] = s[i]
         /\ \A i \in 1..Len(t) : (s \o t)[Len(s) + i] = t[i]
<1> DEFINE m == Len(s)
           n == Len(t)
           c == s \o t
<1>1. /\ m \in Nat /\ n \in Nat /\ c \in Seq(S) /\ Len(c) = m + n
      /\ \A i \in 1..(m + n) : c[i] = IF i <= m THEN s[i] ELSE t[i - m]
  BY LenProperties, ConcatProperties
<1> HIDE DEF m, n, c
<1>2. \A i \in 1..m : c[i] = s[i]
  BY <1>1, SMTT(60)
<1>3. ASSUME NEW i \in 1..n
      PROVE  c[m + i] = t[i]
  <2>1. m + i \in 1..(m + n) /\ ~(m + i <= m) /\ (m + i) - m = i
    BY <1>1, SMTT(60)
  <2>2. c[m + i] = t[(m + i) - m]
    BY <1>1, <2>1
  <2> QED
    BY <2>1, <2>2
<1> QED
  BY <1>1, <1>2, <1>3 DEF m, n, c

(* A number of whole blocks, and some bytes more.                          *)
LEMMA WholeBlocks ==
  ASSUME NEW e \in Nat \ {0}, NEW w \in Nat, w % e = 0
  PROVE  /\ (w + e) % e = 0
         /\ \A r \in Nat : r < e => (w + r) % e = r
<1>1. PICK q \in Nat : w = e * q
  BY SMTT(60)
<1>2. (w + e) % e = 0
  BY <1>1, SMTT(60)
<1>3. ASSUME NEW r \in Nat, r < e
      PROVE  (w + r) % e = r
  BY <1>3, SMTT(60)
<1> QED
  BY <1>2, <1>3

(* PadZero on a sequence of w bytes in whole blocks and r more.            *)
LEMMA PadLength ==
  ASSUME NEW s \in Seq(Nat), NEW w \in Nat, w % EraseSize = 0,
         NEW r \in Nat, r < EraseSize, Len(s) = w + r
  PROVE  /\ r = 0 => PadZero(s) = s
         /\ r # 0 => /\ PadZero(s) \in Seq(Nat)
                     /\ Len(PadZero(s)) = w + EraseSize
                     /\ \A i \in 1..(w + EraseSize) :
                          PadZero(s)[i] = IF i <= Len(s) THEN s[i] ELSE 0
<1> DEFINE k == (EraseSize - (Len(s) % EraseSize)) % EraseSize
           z == [i \in 1..k |-> 0]
<1>1. EraseSize \in Nat \ {0}
  BY FlashAssumption
<1>2. Len(s) % EraseSize = r
  BY <1>1, WholeBlocks
<1>3. ASSUME r = 0
      PROVE  k = 0
  BY <1>1, <1>2, <1>3, SMTT(60)
<1>4. ASSUME r # 0
      PROVE  k = EraseSize - r
  <2>1. EraseSize - r \in Nat /\ EraseSize - r < EraseSize
    BY <1>1, <1>4, SMTT(60)
  <2>2. \A n \in Nat : n < EraseSize => n % EraseSize = n
    BY <1>1, SMTT(60)
  <2> QED
    BY <1>2, <2>1, <2>2
<1>5. PadZero(s) = s \o z
  BY DEF PadZero
<1>6. ASSUME r = 0
      PROVE  PadZero(s) = s
  <2>1. z = <<>>
    BY <1>3, <1>6, SMTT(60)
  <2> QED
    BY <1>5, <2>1, ConcatEmptySeq
<1>7. ASSUME r # 0
      PROVE  /\ PadZero(s) \in Seq(Nat)
             /\ Len(PadZero(s)) = w + EraseSize
             /\ \A i \in 1..(w + EraseSize) :
                  PadZero(s)[i] = IF i <= Len(s) THEN s[i] ELSE 0
  <2>1. k \in Nat /\ w + r + k = w + EraseSize
    <3>1. k = EraseSize - r
      BY <1>4, <1>7
    <3> HIDE DEF k
    <3> QED
      BY <1>1, <3>1, SMTT(60)
  <2> HIDE DEF k
  <2>2. z \in Seq(Nat) /\ Len(z) = k /\ \A i \in 1..k : z[i] = 0
    <3>1. z \in [1..k -> Nat]
      OBVIOUS
    <3> QED
      BY <2>1, <3>1, SMTT(60)
  <2> HIDE DEF z
  <2>3. /\ s \o z \in Seq(Nat) /\ Len(s \o z) = Len(s) + k
        /\ \A i \in 1..(Len(s) + k) :
             (s \o z)[i] = IF i <= Len(s) THEN s[i] ELSE z[i - Len(s)]
    BY <2>2, ConcatProperties, SMTT(60)
  <2>4. \A i \in 1..(w + r + k) : ~(i <= w + r) => z[i - (w + r)] = 0
    BY <2>1, <2>2, SMTT(60)
  <2>5. \A i \in 1..(w + r + k) :
          PadZero(s)[i] = IF i <= w + r THEN s[i] ELSE 0
    BY <1>5, <2>3, <2>4
  <2> QED
    BY <1>5, <2>1, <2>3, <2>5
<1> QED
  BY <1>6, <1>7

-----------------------------------------------------------------------------
(* The stream.                                                             *)

(* The places that were written hold bytes.                                *)
LEMMA FlashBytes ==
  ASSUME Types, Places
  PROVE  OnFlash \in Seq(Nat) /\ Len(OnFlash) = Len(where)
<1>1. Len(where) \in Nat /\ EraseSize \in Nat
  BY FlashAssumption, SMTT(60) DEF Types
<1>2. ASSUME NEW i \in 1..Len(where)
      PROVE  flash[where[i][1]][where[i][2]] \in Nat
  <2>1. where[i] \in Blocks \X (1..EraseSize)
    BY <1>2, ElementOfSeq DEF Types
  <2>2. where[i][1] \in Blocks /\ where[i][2] \in 1..EraseSize
    BY <2>1
  <2>3. flash[where[i][1]] \in Seq(Nat) /\ Len(flash[where[i][1]]) = EraseSize
    BY <1>2, <2>2 DEF Types, Places
  <2> QED
    BY <2>2, <2>3, ElementOfSeq
<1>3. OnFlash \in [1..Len(where) -> Nat]
  BY <1>2 DEF OnFlash
<1> QED
  BY <1>1, <1>3, SMTT(60)

(* Before it is sealed the stream is a beginning of the image.             *)
LEMMA StreamIs ==
  ASSUME Types, Places, Pieced
  PROVE  /\ OnFlash \o stored = SubSeq(img, 1, Len(where) + Len(stored))
         /\ Len(where) + Len(stored) \in 0..Len(img)
<1>1. /\ Len(where) \in Nat /\ Len(stored) \in Nat /\ Len(src) \in Nat
      /\ Len(rest) \in Nat /\ Len(img) \in Nat
  BY SMTT(60) DEF Types
<1>2. Len(where) + Len(stored) \in 0..Len(img)
  BY <1>1, SMTT(60) DEF Pieced
<1> DEFINE n == Len(where) + Len(stored)
<1>3. /\ OnFlash \o stored \in Seq(Nat) /\ Len(OnFlash \o stored) = n
      /\ \A i \in 1..n : (OnFlash \o stored)[i] =
           IF i <= Len(where) THEN OnFlash[i] ELSE stored[i - Len(where)]
  <2>1. /\ OnFlash \in Seq(Nat) /\ Len(OnFlash) = Len(where)
        /\ stored \in Seq(Nat)
    BY FlashBytes DEF Types
  <2>2. /\ OnFlash \o stored \in Seq(Nat)
        /\ Len(OnFlash \o stored) = Len(OnFlash) + Len(stored)
        /\ \A i \in 1..(Len(OnFlash) + Len(stored)) : (OnFlash \o stored)[i] =
             IF i <= Len(OnFlash) THEN OnFlash[i] ELSE stored[i - Len(OnFlash)]
    BY <2>1, ConcatProperties
  <2> QED
    BY <2>1, <2>2
<1>4. /\ SubSeq(img, 1, n) \in Seq(Nat) /\ Len(SubSeq(img, 1, n)) = n
      /\ \A i \in 1..n : SubSeq(img, 1, n)[i] = img[i]
  <2>1. img \in Seq(Nat)
    BY DEF Types
  <2> HIDE DEF n
  <2> QED
    BY <1>2, <2>1, Cut DEF n
<1>5. ASSUME NEW i \in 1..n
      PROVE  (OnFlash \o stored)[i] = img[i]
  <2>1. CASE i <= Len(where)
    <3>1. i \in 1..Len(where)
      BY <1>1, <2>1, SMTT(60)
    <3>2. OnFlash[i] = img[i]
      BY <3>1 DEF Pieced
    <3> QED
      BY <1>3, <2>1, <3>2
  <2>2. CASE i > Len(where)
    <3>1. i - Len(where) \in 1..Len(stored)
      BY <1>1, <2>2, SMTT(60)
    <3>2. stored[i - Len(where)] = img[Len(where) + (i - Len(where))]
      BY <3>1 DEF Pieced
    <3>3. Len(where) + (i - Len(where)) = i /\ ~(i <= Len(where))
      BY <1>1, <2>2, SMTT(60)
    <3> QED
      BY <1>3, <3>2, <3>3
  <2>3. i <= Len(where) \/ i > Len(where)
    BY <1>1, SMTT(60)
  <2> QED
    BY <2>1, <2>2, <2>3
<1> QED
  <2> HIDE DEF n
  <2> QED
    BY <1>2, <1>3, <1>4, <1>5, SeqEqual DEF n

-----------------------------------------------------------------------------
(* The types, and what the program counter says of the buffers.            *)

(* A block that is written is whole.                                       *)
LEMMA WholeBlock ==
  ASSUME Types, Control, NeedsBlock
  PROVE  BlockData \in Seq(Nat) /\ Len(BlockData) = EraseSize
<1>1. EraseSize \in Nat \ {0} /\ Len(stored) \in Nat /\ stored \in Seq(Nat)
  BY FlashAssumption, SMTT(60) DEF Types
<1>2. CASE wpc = "flush"
  <2>1. Len(stored) # 0 /\ Len(stored) < EraseSize
    BY <1>1, <1>2, EmptySeq DEF Control
  <2>2. 0 % EraseSize = 0 /\ Len(stored) = 0 + Len(stored)
    BY <1>1, SMTT(60)
  <2>3. PadZero(stored) \in Seq(Nat) /\ Len(PadZero(stored)) = 0 + EraseSize
    BY <1>1, <2>1, <2>2, PadLength
  <2> QED
    BY <1>1, <1>2, <2>3, SMTT(60) DEF BlockData
<1>3. CASE wpc # "flush" /\ stored # <<>>
  BY <1>1, <1>3 DEF NeedsBlock, BlockData
<1>4. CASE wpc # "flush" /\ stored = <<>>
  <2>1. Len(src) >= EraseSize /\ src \in Seq(Nat) /\ Len(src) \in Nat
    BY <1>1, <1>4, SMTT(60) DEF NeedsBlock, Types
  <2>2. EraseSize \in 0..Len(src)
    BY <1>1, <2>1, SMTT(60)
  <2> QED
    BY <1>4, <2>1, <2>2, Cut DEF BlockData
<1> QED
  BY <1>2, <1>3, <1>4

(* What WriteBlock does to the flash and to the list of places.            *)
LEMMA Writes ==
  ASSUME Types, Control, WriteBlock
  PROVE  /\ fpos \in Blocks /\ flash' \in [Blocks -> Seq(Nat)]
         /\ flash'[fpos] = BlockData
         /\ \A b \in Blocks : b # fpos => flash'[b] = flash[b]
         /\ where' \in Seq(Blocks \X (1..EraseSize))
         /\ Len(where') = Len(where) + EraseSize
         /\ \A i \in 1..Len(where) : where'[i] = where[i]
         /\ \A j \in 1..EraseSize : where'[Len(where) + j] = <<fpos, j>>
<1> DEFINE new == [j \in 1..EraseSize |-> <<fpos, j>>]
<1>1. EraseSize \in Nat \ {0} /\ Len(where) \in Nat /\ NBlocks \in Nat
  BY FlashAssumption, SMTT(60) DEF Types
<1>2. fpos \in Blocks
  BY <1>1, SMTT(60) DEF WriteBlock, Types, Blocks
<1>3. flash' = [flash EXCEPT ![fpos] = BlockData] /\ where' = where \o new
  BY DEF WriteBlock
<1>4. BlockData \in Seq(Nat) /\ flash \in [Blocks -> Seq(Nat)]
  BY WholeBlock DEF WriteBlock, Types
<1>5. /\ flash' \in [Blocks -> Seq(Nat)] /\ flash'[fpos] = BlockData
      /\ \A b \in Blocks : b # fpos => flash'[b] = flash[b]
  BY <1>2, <1>3, <1>4
<1>6. /\ new \in Seq(Blocks \X (1..EraseSize)) /\ Len(new) = EraseSize
      /\ \A j \in 1..EraseSize : new[j] = <<fpos, j>>
  <2>1. new \in [1..EraseSize -> Blocks \X (1..EraseSize)]
    BY <1>2
  <2> QED
    BY <1>1, <2>1, SMTT(60)
<1> HIDE DEF new
<1>7. where \in Seq(Blocks \X (1..EraseSize))
  BY DEF Types
<1>8. /\ where \o new \in Seq(Blocks \X (1..EraseSize))
      /\ Len(where \o new) = Len(where) + Len(new)
      /\ \A i \in 1..Len(where) : (where \o new)[i] = where[i]
      /\ \A i \in 1..Len(new) : (where \o new)[Len(where) + i] = new[i]
  <2>1. new \in Seq(Blocks \X (1..EraseSize))
    BY <1>6
  <2> QED
    BY <1>7, <2>1, Join, SMTT(60)
<1>9. /\ where' \in Seq(Blocks \X (1..EraseSize))
      /\ Len(where') = Len(where) + EraseSize
      /\ \A i \in 1..Len(where) : where'[i] = where[i]
      /\ \A j \in 1..EraseSize : where'[Len(where) + j] = <<fpos, j>>
  <2>1. where' = where \o new
    BY <1>3
  <2>2. \A j \in 1..Len(new) : where'[Len(where) + j] = new[j]
    BY <1>8, <2>1
  <2>3. \A j \in 1..EraseSize : where'[Len(where) + j] = <<fpos, j>>
    BY <1>6, <2>2
  <2> QED
    BY <1>6, <1>8, <2>1, <2>3
<1> QED
  BY <1>2, <1>5, <1>9

(* What is left of the piece when one of its beginnings is taken.          *)
LEMMA Drop ==
  ASSUME NEW s \in Seq(Nat), NEW n \in Nat, n <= Len(s)
  PROVE  /\ SubSeq(s, n + 1, Len(s)) \in Seq(Nat)
         /\ Len(SubSeq(s, n + 1, Len(s))) = Len(s) - n
         /\ \A i \in 1..(Len(s) - n) : SubSeq(s, n + 1, Len(s))[i] = s[n + i]
         /\ SubSeq(s, 1, n) \in Seq(Nat) /\ Len(SubSeq(s, 1, n)) = n
         /\ \A i \in 1..n : SubSeq(s, 1, n)[i] = s[i]
<1>1. n \in 0..Len(s)
  BY LenProperties, SMTT(60)
<1> QED
  BY <1>1, Cut, SMTT(60)

(* Coalesce moves a beginning of the piece to the buffer.                  *)
LEMMA Moves ==
  ASSUME Types, Control, Coalesce
  PROVE  \E n \in 1..Len(src) :
           /\ Len(stored) + n <= EraseSize
           /\ stored' \in Seq(Nat) /\ Len(stored') = Len(stored) + n
           /\ \A i \in 1..Len(stored) : stored'[i] = stored[i]
           /\ \A i \in 1..n : stored'[Len(stored) + i] = src[i]
           /\ src' \in Seq(Nat) /\ Len(src') = Len(src) - n
           /\ \A i \in 1..(Len(src) - n) : src'[i] = src[n + i]
<1> DEFINE avail == EraseSize - Len(stored)
           n == IF Len(src) < avail THEN Len(src) ELSE avail
<1>1. /\ EraseSize \in Nat \ {0} /\ stored \in Seq(Nat) /\ src \in Seq(Nat)
      /\ Len(stored) \in Nat /\ Len(src) \in Nat /\ src # <<>>
      /\ Len(stored) < EraseSize
  BY FlashAssumption, SMTT(60) DEF Types, Coalesce
<1>2. Len(src) # 0
  BY <1>1, EmptySeq
<1>3. n \in 1..Len(src) /\ Len(stored) + n <= EraseSize
  BY <1>1, <1>2, SMTT(60)
<1>4. /\ stored' = stored \o SubSeq(src, 1, n)
      /\ src' = SubSeq(src, n + 1, Len(src))
  BY DEF Coalesce
<1> HIDE DEF n
<1>5. n \in Nat /\ n <= Len(src)
  BY <1>1, <1>3, SMTT(60)
<1>6. /\ src' \in Seq(Nat) /\ Len(src') = Len(src) - n
      /\ \A i \in 1..(Len(src) - n) : src'[i] = src[n + i]
      /\ SubSeq(src, 1, n) \in Seq(Nat) /\ Len(SubSeq(src, 1, n)) = n
      /\ \A i \in 1..n : SubSeq(src, 1, n)[i] = src[i]
  BY <1>1, <1>4, <1>5, Drop
<1> DEFINE t == SubSeq(src, 1, n)
<1>7. t \in Seq(Nat) /\ Len(t) = n /\ \A i \in 1..n : t[i] = src[i]
  BY <1>6
<1> HIDE DEF t
<1>8. /\ stored \o t \in Seq(Nat)
      /\ Len(stored \o t) = Len(stored) + Len(t)
      /\ \A i \in 1..Len(stored) : (stored \o t)[i] = stored[i]
      /\ \A i \in 1..Len(t) : (stored \o t)[Len(stored) + i] = t[i]
  <2>1. stored \in Seq(Nat) /\ t \in Seq(Nat)
    BY <1>1, <1>7
  <2> QED
    BY <2>1, Join, SMTT(60)
<1>9. stored' = stored \o t
  BY <1>4 DEF t
<1>10. /\ stored' \in Seq(Nat) /\ Len(stored') = Len(stored) + n
       /\ \A i \in 1..Len(stored) : stored'[i] = stored[i]
       /\ \A i \in 1..n : stored'[Len(stored) + i] = src[i]
  BY <1>7, <1>8, <1>9
<1> QED
  BY <1>3, <1>6, <1>10

LEMMA TypesStep ==
  ASSUME Types, Control, FlashNext
  PROVE  Types'
<1>1. /\ NBlocks \in Nat /\ EraseSize \in Nat \ {0} /\ fpos \in 0..NBlocks
      /\ rpos \in 0..NBlocks /\ fails \in Nat /\ flushed \in BOOLEAN
      /\ skipped \subseteq 0..(fpos - 1) /\ badBlocks \subseteq Blocks
      /\ flash \in [Blocks -> Seq(Nat)]
  BY FlashAssumption DEF Types
<1>2. /\ stored \in Seq(Nat) /\ src \in Seq(Nat) /\ rest \in Seq(Nat)
      /\ out \in Seq(Nat) /\ Len(src) \in Nat /\ Len(rest) \in Nat
  BY SMTT(60) DEF Types
<1>3. CASE NextPiece
  <2> DEFINE n == IF Len(rest) < piece THEN Len(rest) ELSE piece
  <2>1. src' = SubSeq(rest, 1, n) /\ rest' = SubSeq(rest, n + 1, Len(rest))
    BY <1>3 DEF NextPiece
  <2>2. n \in Nat /\ n <= Len(rest)
    BY <1>2, SMTT(60) DEF Types
  <2> HIDE DEF n
  <2>3. src' \in Seq(Nat) /\ rest' \in Seq(Nat)
    BY <1>2, <2>1, <2>2, Drop
  <2> QED
    BY <1>3, <2>3 DEF NextPiece, Types
<1>4. CASE Coalesce
  <2>1. stored' \in Seq(Nat) /\ src' \in Seq(Nat)
    BY <1>4, Moves
  <2> QED
    BY <1>4, <2>1 DEF Coalesce, Types
<1>5. CASE SkipBad
  <2>1. fpos' \in 0..NBlocks /\ skipped' \subseteq 0..(fpos' - 1)
    BY <1>1, <1>5, SMTT(60) DEF SkipBad
  <2> QED
    BY <1>5, <2>1 DEF SkipBad, Types
<1>6. CASE GiveUp
  <2>1. /\ fpos' \in 0..NBlocks /\ skipped' \subseteq 0..(fpos' - 1)
        /\ fails' \in Nat
    BY <1>1, <1>6, SMTT(60) DEF GiveUp
  <2>2. flash' \in [Blocks -> Seq(Nat)]
    BY <1>1, <1>6, EmptySeq DEF GiveUp
  <2> QED
    BY <1>6, <2>1, <2>2 DEF GiveUp, Types
<1>7. CASE WriteBlock
  <2>1. fpos' \in 0..NBlocks /\ skipped' \subseteq 0..(fpos' - 1)
    BY <1>1, <1>7, SMTT(60) DEF WriteBlock
  <2>2. /\ flash' \in [Blocks -> Seq(Nat)]
        /\ where' \in Seq(Blocks \X (1..EraseSize))
    BY <1>7, Writes
  <2>3. src' \in Seq(Nat)
    <3>1. CASE stored # <<>> \/ wpc = "flush"
      <4>1. CASE stored # <<>>
        BY <1>2, <1>7, <4>1 DEF WriteBlock
      <4> QED
        BY <3>1, <4>1 DEF Control
    <3>2. CASE stored = <<>> /\ wpc # "flush"
      <4>1. Len(src) >= EraseSize
        BY <1>1, <1>7, <3>2, EmptySeq DEF WriteBlock, NeedsBlock
      <4>2. EraseSize \in Nat /\ EraseSize <= Len(src)
        BY <1>1, <1>2, <4>1
      <4> QED
        BY <1>2, <1>7, <3>2, <4>2, Drop DEF WriteBlock
    <3> QED
      BY <3>1, <3>2
  <2>4. stored' \in Seq(Nat) /\ wpc' \in {"erase", "data"}
    BY <1>7, EmptySeq DEF WriteBlock
  <2> QED
    BY <1>7, <2>1, <2>2, <2>3, <2>4 DEF WriteBlock, Types
<1>8. CASE NoSpace
  BY <1>8 DEF NoSpace, Types
<1>9. CASE EndOfImage
  BY <1>9 DEF EndOfImage, Types
<1>10. CASE EraseRest
  <2>1. flash' \in [Blocks -> Seq(Nat)]
    <3>1. PICK F \in SUBSET {b \in Blocks : b >= fpos} :
            flash' = [b \in Blocks |->
                        IF b >= fpos /\ b \notin F \union badBlocks
                          THEN <<>> ELSE flash[b]]
      BY <1>10 DEF EraseRest
    <3> QED
      BY <1>1, <3>1, EmptySeq
  <2> QED
    BY <1>10, <2>1 DEF EraseRest, Types
<1>11. CASE CloseWrite
  BY <1>11 DEF CloseWrite, Types
<1>12. CASE ReadBlock
  <2>1. rpos' \in 0..NBlocks /\ fails' \in Nat
    BY <1>1, <1>12, SMTT(60) DEF ReadBlock
  <2>2. out' \in Seq(Nat)
    <3>1. out' = out \/ out' = out \o Bytes(rpos)
      BY <1>12 DEF ReadBlock
    <3>2. Bytes(rpos) \in Seq(Nat)
      <4>1. rpos \in Blocks
        BY <1>1, <1>12, SMTT(60) DEF ReadBlock, Blocks
      <4>2. [i \in 1..EraseSize |-> 255] \in [1..EraseSize -> Nat]
        BY SMTT(60)
      <4>3. [i \in 1..EraseSize |-> 255] \in Seq(Nat)
        BY <1>1, <4>2, SMTT(60)
      <4> QED
        BY <1>1, <4>1, <4>3 DEF Bytes
    <3> QED
      BY <1>2, <3>1, <3>2, ConcatProperties
  <2> QED
    BY <1>12, <2>1, <2>2 DEF ReadBlock, Types
<1>13. CASE ReadEnd
  BY <1>13 DEF ReadEnd, Types
<1>14. CASE ReadStops
  <2>1. fails' \in Nat
    BY <1>1, <1>14, SMTT(60) DEF ReadStops
  <2> QED
    BY <1>14, <2>1 DEF ReadStops, Types
<1> QED
  BY <1>3, <1>4, <1>5, <1>6, <1>7, <1>8, <1>9, <1>10, <1>11, <1>12, <1>13,
     <1>14 DEF FlashNext

LEMMA ControlStep ==
  ASSUME Types, Control, FlashNext
  PROVE  Control'
<1>1. EraseSize \in Nat \ {0} /\ stored \in Seq(Nat) /\ Len(stored) \in Nat
  BY FlashAssumption, SMTT(60) DEF Types
<1>2. CASE NextPiece
  BY <1>2 DEF NextPiece, Control
<1>3. CASE Coalesce
  <2>1. Len(stored') <= EraseSize
    <3>1. PICK n \in 1..Len(src) :
            Len(stored) + n <= EraseSize /\ Len(stored') = Len(stored) + n
      BY <1>3, Moves
    <3> QED
      BY <3>1
  <2> QED
    BY <1>3, <2>1 DEF Coalesce, Control
<1>4. CASE SkipBad
  BY <1>4 DEF SkipBad, Control
<1>5. CASE GiveUp
  BY <1>5 DEF GiveUp, NeedsBlock, Control
<1>6. CASE WriteBlock
  <2>1. Len(stored') = 0
    BY <1>6, EmptySeq DEF WriteBlock
  <2>2. wpc = "data" \/ (wpc = "flush" /\ stored # <<>>)
    <3>1. wpc = "data" \/ wpc = "flush"
      BY <1>6 DEF WriteBlock, NeedsBlock
    <3> QED
      BY <3>1 DEF Control
  <2> QED
    BY <1>1, <1>6, <2>1, <2>2, SMTT(60) DEF WriteBlock, Control
<1>7. CASE NoSpace
  BY <1>7 DEF NoSpace, NeedsBlock, Control
<1>8. CASE EndOfImage
  BY <1>8 DEF EndOfImage, Control
<1>9. CASE EraseRest
  BY <1>9 DEF EraseRest, Control
<1>10. CASE CloseWrite
  BY <1>10 DEF CloseWrite, Control
<1>11. CASE ReadBlock
  <2>1. rpos < NBlocks /\ rpos \in Nat /\ NBlocks \in Nat
    BY <1>11, FlashAssumption, SMTT(60) DEF ReadBlock, Types
  <2>2. wpc = "read" /\ UNCHANGED <<stored, src, rest, wpc, flushed>>
    BY <1>11 DEF ReadBlock
  <2> QED
    BY <2>2 DEF Control
<1>12. CASE ReadEnd
  BY <1>12 DEF ReadEnd, Control
<1>13. CASE ReadStops
  <2>1. fails' # 0
    BY <1>13, SMTT(60) DEF ReadStops, Types
  <2> QED
    BY <1>13, <2>1 DEF ReadStops, Control
<1> QED
  BY <1>2, <1>3, <1>4, <1>5, <1>6, <1>7, <1>8, <1>9, <1>10, <1>11, <1>12,
     <1>13 DEF FlashNext

-----------------------------------------------------------------------------
(* The places.                                                             *)

(* A step that adds no place and leaves the written blocks alone.          *)
LEMMA PlacesKept ==
  ASSUME Types, Places, where' = where,
         (0..(fpos' - 1)) \ skipped' = (0..(fpos - 1)) \ skipped,
         badBlocks' \intersect 0..(fpos' - 1) \subseteq skipped',
         fails' = 0 => skipped' \subseteq badBlocks',
         \A b \in (0..(fpos - 1)) \ skipped : flash'[b] = flash[b]
  PROVE  Places' /\ OnFlash' = OnFlash
<1>1. \A b, o : WrittenAt(b, o) => WrittenAt(b, o)'
  BY DEF WrittenAt
<1>2. ASSUME NEW b \in (0..(fpos' - 1)) \ skipped'
      PROVE  Len(flash'[b]) = EraseSize /\ \E o \in Nat : WrittenAt(b, o)'
  BY <1>1 DEF Places
<1>3. \A i \in 1..Len(where') : where'[i][1] \in (0..(fpos' - 1)) \ skipped'
  BY DEF Places
<1>4. OnFlash' = OnFlash
  <2>1. \A i \in 1..Len(where) : flash'[where[i][1]] = flash[where[i][1]]
    BY DEF Places
  <2> QED
    BY <2>1 DEF OnFlash
<1> QED
  BY <1>2, <1>3, <1>4 DEF Places

(* The set of blocks that were written, in each action.                    *)
LEMMA PlacesStep ==
  ASSUME Types, Control, Places, FlashNext
  PROVE  /\ Places'
         /\ ~WriteBlock \/ NextPiece \/ Coalesce =>
              OnFlash' = OnFlash /\ where' = where
<1>1. /\ NBlocks \in Nat /\ EraseSize \in Nat \ {0} /\ fpos \in 0..NBlocks
      /\ fails \in Nat /\ skipped \subseteq 0..(fpos - 1)
      /\ badBlocks \subseteq Blocks /\ flash \in [Blocks -> Seq(Nat)]
      /\ badBlocks \intersect 0..(fpos - 1) \subseteq skipped
      /\ fails = 0 => skipped \subseteq badBlocks
  BY FlashAssumption DEF Types, Places
<1>2. 0..(fpos - 1) \subseteq Blocks
  BY <1>1, SMTT(60) DEF Blocks
<1>3. ASSUME where' = where, fpos' = fpos, skipped' = skipped,
             badBlocks' = badBlocks, fails' = 0 => fails = 0,
             \A b \in (0..(fpos - 1)) \ skipped : flash'[b] = flash[b]
      PROVE  Places' /\ OnFlash' = OnFlash /\ where' = where
  BY <1>1, <1>3, PlacesKept
<1>4. CASE \/ NextPiece \/ Coalesce \/ NoSpace \/ EndOfImage
           \/ CloseWrite \/ ReadEnd
  <2>1. UNCHANGED <<where, fpos, skipped, badBlocks, fails, flash>>
    BY <1>4 DEF NextPiece, Coalesce, NoSpace, EndOfImage, CloseWrite, ReadEnd
  <2> QED
    BY <1>3, <2>1
<1>5. CASE ReadBlock \/ ReadStops
  <2>1. UNCHANGED <<where, fpos, skipped, badBlocks, flash>>
    BY <1>5 DEF ReadBlock, ReadStops
  <2>2. fails' = 0 => fails = 0
    BY <1>1, <1>5, SMTT(60) DEF ReadBlock, ReadStops
  <2> QED
    BY <1>3, <2>1, <2>2
<1>6. CASE EraseRest
  <2>1. UNCHANGED <<where, fpos, skipped, badBlocks, fails>>
    BY <1>6 DEF EraseRest
  <2>2. PICK F \in SUBSET {b \in Blocks : b >= fpos} :
          flash' = [b \in Blocks |->
                      IF b >= fpos /\ b \notin F \union badBlocks
                        THEN <<>> ELSE flash[b]]
    BY <1>6 DEF EraseRest
  <2>3. \A b \in 0..(fpos - 1) : b \in Blocks /\ ~(b >= fpos)
    BY <1>1, <1>2, SMTT(60)
  <2>4. \A b \in (0..(fpos - 1)) \ skipped : flash'[b] = flash[b]
    BY <2>2, <2>3
  <2> QED
    BY <1>3, <2>1, <2>4
<1>7. CASE SkipBad \/ GiveUp
  <2>1. /\ where' = where /\ badBlocks' = badBlocks
        /\ fpos' = fpos + 1 /\ skipped' = skipped \union {fpos}
        /\ fpos \in badBlocks \/ fails' = fails + 1
        /\ fails' \in {fails, fails + 1}
    BY <1>7 DEF SkipBad, GiveUp
  <2>2. (0..(fpos' - 1)) \ skipped' = (0..(fpos - 1)) \ skipped
    BY <1>1, <2>1, SMTT(60)
  <2>3. badBlocks' \intersect 0..(fpos' - 1) \subseteq skipped'
    BY <1>1, <2>1, SMTT(60)
  <2>4. fails' = 0 => skipped' \subseteq badBlocks'
    BY <1>1, <2>1, SMTT(60)
  <2>5. \A b \in (0..(fpos - 1)) \ skipped : flash'[b] = flash[b]
    <3>1. \A b \in 0..(fpos - 1) : b \in Blocks /\ b # fpos
      BY <1>1, <1>2, SMTT(60)
    <3>2. flash' = flash \/ flash' = [flash EXCEPT ![fpos] = <<>>]
      BY <1>7 DEF SkipBad, GiveUp
    <3> QED
      BY <1>1, <3>1, <3>2
  <2> QED
    BY <2>1, <2>2, <2>3, <2>4, <2>5, PlacesKept
<1>8. ASSUME WriteBlock
      PROVE  Places'
  <2> DEFINE w == Len(where)
  <2>1. /\ fpos' = fpos + 1 /\ skipped' = skipped /\ badBlocks' = badBlocks
        /\ fails' = fails /\ fpos \notin badBlocks
    BY <1>8 DEF WriteBlock
  <2>2. /\ fpos \in Blocks /\ flash'[fpos] = BlockData
        /\ \A b \in Blocks : b # fpos => flash'[b] = flash[b]
        /\ Len(where') = w + EraseSize
        /\ \A i \in 1..w : where'[i] = where[i]
        /\ \A j \in 1..EraseSize : where'[w + j] = <<fpos, j>>
    BY <1>8, Writes
  <2>3. w \in Nat /\ w % EraseSize = 0
    BY SMTT(60) DEF Types, Places
  <2> HIDE DEF w
  <2>4. (0..(fpos' - 1)) \ skipped' = ((0..(fpos - 1)) \ skipped) \union {fpos}
    BY <1>1, <2>1, SMTT(60)
  <2>5. badBlocks' \intersect 0..(fpos' - 1) \subseteq skipped'
    BY <1>1, <2>1, SMTT(60)
  <2>6. ASSUME NEW i \in 1..(w + EraseSize), ~(i \in 1..w)
        PROVE  i - w \in 1..EraseSize /\ where'[i] = <<fpos, i - w>>
    <3>1. i - w \in 1..EraseSize /\ w + (i - w) = i
      BY <1>1, <2>3, <2>6, SMTT(60)
    <3> QED
      BY <2>2, <3>1
  <2>7. \A i \in 1..w : where[i][1] \in (0..(fpos - 1)) \ skipped
    BY DEF Places, w
  <2>8. \A i \in 1..Len(where') : where'[i][1] \in (0..(fpos' - 1)) \ skipped'
    BY <2>2, <2>4, <2>6, <2>7, SMTT(60)
  <2>9. Len(where') % EraseSize = 0
    BY <1>1, <2>2, <2>3, WholeBlocks
  <2>10. ASSUME NEW b \in (0..(fpos - 1)) \ skipped
         PROVE  Len(flash'[b]) = EraseSize /\ \E o \in Nat : WrittenAt(b, o)'
    <3>1. b \in Blocks /\ b # fpos /\ b \in Nat /\ b < fpos
      BY <1>1, <1>2, SMTT(60)
    <3>2. Len(flash'[b]) = EraseSize
      BY <2>2, <3>1 DEF Places
    <3>3. PICK o \in Nat : WrittenAt(b, o)
      BY DEF Places
    <3>4. /\ o + EraseSize <= w
          /\ \A j \in 1..EraseSize : where[o + j] = <<b, j>>
          /\ \A i \in 1..w : /\ i <= o <=> where[i][1] < b
                             /\ i > o + EraseSize <=> where[i][1] > b
      BY <3>3 DEF WrittenAt, w
    <3>5. o + EraseSize <= w + EraseSize
      BY <1>1, <2>3, <3>4, SMTT(60)
    <3>6. \A j \in 1..EraseSize : where'[o + j] = <<b, j>>
      <4>1. \A j \in 1..EraseSize : o + j \in 1..w
        BY <1>1, <2>3, <3>4, SMTT(60)
      <4> QED
        BY <2>2, <3>4, <4>1
    <3>7. ASSUME NEW i \in 1..(w + EraseSize)
          PROVE  /\ i <= o <=> where'[i][1] < b
                 /\ i > o + EraseSize <=> where'[i][1] > b
      <4>1. CASE i \in 1..w
        BY <2>2, <3>4, <4>1
      <4>2. CASE ~(i \in 1..w)
        <5>1. i > w
          BY <2>3, <4>2, SMTT(60)
        <5>2. where'[i][1] = fpos
          BY <2>6, <4>2, SMTT(60)
        <5> QED
          BY <1>1, <2>3, <3>1, <3>4, <5>1, <5>2, SMTT(60)
      <4> QED
        BY <4>1, <4>2
    <3> QED
      BY <2>2, <3>2, <3>5, <3>6, <3>7 DEF WrittenAt
  <2>11. ASSUME NEW b, b = fpos
         PROVE  Len(flash'[b]) = EraseSize /\ \E o \in Nat : WrittenAt(b, o)'
    <3>1. Len(flash'[b]) = EraseSize
      BY <1>8, <2>2, <2>11, WholeBlock DEF WriteBlock
    <3>2. ASSUME NEW i \in 1..(w + EraseSize)
          PROVE  /\ i <= w <=> where'[i][1] < fpos
                 /\ i > w + EraseSize <=> where'[i][1] > fpos
      <4>1. CASE i \in 1..w
        <5>1. where'[i][1] \in 0..(fpos - 1)
          BY <2>2, <2>7, <4>1
        <5> QED
          BY <1>1, <2>3, <4>1, <5>1, SMTT(60)
      <4>2. CASE ~(i \in 1..w)
        <5>1. i > w /\ i <= w + EraseSize
          BY <1>1, <2>3, <4>2, SMTT(60)
        <5>2. where'[i][1] = fpos
          BY <2>6, <4>2, SMTT(60)
        <5> QED
          BY <1>1, <2>3, <5>1, <5>2, SMTT(60)
      <4> QED
        BY <4>1, <4>2
    <3>3. PICK o \in Nat : o = w
      BY <2>3
    <3>4. Len(where') = o + EraseSize
      BY <2>2, <3>3
    <3>5. o + EraseSize <= Len(where')
      BY <1>1, <3>4, SMTT(60)
    <3>6. \A j \in 1..EraseSize : where'[o + j] = <<b, j>>
      BY <2>2, <2>11, <3>3
    <3>7. \A i \in 1..Len(where') : /\ i <= o <=> where'[i][1] < b
                                    /\ i > o + EraseSize <=> where'[i][1] > b
      <4>1. /\ o = w /\ b = fpos /\ Len(where') = w + EraseSize
        BY <2>2, <2>11, <3>3
      <4> QED
        BY <3>2, <4>1
    <3>8. WrittenAt(b, o)'
      BY <3>5, <3>6, <3>7 DEF WrittenAt
    <3> QED
      BY <3>1, <3>8
  <2>12. \A b \in (0..(fpos' - 1)) \ skipped' :
           Len(flash'[b]) = EraseSize /\ \E o \in Nat : WrittenAt(b, o)'
    BY <2>4, <2>10, <2>11
  <2>13. fails' = 0 => skipped' \subseteq badBlocks'
    BY <1>1, <2>1
  <2> QED
    BY <2>5, <2>8, <2>9, <2>12, <2>13 DEF Places
<1> QED
  BY <1>4, <1>5, <1>6, <1>7, <1>8 DEF FlashNext

-----------------------------------------------------------------------------
(* The data.                                                               *)

(* A block that is written goes behind the bytes that are on the flash.    *)
LEMMA FlashGrows ==
  ASSUME Types, Control, Places, WriteBlock
  PROVE  /\ Len(where') = Len(where) + EraseSize
         /\ \A i \in 1..Len(where) : OnFlash'[i] = OnFlash[i]
         /\ \A j \in 1..EraseSize : OnFlash'[Len(where) + j] = BlockData[j]
<1> DEFINE w == Len(where)
<1>1. /\ EraseSize \in Nat \ {0} /\ w \in Nat /\ fpos \in Nat
      /\ NBlocks \in Nat /\ fpos <= NBlocks
  BY FlashAssumption, SMTT(60) DEF Types
<1>2. /\ flash'[fpos] = BlockData
      /\ \A b \in Blocks : b # fpos => flash'[b] = flash[b]
      /\ Len(where') = w + EraseSize
      /\ \A i \in 1..w : where'[i] = where[i]
      /\ \A j \in 1..EraseSize : where'[w + j] = <<fpos, j>>
  BY Writes
<1>3. \A i \in 1..w : where[i][1] \in 0..(fpos - 1)
  BY DEF Places
<1>4. OnFlash' = [i \in 1..Len(where') |-> flash'[where'[i][1]][where'[i][2]]]
  BY DEF OnFlash
<1>5. OnFlash = [i \in 1..w |-> flash[where[i][1]][where[i][2]]]
  BY DEF OnFlash
<1> HIDE DEF w
<1>6. ASSUME NEW i \in 1..w
      PROVE  OnFlash'[i] = OnFlash[i]
  <2>1. i \in 1..Len(where')
    BY <1>1, <1>2, SMTT(60)
  <2>2. where[i][1] \in Blocks /\ where[i][1] # fpos
    BY <1>1, <1>3, SMTT(60) DEF Blocks
  <2>3. flash'[where'[i][1]] = flash[where[i][1]] /\ where'[i] = where[i]
    BY <1>2, <2>2
  <2> QED
    BY <1>4, <1>5, <2>1, <2>3
<1>7. ASSUME NEW j \in 1..EraseSize
      PROVE  OnFlash'[w + j] = BlockData[j]
  <2>1. w + j \in 1..Len(where')
    BY <1>1, <1>2, SMTT(60)
  <2>2. where'[w + j][1] = fpos /\ where'[w + j][2] = j
    BY <1>2, SMTT(60)
  <2> QED
    BY <1>2, <1>4, <2>1, <2>2
<1> QED
  BY <1>2, <1>6, <1>7 DEF w

(* The lengths are numbers.                                                *)
LEMMA Lens ==
  ASSUME Types
  PROVE  /\ Len(where) \in Nat /\ Len(stored) \in Nat /\ Len(src) \in Nat
         /\ Len(rest) \in Nat /\ Len(img) \in Nat
  BY SMTT(60) DEF Types

LEMMA PiecedNextPiece ==
  ASSUME Types, Pieced, NextPiece, OnFlash' = OnFlash
  PROVE  Pieced'
<1> DEFINE w == Len(where)
           s == Len(stored)
           n == IF Len(rest) < piece THEN Len(rest) ELSE piece
<1>1. /\ src = <<>> /\ UNCHANGED <<img, stored, where>>
      /\ src' = SubSeq(rest, 1, n) /\ rest' = SubSeq(rest, n + 1, Len(rest))
  BY DEF NextPiece
<1>2. n \in Nat /\ n <= Len(rest) /\ rest \in Seq(Nat) /\ Len(src) = 0
  BY <1>1, Lens, EmptySeq, SMTT(60) DEF Types
<1> HIDE DEF n
<1>3. /\ Len(src') = n /\ Len(rest') = Len(rest) - n
      /\ \A i \in 1..n : src'[i] = rest[i]
      /\ \A i \in 1..(Len(rest) - n) : rest'[i] = rest[n + i]
  BY <1>1, <1>2, Drop
<1>4. w \in Nat /\ s \in Nat /\ Len(rest) \in Nat
  BY Lens
<1>5. /\ w + s + Len(src) + Len(rest) = Len(img)
      /\ \A i \in 1..Len(rest) : rest[i] = img[w + s + Len(src) + i]
  BY DEF Pieced
<1> HIDE DEF w, s
<1>6. w + s + n + (Len(rest) - n) = Len(img)
  <2>1. w + s + 0 + Len(rest) = Len(img) /\ n \in Nat
    BY <1>2, <1>5
  <2> QED
    BY <1>4, <2>1, SMTT(60)
<1>7. ASSUME NEW i \in 1..n
      PROVE  src'[i] = img[w + s + i]
  <2>1. i \in 1..Len(rest) /\ w + s + 0 + i = w + s + i
    BY <1>2, <1>4, SMTT(60)
  <2> QED
    BY <1>2, <1>3, <1>5, <2>1
<1>8. ASSUME NEW i \in 1..(Len(rest) - n)
      PROVE  rest'[i] = img[w + s + n + i]
  <2>1. n + i \in 1..Len(rest) /\ w + s + 0 + (n + i) = w + s + n + i
    BY <1>2, <1>4, SMTT(60)
  <2> QED
    BY <1>2, <1>3, <1>5, <2>1
<1> QED
  BY <1>1, <1>3, <1>6, <1>7, <1>8 DEF Pieced, w, s

LEMMA PiecedCoalesce ==
  ASSUME Types, Control, Pieced, Coalesce, OnFlash' = OnFlash
  PROVE  Pieced'
<1> DEFINE w == Len(where)
           s == Len(stored)
           c == Len(src)
<1>1. UNCHANGED <<img, rest, where>>
  BY DEF Coalesce
<1>2. PICK n \in 1..c :
        /\ Len(stored') = s + n
        /\ \A i \in 1..s : stored'[i] = stored[i]
        /\ \A i \in 1..n : stored'[s + i] = src[i]
        /\ Len(src') = c - n
        /\ \A i \in 1..(c - n) : src'[i] = src[n + i]
  BY Moves
<1>3. w \in Nat /\ s \in Nat /\ c \in Nat /\ Len(rest) \in Nat
  BY Lens
<1>4. /\ w + s + c + Len(rest) = Len(img)
      /\ \A i \in 1..s : stored[i] = img[w + i]
      /\ \A i \in 1..c : src[i] = img[w + s + i]
      /\ \A i \in 1..Len(rest) : rest[i] = img[w + s + c + i]
  BY DEF Pieced
<1> HIDE DEF w, s, c
<1>5. w + (s + n) + (c - n) + Len(rest) = Len(img)
  BY <1>3, <1>4, SMTT(60)
<1>6. ASSUME NEW i \in 1..(s + n)
      PROVE  stored'[i] = img[w + i]
  <2>1. CASE i <= s
    <3>1. i \in 1..s
      BY <1>3, <2>1, SMTT(60)
    <3> QED
      BY <1>2, <1>4, <3>1
  <2>2. CASE ~(i <= s)
    <3>1. i - s \in 1..n /\ i - s \in 1..c /\ s + (i - s) = i
          /\ w + s + (i - s) = w + i
      BY <1>3, <2>2, SMTT(60)
    <3> QED
      BY <1>2, <1>4, <3>1, SMTT(60)
  <2> QED
    BY <2>1, <2>2
<1>7. ASSUME NEW i \in 1..(c - n)
      PROVE  src'[i] = img[w + (s + n) + i]
  <2>1. n + i \in 1..c /\ w + s + (n + i) = w + (s + n) + i
    BY <1>3, SMTT(60)
  <2> QED
    BY <1>2, <1>4, <2>1
<1>8. \A i \in 1..Len(rest) : rest[i] = img[w + (s + n) + (c - n) + i]
  <2>1. w + (s + n) + (c - n) = w + s + c
    BY <1>3, SMTT(60)
  <2> QED
    BY <1>4, <2>1
<1> QED
  BY <1>1, <1>2, <1>5, <1>6, <1>7, <1>8 DEF Pieced, w, s, c

(* WriteBlock before the end of the image: the buffer, or a whole block of *)
(* the piece.                                                              *)
LEMMA PiecedWrite ==
  ASSUME Types, Control, Places, Pieced, WriteBlock, wpc = "data"
  PROVE  Pieced'
<1> DEFINE w == Len(where)
           c == Len(src)
           e == EraseSize
<1>1. /\ UNCHANGED <<img, rest>> /\ stored' = <<>>
      /\ src' = IF stored # <<>> THEN src ELSE SubSeq(src, e + 1, Len(src))
      /\ NeedsBlock
  BY DEF WriteBlock
<1>2. /\ Len(where') = w + e
      /\ \A i \in 1..w : OnFlash'[i] = OnFlash[i]
      /\ \A j \in 1..e : OnFlash'[w + j] = BlockData[j]
  BY FlashGrows
<1>3. /\ w \in Nat /\ c \in Nat /\ Len(rest) \in Nat /\ e \in Nat \ {0}
      /\ src \in Seq(Nat) /\ Len(stored') = 0
  BY <1>1, Lens, FlashAssumption, EmptySeq DEF Types
<1>4. /\ w + Len(stored) + c + Len(rest) = Len(img)
      /\ \A i \in 1..w : OnFlash[i] = img[i]
      /\ \A i \in 1..Len(stored) : stored[i] = img[w + i]
      /\ \A i \in 1..c : src[i] = img[w + Len(stored) + i]
      /\ \A i \in 1..Len(rest) : rest[i] = img[w + Len(stored) + c + i]
  BY DEF Pieced
<1>5. ASSUME \A j \in 1..e : BlockData[j] = img[w + j]
      PROVE  \A i \in 1..(w + e) : OnFlash'[i] = img[i]
  <2> HIDE DEF w, c, e
  <2>1. ASSUME NEW i \in 1..(w + e)
        PROVE  OnFlash'[i] = img[i]
    <3>1. CASE i <= w
      <4>1. i \in 1..w
        BY <1>3, <3>1, SMTT(60)
      <4> QED
        BY <1>2, <1>4, <4>1
    <3>2. CASE ~(i <= w)
      <4>1. i - w \in 1..e /\ w + (i - w) = i
        BY <1>3, <3>2, SMTT(60)
      <4> QED
        BY <1>2, <1>5, <4>1
    <3> QED
      BY <3>1, <3>2
  <2> QED
    BY <2>1
<1>6. ASSUME NEW k, Len(src') = k,
             w + e + 0 + k + Len(rest) = Len(img),
             \A i \in 1..(w + e) : OnFlash'[i] = img[i],
             \A i \in 1..k : src'[i] = img[w + e + 0 + i],
             \A i \in 1..Len(rest) : rest[i] = img[w + e + 0 + k + i]
      PROVE  Pieced'
  <2> HIDE DEF w, e
  <2>1. /\ img' = img /\ rest' = rest /\ Len(stored') = 0
        /\ Len(where') = w + e
    BY <1>1, <1>2, <1>3
  <2>2. Len(where') + Len(stored') + Len(src') + Len(rest') = Len(img')
    BY <1>6, <2>1
  <2>3. \A i \in 1..Len(where') : OnFlash'[i] = img'[i]
    BY <1>6, <2>1
  <2>4. \A i \in 1..Len(stored') : stored'[i] = img'[Len(where') + i]
    BY <2>1, SMTT(60)
  <2>5. \A i \in 1..Len(src') :
          src'[i] = img'[Len(where') + Len(stored') + i]
    BY <1>6, <2>1
  <2>6. \A i \in 1..Len(rest') :
          rest'[i] = img'[Len(where') + Len(stored') + Len(src') + i]
    BY <1>6, <2>1
  <2> QED
    BY <2>2, <2>3, <2>4, <2>5, <2>6 DEF Pieced
<1>7. CASE stored # <<>>
  <2>1. Len(stored) = e /\ BlockData = stored /\ src' = src
    BY <1>1, <1>7 DEF NeedsBlock, BlockData
  <2>2. \A i \in 1..(w + e) : OnFlash'[i] = img[i]
    BY <1>4, <1>5, <2>1
  <2> HIDE DEF w, c, e
  <2>3. /\ w + e + 0 + c + Len(rest) = Len(img)
        /\ \A i \in 1..c : src[i] = img[w + e + 0 + i]
        /\ \A i \in 1..Len(rest) : rest[i] = img[w + e + 0 + c + i]
    <3>1. w + e + 0 = w + e
      BY <1>3, SMTT(60)
    <3> QED
      BY <1>4, <2>1, <3>1
  <2> QED
    BY <1>6, <2>1, <2>2, <2>3 DEF c
<1>8. CASE stored = <<>>
  <2>1. Len(stored) = 0
    BY <1>8, EmptySeq
  <2>2. c >= e /\ BlockData = SubSeq(src, 1, e) /\ src' = SubSeq(src, e + 1, c)
    BY <1>1, <1>3, <1>8, <2>1 DEF NeedsBlock, BlockData
  <2> HIDE DEF e
  <2>3. e \in Nat /\ e <= Len(src)
    BY <1>3, <2>2
  <2>4. /\ \A j \in 1..e : BlockData[j] = src[j]
        /\ Len(src') = c - e
        /\ \A i \in 1..(c - e) : src'[i] = src[e + i]
    BY <1>3, <2>2, <2>3, Drop, SMTT(60)
  <2> HIDE DEF w, c
  <2>5. ASSUME NEW j \in 1..e
        PROVE  BlockData[j] = img[w + j]
    <3>1. j \in 1..c /\ w + 0 + j = w + j
      BY <1>3, <2>2, SMTT(60)
    <3> QED
      BY <1>4, <2>1, <2>4, <3>1
  <2>6. \A i \in 1..(w + e) : OnFlash'[i] = img[i]
    BY <1>5, <2>5
  <2>7. w + e + 0 + (c - e) + Len(rest) = Len(img)
    <3>1. w + 0 + c + Len(rest) = Len(img)
      BY <1>4, <2>1
    <3> QED
      BY <1>3, <3>1, SMTT(60)
  <2>8. ASSUME NEW i \in 1..(c - e)
        PROVE  src'[i] = img[w + e + 0 + i]
    <3>1. e + i \in 1..c /\ w + 0 + (e + i) = w + e + 0 + i
      BY <1>3, <2>2, SMTT(60)
    <3> QED
      BY <1>4, <2>1, <2>4, <3>1
  <2>9. \A i \in 1..Len(rest) : rest[i] = img[w + e + 0 + (c - e) + i]
    <3>1. w + e + 0 + (c - e) = w + 0 + c
      BY <1>3, SMTT(60)
    <3> QED
      BY <1>4, <2>1, <3>1
  <2> QED
    BY <1>6, <2>4, <2>6, <2>7, <2>8, <2>9
<1> QED
  BY <1>7, <1>8

(* WriteBlock of the last, partial block: the image and the zeros are on   *)
(* the flash.                                                              *)
LEMMA SealedWrite ==
  ASSUME Types, Types', Control, Places, Places', Pieced, WriteBlock,
         wpc = "flush"
  PROVE  stored' = <<>> /\ OnFlash' = PadZero(img)'
<1> DEFINE w == Len(where)
           s == Len(stored)
           e == EraseSize
<1>1. /\ w \in Nat /\ s \in Nat /\ e \in Nat \ {0} /\ w % e = 0
      /\ stored \in Seq(Nat) /\ img \in Seq(Nat)
  BY Lens, FlashAssumption DEF Types, Places
<1>2. s # 0 /\ s < e /\ Len(src) = 0 /\ Len(rest) = 0
  BY <1>1, EmptySeq DEF Control
<1>3. Len(img) = w + s
  BY <1>1, <1>2, SMTT(60) DEF Pieced
<1>4. /\ img' = img /\ stored' = <<>> /\ BlockData = PadZero(stored)
  BY DEF WriteBlock, BlockData
<1>5. /\ PadZero(img) \in Seq(Nat) /\ Len(PadZero(img)) = w + e
      /\ \A i \in 1..(w + e) :
           PadZero(img)[i] = IF i <= Len(img) THEN img[i] ELSE 0
  BY <1>1, <1>2, <1>3, PadLength
<1>6. /\ \A j \in 1..(0 + e) :
           BlockData[j] = IF j <= Len(stored) THEN stored[j] ELSE 0
  <2>1. 0 \in Nat /\ 0 % e = 0 /\ s = 0 + s
    BY <1>1, SMTT(60)
  <2> QED
    BY <1>1, <1>2, <1>4, <2>1, PadLength
<1>7. /\ Len(where') = w + e
      /\ \A i \in 1..w : OnFlash'[i] = OnFlash[i]
      /\ \A j \in 1..e : OnFlash'[w + j] = BlockData[j]
  BY FlashGrows
<1>8. /\ \A i \in 1..w : OnFlash[i] = img[i]
      /\ \A i \in 1..s : stored[i] = img[w + i]
  BY DEF Pieced
<1>9. OnFlash' \in Seq(Nat) /\ Len(OnFlash') = w + e
  <2>1. (Types /\ Places => OnFlash \in Seq(Nat) /\ Len(OnFlash) = Len(where))'
    BY FlashBytes, PTL
  <2> QED
    BY <1>7, <2>1
<1> HIDE DEF w, s, e
<1>10. ASSUME NEW i \in 1..(w + e)
       PROVE  OnFlash'[i] = PadZero(img)[i]
  <2>1. CASE i <= w
    <3>1. i \in 1..w /\ i <= w + s
      BY <1>1, <2>1, SMTT(60)
    <3> QED
      BY <1>3, <1>5, <1>7, <1>8, <3>1
  <2>2. CASE ~(i <= w)
    <3>1. /\ i - w \in 1..e /\ i - w \in 1..(0 + e) /\ w + (i - w) = i
          /\ i <= w + s <=> i - w <= s
          /\ i - w <= s => i - w \in 1..s
      BY <1>1, <2>2, SMTT(60)
    <3>2. OnFlash'[i] = IF i - w <= s THEN stored[i - w] ELSE 0
      BY <1>6, <1>7, <3>1 DEF s
    <3>3. i - w <= s => stored[i - w] = img[i]
      BY <1>8, <3>1
    <3> QED
      BY <1>3, <1>5, <3>1, <3>2, <3>3, SMTT(60)
  <2> QED
    BY <2>1, <2>2
<1> QED
  <2>1. OnFlash' = PadZero(img)
    BY <1>5, <1>9, <1>10, SeqEqual
  <2>2. PadZero(img)' = PadZero(img)
    BY <1>4 DEF PadZero
  <2> QED
    BY <1>4, <2>1, <2>2

LEMMA SealedStep ==
  ASSUME Control, FlashNext
  PROVE  /\ Sealed => Sealed' /\ UNCHANGED <<img, stored>> /\ ~WriteBlock
         /\ ~Sealed /\ Sealed' => \/ WriteBlock /\ wpc = "flush"
                                  \/ EndOfImage /\ stored = <<>>
<1>1. CASE NextPiece
  BY <1>1 DEF NextPiece, Sealed
<1>2. CASE Coalesce
  BY <1>2 DEF Coalesce, Sealed
<1>3. CASE SkipBad
  BY <1>3 DEF SkipBad, WriteBlock, Sealed
<1>4. CASE GiveUp
  BY <1>4 DEF GiveUp, NeedsBlock, Sealed
<1>5. CASE WriteBlock
  BY <1>5 DEF WriteBlock, NeedsBlock, Sealed
<1>6. CASE NoSpace
  BY <1>6 DEF NoSpace, NeedsBlock, Sealed
<1>7. CASE EndOfImage
  BY <1>7 DEF EndOfImage, WriteBlock, Sealed
<1>8. CASE EraseRest
  BY <1>8 DEF EraseRest, WriteBlock, NeedsBlock, Sealed
<1>9. CASE CloseWrite
  BY <1>9 DEF CloseWrite, WriteBlock, NeedsBlock, Sealed
<1>10. CASE ReadBlock
  BY <1>10 DEF ReadBlock, WriteBlock, NeedsBlock, Sealed
<1>11. CASE ReadEnd
  BY <1>11 DEF ReadEnd, WriteBlock, NeedsBlock, Sealed
<1>12. CASE ReadStops
  BY <1>12 DEF ReadStops, WriteBlock, NeedsBlock, Sealed
<1> QED
  BY <1>1, <1>2, <1>3, <1>4, <1>5, <1>6, <1>7, <1>8, <1>9, <1>10, <1>11,
     <1>12 DEF FlashNext

(* The end of an image that fills its last block.                          *)
LEMMA SealedEnd ==
  ASSUME Types, Places, Pieced, EndOfImage, stored = <<>>
  PROVE  OnFlash = PadZero(img)
<1>1. /\ Len(where) \in Nat /\ Len(img) \in Nat /\ EraseSize \in Nat \ {0}
      /\ Len(where) % EraseSize = 0 /\ img \in Seq(Nat)
      /\ Len(stored) = 0 /\ Len(src) = 0 /\ Len(rest) = 0
  BY Lens, FlashAssumption, EmptySeq DEF Types, Places, EndOfImage
<1>2. Len(img) = Len(where) /\ Len(img) = Len(where) + 0
  BY <1>1, SMTT(60) DEF Pieced
<1>3. PadZero(img) = img
  <2>1. 0 \in Nat /\ 0 < EraseSize
    BY <1>1, SMTT(60)
  <2> QED
    BY <1>1, <1>2, <2>1, PadLength
<1>4. OnFlash \in Seq(Nat) /\ Len(OnFlash) = Len(img)
  BY <1>2, FlashBytes
<1>5. \A i \in 1..Len(OnFlash) : OnFlash[i] = img[i]
  BY <1>2, <1>4 DEF Pieced
<1>6. OnFlash = img
  <2>1. img \in Seq(Nat)
    BY <1>1
  <2> QED
    BY <1>4, <1>5, <2>1, SeqEqual
<1> QED
  BY <1>3, <1>6

LEMMA DataStep ==
  ASSUME Types, Types', Control, Places, Places', Data, FlashNext
  PROVE  Data'
<1>1. ~WriteBlock \/ NextPiece \/ Coalesce =>
        OnFlash' = OnFlash /\ where' = where
  BY PlacesStep
<1>2. CASE Sealed
  <2>1. Sealed' /\ img' = img /\ stored' = stored /\ ~WriteBlock
    BY <1>2, SealedStep
  <2>2. PadZero(img)' = PadZero(img)
    BY <2>1 DEF PadZero
  <2>3. stored = <<>> /\ OnFlash = PadZero(img)
    BY <1>2 DEF Data
  <2>4. Sealed' => stored' = <<>> /\ OnFlash' = PadZero(img)'
    BY <1>1, <2>1, <2>2, <2>3
  <2> QED
    BY <2>1, <2>4 DEF Data
<1>3. CASE ~Sealed /\ Sealed'
  <2>1. Pieced
    BY <1>3 DEF Data
  <2>2. stored' = <<>> /\ OnFlash' = PadZero(img)'
    <3>1. CASE WriteBlock /\ wpc = "flush"
      BY <2>1, <3>1, SealedWrite
    <3>2. CASE EndOfImage /\ stored = <<>>
      <4>1. img' = img /\ stored' = stored /\ ~WriteBlock
        BY <3>2 DEF EndOfImage, WriteBlock, NeedsBlock
      <4>2. PadZero(img)' = PadZero(img)
        BY <4>1 DEF PadZero
      <4>3. OnFlash = PadZero(img)
        BY <2>1, <3>2, SealedEnd
      <4> QED
        BY <1>1, <3>2, <4>1, <4>2, <4>3
    <3> QED
      BY <1>3, <3>1, <3>2, SealedStep
  <2> QED
    BY <1>3, <2>2 DEF Data
<1>4. CASE ~Sealed /\ ~Sealed'
  <2>1. Pieced
    BY <1>4 DEF Data
  <2>2. ASSUME UNCHANGED <<img, stored, src, rest>>, ~WriteBlock
        PROVE  Pieced'
    BY <1>1, <2>1, <2>2 DEF Pieced
  <2>3. Pieced'
    <3>1. CASE NextPiece
      BY <1>1, <2>1, <3>1, PiecedNextPiece
    <3>2. CASE Coalesce
      BY <1>1, <2>1, <3>2, PiecedCoalesce
    <3>3. CASE WriteBlock
      <4>1. wpc = "data"
        BY <1>4, <3>3 DEF WriteBlock, NeedsBlock, Sealed, Control
      <4> QED
        BY <2>1, <3>3, <4>1, PiecedWrite
    <3>4. CASE ~NextPiece /\ ~Coalesce /\ ~WriteBlock
      <4>1. UNCHANGED <<img, stored, src, rest>>
        BY <3>4 DEF FlashNext, SkipBad, GiveUp, NoSpace, EndOfImage,
                    EraseRest, CloseWrite, ReadBlock, ReadStops, ReadEnd
      <4> QED
        BY <2>2, <3>4, <4>1
    <3> QED
      BY <3>1, <3>2, <3>3, <3>4
  <2> QED
    BY <1>4, <2>3 DEF Data
<1> QED
  BY <1>2, <1>3, <1>4

-----------------------------------------------------------------------------
(* The reader.                                                             *)

(* What the reader has delivered of the places in front of block r.        *)
Delivered(r, n) ==
  /\ \A i \in 1..Len(where) : i <= n <=> where[i][1] < r
  /\ n <= Len(out) /\ (r <= fpos => Len(out) = n)
  /\ \A i \in 1..n : out[i] = OnFlash[i]

(* A block that is not read has no place, or the reader is behind them all.*)
LEMMA ReaderSkips ==
  ASSUME Types, Places, NEW n \in 0..Len(where), Delivered(rpos, n),
         rpos \in skipped \/ rpos >= fpos
  PROVE  \A i \in 1..Len(where) : i <= n <=> where[i][1] < rpos + 1
<1>1. /\ rpos \in Nat /\ fpos \in Nat
      /\ \A i \in 1..Len(where) : where[i][1] \in (0..(fpos - 1)) \ skipped
  <2>1. rpos \in 0..NBlocks /\ fpos \in 0..NBlocks /\ NBlocks \in Nat
    BY FlashAssumption DEF Types
  <2>2. \A i \in 1..Len(where) : where[i][1] \in (0..(fpos - 1)) \ skipped
    BY DEF Places
  <2> QED
    BY <2>1, <2>2, SMTT(60)
<1>2. ASSUME NEW i \in 1..Len(where)
      PROVE  where[i][1] < rpos <=> where[i][1] < rpos + 1
  <2>1. /\ where[i][1] \in 0..(fpos - 1) /\ where[i][1] # rpos
    BY <1>1, SMTT(60)
  <2> QED
    BY <1>1, <2>1, SMTT(60)
<1> QED
  BY <1>2 DEF Delivered

(* A block that was written, and is read.                                  *)
LEMMA ReaderReads ==
  ASSUME Types, Places, NEW n \in 0..Len(where), Delivered(rpos, n),
         rpos < fpos, rpos \notin skipped, out' = out \o Bytes(rpos)
  PROVE  /\ n + EraseSize \in 0..Len(where) /\ Len(out') = n + EraseSize
         /\ \A i \in 1..Len(where) :
              i <= n + EraseSize <=> where[i][1] < rpos + 1
         /\ \A i \in 1..(n + EraseSize) : out'[i] = OnFlash[i]
<1> DEFINE w == Len(where)
           e == EraseSize
           b == rpos
<1>1. /\ w \in Nat /\ e \in Nat \ {0} /\ b \in Nat /\ fpos \in Nat
      /\ fpos <= NBlocks /\ NBlocks \in Nat /\ n \in Nat /\ n <= w
  BY Lens, FlashAssumption, SMTT(60) DEF Types
<1>2. b \in (0..(fpos - 1)) \ skipped /\ b \in Blocks
  BY <1>1, SMTT(60) DEF Blocks
<1>3. Len(flash[b]) = e /\ \E o \in Nat : WrittenAt(b, o)
  BY <1>2 DEF Places
<1>4. PICK o \in Nat : WrittenAt(b, o)
  BY <1>3
<1>5. /\ o + e <= w
      /\ \A j \in 1..e : where[o + j] = <<b, j>>
      /\ \A i \in 1..w : /\ i <= o <=> where[i][1] < b
                         /\ i > o + e <=> where[i][1] > b
  BY <1>4 DEF WrittenAt
<1>6. /\ \A i \in 1..w : i <= n <=> where[i][1] < b
      /\ Len(out) = n /\ \A i \in 1..n : out[i] = OnFlash[i]
  BY <1>1, SMTT(60) DEF Delivered
<1>7. \A i \in 1..w : where[i][1] \in Nat
  BY <1>1, SMTT(60) DEF Places
<1>8. /\ Bytes(b) = flash[b] /\ flash[b] \in Seq(Nat) /\ out \in Seq(Nat)
  <2>1. flash[b] \in Seq(Nat) /\ out \in Seq(Nat)
    BY <1>2 DEF Types
  <2>2. flash[b] # <<>>
    BY <1>1, <1>3, EmptySeq
  <2> QED
    BY <2>1, <2>2 DEF Bytes
<1>9. \A i \in 1..w : OnFlash[i] = flash[where[i][1]][where[i][2]]
  BY DEF OnFlash
<1>10. /\ Len(out \o flash[b]) = Len(out) + Len(flash[b])
       /\ \A i \in 1..Len(out) : (out \o flash[b])[i] = out[i]
       /\ \A i \in 1..Len(flash[b]) : (out \o flash[b])[Len(out) + i] = flash[b][i]
  <2>1. flash[b] \in Seq(Nat) /\ out \in Seq(Nat)
    BY <1>8
  <2> QED
    BY <2>1, Join, SMTT(60)
<1>11. out' = out \o flash[b]
  BY <1>8
<1>12. /\ Len(out') = n + e
       /\ \A i \in 1..n : out'[i] = OnFlash[i]
       /\ \A j \in 1..e : out'[n + j] = flash[b][j]
  BY <1>3, <1>6, <1>10, <1>11
<1> HIDE DEF w, e, b
<1>13. o = n
  <2>1. \A i \in 1..w : i <= o <=> i <= n
    BY <1>5, <1>6
  <2>2. o <= w
    BY <1>1, <1>5, SMTT(60)
  <2>3. ASSUME o < n PROVE FALSE
    <3>1. o + 1 \in 1..w /\ o + 1 <= n /\ ~(o + 1 <= o)
      BY <1>1, <2>3, SMTT(60)
    <3> QED
      BY <2>1, <3>1
  <2>4. ASSUME n < o PROVE FALSE
    <3>1. n + 1 \in 1..w /\ n + 1 <= o /\ ~(n + 1 <= n)
      BY <1>1, <2>2, <2>4, SMTT(60)
    <3> QED
      BY <2>1, <3>1
  <2> QED
    BY <1>1, <2>3, <2>4, SMTT(60)
<1>14. n + e \in 0..w
  BY <1>1, <1>5, <1>13, SMTT(60)
<1>15. ASSUME NEW i \in 1..w
       PROVE  i <= n + e <=> where[i][1] < b + 1
  <2>1. i > n + e <=> where[i][1] > b
    BY <1>5, <1>13
  <2>2. where[i][1] \in Nat
    BY <1>7
  <2> QED
    BY <1>1, <2>1, <2>2, SMTT(60)
<1>16. ASSUME NEW i \in 1..(n + e)
       PROVE  out'[i] = OnFlash[i]
  <2>1. CASE i <= n
    <3>1. i \in 1..n
      BY <1>1, <2>1, SMTT(60)
    <3> QED
      BY <1>12, <3>1
  <2>2. CASE ~(i <= n)
    <3>1. i - n \in 1..e /\ n + (i - n) = i /\ i \in 1..w
      BY <1>1, <1>14, <2>2, SMTT(60)
    <3>2. out'[i] = flash[b][i - n]
      BY <1>12, <3>1
    <3>3. where[i] = <<b, i - n>>
      BY <1>5, <1>13, <3>1
    <3>4. OnFlash[i] = flash[b][i - n]
      BY <1>9, <3>1, <3>3, SMTT(60)
    <3> QED
      BY <3>2, <3>4
  <2> QED
    BY <2>1, <2>2
<1> QED
  BY <1>12, <1>14, <1>15, <1>16 DEF w, e, b

LEMMA ReaderStep ==
  ASSUME Types, Types', Control, Places, Reader, FlashNext
  PROVE  Reader'
<1>1. SUFFICES ASSUME wpc' \in {"read", "done"}, fails' = 0
               PROVE  \E n \in 0..Len(where') : Delivered(rpos, n)'
  BY DEF Reader, Delivered
<1>2. CASE CloseWrite
  <2>1. /\ rpos = 0 /\ out = <<>> /\ rpos' = rpos /\ out' = out
        /\ where' = where /\ fpos' = fpos
    BY <1>2 DEF CloseWrite, Control
  <2>2. /\ Len(where) \in Nat /\ Len(out') = 0
        /\ \A i \in 1..Len(where) : where[i][1] \in Nat
    <3>1. Len(where) \in Nat /\ Len(out') = 0
      BY <2>1, Lens, EmptySeq
    <3>2. fpos \in Nat
      BY FlashAssumption, SMTT(60) DEF Types
    <3>3. \A i \in 1..Len(where) : where[i][1] \in Nat
      BY <3>2, SMTT(60) DEF Places
    <3> QED
      BY <3>1, <3>3
  <2>3. /\ \A i \in 1..Len(where) : i <= 0 <=> where[i][1] < 0
        /\ 0 <= Len(out') /\ 0 \in 0..Len(where)
    BY <2>2, SMTT(60)
  <2>4. Delivered(rpos, 0)'
    BY <2>1, <2>2, <2>3, SMTT(60) DEF Delivered
  <2> QED
    BY <2>1, <2>3, <2>4
<1>3. CASE ReadEnd
  <2>1. UNCHANGED <<rpos, out, where, fpos, flash, fails>> /\ wpc = "read"
    BY <1>3 DEF ReadEnd
  <2>2. PICK n \in 0..Len(where) : Delivered(rpos, n)
    BY <1>1, <2>1 DEF Reader, Delivered
  <2>3. Delivered(rpos, n)'
    BY <2>1, <2>2 DEF Delivered, OnFlash
  <2> QED
    BY <2>1, <2>3
<1>4. CASE ReadBlock
  <2>1. /\ wpc = "read" /\ rpos < NBlocks /\ rpos' = rpos + 1
        /\ UNCHANGED <<where, fpos, flash>>
    BY <1>4 DEF ReadBlock
  <2>2. /\ rpos \in Nat /\ fpos \in Nat /\ fails \in Nat
        /\ Len(where) \in Nat /\ Len(out) \in Nat /\ out \in Seq(Nat)
    BY FlashAssumption, SMTT(60) DEF Types
  <2>3. fails = 0
    BY <1>1, <1>4, <2>2, SMTT(60) DEF ReadBlock
  <2>4. /\ OnFlash' = OnFlash
    BY <2>1 DEF OnFlash
  <2>5. \/ rpos \in badBlocks /\ out' = out
        \/ rpos \notin badBlocks /\ out' = out \o Bytes(rpos)
    BY <1>1, <1>4, <2>3, SMTT(60) DEF ReadBlock
  <2>6. PICK n \in 0..Len(where) : Delivered(rpos, n)
    BY <2>1, <2>3 DEF Reader, Delivered
  <2>7. n <= Len(out) /\ (rpos <= fpos => Len(out) = n)
    BY <2>6 DEF Delivered
  <2>8. /\ \A i \in 1..n : out[i] = OnFlash[i]
    BY <2>6 DEF Delivered
  <2>9. CASE rpos < fpos /\ rpos \in badBlocks
    <3>1. rpos \in skipped /\ out' = out
      BY <2>2, <2>5, <2>9, SMTT(60) DEF Places
    <3>2. \A i \in 1..Len(where) : i <= n <=> where[i][1] < rpos + 1
      BY <2>6, <3>1, ReaderSkips
    <3>3. n <= Len(out') /\ (rpos + 1 <= fpos => Len(out') = n)
      BY <2>2, <2>7, <3>1, SMTT(60)
    <3>4. Delivered(rpos, n)'
      BY <2>1, <2>4, <2>7, <2>8, <3>1, <3>2, <3>3 DEF Delivered
    <3> QED
      BY <2>1, <3>4
  <2>10. CASE rpos < fpos /\ rpos \notin badBlocks
    <3>1. rpos \notin skipped /\ out' = out \o Bytes(rpos)
      BY <2>3, <2>5, <2>10 DEF Places
    <3>2. /\ n + EraseSize \in 0..Len(where) /\ Len(out') = n + EraseSize
          /\ \A i \in 1..Len(where) :
               i <= n + EraseSize <=> where[i][1] < rpos + 1
          /\ \A i \in 1..(n + EraseSize) : out'[i] = OnFlash[i]
      BY <2>6, <2>10, <3>1, ReaderReads
    <3>3. PICK k \in 0..Len(where) : k = n + EraseSize
      BY <3>2
    <3>4. k <= Len(out')
      BY <2>2, <3>2, <3>3, SMTT(60)
    <3>5. Delivered(rpos, k)'
      BY <2>1, <2>4, <3>2, <3>3, <3>4 DEF Delivered
    <3> QED
      BY <2>1, <3>5
  <2>11. CASE rpos >= fpos
    <3>1. \A i \in 1..Len(where) : i <= n <=> where[i][1] < rpos + 1
      BY <2>6, <2>11, ReaderSkips
    <3>2. ~(rpos + 1 <= fpos)
      BY <2>2, <2>11, SMTT(60)
    <3>3. /\ n <= Len(out') /\ \A i \in 1..n : out'[i] = out[i]
      <4>1. CASE out' = out
        BY <2>7, <4>1
      <4>2. CASE out' = out \o Bytes(rpos)
        <5>1. Bytes(rpos) \in Seq(Nat)
          <6>1. rpos \in Blocks
            BY <2>1, <2>2, FlashAssumption, SMTT(60) DEF Blocks
          <6>2. [i \in 1..EraseSize |-> 255] \in [1..EraseSize -> Nat]
            BY SMTT(60)
          <6>3. [i \in 1..EraseSize |-> 255] \in Seq(Nat)
            BY <6>2, FlashAssumption, SMTT(60)
          <6>4. flash[rpos] \in Seq(Nat)
            BY <6>1 DEF Types
          <6> QED
            BY <6>3, <6>4 DEF Bytes
        <5>2. /\ Len(out \o Bytes(rpos)) = Len(out) + Len(Bytes(rpos))
              /\ \A i \in 1..Len(out) : (out \o Bytes(rpos))[i] = out[i]
              /\ Len(Bytes(rpos)) \in Nat
          BY <2>2, <5>1, Join, LenProperties
        <5>3. \A i \in 1..n : i \in 1..Len(out)
          BY <2>2, <2>7, SMTT(60)
        <5>4. n <= Len(out')
          BY <2>2, <2>7, <4>2, <5>2, SMTT(60)
        <5> QED
          BY <4>2, <5>2, <5>3, <5>4
      <4> QED
        BY <2>5, <4>1, <4>2
    <3>4. Delivered(rpos, n)'
      BY <2>1, <2>4, <2>8, <3>1, <3>2, <3>3 DEF Delivered
    <3> QED
      BY <2>1, <3>4
  <2>12. rpos < fpos \/ rpos >= fpos
    BY <2>2, SMTT(60)
  <2> QED
    BY <2>9, <2>10, <2>11, <2>12
<1>5. CASE ReadStops
  <2>1. fails \in Nat /\ fails' = fails + 1
    BY <1>5 DEF ReadStops, Types
  <2> QED
    BY <1>1, <2>1, SMTT(60)
<1>6. CASE ~CloseWrite /\ ~ReadEnd /\ ~ReadBlock /\ ~ReadStops
  BY <1>1, <1>6 DEF FlashNext, NextPiece, Coalesce, SkipBad, GiveUp,
     WriteBlock, NoSpace, NeedsBlock, EndOfImage, EraseRest
<1> QED
  BY <1>2, <1>3, <1>4, <1>5, <1>6

-----------------------------------------------------------------------------
(* The stream.                                                             *)

(* Before the end the stream never gets shorter, and the image stays.      *)
LEMMA StreamGrows ==
  ASSUME Types, Control, Places, FlashNext, ~Sealed, ~Sealed'
  PROVE  /\ img' = img
         /\ Len(where) + Len(stored) <= Len(where') + Len(stored')
<1>1. /\ Len(where) \in Nat /\ Len(stored) \in Nat /\ EraseSize \in Nat \ {0}
  BY Lens, FlashAssumption
<1>2. CASE Coalesce
  <2>1. img' = img /\ where' = where
    BY <1>2 DEF Coalesce
  <2>2. PICK n \in 1..Len(src) : Len(stored') = Len(stored) + n
    BY <1>2, Moves
  <2>3. n \in Nat /\ Len(src) \in Nat
    BY Lens, SMTT(60)
  <2> QED
    BY <1>1, <2>1, <2>2, <2>3, SMTT(60)
<1>3. CASE WriteBlock
  <2>1. img' = img /\ stored' = <<>> /\ Len(where') = Len(where) + EraseSize
    BY <1>3, FlashGrows DEF WriteBlock
  <2>2. Len(stored') = 0
    BY <2>1, EmptySeq
  <2>3. Len(stored) <= EraseSize
    BY DEF Control
  <2> QED
    BY <1>1, <2>1, <2>2, <2>3, SMTT(60)
<1>4. CASE ~Coalesce /\ ~WriteBlock
  <2>1. UNCHANGED <<img, stored, where>>
    BY <1>4 DEF FlashNext, NextPiece, SkipBad, GiveUp, NoSpace, EndOfImage,
                EraseRest, CloseWrite, ReadBlock, ReadStops, ReadEnd
  <2> QED
    BY <1>1, <2>1, SMTT(60)
<1> QED
  BY <1>2, <1>3, <1>4

(* PadZero is the padding of the abstract stream.                          *)
LEMMA SamePadding == \A s : Stream!Padded(s) = PadZero(s)
BY DEF Stream!Padded, PadZero

(* The stream is sealed when all of the image is on it.                    *)
LEMMA WholeImage ==
  ASSUME Types, Control, Places, Pieced,
         \/ WriteBlock /\ wpc = "flush"
         \/ EndOfImage /\ stored = <<>>
  PROVE  OnFlash \o stored = img /\ img' = img
<1>1. src = <<>> /\ rest = <<>> /\ img' = img
  BY DEF Control, WriteBlock, EndOfImage
<1>2. /\ Len(where) \in Nat /\ Len(stored) \in Nat /\ img \in Seq(Nat)
  BY Lens DEF Types
<1>3. Len(src) = 0 /\ Len(rest) = 0
  BY <1>1, EmptySeq
<1>4. Len(where) + Len(stored) = Len(img)
  BY <1>2, <1>3, SMTT(60) DEF Pieced
<1>5. OnFlash \o stored = SubSeq(img, 1, Len(img))
  BY <1>4, StreamIs
<1>6. SubSeq(img, 1, Len(img)) = img
  <2>1. Len(img) \in 0..Len(img) /\ Len(img) \in Nat
    BY <1>2, LenProperties, SMTT(60)
  <2>2. /\ SubSeq(img, 1, Len(img)) \in Seq(Nat)
        /\ Len(SubSeq(img, 1, Len(img))) = Len(img)
        /\ \A i \in 1..Len(img) : SubSeq(img, 1, Len(img))[i] = img[i]
    BY <1>2, <2>1, Cut
  <2> QED
    BY <1>2, <2>2, SeqEqual
<1> QED
  BY <1>1, <1>5, <1>6

(* Every step of the flash is a step of the stream or leaves it alone.     *)
LEMMA StreamStep ==
  ASSUME Types, Types', Control, Places, Places', Data, Data', FlashNext
  PROVE  \/ Stream!Extend \/ Stream!Seal
         \/ UNCHANGED <<img, OnFlash \o stored, Sealed>>
<1> DEFINE n == Len(where) + Len(stored)
<1>1. CASE Sealed
  <2>1. Sealed' /\ UNCHANGED <<img, stored>> /\ ~WriteBlock
    BY <1>1, SealedStep
  <2>2. OnFlash' = OnFlash
    BY <2>1, PlacesStep
  <2>3. Sealed' = Sealed
    BY <1>1, <2>1 DEF Sealed
  <2> QED
    BY <2>1, <2>2, <2>3
<1>2. CASE ~Sealed /\ Sealed'
  <2>1. \/ WriteBlock /\ wpc = "flush"
        \/ EndOfImage /\ stored = <<>>
    BY <1>2, SealedStep
  <2>2. OnFlash \o stored = img /\ img' = img
    BY <1>2, <2>1, WholeImage DEF Data
  <2>3. stored' = <<>> /\ OnFlash' = PadZero(img)'
    BY <1>2 DEF Data
  <2>4. OnFlash' \in Seq(Nat)
    <3>1. (Types /\ Places => OnFlash \in Seq(Nat))'
      <4>1. Types /\ Places => OnFlash \in Seq(Nat)
        BY FlashBytes
      <4> QED
        BY FlashBytes, PTL
    <3> QED
      BY <3>1
  <2>5. OnFlash' \o stored' = OnFlash'
    BY <2>3, <2>4, ConcatEmptySeq
  <2>6. PadZero(img)' = PadZero(img)
    BY <2>2 DEF PadZero
  <2>7. (OnFlash \o stored)' = Stream!Padded(img)
    BY <2>3, <2>5, <2>6, SamePadding
  <2>8. Stream!Seal
    BY <1>2, <2>2, <2>7 DEF Stream!Seal, Sealed
  <2> QED
    BY <2>8
<1>3. CASE ~Sealed /\ ~Sealed'
  <2>1. img' = img /\ n <= n'
    BY <1>3, StreamGrows
  <2>2. OnFlash \o stored = SubSeq(img, 1, n) /\ n \in 0..Len(img)
    BY <1>3, StreamIs DEF Data
  <2>3. (OnFlash \o stored)' = SubSeq(img, 1, n)' /\ n' \in 0..Len(img')
    <3>1. (Types /\ Places /\ Pieced =>
             OnFlash \o stored = SubSeq(img, 1, n) /\ n \in 0..Len(img))'
      BY StreamIs, PTL
    <3> QED
      BY <1>3, <3>1 DEF Data
  <2>4. Sealed' = Sealed
    BY <1>3 DEF Sealed
  <2>5. (OnFlash \o stored)' = SubSeq(img, 1, n')
    BY <2>1, <2>3
  <2>6. Len(OnFlash \o stored) = n /\ Len(img) \in Nat
    <3>1. img \in Seq(Nat)
      BY DEF Types
    <3> HIDE DEF n
    <3>2. Len(SubSeq(img, 1, n)) = n
      BY <2>2, <3>1, Cut
    <3> QED
      BY <2>2, <3>1, <3>2, LenProperties
  <2> HIDE DEF n
  <2>7. CASE n' = n
    BY <2>1, <2>2, <2>4, <2>5, <2>7
  <2>8. CASE n' # n
    <3>1. n \in Nat /\ n' \in Nat /\ n' <= Len(img)
      BY <2>1, <2>2, <2>3, <2>6, SMTT(60)
    <3>2. n' \in (Len(OnFlash \o stored) + 1)..Len(img)
      BY <2>1, <2>6, <2>8, <3>1, SMTT(60)
    <3>3. UNCHANGED <<img, Sealed>>
      BY <2>1, <2>4
    <3>4. Stream!Extend
      BY <1>3, <2>5, <3>2, <3>3 DEF Stream!Extend, Sealed
    <3> QED
      BY <3>4
  <2> QED
    BY <2>7, <2>8
<1> QED
  BY <1>1, <1>2, <1>3

-----------------------------------------------------------------------------
LEMMA FlashInitInv == FlashInit => FlashInv
<1> SUFFICES ASSUME FlashInit PROVE FlashInv
  OBVIOUS
<1>1. /\ NBlocks \in Nat /\ EraseSize \in Nat \ {0} /\ piece \in Nat
  BY FlashAssumption DEF FlashInit
<1>2. img \in Seq(Nat)
  <2>1. PICK n \in Lengths : img = [i \in 1..n |-> i]
    BY DEF FlashInit
  <2>2. n \in Nat
    BY FlashAssumption
  <2>3. img \in [1..n -> Nat]
    BY <2>1, <2>2, SMTT(60)
  <2> QED
    BY <2>2, <2>3, SMTT(60)
<1>3. flash \in [Blocks -> Seq(Nat)]
  <2>1. [i \in 1..EraseSize |-> 9] \in [1..EraseSize -> Nat]
    OBVIOUS
  <2>2. [i \in 1..EraseSize |-> 9] \in Seq(Nat)
    BY <1>1, <2>1, SMTT(60)
  <2> QED
    BY <2>2 DEF FlashInit
<1>4. /\ fpos = 0 /\ skipped = {} /\ stored = <<>> /\ src = <<>> /\ rest = img
      /\ wpc = "data" /\ flushed = TRUE /\ fails = 0 /\ rpos = 0 /\ out = <<>>
      /\ where = <<>> /\ badBlocks \subseteq Blocks
  BY DEF FlashInit
<1>5. Len(stored) = 0 /\ Len(src) = 0 /\ Len(where) = 0 /\ Len(img) \in Nat
  BY <1>2, <1>4, EmptySeq, LenProperties
<1>6. Types
  <2>1. 0 \in 0..NBlocks
    BY <1>1, SMTT(60)
  <2> QED
    BY <1>1, <1>2, <1>3, <1>4, <2>1, EmptySeq DEF Types
<1>7. Control
  BY <1>1, <1>4, <1>5, SMTT(60) DEF Control
<1>8. Places
  <2>1. 0..(0 - 1) = {} /\ 1..0 = {} /\ 0 % EraseSize = 0
    BY <1>1, SMTT(60)
  <2> QED
    BY <1>4, <1>5, <2>1 DEF Places
<1>9. Data
  <2>1. Pieced
    BY <1>4, <1>5, SMTT(60) DEF Pieced
  <2>2. ~Sealed
    BY <1>4 DEF Sealed
  <2> QED
    BY <2>1, <2>2 DEF Data
<1>10. Reader
  BY <1>4 DEF Reader
<1> QED
  BY <1>6, <1>7, <1>8, <1>9, <1>10 DEF FlashInv

LEMMA InvStep == FlashInv /\ [FlashNext]_flashVars => FlashInv'
<1> SUFFICES ASSUME FlashInv, [FlashNext]_flashVars PROVE FlashInv'
  OBVIOUS
<1>1. Types /\ Control /\ Places /\ Data /\ Reader
  BY DEF FlashInv
<1>2. CASE FlashNext
  <2>1. Types'
    BY <1>1, <1>2, TypesStep
  <2>2. Control'
    BY <1>1, <1>2, ControlStep
  <2>3. Places'
    BY <1>1, <1>2, PlacesStep
  <2>4. Data'
    BY <1>1, <1>2, <2>1, <2>3, DataStep
  <2>5. Reader'
    BY <1>1, <1>2, <2>1, ReaderStep
  <2> QED
    BY <2>1, <2>2, <2>3, <2>4, <2>5 DEF FlashInv
<1>3. CASE UNCHANGED flashVars
  <2>1. UNCHANGED <<img, piece, badBlocks, flash, fpos, skipped, stored, src>>
    BY <1>3 DEF flashVars
  <2>2. UNCHANGED <<rest, wpc, flushed, fails, rpos, out, where>>
    BY <1>3 DEF flashVars
  <2>3. OnFlash' = OnFlash
    BY <2>1, <2>2 DEF OnFlash
  <2>4. PadZero(img)' = PadZero(img)
    BY <2>1 DEF PadZero
  <2>5. Types'
    BY <1>1, <2>1, <2>2 DEF Types
  <2>6. Control'
    BY <1>1, <2>1, <2>2 DEF Control
  <2>7. Places'
    <3>1. \A b, o : WrittenAt(b, o)' <=> WrittenAt(b, o)
      BY <2>2 DEF WrittenAt
    <3> QED
      BY <1>1, <2>1, <2>2, <3>1 DEF Places
  <2>8. Data'
    BY <1>1, <2>1, <2>2, <2>3, <2>4 DEF Data, Pieced, Sealed
  <2>9. Reader'
    BY <1>1, <2>1, <2>2, <2>3 DEF Reader
  <2> QED
    BY <2>5, <2>6, <2>7, <2>8, <2>9 DEF FlashInv
<1> QED
  BY <1>2, <1>3

(* The invariant, and that mtd_write_data and its flush implement the      *)
(* stream: for every image, size of the pieces, set of bad blocks and      *)
(* number of failed writes, each byte of the image goes to the flash once  *)
(* and in order, and only the last block is filled with zeros.             *)
THEOREM StreamIsWritten == FlashSpec => WritesStream
<1>1. FlashInit => Stream!StreamInit
  <2> SUFFICES ASSUME FlashInit PROVE Stream!StreamInit
    OBVIOUS
  <2>1. where = <<>> /\ stored = <<>> /\ wpc = "data"
    BY DEF FlashInit
  <2>2. Types /\ Places
    BY FlashInitInv DEF FlashInv
  <2>3. OnFlash \in Seq(Nat) /\ Len(OnFlash) = 0
    BY <2>1, <2>2, FlashBytes, EmptySeq
  <2>4. OnFlash = <<>>
    BY <2>3, EmptySeq
  <2>5. OnFlash \o stored = <<>>
    BY <2>1, <2>3, <2>4, ConcatEmptySeq
  <2> QED
    BY <2>1, <2>5 DEF Stream!StreamInit
<1>2. FlashInv /\ FlashInv' /\ [FlashNext]_flashVars =>
        [Stream!Extend \/ Stream!Seal]_<<img, OnFlash \o stored,
           wpc \in {"erase", "close", "read", "done"} /\ flushed>>
  <2> SUFFICES ASSUME FlashInv, FlashInv', [FlashNext]_flashVars
               PROVE  [Stream!Extend \/ Stream!Seal]_<<img, OnFlash \o stored,
                        wpc \in {"erase", "close", "read", "done"} /\ flushed>>
    OBVIOUS
  <2>1. CASE FlashNext
    <3>1. \/ Stream!Extend \/ Stream!Seal
          \/ UNCHANGED <<img, OnFlash \o stored, Sealed>>
      BY <2>1, StreamStep DEF FlashInv
    <3> QED
      BY <3>1 DEF Sealed
  <2>2. CASE UNCHANGED flashVars
    BY <2>2 DEF flashVars, OnFlash
  <2> QED
    BY <2>1, <2>2
<1> QED
  BY <1>1, <1>2, FlashInitInv, InvStep, PTL
     DEF FlashSpec, WritesStream, Stream!StreamSpec

(* cmd_mtd_backup_raw_partition after cmd_mtd_restore_raw_partition: when  *)
(* no block was given up and the last one found room, the backup begins    *)
(* with the restored image, whichever blocks are bad.                      *)
THEOREM BackupIsImage == FlashSpec => []BackupReadsImage
<1>1. FlashInv => BackupReadsImage
  <2> SUFFICES ASSUME FlashInv, wpc = "done", flushed, fails = 0
               PROVE  /\ Len(PadZero(img)) <= Len(out)
                      /\ SubSeq(out, 1, Len(PadZero(img))) = PadZero(img)
    BY DEF BackupReadsImage
  <2>1. Types /\ Control /\ Places /\ Data /\ Reader
    BY DEF FlashInv
  <2>2. OnFlash = PadZero(img)
    BY <2>1 DEF Data, Sealed
  <2>3. OnFlash \in Seq(Nat) /\ Len(OnFlash) = Len(where)
    BY <2>1, FlashBytes
  <2>4. PICK n \in 0..Len(where) : Delivered(rpos, n)
    BY <2>1 DEF Reader, Delivered
  <2>5. /\ rpos = NBlocks /\ NBlocks \in Nat /\ fpos \in 0..NBlocks
        /\ Len(where) \in Nat /\ out \in Seq(Nat) /\ Len(out) \in Nat
    BY <2>1, FlashAssumption, SMTT(60) DEF Types, Control
  <2>6. \A i \in 1..Len(where) : where[i][1] \in 0..(fpos - 1)
    BY <2>1 DEF Places
  <2>7. \A i \in 1..Len(where) : where[i][1] < rpos
    BY <2>5, <2>6, SMTT(60)
  <2>8. n = Len(where)
    <3>1. \A i \in 1..Len(where) : i <= n
      BY <2>4, <2>7 DEF Delivered
    <3> QED
      BY <2>5, <3>1, SMTT(60)
  <2>9. n <= Len(out) /\ \A i \in 1..n : out[i] = OnFlash[i]
    BY <2>4 DEF Delivered
  <2>10. n \in 0..Len(out)
    BY <2>5, <2>8, <2>9, SMTT(60)
  <2>11. /\ SubSeq(out, 1, n) \in Seq(Nat) /\ Len(SubSeq(out, 1, n)) = n
         /\ \A i \in 1..n : SubSeq(out, 1, n)[i] = out[i]
    BY <2>5, <2>10, Cut, SMTT(60)
  <2>12. SubSeq(out, 1, n) = OnFlash
    <3>1. /\ SubSeq(out, 1, n) \in Seq(Nat) /\ OnFlash \in Seq(Nat)
          /\ Len(SubSeq(out, 1, n)) = Len(OnFlash)
          /\ \A i \in 1..Len(OnFlash) : SubSeq(out, 1, n)[i] = OnFlash[i]
      BY <2>3, <2>8, <2>9, <2>11
    <3> QED
      BY <3>1, SeqEqual
  <2> QED
    BY <2>2, <2>3, <2>8, <2>9, <2>12
<1> QED
  BY <1>1, FlashInitInv, InvStep, PTL DEF FlashSpec
=============================================================================
