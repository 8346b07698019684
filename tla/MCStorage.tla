----------------------------- MODULE MCStorage ------------------------------
(***************************************************************************)
(* Nandroid, Dedupe, MtdFlash and Volumes for TLC.  They share no state in *)
(* the model, so a behaviour runs one of them.  Nandroid leaves open what  *)
(* the others decide: whether the manifest of an image of format "dup" is  *)
(* whole, and what a format and a write leave of a partition.              *)
(***************************************************************************)
EXTENDS Nandroid, Dedupe, MtdFlash, Volumes, TLC

VARIABLE which      \* the component this behaviour runs

MCBackupOrder  == <<"boot", "data", "secure">>
MCRestoreOrder == <<"boot", "data", "secure">>
MCGroup == [p \in {"boot", "data", "secure"} |->
              IF p = "secure" THEN "data" ELSE p]
MCKind == [data |-> "ext4", sdcard |-> "datamedia", ext |-> "auto",
           secure |-> "inside", boot |-> "emmc"]
MCHolder == [data |-> "data", sdcard |-> "data", ext |-> "ext",
             secure |-> "ext", boot |-> "boot"]
Symmetry == Permutations(Contents) \cup Permutations(Backups \ Newer)

Init ==
  /\ which \in {"nandroid", "dedupe", "flash", "volumes"}
  /\ NandroidInit /\ DedupeInit /\ FlashInit /\ VolInit
  /\ which # "dedupe" => cur \in Newer
  /\ which # "flash" => img = <<>> /\ piece = 1 /\ badBlocks = {}
Next ==
  \/ which = "nandroid" /\ NandroidNext
     /\ UNCHANGED <<which, dedupeVars, flashVars, volVars>>
  \/ which = "dedupe" /\ DedupeNext
     /\ UNCHANGED <<which, nandroidVars, flashVars, volVars>>
  \/ which = "flash" /\ FlashNext
     /\ UNCHANGED <<which, nandroidVars, dedupeVars, volVars>>
  \/ which = "volumes" /\ VolNext
     /\ UNCHANGED <<which, nandroidVars, dedupeVars, flashVars>>
Spec == Init /\ [][Next]_<<which, nandroidVars, dedupeVars, flashVars, volVars>>

=============================================================================
