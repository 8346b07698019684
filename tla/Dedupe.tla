------------------------------- MODULE Dedupe -------------------------------
(***************************************************************************)
(* The deduplicating store of dedupe.c: every file of a partition is kept  *)
(* once, as a blob named after its hash, and a backup is a manifest of     *)
(* hashes.  "gc" removes the blobs no manifest names.  A hash stands for   *)
(* the content it is computed from.                                        *)
(***************************************************************************)
EXTENDS Naturals, FiniteSets

CONSTANTS
  Contents,    \* contents a file may have
  Backups,     \* names of backups
  Newer        \* backups written by a later version of the program

VARIABLES
  blob,        \* each blob: "none", "short" (not of its size) or "ok"
  tmp,         \* contents with a leftover <blob>.tmp
  man,         \* the manifests: state and lines
  djob,        \* "idle", "store", "copy", "gc" or "spin"
  cur,         \* the backup being stored
  left,        \* its files still to be stored
  copying,     \* the content being copied ("store") or not yet removed ("gc")
  unsynced,    \* blobs renamed into place since the last sync()
  brokeOff     \* some gc met a manifest of a later version

dedupeVars == <<blob, tmp, man, djob, cur, left, copying, unsynced, brokeOff>>

States == {"none", "open", "closed", "synced", "torn"}

DedupeTypeOK ==
  /\ blob \in [Contents -> {"none", "short", "ok"}]
  /\ tmp \subseteq Contents
  /\ man \in [Backups -> [st : States, lines : SUBSET Contents]]
  /\ djob \in {"idle", "store", "copy", "gc", "spin"}
  /\ cur \in Backups
  /\ left \subseteq Contents /\ copying \subseteq Contents
  /\ unsynced \subseteq {c \in Contents : blob[c] = "ok"}
  /\ djob \in {"idle", "gc", "spin"} => left = {}
  /\ brokeOff \in BOOLEAN

Absent == [st |-> "none", lines |-> {}]

DedupeInit ==
  /\ blob = [c \in Contents |-> "none"] /\ tmp = {}
  /\ man = [b \in Backups |-> Absent]
  /\ djob = "idle" /\ cur \in Backups
  /\ left = {} /\ copying = {} /\ unsynced = {} /\ brokeOff = FALSE

-----------------------------------------------------------------------------
(* dedupe c: store_dir walks the partition.                                *)

StoreStart(b) ==
  /\ djob = "idle" /\ man[b].st = "none"
  /\ djob' = "store" /\ cur' = b
  /\ man' = [man EXCEPT ![b].st = "open"]
  /\ \E S \in SUBSET Contents : left' = S
  /\ UNCHANGED <<blob, tmp, copying, unsynced, brokeOff>>

AddLine(c) == man' = [man EXCEPT ![cur].lines = @ \union {c}]

(* store_file on a content whose blob exists and has the right size.       *)
StoreKnown(c) ==
  /\ djob = "store" /\ c \in left /\ blob[c] = "ok"
  /\ AddLine(c) /\ left' = left \ {c}
  /\ UNCHANGED <<blob, tmp, djob, cur, copying, unsynced, brokeOff>>

(* Otherwise it is copied to <blob>.tmp ...                                *)
CopyStart(c) ==
  /\ djob = "store" /\ c \in left /\ blob[c] # "ok"
  /\ djob' = "copy" /\ copying' = {c} /\ tmp' = tmp \union {c}
  /\ UNCHANGED <<blob, man, cur, left, unsynced, brokeOff>>

(* ... and renamed.                                                        *)
CopyEnd(c) ==
  /\ djob = "copy" /\ c \in copying
  /\ blob' = [blob EXCEPT ![c] = "ok"] /\ tmp' = tmp \ {c}
  /\ AddLine(c) /\ left' = left \ {c}
  /\ unsynced' = unsynced \union {c}
  /\ djob' = "store" /\ copying' = {}
  /\ UNCHANGED <<cur, brokeOff>>

(* A write or rename that fails ends the backup; a read that fails does    *)
(* not: read() = -1 and write(-1) = -1 compare equal, and copy_file tries  *)
(* again for ever.                                                         *)
CopyFails ==
  /\ djob = "copy"
  /\ djob' \in {"idle", "spin"}
  /\ copying' = {} /\ left' = {}
  /\ UNCHANGED <<blob, tmp, man, cur, unsynced, brokeOff>>

(* So does an entry that cannot be opened, statted or hashed.              *)
StoreFails ==
  /\ djob = "store"
  /\ djob' = "idle" /\ left' = {}
  /\ UNCHANGED <<blob, tmp, man, cur, copying, unsynced, brokeOff>>

(* The manifest is written without a look at the result: on a full disk    *)
(* it is torn, keeps some of its lines, and dedupe returns 0 all the same. *)
StoreEnd ==
  /\ djob = "store" /\ left = {}
  /\ \/ man' = [man EXCEPT ![cur].st = "closed"]
     \/ \E L \in SUBSET man[cur].lines :
          man' = [man EXCEPT ![cur] = [st |-> "torn", lines |-> L]]
  /\ djob' = "idle"
  /\ UNCHANGED <<blob, tmp, cur, left, copying, unsynced, brokeOff>>

(* nandroid_backup ends with sync(): manifests and blobs are durable.      *)
SyncAll ==
  /\ djob = "idle"
  /\ \E b \in Backups : man[b].st = "closed"
  /\ man' = [b \in Backups |-> IF man[b].st = "closed"
                                 THEN [man[b] EXCEPT !.st = "synced"] ELSE man[b]]
  /\ unsynced' = {}
  /\ UNCHANGED <<blob, tmp, djob, cur, left, copying, brokeOff>>

-----------------------------------------------------------------------------
(* dedupe gc, from the menu or at the start of a backup.                   *)

Manifests == {b \in Backups : man[b].st # "none"}
UsedBy(B) == UNION {man[b].lines : b \in B}
AllFiles == {c \in Contents : blob[c] # "none"}

(* Mutant: only the manifests of finished backups are read.                *)
GcReadFinished ==
  /\ djob = "idle"
  /\ copying' = AllFiles \ UsedBy({b \in Manifests : man[b].st = "closed"})
  /\ djob' = "gc"
  /\ UNCHANGED <<blob, tmp, man, cur, left, unsynced, brokeOff>>

(* It collects the blobs the manifests name, in the order find gives them, *)
(* and stops reading at one of a later version -- but goes on to remove    *)
(* what the manifests read so far do not name.                             *)
GcRead ==
  /\ djob = "idle"
  /\ LET known == Manifests \ Newer
         stops == Manifests \cap Newer # {}
     IN /\ \E B \in (IF stops THEN SUBSET known ELSE {known}) :
             copying' = AllFiles \ UsedBy(B)
        /\ brokeOff' = (brokeOff \/ stops)
  /\ djob' = "gc"
  /\ UNCHANGED <<blob, tmp, man, cur, left, unsynced>>

(* Each removal may fail; leftovers <blob>.tmp are never named and go too. *)
GcRemove(c) ==
  /\ djob = "gc" /\ c \in copying
  /\ copying' = copying \ {c}
  /\ \/ blob' = [blob EXCEPT ![c] = "none"] /\ unsynced' = unsynced \ {c}
     \/ UNCHANGED <<blob, unsynced>>
  /\ UNCHANGED <<tmp, man, djob, cur, left, brokeOff>>

GcEnd ==
  /\ djob = "gc" /\ copying = {}
  /\ tmp' = {}
  /\ djob' = "idle"
  /\ UNCHANGED <<blob, man, cur, left, copying, unsynced, brokeOff>>

-----------------------------------------------------------------------------
(* rm -rf of a backup.                                                     *)
DropBackup(b) ==
  /\ djob = "idle" /\ man[b].st # "none"
  /\ man' = [man EXCEPT ![b] = Absent]
  /\ UNCHANGED <<blob, tmp, djob, cur, left, copying, unsynced, brokeOff>>

(* Power goes: a blob that was not synced may have lost its data, and so   *)
(* may the manifests of that backup.  A lost blob shows by its size: the   *)
(* storage is assumed to grow a file only with its data (store_file looks  *)
(* at nothing else).                                                       *)
DedupePowerLoss ==
  /\ djob' = "idle" /\ left' = {} /\ copying' = {} /\ unsynced' = {}
  /\ djob # "idle" \/ unsynced # {}
  /\ \E S \in SUBSET unsynced :
       blob' = [c \in Contents |-> IF c \in S THEN "short" ELSE blob[c]]
  /\ man' = [b \in Backups |-> IF man[b].st \in {"open", "closed"}
                                 THEN [man[b] EXCEPT !.st = "torn"] ELSE man[b]]
  /\ UNCHANGED <<tmp, cur, brokeOff>>

DedupeNext ==
  \/ \E b \in Backups : StoreStart(b) \/ DropBackup(b)
  \/ \E c \in Contents : StoreKnown(c) \/ CopyStart(c) \/ CopyEnd(c) \/ GcRemove(c)
  \/ CopyFails \/ StoreFails \/ StoreEnd \/ SyncAll \/ GcRead \/ GcEnd \/ DedupePowerLoss

DedupeSpec == DedupeInit /\ [][DedupeNext]_dedupeVars

(* dedupe x, by a program of the version that wrote the backup: it stops   *)
(* at a blob it cannot open and copies any other, whatever its size.       *)
Extracted(b) ==
  CASE man[b].lines \ AllFiles # {} -> "failed"
    [] \E c \in man[b].lines : blob[c] = "short" -> "wrong"
    [] OTHER -> "exact"

-----------------------------------------------------------------------------
(* Every finished backup whose manifest is whole can be restored: the      *)
(* blobs its manifest names are there with their content, through later    *)
(* backups that share them, the removal of others, garbage collections and *)
(* power losses -- unless a gc has met a manifest of a later version.      *)
Restorable ==
  ~brokeOff => \A b \in Backups :
                 man[b].st = "synced" => Extracted(b) = "exact"

(* The state is consistent and every finished backup restorable            *)
(* (dedupe.c).                                                             *)
DedupeInv == DedupeTypeOK /\ Restorable

=============================================================================
